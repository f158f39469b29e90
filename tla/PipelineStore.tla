---------------------------- MODULE PipelineStore ----------------------------
(***************************************************************************)
(* The two stores every part of the creation pipeline shares:              *)
(*   - PostgreSQL: the row of a project, reduced to its status;            *)
(*   - Redis: the priority queue (a sorted set), the payload key of an     *)
(*     entry, the cancellation flag and the lease of a project.            *)
(* Each operator below is one command sent to one of the stores, hence     *)
(* atomic; the operations of the API, of the scheduler and of the workers  *)
(* are sequences of them (modules PipelineClients and PipelineWorker).     *)
(***************************************************************************)
EXTENDS Integers, FiniteSets

CONSTANTS
  Projects,        \* project identifiers
  Channels,        \* channels projects belong to
  ChannelOf,       \* channel of each project
  MaxSlots,        \* max_concurrent_pipelines of each channel
  Workers,         \* pipeline_worker processes (WORKER_ID)
  NoWorker,        \* no lease
  NoProject,       \* no project in hand
  Priority,        \* pipeline_queue_priority of the plan of each project's owner
  MaxPriority,     \* MAX_QUEUE_PRIORITY (100)
  TimeMultiplier,  \* SCORE_TIME_MULTIPLIER (10^12)
  Times            \* instants (ms) at which a project may be queued

ASSUME StoreAssumption ==
  /\ IsFiniteSet(Projects)
  /\ ChannelOf \in [Projects -> Channels]
  /\ MaxSlots \in [Channels -> Nat \ {0}]
  /\ NoWorker \notin Workers
  /\ NoProject \notin Projects
  /\ Priority \in [Projects -> Int]
  /\ MaxPriority \in Nat
  /\ TimeMultiplier \in Nat \ {0}
  /\ Times \subseteq Nat \ {0}

\* A deleted row is "absent": an UPDATE of it changes nothing.
Statuses == {"absent", "pending", "queued", "running", "paused",
             "approved", "failed", "stopped"}

VARIABLES
  status,   \* Project.status
  zqueue,   \* score of each member of the sorted set, 0 for a non-member
  payload,  \* is the payload key of the project set?
  cancel,   \* is the cancellation flag of the project set?
  lease     \* holder of the lease of the project

store == <<status, zqueue, payload, cancel, lease>>

------------------------------------------------------------------------------
(* The score of a queue entry: the priority decides, then the enqueue time.  *)

ClampedPriority(priority) ==
  IF priority < 0 THEN 0
  ELSE IF priority > MaxPriority THEN MaxPriority ELSE priority

ComputeQueueScore(priority, ms) ==
  (MaxPriority - ClampedPriority(priority)) * TimeMultiplier + ms

StoreTypeOK ==
  /\ status \in [Projects -> Statuses]
  /\ zqueue \in [Projects -> Nat]
  /\ payload \in [Projects -> BOOLEAN]
  /\ cancel \in [Projects -> BOOLEAN]
  /\ lease \in [Projects -> Workers \cup {NoWorker}]

------------------------------------------------------------------------------
(* Reads.                                                                     *)

WithStatus(s) == {p \in Projects : status[p] = s}

InQueue(p) == zqueue[p] # 0

QueueMembers == {p \in Projects : InQueue(p)}

\* Mutation of Heads: the largest score first.
HeadsLargest == {p \in QueueMembers : \A q \in QueueMembers : zqueue[p] >= zqueue[q]}

\* The entries ZPOPMIN may return: the members of smallest score.
Heads == {p \in QueueMembers : \A q \in QueueMembers : zqueue[p] <= zqueue[q]}

Running(c) == {p \in Projects : ChannelOf[p] = c /\ status[p] = "running"}

\* The subquery of try_claim_project: the other running projects of the channel.
SlotFree(p) ==
  Cardinality(Running(ChannelOf[p]) \ {p}) < MaxSlots[ChannelOf[p]]

------------------------------------------------------------------------------
(* Writes, one command each.                                                  *)

UpdateProjectStatus(p, s) ==
  status' = IF status[p] = "absent" THEN status ELSE [status EXCEPT ![p] = s]

ZAdd(p, score)    == zqueue' = [zqueue EXCEPT ![p] = score]
ZRem(p)           == zqueue' = [zqueue EXCEPT ![p] = 0]
SetPayload(p)     == payload' = [payload EXCEPT ![p] = TRUE]
DeletePayload(p)  == payload' = [payload EXCEPT ![p] = FALSE]
RequestCancel(p)  == cancel' = [cancel EXCEPT ![p] = TRUE]
ClearCancel(p)    == cancel' = [cancel EXCEPT ![p] = FALSE]

AcquireLease(p, w) == lease' = [lease EXCEPT ![p] = w]
DeleteLease(p)     == lease' = [lease EXCEPT ![p] = NoWorker]
==============================================================================

--------------------------- MODULE PipelineClients ---------------------------
(***************************************************************************)
(* Everything that queues, unqueues, stops or deletes a project, apart     *)
(* from the execution of its pipeline:                                     *)
(*   - the API requests run (and restart), stop, remove from the queue     *)
(*     and delete;                                                         *)
(*   - the scheduler's job that launches the pending projects;             *)
(*   - the two loops of a worker: reconciliation of orphans (with its      *)
(*     purge of the queue) and resumption of the paused projects.          *)
(* An actor runs one of these operations at a time; between two commands   *)
(* it sends to the stores, any other actor may act (every await of the     *)
(* code is such a point).                                                  *)
(***************************************************************************)
EXTENDS PipelineStore

CONSTANTS
  Callers,    \* API request handlers that may be in progress at once
  Schedulers, \* scheduler processes (run_pending_projects)
  Loops,      \* background loops of a worker: "reconcile", "resume"
  Ops         \* API operations callers may ask for

Actors == Callers \cup Schedulers \cup (Loops \X Workers)

VARIABLE act  \* what each actor is doing

\* at: next command;  op: the operation;  on: its project;
\* saw: a status read earlier;  todo: projects of a pass still to be handled.
Idle == [at |-> "idle", op |-> "none", on |-> NoProject, saw |-> "none", todo |-> {}]

ClientLabels ==
  {"idle", "next", "isQueued",
   "zscore", "read", "lease", "clear", "payload", "zadd", "mark", "repause",
   "zrem", "recheck", "drop", "flag", "unqueue", "erase",
   "refresh", "flagStop", "stop",
   "pruneRead", "prunePayload", "unpause"}

ClientOps == {"none", "run", "stop", "remove", "delete",
              "job", "prune", "reconcile", "resume"}

ASSUME ClientAssumption ==
  /\ Ops \subseteq {"run", "stop", "remove", "delete"}
  /\ Loops \subseteq {"reconcile", "resume"}
  /\ Callers \cap ({"reconcile", "resume"} \X Workers) = {}

ActorStates == [at : ClientLabels, op : ClientOps, on : Projects \cup {NoProject},
                saw : Statuses \cup {"none"}, todo : SUBSET Projects]

ClientTypeOK == act \in [Actors -> ActorStates]

------------------------------------------------------------------------------
On(a) == act[a].on
At(a, l) == act[a].at = l

Go(a, l) == act' = [act EXCEPT ![a].at = l]

\* The end of an operation.  A pass goes on with its next project; the purge is
\* followed by the search for orphans even when nothing is left to purge.
AfterItem(r) ==
  IF r.todo = {} /\ r.op # "prune"
  THEN Idle
  ELSE [r EXCEPT !.at = "next", !.on = NoProject, !.saw = "none"]

Return(a) == act' = [act EXCEPT ![a] = AfterItem(@)]

\* enqueue_pipeline_task refuses: its caller gives up, except resume_paused_projects
\* which puts the project back to paused.
Refuse(a) == IF act[a].op = "resume" THEN Go(a, "repause") ELSE Return(a)

\* enqueue_pipeline_task raises ValueError (no such project): the reconciliation
\* does not catch it and its whole pass ends.
Raise(a) ==
  IF act[a].op = "reconcile" THEN act' = [act EXCEPT ![a] = Idle] ELSE Refuse(a)

\* The first command about a project of a pass picks the project.
Pick(a, p, l) ==
  act' = [act EXCEPT ![a].at = l, ![a].on = p, ![a].todo = @ \ {p}]
Skip(a, p) ==
  act' = [act EXCEPT ![a] = AfterItem([act[a] EXCEPT !.todo = @ \ {p}])]

Begin(a, op, p, l, seen) ==
  act' = [act EXCEPT ![a] = [Idle EXCEPT !.at = l, !.op = op, !.on = p, !.saw = seen]]

------------------------------------------------------------------------------
(* Requests.                                                                  *)

\* run and restart: _ensure_enqueue_allowed, then enqueue_pipeline_task.  Its
\* is_queued check is the same test as the zscore that follows it.
RunRequest(a, p) ==
  /\ At(a, "idle") /\ a \in Callers /\ "run" \in Ops
  /\ status[p] \notin {"absent", "running", "queued"}
  /\ Begin(a, "run", p, "zscore", "none")
  /\ UNCHANGED store

StopRequest(a, p) ==
  /\ At(a, "idle") /\ a \in Callers /\ "stop" \in Ops
  /\ status[p] # "absent"
  /\ IF status[p] = "queued" THEN Begin(a, "stop", p, "zrem", "none")
     ELSE Begin(a, "stop", p, "isQueued", status[p])
  /\ UNCHANGED store

RemoveRequest(a, p) ==
  /\ At(a, "idle") /\ a \in Callers /\ "remove" \in Ops
  /\ status[p] # "absent"
  /\ IF status[p] = "queued" THEN Begin(a, "remove", p, "zrem", "none")
     ELSE Begin(a, "remove", p, "isQueued", status[p])
  /\ UNCHANGED store

DeleteRequest(a, p) ==
  /\ At(a, "idle") /\ a \in Callers /\ "delete" \in Ops
  /\ status[p] \notin {"absent", "running"}
  /\ Begin(a, "delete", p, "zrem", "none")
  /\ UNCHANGED store

\* stop and remove of a project that is not queued in the database: it may
\* still have an entry in the queue; otherwise stop decides on the status read.
IsQueued(a) ==
  /\ At(a, "isQueued") /\ act[a].op \in {"stop", "remove"}
  /\ \/ /\ InQueue(On(a))
        /\ act' = [act EXCEPT ![a].at = "zrem", ![a].saw = "none"]
     \/ /\ ~InQueue(On(a)) /\ act[a].op = "stop" /\ act[a].saw = "paused"
        /\ act' = [act EXCEPT ![a].at = "stop", ![a].saw = "none"]
     \/ /\ ~InQueue(On(a)) /\ act[a].op = "stop" /\ act[a].saw = "running"
        /\ act' = [act EXCEPT ![a].at = "flagStop", ![a].saw = "none"]
     \/ /\ ~InQueue(On(a)) /\ ~(act[a].op = "stop" /\ act[a].saw \in {"paused", "running"})
        /\ Return(a)
  /\ UNCHANGED store

------------------------------------------------------------------------------
(* enqueue_pipeline_task.                                                     *)

EnqueueZscore(a) ==
  /\ At(a, "zscore")
  /\ IF InQueue(On(a)) THEN Refuse(a) ELSE Go(a, "read")
  /\ UNCHANGED store

\* Mutation of EnqueueRead: no exception for the reconciliation.
EnqueueReadRefusesRunning(a) ==
  /\ At(a, "read")
  /\ IF status[On(a)] \in {"absent", "running"} THEN Refuse(a) ELSE Go(a, "clear")
  /\ UNCHANGED store

EnqueueRead(a) ==
  /\ At(a, "read")
  /\ \/ status[On(a)] = "absent" /\ Raise(a)
     \/ status[On(a)] = "running" /\ act[a].op = "reconcile" /\ Go(a, "lease")
     \/ status[On(a)] = "running" /\ act[a].op # "reconcile" /\ Refuse(a)
     \/ status[On(a)] \notin {"absent", "running"} /\ Go(a, "clear")
  /\ UNCHANGED store

EnqueueLease(a) ==
  /\ At(a, "lease") /\ act[a].op = "reconcile"
  /\ IF lease[On(a)] # NoWorker THEN Refuse(a) ELSE Go(a, "clear")
  /\ UNCHANGED store

EnqueueClear(a) ==
  /\ At(a, "clear")
  /\ ClearCancel(On(a)) /\ Go(a, "payload")
  /\ UNCHANGED <<status, zqueue, payload, lease>>

EnqueuePayload(a) ==
  /\ At(a, "payload")
  /\ SetPayload(On(a)) /\ Go(a, "zadd")
  /\ UNCHANGED <<status, zqueue, cancel, lease>>

EnqueueZadd(a) ==
  /\ At(a, "zadd")
  /\ \E ms \in Times : ZAdd(On(a), ComputeQueueScore(Priority[On(a)], ms))
  /\ Go(a, "mark")
  /\ UNCHANGED <<status, payload, cancel, lease>>

\* _set_project_queued: whatever the status has become since it was read.
EnqueueMark(a) ==
  /\ At(a, "mark")
  /\ IF status[On(a)] = "absent" THEN Raise(a) ELSE Return(a)
  /\ UpdateProjectStatus(On(a), "queued")
  /\ UNCHANGED <<zqueue, payload, cancel, lease>>

Enqueue(a) ==
  \/ EnqueueZscore(a) \/ EnqueueRead(a) \/ EnqueueLease(a) \/ EnqueueClear(a)
  \/ EnqueuePayload(a) \/ EnqueueZadd(a) \/ EnqueueMark(a)

------------------------------------------------------------------------------
(* remove_from_queue, shared by remove, stop and delete.                       *)

\* What the caller does once remove_from_queue has answered.
Removed(a) == IF act[a].op = "delete" THEN Go(a, "erase") ELSE Return(a)
NotRemoved(a) ==
  CASE act[a].op = "delete" -> Go(a, "erase")
    [] act[a].op = "stop" -> Go(a, "refresh")
    [] OTHER -> Return(a)

RemoveZrem(a) ==
  /\ At(a, "zrem")
  /\ Go(a, IF InQueue(On(a)) THEN "drop" ELSE "recheck")
  /\ ZRem(On(a))
  /\ UNCHANGED <<status, payload, cancel, lease>>

\* Not in the queue: either never queued, or popped by a worker meanwhile.
RemoveRecheck(a) ==
  /\ At(a, "recheck")
  /\ IF status[On(a)] = "queued" THEN Go(a, "drop") ELSE NotRemoved(a)
  /\ UNCHANGED store

RemoveDrop(a) ==
  /\ At(a, "drop")
  /\ DeletePayload(On(a)) /\ Go(a, "flag")
  /\ UNCHANGED <<status, zqueue, cancel, lease>>

RemoveFlag(a) ==
  /\ At(a, "flag")
  /\ RequestCancel(On(a)) /\ Go(a, "unqueue")
  /\ UNCHANGED <<status, zqueue, payload, lease>>

RemoveUnqueue(a) ==
  /\ At(a, "unqueue")
  /\ UpdateProjectStatus(On(a), "pending") /\ Removed(a)
  /\ UNCHANGED <<zqueue, payload, cancel, lease>>

\* delete_project_completely, then the deletion of the row.
DeleteErase(a) ==
  /\ At(a, "erase")
  /\ status' = [status EXCEPT ![On(a)] = "absent"] /\ Return(a)
  /\ UNCHANGED <<zqueue, payload, cancel, lease>>

Remove(a) ==
  \/ RemoveZrem(a) \/ RemoveRecheck(a) \/ RemoveDrop(a) \/ RemoveFlag(a)
  \/ RemoveUnqueue(a) \/ DeleteErase(a)

------------------------------------------------------------------------------
(* The end of stop_pipeline.                                                   *)

StopRefresh(a) ==
  /\ At(a, "refresh")
  /\ IF status[On(a)] = "running" THEN Go(a, "flagStop") ELSE Return(a)
  /\ UNCHANGED store

\* Mutation of StopFlag: no cancellation is requested.
StopFlagForgotten(a) == At(a, "flagStop") /\ Go(a, "stop") /\ UNCHANGED store

StopFlag(a) ==
  /\ At(a, "flagStop")
  /\ RequestCancel(On(a)) /\ Go(a, "stop")
  /\ UNCHANGED <<status, zqueue, payload, lease>>

StopWrite(a) ==
  /\ At(a, "stop")
  /\ UpdateProjectStatus(On(a), "stopped") /\ Return(a)
  /\ UNCHANGED <<zqueue, payload, cancel, lease>>

Stop(a) == StopRefresh(a) \/ StopFlag(a) \/ StopWrite(a)

------------------------------------------------------------------------------
(* Passes: a snapshot is taken, then its projects are handled one by one.      *)

StartPass(a, op, l, snapshot) ==
  /\ At(a, "idle") /\ snapshot # {}
  /\ act' = [act EXCEPT ![a] = [Idle EXCEPT !.at = l, !.op = op, !.todo = snapshot]]
  /\ UNCHANGED store

\* _run_pending_projects: is_queued, then enqueue_pipeline (zscore again).
JobStart(a) == a \in Schedulers /\ StartPass(a, "job", "next", WithStatus("pending"))

JobNext(a) ==
  /\ At(a, "next") /\ act[a].op = "job"
  /\ \E p \in act[a].todo : IF InQueue(p) THEN Skip(a, p) ELSE Pick(a, p, "read")
  /\ UNCHANGED store

\* prune_orphan_queue_entries: the members, then their statuses.
PruneStart(a) ==
  /\ a \in {"reconcile"} \X Workers
  /\ StartPass(a, "prune", "pruneRead", QueueMembers)

PruneRead(a) ==
  /\ At(a, "pruneRead")
  /\ act' = [act EXCEPT ![a].at = "next",
                        ![a].todo = {p \in @ : status[p] # "queued"}]
  /\ UNCHANGED store

PruneZrem(a) ==
  /\ At(a, "next") /\ act[a].op = "prune"
  /\ \E p \in act[a].todo : Pick(a, p, "prunePayload") /\ ZRem(p)
  /\ UNCHANGED <<status, payload, cancel, lease>>

PrunePayload(a) ==
  /\ At(a, "prunePayload")
  /\ DeletePayload(On(a)) /\ Return(a)
  /\ UNCHANGED <<status, zqueue, cancel, lease>>

\* reconcile_orphan_running_projects, once the purge is over (or had nothing to
\* do, or failed: its exceptions are caught).
ReconcileStart(a) ==
  /\ a \in {"reconcile"} \X Workers
  /\ \/ At(a, "idle") /\ WithStatus("running") # {}
     \/ At(a, "next") /\ act[a].op = "prune" /\ act[a].todo = {}
  /\ act' = [act EXCEPT ![a] =
               IF WithStatus("running") = {} THEN Idle
               ELSE [Idle EXCEPT !.at = "next", !.op = "reconcile",
                                 !.todo = WithStatus("running")]]
  /\ UNCHANGED store

ReconcileNext(a) ==
  /\ At(a, "next") /\ act[a].op = "reconcile"
  /\ \E p \in act[a].todo :
       IF lease[p] # NoWorker THEN Skip(a, p) ELSE Pick(a, p, "zscore")
  /\ UNCHANGED store

\* resume_paused_projects: the paused projects whose reset time has passed.
ResumeStart(a) ==
  /\ a \in {"resume"} \X Workers
  /\ \E due \in SUBSET WithStatus("paused") : StartPass(a, "resume", "next", due)

ResumeNext(a) ==
  /\ At(a, "next") /\ act[a].op = "resume"
  /\ \E p \in act[a].todo : IF InQueue(p) THEN Skip(a, p) ELSE Pick(a, p, "unpause")
  /\ UNCHANGED store

\* Mutation of ResumeClaim: the status is not checked again when it is written.
ResumeClaimBlind(a) ==
  /\ At(a, "unpause")
  /\ UpdateProjectStatus(On(a), "queued") /\ Go(a, "zscore")
  /\ UNCHANGED <<zqueue, payload, cancel, lease>>

ResumeClaim(a) ==
  /\ At(a, "unpause")
  /\ \/ /\ status[On(a)] = "paused"
        /\ status' = [status EXCEPT ![On(a)] = "queued"] /\ Go(a, "zscore")
     \/ status[On(a)] # "paused" /\ UNCHANGED status /\ Return(a)
  /\ UNCHANGED <<zqueue, payload, cancel, lease>>

ResumeRepause(a) ==
  /\ At(a, "repause")
  /\ status' = IF status[On(a)] = "queued"
               THEN [status EXCEPT ![On(a)] = "paused"] ELSE status
  /\ Return(a)
  /\ UNCHANGED <<zqueue, payload, cancel, lease>>

Job(a)       == JobStart(a) \/ JobNext(a)
Prune(a)     == PruneStart(a) \/ PruneRead(a) \/ PruneZrem(a) \/ PrunePayload(a)
Reconcile(a) == ReconcileStart(a) \/ ReconcileNext(a)
Resume(a)    == ResumeStart(a) \/ ResumeNext(a) \/ ResumeClaim(a) \/ ResumeRepause(a)

------------------------------------------------------------------------------
Request(a) ==
  \E p \in Projects : RunRequest(a, p) \/ StopRequest(a, p)
                      \/ RemoveRequest(a, p) \/ DeleteRequest(a, p)

\* The rest of an operation already begun, the passes of the loops included.
Proceed(a) ==
  \/ IsQueued(a) \/ Enqueue(a) \/ Remove(a) \/ Stop(a)
  \/ Prune(a) \/ Reconcile(a) \/ Resume(a)
==============================================================================

-------------------------- MODULE PipelineQueue_proofs --------------------------
(***************************************************************************)
(* The queue.  Conservation: while nothing queues a project, and no        *)
(* process dies between two commands, a queued project is never lost, nor  *)
(* its payload, for any number of projects, workers and requests that      *)
(* stop, remove or delete.  Order: a worker that nothing crosses claims    *)
(* the best of the projects it may claim, and passes over none.            *)
(***************************************************************************)
EXTENDS Pipeline_proofs

\* The instances the theorems are about: requests that take projects away, shutdowns
\* and lapses of leases.  Each of the other operations has a race that loses a project
\* (run MCStranded), and so does the death of a process that holds one.
NothingQueues ==
  /\ Ops \subseteq {"stop", "remove", "delete"}
  /\ Schedulers = {} /\ Loops = {}
  /\ FaultKinds \subseteq {"sigterm", "lapse"}

Removing == {"drop", "flag", "unqueue"}

\* The only operations in progress are removals, each on one project; those that found
\* the project not queued will not find it so again.
OnlyRemovals ==
  \A a \in Actors :
    /\ act[a].at \in {"idle", "isQueued", "zrem", "recheck", "erase", "refresh", "flagStop", "stop"} \cup Removing
    /\ act[a].op \in {"none", "stop", "remove", "delete"} /\ act[a].todo = {}
    /\ act[a].at # "idle" => On(a) \in Projects
    /\ act[a].at \in {"isQueued", "refresh", "flagStop", "stop"} => status[On(a)] # "queued"

\* Where a queued project is: in the queue, in the hands of a removal or of a worker.
QueuedIsSomewhere ==
  \A p \in Projects : status[p] = "queued" =>
    \/ InQueue(p)
    \/ \E a \in Actors : act[a].at \in Removing /\ On(a) = p
    \/ \E w \in Workers : Cur(w) = p \/ wk[w].held[p] # 0

\* A flag or a missing payload means that a removal is about to end.
RemovalIsSeen ==
  \A p \in Projects : status[p] = "queued" =>
    /\ cancel[p] => \E a \in Actors : act[a].at = "unqueue" /\ On(a) = p
    /\ ~payload[p] => \E a \in Actors : act[a].at \in {"flag", "unqueue"} /\ On(a) = p

\* A worker that has done with the entry of a project, or has claimed it, does not
\* leave it queued behind; one that abandons it has seen the flag.
LosesNothing(w) ==
  /\ wk[w].at \in {"orphan", "unpay", "lease", "uncancel"} \cup LeaseLabels => status[Cur(w)] # "queued"
  /\ wk[w].at = "flush" /\ Cur(w) # NoProject => status[Cur(w)] # "queued"
  /\ wk[w].at \in {"abandon", "abandonFlag"} =>
       (status[Cur(w)] = "queued" => \E a \in Actors : act[a].at = "unqueue" /\ On(a) = Cur(w))
  /\ wk[w].at \in {"load", "check", "isCancelled", "claim", "commit", "refused"} => wk[w].score # 0
  /\ wk[w].at \notin DequeueLabels => \A p \in Projects : wk[w].held[p] = 0

WorkerLosesNothing == \A w \in Workers : LosesNothing(w)

Conserved == OnlyRemovals /\ QueuedIsSomewhere /\ RemovalIsSeen /\ WorkerLosesNothing

------------------------------------------------------------------------------
(* The requests.                                                               *)

\* Without loops and schedulers the actors are the requests.
LEMMA ActorsAreCallers ==
  ASSUME NothingQueues
  PROVE  /\ Actors = Callers /\ Loops \X Workers = {}
         /\ \A a \in Actors : a \notin {"reconcile"} \X Workers /\ a \notin {"resume"} \X Workers
                            /\ a \notin Schedulers
  BY ClientAssumption DEF NothingQueues, Actors

\* What a removal may do to its project while it is queued, and how it goes on then.
Careful(a, p) ==
  status'[p] = "queued" =>
    /\ status[p] = "queued"
    /\ act'[a].at \notin {"isQueued", "refresh", "flagStop", "stop"}
    /\ zqueue'[p] # zqueue[p] => act'[a].at \in Removing
    /\ act[a].at \in Removing => act'[a].at \in Removing
    /\ act[a].at # "unqueue"
    /\ cancel'[p] => act'[a].at = "unqueue" \/ cancel[p]
    /\ ~payload'[p] => act'[a].at \in {"flag", "unqueue"} \/ (~payload[p] /\ act[a].at # "flag")

\* A step of a removal, on its project only.
Handles(a, p) ==
  /\ \A b \in Actors \ {a} : act'[b] = act[b]
  /\ \A q \in Projects \ {p} : /\ status'[q] = status[q] /\ zqueue'[q] = zqueue[q]
                              /\ payload'[q] = payload[q] /\ cancel'[q] = cancel[q]
  /\ act[a].at # "idle" => On(a) = p
  /\ act'[a].at # "idle" => act'[a].on = p
  /\ act'[a].at \in {"idle", "isQueued", "zrem", "recheck", "erase", "refresh", "flagStop", "stop"} \cup Removing
  /\ act'[a].op \in {"none", "stop", "remove", "delete"} /\ act'[a].todo = {}

\* A careful step keeps what is known of the queued projects.
LEMMA CarefulStep ==
  ASSUME Conserved, NEW a \in Actors, NEW p \in Projects, Handles(a, p), Careful(a, p),
         UNCHANGED wk, \A w \in Workers : Cur(w) \in Projects \cup {NoProject},
         CurIsInHand
  PROVE  Conserved'
  <1>. USE DEF On, Cur, Removing
  <1>0. \A q \in Projects : status'[q] = "queued" => status[q] = "queued"
    BY DEF Handles, Careful
  <1>1. OnlyRemovals'
    <2>1. SUFFICES ASSUME NEW b \in Actors
                   PROVE /\ act'[b].at \in {"idle", "isQueued", "zrem", "recheck", "erase", "refresh", "flagStop",
                                           "stop"} \cup Removing
                         /\ act'[b].op \in {"none", "stop", "remove", "delete"} /\ act'[b].todo = {}
                         /\ act'[b].at # "idle" => act'[b].on \in Projects
                         /\ act'[b].at \in {"isQueued", "refresh", "flagStop", "stop"} => status'[act'[b].on] # "queued"
      BY DEF OnlyRemovals
    <2>2. CASE b = a
      BY <2>2 DEF Handles, Careful
    <2>3. CASE b # a
      BY <1>0, <2>3 DEF Handles, Conserved, OnlyRemovals
    <2>. QED
      BY <2>2, <2>3
  <1>2. ASSUME NEW q \in Projects, status'[q] = "queued",
               NEW b \in Actors, act[b].at = "unqueue", On(b) = q
        PROVE  \E c \in Actors : act'[c].at = "unqueue" /\ act'[c].on = q
    <2>1. b # a
      BY <1>2 DEF Handles, Careful
    <2>. QED
      BY <1>2, <2>1 DEF Handles
  <1>3. ASSUME NEW q \in Projects, status'[q] = "queued",
               NEW b \in Actors, act[b].at \in Removing, On(b) = q
        PROVE  \E c \in Actors : act'[c].at \in Removing /\ act'[c].on = q
    <2>1. CASE b = a
      BY <1>3, <2>1 DEF Handles, Careful
    <2>2. CASE b # a
      BY <1>3, <2>2 DEF Handles
    <2>. QED
      BY <2>1, <2>2
  <1>4. QueuedIsSomewhere'
    <2>1. SUFFICES ASSUME NEW q \in Projects, status'[q] = "queued"
                   PROVE  \/ zqueue'[q] # 0
                          \/ \E b \in Actors : act'[b].at \in Removing /\ act'[b].on = q
                          \/ \E w \in Workers : wk[w].cur = q \/ wk[w].held[q] # 0
      BY DEF QueuedIsSomewhere, InQueue
    <2>2. CASE zqueue'[q] = zqueue[q]
      BY <1>0, <1>3, <2>1, <2>2 DEF Conserved, QueuedIsSomewhere, InQueue
    <2>3. CASE zqueue'[q] # zqueue[q]
      BY <2>1, <2>3 DEF Handles, Careful
    <2>. QED
      BY <2>2, <2>3
  <1>5. RemovalIsSeen'
    <2>1. SUFFICES ASSUME NEW q \in Projects, status'[q] = "queued"
                   PROVE  /\ cancel'[q] => \E b \in Actors : act'[b].at = "unqueue" /\ act'[b].on = q
                          /\ ~payload'[q] => \E b \in Actors : act'[b].at \in {"flag", "unqueue"} /\ act'[b].on = q
      BY DEF RemovalIsSeen
    <2>2. CASE q # p
      <3>1. cancel[q] => \E b \in Actors : act'[b].at = "unqueue" /\ act'[b].on = q
        BY <1>0, <1>2, <2>1 DEF Conserved, RemovalIsSeen
      <3>2. ASSUME ~payload[q]
            PROVE \E b \in Actors : act'[b].at \in {"flag", "unqueue"} /\ act'[b].on = q
        <4>1. PICK b \in Actors : act[b].at \in {"flag", "unqueue"} /\ On(b) = q
          BY <1>0, <2>1, <3>2 DEF Conserved, RemovalIsSeen
        <4>. QED
          BY <2>2, <4>1 DEF Handles
      <3>. QED
        BY <2>2, <3>1, <3>2 DEF Handles
    <2>3. CASE q = p
      <3>1. ASSUME cancel'[p]
            PROVE \E b \in Actors : act'[b].at = "unqueue" /\ act'[b].on = p
        <4>1. CASE act'[a].at = "unqueue"
          BY <4>1 DEF Handles
        <4>2. CASE cancel[p]
          BY <1>0, <1>2, <2>1, <2>3, <4>2 DEF Conserved, RemovalIsSeen
        <4>. QED
          BY <2>1, <2>3, <3>1, <4>1, <4>2 DEF Careful
      <3>2. ASSUME ~payload'[p]
            PROVE \E b \in Actors : act'[b].at \in {"flag", "unqueue"} /\ act'[b].on = p
        <4>1. CASE act'[a].at \in {"flag", "unqueue"}
          BY <4>1 DEF Handles
        <4>2. CASE ~payload[p] /\ act[a].at # "flag"
          <5>1. PICK b \in Actors : act[b].at \in {"flag", "unqueue"} /\ On(b) = p
            BY <1>0, <2>1, <2>3, <4>2 DEF Conserved, RemovalIsSeen
          <5>2. b # a
            BY <2>1, <2>3, <4>2, <5>1 DEF Careful
          <5>. QED
            BY <5>1, <5>2 DEF Handles
        <4>. QED
          BY <2>1, <2>3, <3>2, <4>1, <4>2 DEF Careful
      <3>. QED
        BY <2>3, <3>1, <3>2
    <2>. QED
      BY <2>2, <2>3
  <1>6. WorkerLosesNothing'
    <2>1. \A w \in Workers : wk[w].at \in {"orphan", "unpay", "lease", "uncancel", "abandon", "abandonFlag"}
                               \cup LeaseLabels => Cur(w) \in Projects
      BY DEF CurIsInHand, LeaseLabels, TaskLabels
    <2>. QED
      BY <1>0, <1>2, <2>1 DEF Conserved, WorkerLosesNothing, LosesNothing
  <1>. QED
    BY <1>1, <1>4, <1>5, <1>6 DEF Conserved

\* The ways a request goes on.
LEMMA GoEffect ==
  ASSUME ClientTypeOK, OnlyRemovals, NEW a \in Actors, NEW l, Go(a, l)
  PROVE  /\ \A b \in Actors \ {a} : act'[b] = act[b]
         /\ act'[a].at = l /\ act'[a].on = act[a].on /\ act'[a].op = act[a].op /\ act'[a].todo = {}
  BY DEF Go, ClientTypeOK, ActorStates, OnlyRemovals

LEMMA ReturnEffect ==
  ASSUME ClientTypeOK, OnlyRemovals, NEW a \in Actors, Return(a)
  PROVE  /\ \A b \in Actors \ {a} : act'[b] = act[b]
         /\ act'[a] = Idle
  BY DEF Return, AfterItem, ClientTypeOK, ActorStates, OnlyRemovals

LEMMA BeginEffect ==
  ASSUME ClientTypeOK, NEW a \in Actors, NEW op, NEW p, NEW l, NEW seen, Begin(a, op, p, l, seen)
  PROVE  /\ \A b \in Actors \ {a} : act'[b] = act[b]
         /\ act'[a].at = l /\ act'[a].on = p /\ act'[a].op = op /\ act'[a].todo = {}
  BY DEF Begin, Idle, ClientTypeOK, ActorStates

\* The commands on the payload and the flag.
LEMMA FlagEffect ==
  ASSUME StoreTypeOK, NEW p \in Projects
  PROVE  /\ DeletePayload(p) => \A q \in Projects \ {p} : payload'[q] = payload[q]
         /\ RequestCancel(p) => \A q \in Projects \ {p} : cancel'[q] = cancel[q]
         /\ ClearCancel(p) => ~cancel'[p] /\ \A q \in Projects \ {p} : cancel'[q] = cancel[q]
  BY DEF DeletePayload, RequestCancel, ClearCancel, StoreTypeOK

\* A request goes on, begins or is over, each command for itself.
LEMMA RemovalStep ==
  ASSUME NothingQueues, Facts, Conserved, NEW a \in Actors,
         Job(a) \/ Proceed(a) \/ Request(a), UNCHANGED wk
  PROVE  Conserved'
  <1>. USE GoEffect, ReturnEffect, BeginEffect DEF On, At, Removing, Handles, Careful, Idle
  <1>0. /\ ClientTypeOK /\ StoreTypeOK /\ OnlyRemovals /\ CurIsInHand
        /\ \A w \in Workers : Cur(w) \in Projects \cup {NoProject}
    BY DEF Facts, TypeOK, WorkerTypeOK, WorkerStates, Conserved, Cur
  <1>1. ASSUME NEW p \in Projects, RunRequest(a, p) PROVE FALSE
    BY <1>1 DEF RunRequest, NothingQueues
  <1>2. ASSUME NEW p \in Projects, StopRequest(a, p) \/ RemoveRequest(a, p) \/ DeleteRequest(a, p)
        PROVE  Conserved'
    <2>1. Handles(a, p)
      BY <1>0, <1>2 DEF StopRequest, RemoveRequest, DeleteRequest, store
    <2>2. Careful(a, p)
      BY <1>0, <1>2 DEF StopRequest, RemoveRequest, DeleteRequest, store
    <2>. QED
      BY <1>0, <2>1, <2>2, CarefulStep
  <1>3. ASSUME IsQueued(a) PROVE Handles(a, On(a)) /\ Careful(a, On(a)) /\ On(a) \in Projects
    BY <1>0, <1>3 DEF IsQueued, store, OnlyRemovals, ClientTypeOK, ActorStates
  <1>4. ASSUME RemoveZrem(a) PROVE Handles(a, On(a)) /\ Careful(a, On(a)) /\ On(a) \in Projects
    BY <1>0, <1>4 DEF RemoveZrem, ZRem, InQueue, OnlyRemovals, StoreTypeOK
  <1>5. ASSUME RemoveRecheck(a) PROVE Handles(a, On(a)) /\ Careful(a, On(a)) /\ On(a) \in Projects
    BY <1>0, <1>5 DEF RemoveRecheck, NotRemoved, OnlyRemovals, store
  <1>6. ASSUME RemoveDrop(a) PROVE Handles(a, On(a)) /\ Careful(a, On(a)) /\ On(a) \in Projects
    BY <1>0, <1>6, FlagEffect DEF RemoveDrop, OnlyRemovals
  <1>7. ASSUME RemoveFlag(a) PROVE Handles(a, On(a)) /\ Careful(a, On(a)) /\ On(a) \in Projects
    BY <1>0, <1>7, FlagEffect DEF RemoveFlag, OnlyRemovals
  <1>8. ASSUME RemoveUnqueue(a) PROVE Handles(a, On(a)) /\ Careful(a, On(a)) /\ On(a) \in Projects
    BY <1>0, <1>8 DEF RemoveUnqueue, UpdateProjectStatus, Removed, OnlyRemovals, StoreTypeOK
  <1>9. ASSUME DeleteErase(a) PROVE Handles(a, On(a)) /\ Careful(a, On(a)) /\ On(a) \in Projects
    BY <1>0, <1>9 DEF DeleteErase, OnlyRemovals, StoreTypeOK
  <1>10. ASSUME StopRefresh(a) PROVE Handles(a, On(a)) /\ Careful(a, On(a)) /\ On(a) \in Projects
    BY <1>0, <1>10 DEF StopRefresh, OnlyRemovals, store
  <1>11. ASSUME StopFlag(a) PROVE Handles(a, On(a)) /\ Careful(a, On(a)) /\ On(a) \in Projects
    BY <1>0, <1>11, FlagEffect DEF StopFlag, OnlyRemovals
  <1>12. ASSUME StopWrite(a) PROVE Handles(a, On(a)) /\ Careful(a, On(a)) /\ On(a) \in Projects
    BY <1>0, <1>12 DEF StopWrite, UpdateProjectStatus, OnlyRemovals, StoreTypeOK
  <1>13. ~Enqueue(a)
    BY <1>0 DEF Enqueue, EnqueueZscore, EnqueueRead, EnqueueLease, EnqueueClear, EnqueuePayload,
           EnqueueZadd, EnqueueMark, OnlyRemovals
  <1>14. ~Job(a) /\ ~Prune(a) /\ ~Reconcile(a) /\ ~Resume(a)
    BY <1>0, ActorsAreCallers DEF Job, JobStart, JobNext, Prune, PruneStart, PruneRead, PruneZrem,
       PrunePayload, Reconcile, ReconcileStart, ReconcileNext, Resume, ResumeStart, ResumeNext,
       ResumeClaim, ResumeRepause, OnlyRemovals
  <1>15. CASE Request(a)
    BY <1>1, <1>2, <1>15 DEF Request
  <1>16. CASE IsQueued(a) \/ Remove(a) \/ Stop(a)
    <2>1. Handles(a, On(a)) /\ Careful(a, On(a)) /\ On(a) \in Projects
      BY <1>3, <1>4, <1>5, <1>6, <1>7, <1>8, <1>9, <1>10, <1>11, <1>12, <1>16 DEF Remove, Stop
    <2>. QED
      BY <1>0, <2>1, CarefulStep
  <1>. QED
    BY <1>13, <1>14, <1>15, <1>16 DEF Proceed

------------------------------------------------------------------------------
(* The workers.                                                                *)

\* Where a project of the worker may go while it is queued: what was in the queue or
\* with the worker still is, unless a removal has it, and its marks do not change.
Keeps(w) ==
  \A q \in Projects : status'[q] = "queued" =>
    /\ status[q] = "queued"
    /\ zqueue[q] # 0 \/ wk[w].cur = q \/ wk[w].held[q] # 0 =>
         \/ zqueue'[q] # 0 \/ wk'[w].cur = q \/ wk'[w].held[q] # 0
         \/ \E a \in Actors : act[a].at = "unqueue" /\ act[a].on = q
    /\ cancel'[q] => cancel[q] \/ \E a \in Actors : act[a].at = "unqueue" /\ act[a].on = q
    /\ ~payload'[q] => ~payload[q] \/ \E a \in Actors : act[a].at = "unqueue" /\ act[a].on = q

\* A worker that keeps its projects keeps what is known of all.
LEMMA KeepingStep ==
  ASSUME Conserved, CurIsInHand, WorkerTypeOK, NEW w \in Workers, UNCHANGED act,
         \A v \in Workers \ {w} : wk'[v] = wk[v], Keeps(w), LosesNothing(w)'
  PROVE  Conserved'
  <1>. USE DEF On, Cur
  <1>0. \A q \in Projects : status'[q] = "queued" => status[q] = "queued"
    BY DEF Keeps
  <1>1. OnlyRemovals'
    BY <1>0 DEF Conserved, OnlyRemovals
  <1>2. QueuedIsSomewhere'
    <2>1. SUFFICES ASSUME NEW q \in Projects, status'[q] = "queued"
                   PROVE  \/ zqueue'[q] # 0
                          \/ \E b \in Actors : act[b].at \in Removing /\ act[b].on = q
                          \/ \E v \in Workers : wk'[v].cur = q \/ wk'[v].held[q] # 0
      BY DEF QueuedIsSomewhere, InQueue
    <2>2. CASE zqueue[q] # 0 \/ wk[w].cur = q \/ wk[w].held[q] # 0
      BY <2>1, <2>2 DEF Keeps, Removing
    <2>3. CASE ~(zqueue[q] # 0 \/ wk[w].cur = q \/ wk[w].held[q] # 0)
      BY <1>0, <2>1, <2>3 DEF Conserved, QueuedIsSomewhere, InQueue
    <2>. QED
      BY <2>2, <2>3
  <1>3. RemovalIsSeen'
    BY <1>0 DEF Conserved, RemovalIsSeen, Keeps
  <1>4. WorkerLosesNothing'
    <2>1. ASSUME NEW v \in Workers, v # w PROVE LosesNothing(v)'
      <3>1. wk[v].at \in {"orphan", "unpay", "lease", "uncancel", "abandon", "abandonFlag"} \cup LeaseLabels
              => wk[v].cur \in Projects
        BY DEF CurIsInHand, LeaseLabels, TaskLabels
      <3>2. wk[v].at = "flush" /\ wk[v].cur # NoProject => wk[v].cur \in Projects
        BY DEF WorkerTypeOK, WorkerStates
      <3>. QED
        BY <1>0, <2>1, <3>1, <3>2 DEF Conserved, WorkerLosesNothing, LosesNothing
    <2>. QED
      BY <2>1 DEF WorkerLosesNothing
  <1>. QED
    BY <1>1, <1>2, <1>3, <1>4 DEF Conserved

\* Every command of a worker keeps its projects.
LEMMA WorkerKeeps ==
  ASSUME Facts, Conserved, NEW w \in Workers, WorkerStep(w) \/ Shutdown(w),
         UNCHANGED act
  PROVE  Keeps(w) /\ LosesNothing(w)' /\ \A v \in Workers \ {w} : wk'[v] = wk[v]
  <1>. DEFINE Good == Keeps(w) /\ LosesNothing(w)' /\ \A v \in Workers \ {w} : wk'[v] = wk[v]
  <1>0. LosesNothing(w) /\ RemovalIsSeen
    BY DEF Conserved, WorkerLosesNothing
  <1>. USE <1>0 DEF Facts, TypeOK, StoreTypeOK, WorkerTypeOK, WorkerStates, CurIsInHand, OutcomeIsKnown,
           WAt, Cur, Keeps, LosesNothing, LeaseLabels, TaskLabels, DequeueLabels
  <1>1. CASE StartPassW(w)
    BY <1>1 DEF StartPassW, WGo, store
  <1>2. CASE LoadPayload(w)
    BY <1>2 DEF LoadPayload, WGo, store, RemovalIsSeen, On
  <1>3. CASE NoPayload(w)
    BY <1>3 DEF NoPayload, WGo, NextEntry, store, RemovalIsSeen, On
  <1>4. CASE SetPending(w)
    BY <1>4 DEF SetPending, NextEntry, UpdateProjectStatus
  <1>5. CASE CheckStatus(w)
    BY <1>5 DEF CheckStatus, WGo, store
  <1>6. CASE DropOrphan(w)
    BY <1>6 DEF DropOrphan, NextEntry, DeletePayload
  <1>7. CASE CheckCancel(w)
    <2>1. cancel[Cur(w)] /\ status[Cur(w)] = "queued"
            => \E a \in Actors : act[a].at = "unqueue" /\ act[a].on = Cur(w)
      BY <1>7 DEF CheckCancel, RemovalIsSeen, On
    <2>. QED
      BY <1>7, <2>1 DEF CheckCancel, WGo, store, On
  <1>8. CASE AbandonPayload(w)
    BY <1>8 DEF AbandonPayload, WGo, DeletePayload, RemovalIsSeen, On
  <1>9. CASE AbandonFlag(w)
    BY <1>9 DEF AbandonFlag, NextEntry, RequestCancel, RemovalIsSeen, On
  <1>10. CASE ClaimCommit(w)
    <2>1. CASE UpdateProjectStatus(Cur(w), "running") /\ WGo(w, "unpay")
      BY <1>10, <2>1 DEF ClaimCommit, WGo, UpdateProjectStatus
    <2>2. CASE UNCHANGED status /\ WGo(w, "refused")
      BY <1>10, <2>2 DEF ClaimCommit, WGo
    <2>. QED
      BY <1>10, <2>1, <2>2 DEF ClaimCommit
  <1>11. CASE Claimed(w)
    BY <1>11 DEF Claimed, DeletePayload
  <1>12. CASE EndPass(w)
    BY <1>12 DEF EndPass, Held, store
  <1>13. CASE TakeLease(w)
    BY <1>13 DEF TakeLease
  <1>14. CASE StartPipeline(w)
    BY <1>14 DEF StartPipeline, WGo, store
  <1>15. CASE Gate(w)
    BY <1>15 DEF Gate, WGo, store
  <1>16. CASE InterruptedChecksFlag(w)
    BY <1>16 DEF InterruptedChecksFlag, store
  <1>17. CASE CancelledChecksFlag(w)
    BY <1>17 DEF CancelledChecksFlag, store
  <1>18. CASE Settle(w)
    BY <1>18 DEF Settle, UpdateProjectStatus, Outcomes
  <1>19. CASE Watch(w)
    BY <1>19 DEF Watch, CancelTask, store
  <1>20. CASE CheckLease(w)
    BY <1>20 DEF CheckLease, store
  <1>21. CASE ReleaseLease(w)
    BY <1>21 DEF ReleaseLease, WGo
  <1>22. CASE EndTask(w)
    BY <1>22 DEF EndTask, ClearCancel
  <1>23. CASE Finish(w)
    BY <1>23 DEF Finish, store
  <1>24. CASE Interrupt(w)
    BY <1>24 DEF Interrupt, WGo, store
  <1>25. CASE Shutdown(w)
    <2>1. /\ wk'[w].cur = wk[w].cur /\ wk'[w].held = wk[w].held /\ wk'[w].score = wk[w].score
          /\ wk'[w].at = wk[w].at \/ (wk[w].at \in TaskLabels /\ wk'[w].at \in {"cancelled", "release"})
          /\ \A v \in Workers \ {w} : wk'[v] = wk[v]
      BY <1>25 DEF Shutdown, CancelTask
    <2>. QED
      <3>1. CASE wk'[w].at = wk[w].at
        <4>1. UNCHANGED <<status, zqueue, payload, cancel>>
          BY <1>25 DEF Shutdown, store
        <4>2. Keeps(w)
          BY <2>1, <4>1
        <4>3. LosesNothing(w)'
          BY <2>1, <3>1, <4>1 DEF On
        <4>. QED
          BY <2>1, <4>2, <4>3
      <3>2. CASE wk[w].at \in TaskLabels /\ wk'[w].at \in {"cancelled", "release"}
        BY <1>25, <2>1, <3>2 DEF Shutdown, store
      <3>. QED
        BY <2>1, <3>1, <3>2
  <1>26. CASE Pop(w)
    <2>1. CASE WGo(w, "flush") /\ UNCHANGED zqueue
      BY <1>26, <2>1 DEF Pop, WGo
    <2>2. ASSUME NEW p \in Heads, ZRem(p),
                 wk' = [wk EXCEPT ![w].at = "load", ![w].cur = p, ![w].score = zqueue[p],
                                  ![w].tries = @ + 1]
          PROVE  Good
      <3>1. /\ wk'[w].at = "load" /\ wk'[w].cur = p /\ wk'[w].score = zqueue[p]
            /\ wk'[w].held = wk[w].held /\ \A v \in Workers \ {w} : wk'[v] = wk[v]
        BY <2>2
      <3>2. zqueue[p] # 0 /\ zqueue[p] \in Nat /\ \A q \in Projects \ {p} : zqueue'[q] = zqueue[q]
        BY <2>2 DEF Heads, QueueMembers, InQueue, ZRem
      <3>3. UNCHANGED <<status, payload, cancel>> /\ wk[w].at = "pop" /\ wk[w].cur = NoProject
        BY <1>26 DEF Pop
      <3>4. Keeps(w)
        BY <3>1, <3>2, <3>3, StoreAssumption
      <3>5. LosesNothing(w)'
        BY <3>1, <3>2, <3>3
      <3>. QED
        BY <3>1, <3>4, <3>5
    <2>. QED
      BY <1>26, <2>1, <2>2 DEF Pop
  <1>27. CASE ClaimSnapshot(w)
    <2>1. CASE Defer(w, "flush")
      <3>1. /\ wk'[w].at = "flush" /\ wk'[w].cur = NoProject
            /\ wk'[w].held = [wk[w].held EXCEPT ![wk[w].cur] = wk[w].score]
            /\ \A v \in Workers \ {w} : wk'[v] = wk[v]
        BY <2>1, DeferHolds DEF WorkerLabels
      <3>. QED
        BY <1>27, <3>1 DEF ClaimSnapshot, store
    <2>2. CASE ~Defer(w, "flush")
      BY <1>27, <2>2 DEF ClaimSnapshot, store
    <2>. QED
      BY <2>1, <2>2
  <1>28. CASE ClaimRefused(w)
    <2>1. CASE Defer(w, "pop")
      <3>1. /\ wk'[w].at = "pop" /\ wk'[w].cur = NoProject
            /\ wk'[w].held = [wk[w].held EXCEPT ![wk[w].cur] = wk[w].score]
            /\ \A v \in Workers \ {w} : wk'[v] = wk[v]
        BY <2>1, DeferHolds DEF WorkerLabels
      <3>. QED
        BY <1>28, <3>1 DEF ClaimRefused, store
    <2>2. CASE ~Defer(w, "pop")
      BY <1>28, <2>2 DEF ClaimRefused, WGo, store
    <2>. QED
      BY <2>1, <2>2
  <1>29. CASE Reenqueue(w)
    <2>1. PICK p \in Held(w) : ZAdd(p, wk[w].held[p]) /\ wk' = [wk EXCEPT ![w].held[p] = 0]
      BY <1>29 DEF Reenqueue
    <2>. DEFINE h == [wk[w].held EXCEPT ![p] = 0]
                r == [wk[w] EXCEPT !.held = h]
    <2>2. wk' = [wk EXCEPT ![w] = r]
      BY <2>1
    <2>3. \A q \in Projects \ {p} : h[q] = wk[w].held[q]
      BY DEF Held
    <2>. HIDE DEF h
    <2>4. r.held = h /\ r.at = wk[w].at /\ r.cur = wk[w].cur /\ r.score = wk[w].score
      OBVIOUS
    <2>. HIDE DEF r
    <2>5. wk'[w] = r /\ \A v \in Workers \ {w} : wk'[v] = wk[v]
      BY <2>2
    <2>. QED
      BY <1>29, <2>1, <2>3, <2>4, <2>5 DEF Reenqueue, Held, ZAdd
  <1>. QED
    BY <1>1, <1>2, <1>3, <1>4, <1>5, <1>6, <1>7, <1>8, <1>9, <1>10, <1>11, <1>12, <1>13,
       <1>14, <1>15, <1>16, <1>17, <1>18, <1>19, <1>20, <1>21, <1>22, <1>23, <1>24, <1>25,
       <1>26, <1>27, <1>28, <1>29
    DEF WorkerStep, Dequeue, Process

------------------------------------------------------------------------------
(* The theorems.                                                               *)

\* Nothing is queued outside the queue at the beginning.
LEMMA ConservedInit == Init => Conserved
  <1>1. SUFFICES ASSUME Init PROVE Conserved
    OBVIOUS
  <1>2. PICK at \in [Projects -> Times] :
          zqueue = [p \in Projects |-> IF status[p] = "queued"
                                       THEN ComputeQueueScore(Priority[p], at[p]) ELSE 0]
    BY <1>1 DEF Init
  <1>3. \A p \in Projects : status[p] = "queued" => zqueue[p] # 0
    <2>1. SUFFICES ASSUME NEW p \in Projects, status[p] = "queued" PROVE zqueue[p] # 0
      OBVIOUS
    <2>2. at[p] \in Times
      BY <1>2
    <2>3. at[p] \in Nat /\ at[p] # 0
      BY <2>2, StoreAssumption
    <2>4. at[p] \in Nat /\ at[p] > 0 /\ Priority[p] \in Int
      BY <2>3, StoreAssumption
    <2>. DEFINE score == ComputeQueueScore(Priority[p], at[p])
    <2>5. score \in Nat /\ at[p] <= score
      BY <2>4, ScoreIsNat
    <2>. HIDE DEF score
    <2>6. score # 0
      BY <2>4, <2>5
    <2>7. zqueue[p] = score
      BY <1>2, <2>1 DEF score
    <2>. QED
      BY <2>6, <2>7
  <1>4. /\ payload = [p \in Projects |-> status[p] = "queued"] /\ cancel = [p \in Projects |-> FALSE]
        /\ act = [a \in Actors |-> Idle] /\ wk = [w \in Workers |-> Ready]
    BY <1>1 DEF Init
  <1>5. \A a \in Actors : act[a].at = "idle" /\ act[a].op = "none" /\ act[a].todo = {}
    BY <1>4 DEF Idle
  <1>6. \A w \in Workers : wk[w].at = "top" /\ \A p \in Projects : wk[w].held[p] = 0
    BY <1>4 DEF Ready, Off
  <1>. QED
    BY <1>3, <1>4, <1>5, <1>6 DEF Conserved, OnlyRemovals, QueuedIsSomewhere, RemovalIsSeen,
       WorkerLosesNothing, LosesNothing, InQueue, LeaseLabels, TaskLabels, DequeueLabels

\* Every step conserves the queued projects.
LEMMA ConservedStep ==
  ASSUME NothingQueues, Facts, Conserved, Next
  PROVE  Conserved'
  <1>0. CurIsInHand /\ WorkerTypeOK /\ StoreTypeOK
    BY DEF Facts, TypeOK
  <1>1. ASSUME NEW a \in Actors, Asks(a) \/ Client(a) \/ Abort(a)
        PROVE  Conserved'
    <2>1. ~Abort(a)
      BY DEF Abort, Fault, NothingQueues
    <2>. QED
      BY <1>1, <2>1, RemovalStep DEF Asks, Client
  <1>2. ASSUME NEW w \in Workers, Worker(w) \/ Sigterm(w)
        PROVE  Conserved'
    <2>1. (WorkerStep(w) \/ Shutdown(w)) /\ UNCHANGED act
      BY <1>2 DEF Worker, Sigterm
    <2>. QED
      BY <1>0, <2>1, WorkerKeeps, KeepingStep
  <1>3. ASSUME NEW w \in Workers, Exit(w) \/ Kill(w) \/ Restart(w)
        PROVE  Conserved'
    <2>1. UNCHANGED <<status, zqueue, payload, cancel>>
      BY <1>3 DEF Exit, Kill, Restart, store
    <2>2. /\ wk'[w] = Off \/ wk'[w] = Ready
          /\ \A v \in Workers \ {w} : wk'[v] = wk[v]
      BY <1>0, <1>3 DEF Exit, Kill, Restart, WorkerTypeOK
    <2>3. UNCHANGED act
      <3>1. ASSUME StopLoops(w) PROVE UNCHANGED act
        <4>1. act \in [Actors -> ActorStates] /\ Actors = Callers /\ Loops \X {w} = {}
          BY ActorsAreCallers DEF Facts, TypeOK, ClientTypeOK, NothingQueues
        <4>. QED
          BY <3>1, <4>1 DEF StopLoops, LoopsOf
      <3>. QED
        BY <1>3, <3>1 DEF Exit, Kill, Restart
    <2>4. \/ wk[w].at \in {"top", "off"} /\ wk[w].cur = NoProject
          \/ wk[w].at \in TaskLabels /\ status[wk[w].cur] # "queued"
      BY <1>0, <1>3 DEF Exit, Kill, Restart, Alive, WAt, CurIsInHand, Cur, Conserved, WorkerLosesNothing,
         LosesNothing, LeaseLabels
    <2>5. \A p \in Projects : wk[w].held[p] = 0
      BY <2>4 DEF Conserved, WorkerLosesNothing, LosesNothing, TaskLabels, DequeueLabels
    <2>6. Keeps(w)
      BY <2>1, <2>4, <2>5, StoreAssumption DEF Keeps
    <2>7. LosesNothing(w)'
      BY <2>2 DEF LosesNothing, Off, Ready, LeaseLabels, TaskLabels, DequeueLabels
    <2>. QED
      BY <1>0, <2>2, <2>3, <2>6, <2>7, KeepingStep
  <1>4. ASSUME NEW w \in Workers PROVE ~Crash(w)
    BY DEF Crash, Fault, NothingQueues
  <1>5. ASSUME NEW p \in Projects, LeaseExpires(p) \/ LeaseLapses(p)
        PROVE  Conserved'
    <2>1. UNCHANGED <<status, zqueue, payload, cancel, act, wk>>
      BY <1>5 DEF LeaseExpires, LeaseLapses
    <2>. QED
      BY <2>1 DEF Conserved, OnlyRemovals, QueuedIsSomewhere, RemovalIsSeen, WorkerLosesNothing,
         LosesNothing, InQueue, On, Cur
  <1>. QED
    BY <1>1, <1>2, <1>3, <1>4, <1>5 DEF Next

\* The inductive invariant.
THEOREM QueuedIsConserved ==
  ASSUME NothingQueues
  PROVE  Spec => []Conserved
  <1>1. Facts /\ Conserved /\ [Next]_vars => Conserved'
    <2>1. Conserved /\ UNCHANGED vars => Conserved'
      BY DEF vars, Conserved, OnlyRemovals, QueuedIsSomewhere, RemovalIsSeen, WorkerLosesNothing,
         LosesNothing, InQueue, On, Cur
    <2>. QED
      BY <2>1, ConservedStep
  <1>. QED
    BY <1>1, ConservedInit, FactsInvariant, PTL DEF Spec

\* While nothing queues a project, none is left "queued" outside the queue and
\* out of every hand: a stop, a removal from the queue or a deletion may cross a
\* pass of dequeue_next_eligible in any order, on any number of workers, and a
\* shutdown or a lapse of a lease may come at any moment.
THEOREM QueuedIsNeverStranded ==
  ASSUME NothingQueues
  PROVE  Spec => []NoStranded
  <1>1. Conserved => NoStranded
    BY DEF Conserved, QueuedIsSomewhere, NoStranded, InHand, Removing
  <1>. QED
    BY <1>1, QueuedIsConserved, PTL

\* Nor does it lose its payload while no operation has it in hand.
THEOREM PayloadIsKept ==
  ASSUME NothingQueues
  PROVE  Spec => []QueuedHasPayload
  <1>1. Conserved /\ TypeOK => QueuedHasPayload
    BY DEF Conserved, RemovalIsSeen, QueuedHasPayload, InHand
  <1>. QED
    BY <1>1, QueuedIsConserved, TypeCorrect, PTL

------------------------------------------------------------------------------
(* The order of the claims.                                                    *)

\* One worker, and no request, job or loop: what a pass does to the queue by itself.
\* (A request may free a slot, or change a status, that the pass has looked at before.)
WorkerIsAlone ==
  /\ \A v, w \in Workers : v = w
  /\ Ops = {} /\ Schedulers = {} /\ Loops = {}

\* With an entry popped in hand.
EntryLabels == {"load", "nopay", "repend", "check", "orphan", "isCancelled", "claim", "commit",
                "refused", "abandon", "abandonFlag", "unpay"}

\* The projects of the channels that have no slot left for them.
Busy == {p \in Projects : ~SlotFree(p)}

AllIdle == \A a \in Actors : act[a].at = "idle"

\* The entries left in the queue come after the one in hand.
NoneBefore(w) ==
  wk[w].at \in EntryLabels => \A q \in Projects : zqueue[q] # 0 => zqueue[q] >= wk[w].score

\* An entry is set aside because its channel has no slot left, but for the one that
\* meets a full disk, after which the pass takes no other.
HeldAreBusy(w) ==
  wk[w].at # "flush" \/ DiskOutcomes = {TRUE}
    => \A q \in Projects : wk[w].held[q] # 0 /\ status[q] = "queued" => q \in Busy

\* What a claim has seen is still true: nobody else writes a status.
ClaimIsExact(w) ==
  \A p \in Projects : Cur(w) = p =>
    /\ wk[w].at = "repend" => status[p] = "queued"
    /\ wk[w].at = "commit" => (wk[w].fits <=> status[p] = "queued" /\ p \notin Busy)
    /\ wk[w].at = "refused" => (status[p] = "queued" => p \in Busy)

NothingHeld(w) ==
  wk[w].at \notin DequeueLabels => wk[w].tries = 0 /\ \A q \in Projects : wk[w].held[q] = 0

\* The entries popped in a pass are out of the queue.
TriesCount(w) ==
  wk[w].at # "flush" => wk[w].tries + Cardinality(QueueMembers) <= Cardinality(Projects)

\* A pass that takes nothing has seen all the queue.
PassIsThorough(w) ==
  wk[w].at = "flush" /\ Cur(w) = NoProject /\ DiskOutcomes = {TRUE}
    => \A q \in Projects : zqueue[q] # 0 /\ status[q] = "queued" => q \in Busy

InOrder(w) == AllIdle /\ NoneBefore(w) /\ HeldAreBusy(w) /\ ClaimIsExact(w) /\ NothingHeld(w)

Thorough(w) == TriesCount(w) /\ PassIsThorough(w)

\* A project that goes on running keeps its slot.
LEMMA BusyStays ==
  ASSUME \A q \in Projects : status[q] = "running" => status'[q] = "running"
  PROVE  Busy \subseteq Busy'
  <1>1. SUFFICES ASSUME NEW p \in Projects, SlotFree(p)' PROVE SlotFree(p)
    BY DEF Busy
  <1>. DEFINE c == ChannelOf[p]
              now == Running(c) \ {p}
              next == Running(c)' \ {p}
  <1>2. c \in Channels /\ MaxSlots[c] \in Nat
    BY StoreAssumption
  <1>3. now \subseteq next /\ next \subseteq Projects /\ IsFiniteSet(next)
    BY StoreAssumption, FS_Subset DEF Running
  <1>4. Cardinality(now) <= Cardinality(next) /\ Cardinality(now) \in Nat /\ Cardinality(next) \in Nat
    BY <1>3, FS_Subset, FS_CardinalityType
  <1>5. Cardinality(next) < MaxSlots[c]
    BY <1>1 DEF SlotFree
  <1>6. Cardinality(now) < MaxSlots[c]
    BY <1>2, <1>4, <1>5
  <1>. QED
    BY <1>6 DEF SlotFree

LEMMA BusyIsKept ==
  ASSUME UNCHANGED status
  PROVE  Busy' = Busy
  BY DEF Busy, SlotFree, Running

\* Nothing happens without requests.
LEMMA NobodyActs ==
  ASSUME WorkerIsAlone, AllIdle, NEW a \in Actors
  PROVE  ~Asks(a) /\ ~Client(a) /\ ~Abort(a)
  <1>1. a \in Callers /\ a \notin Schedulers /\ a \notin {"reconcile"} \X Workers
        /\ a \notin {"resume"} \X Workers /\ act[a].at = "idle"
    BY ClientAssumption DEF WorkerIsAlone, Actors, AllIdle
  <1>2. ~Asks(a)
    BY <1>1 DEF WorkerIsAlone, Asks, Request, RunRequest, StopRequest, RemoveRequest, DeleteRequest
  <1>3. ~Proceed(a)
    BY <1>1 DEF Proceed, Enqueue, Remove, Stop, At, IsQueued, EnqueueZscore, EnqueueRead, EnqueueLease,
       EnqueueClear, EnqueuePayload, EnqueueZadd, EnqueueMark, RemoveZrem, RemoveRecheck, RemoveDrop,
       RemoveFlag, RemoveUnqueue, DeleteErase, StopRefresh, StopFlag, StopWrite,
       Prune, PruneStart, PruneRead, PruneZrem, PrunePayload, Reconcile, ReconcileStart, ReconcileNext,
       Resume, ResumeStart, ResumeNext, ResumeClaim, ResumeRepause
  <1>4. ~Job(a)
    BY <1>1 DEF Job, JobStart, JobNext, At
  <1>. QED
    BY <1>1, <1>2, <1>3, <1>4 DEF Client, Abort

\* A step of a pass keeps its order.
LEMMA DequeueInOrder ==
  ASSUME Facts, NEW w \in Workers, InOrder(w), Dequeue(w), UNCHANGED act
  PROVE  InOrder(w)'
  <1>. DEFINE Kept == Busy' = Busy /\ UNCHANGED status
  <1>0. UNCHANGED store => Kept /\ UNCHANGED zqueue
    BY BusyIsKept DEF store
  <1>00. UNCHANGED status => Kept
    BY BusyIsKept
  <1>. HIDE DEF Kept
  <1>k. Kept => Busy' = Busy /\ UNCHANGED status
    BY DEF Kept
  <1>i. AllIdle'
    BY DEF InOrder, AllIdle
  <1>d. ASSUME NEW l \in {"flush", "pop"}, Defer(w, l)
        PROVE  /\ wk'[w].at = l /\ wk'[w].cur = NoProject
               /\ wk'[w].held = [wk[w].held EXCEPT ![Cur(w)] = wk[w].score]
    <2>1. l \in WorkerLabels
      BY DEF WorkerLabels, DequeueLabels
    <2>. QED
      BY <1>d, <2>1, DeferHolds DEF Facts, TypeOK
  <1>. USE <1>0, <1>00, <1>k, <1>i DEF Facts, TypeOK, StoreTypeOK, WorkerTypeOK, WorkerStates, CurIsInHand,
           WAt, Cur, InOrder, NoneBefore, HeldAreBusy, ClaimIsExact, NothingHeld, EntryLabels, DequeueLabels
  <1>1. CASE StartPassW(w)
    BY <1>1 DEF StartPassW, WGo
  <1>2. CASE Pop(w)
    <2>1. UNCHANGED status
      BY <1>2 DEF Pop
    <2>2. CASE WGo(w, "flush")
      BY <1>2, <2>1, <2>2 DEF WGo, Pop
    <2>3. ASSUME NEW p \in Heads, ZRem(p),
                 wk' = [wk EXCEPT ![w].at = "load", ![w].cur = p, ![w].score = zqueue[p],
                                  ![w].tries = @ + 1]
          PROVE  InOrder(w)'
      <3>1. /\ p \in Projects /\ \A q \in Projects : zqueue[q] # 0 => zqueue[p] <= zqueue[q]
            /\ \A q \in Projects : zqueue'[q] # 0 => zqueue'[q] = zqueue[q]
        BY <2>3 DEF Heads, QueueMembers, InQueue, ZRem
      <3>2. /\ wk'[w].at = "load" /\ wk'[w].cur = p /\ wk'[w].score = zqueue[p]
            /\ wk'[w].held = wk[w].held
        BY <2>3
      <3>3. NoneBefore(w)'
        BY <3>1, <3>2
      <3>4. HeldAreBusy(w)'
        BY <1>2, <2>1, <3>2 DEF Pop
      <3>. QED
        BY <3>2, <3>3, <3>4
    <2>. QED
      BY <1>2, <2>2, <2>3 DEF Pop
  <1>3. CASE LoadPayload(w)
    BY <1>3 DEF LoadPayload, WGo
  <1>4. CASE NoPayload(w)
    <2>1. Cur(w) \in Projects /\ UNCHANGED store
      BY <1>4 DEF NoPayload
    <2>2. CASE status[Cur(w)] = "queued" /\ WGo(w, "repend")
      BY <1>4, <2>1, <2>2 DEF NoPayload, WGo
    <2>3. CASE NextEntry(w)
      BY <1>4, <2>1, <2>3 DEF NoPayload, NextEntry
    <2>. QED
      BY <1>4, <2>2, <2>3 DEF NoPayload
  <1>5. CASE SetPending(w)
    <2>1. Cur(w) \in Projects /\ status[Cur(w)] = "queued" /\ status' = [status EXCEPT ![Cur(w)] = "pending"]
      BY <1>5 DEF SetPending, UpdateProjectStatus
    <2>2. Busy \subseteq Busy'
      BY <2>1, BusyStays
    <2>. QED
      BY <1>5, <2>1, <2>2 DEF SetPending, NextEntry
  <1>6. CASE CheckStatus(w)
    BY <1>6 DEF CheckStatus, WGo
  <1>7. CASE DropOrphan(w)
    BY <1>7 DEF DropOrphan, NextEntry
  <1>8. CASE CheckCancel(w)
    BY <1>8 DEF CheckCancel, WGo
  <1>9. CASE AbandonPayload(w)
    BY <1>9 DEF AbandonPayload, WGo
  <1>10. CASE AbandonFlag(w)
    BY <1>10 DEF AbandonFlag, NextEntry
  <1>11. CASE ClaimSnapshot(w)
    <2>0. UNCHANGED store
      BY <1>11 DEF ClaimSnapshot
    <2>1. ASSUME Defer(w, "flush"), FALSE \in DiskOutcomes
          PROVE  InOrder(w)'
      <3>1. wk'[w].at = "flush" /\ wk'[w].cur = NoProject
        BY <1>d, <2>1
      <3>. QED
        BY <2>0, <2>1, <3>1, StoreAssumption
    <2>2. ASSUME wk' = [wk EXCEPT ![w].at = "commit",
                                  ![w].fits = status[Cur(w)] = "queued" /\ SlotFree(Cur(w))]
          PROVE  InOrder(w)'
      <3>1. /\ wk'[w].at = "commit" /\ wk'[w].cur = wk[w].cur /\ wk'[w].score = wk[w].score
            /\ wk'[w].held = wk[w].held
        BY <2>2
      <3>2. Cur(w) \in Projects
        BY <1>11 DEF ClaimSnapshot
      <3>3. wk'[w].fits = (status[Cur(w)] = "queued" /\ SlotFree(Cur(w)))
        BY <2>2
      <3>4. wk'[w].fits <=> status[Cur(w)] = "queued" /\ Cur(w) \notin Busy
        BY <3>2, <3>3 DEF Busy
      <3>. QED
        BY <1>11, <2>0, <3>1, <3>4 DEF ClaimSnapshot
    <2>. QED
      <3>1. PICK enough \in DiskOutcomes :
              \/ ~enough /\ Defer(w, "flush")
              \/ enough /\ wk' = [wk EXCEPT ![w].at = "commit",
                                  ![w].fits = status[Cur(w)] = "queued" /\ SlotFree(Cur(w))]
        BY <1>11 DEF ClaimSnapshot
      <3>2. enough \in BOOLEAN
        BY WorkerAssumption
      <3>. QED
        BY <2>1, <2>2, <3>1, <3>2
  <1>12. CASE ClaimCommit(w)
    <2>1. CASE status[Cur(w)] = "queued" /\ wk[w].fits
      <3>1. Cur(w) \in Projects /\ status' = [status EXCEPT ![Cur(w)] = "running"]
        BY <1>12, <2>1 DEF ClaimCommit, UpdateProjectStatus
      <3>2. Busy \subseteq Busy'
        BY <3>1, BusyStays
      <3>. QED
        <4>1. WGo(w, "unpay") /\ wk[w].at = "commit" /\ UNCHANGED zqueue
          BY <1>12, <2>1 DEF ClaimCommit
        <4>2. wk'[w].at = "unpay" /\ wk'[w].score = wk[w].score /\ wk'[w].held = wk[w].held
          BY <4>1 DEF WGo
        <4>3. \A q \in Projects : status'[q] = "queued" => status[q] = "queued"
          BY <3>1
        <4>. QED
          BY <3>2, <4>1, <4>2, <4>3
    <2>2. CASE ~(status[Cur(w)] = "queued" /\ wk[w].fits)
      <3>1. /\ Cur(w) \in Projects /\ UNCHANGED <<status, zqueue>> /\ wk[w].at = "commit"
            /\ WGo(w, "refused")
        BY <1>12, <2>2 DEF ClaimCommit
      <3>2. wk'[w].at = "refused" /\ wk'[w].cur = Cur(w) /\ wk'[w].score = wk[w].score
            /\ wk'[w].held = wk[w].held
        BY <3>1 DEF WGo
      <3>3. status[Cur(w)] = "queued" => Cur(w) \in Busy
        BY <2>2, <3>1
      <3>. QED
        BY <3>1, <3>2, <3>3
    <2>. QED
      BY <2>1, <2>2
  <1>13. CASE ClaimRefused(w)
    <2>0. UNCHANGED store /\ Cur(w) \in Projects
      BY <1>13 DEF ClaimRefused
    <2>1. CASE status[Cur(w)] = "queued" /\ Defer(w, "pop")
      <3>1. /\ wk'[w].at = "pop" /\ wk'[w].cur = NoProject
            /\ wk'[w].held = [wk[w].held EXCEPT ![Cur(w)] = wk[w].score]
        BY <1>d, <2>1
      <3>2. Cur(w) \in Busy
        BY <1>13, <2>0, <2>1 DEF ClaimRefused
      <3>3. \A q \in Projects : wk'[w].held[q] # 0 => wk[w].held[q] # 0 \/ q = Cur(w)
        BY <2>0, <3>1
      <3>. QED
        BY <1>13, <2>0, <3>1, <3>2, <3>3, StoreAssumption DEF ClaimRefused
    <2>2. CASE WGo(w, "abandon")
      BY <1>13, <2>0, <2>2 DEF WGo, ClaimRefused
    <2>. QED
      BY <1>13, <2>1, <2>2 DEF ClaimRefused
  <1>14. CASE Claimed(w)
    BY <1>14 DEF Claimed
  <1>15. CASE Reenqueue(w)
    <2>1. PICK p \in Projects : wk' = [wk EXCEPT ![w].held[p] = 0]
      BY <1>15 DEF Reenqueue, Held
    <2>2. /\ wk'[w].at = "flush" /\ \A q \in Projects : wk'[w].held[q] # 0 => wk[w].held[q] # 0
      BY <1>15, <2>1 DEF Reenqueue
    <2>. QED
      BY <1>15, <2>2 DEF Reenqueue
  <1>16. CASE EndPass(w)
    <2>1. \A q \in Projects : wk[w].held[q] = 0
      BY <1>16 DEF EndPass, Held
    <2>2. wk'[w].at \in {"top", "lease"} /\ wk'[w].tries = 0 /\ wk'[w].held = wk[w].held
      BY <1>16 DEF EndPass
    <2>. QED
      BY <1>16, <2>1, <2>2 DEF EndPass
  <1>. QED
    BY <1>1, <1>2, <1>3, <1>4, <1>5, <1>6, <1>7, <1>8, <1>9, <1>10, <1>11, <1>12, <1>13, <1>14,
       <1>15, <1>16 DEF Dequeue

\* Outside of a pass nothing is set aside.
LEMMA ProcessInOrder ==
  ASSUME Facts, NEW w \in Workers, InOrder(w), Process(w) \/ Finish(w) \/ Interrupt(w), UNCHANGED act
  PROVE  /\ InOrder(w)' /\ wk[w].at \notin DequeueLabels /\ wk'[w].at \notin DequeueLabels
         /\ UNCHANGED zqueue
  <1>1. /\ wk[w].at \notin DequeueLabels /\ wk'[w].at \notin DequeueLabels
        /\ wk'[w].held = wk[w].held /\ wk'[w].tries = wk[w].tries
        /\ UNCHANGED zqueue
    <2>. USE DEF Facts, TypeOK, WorkerTypeOK, WorkerStates, DequeueLabels, TaskLabels, WAt, WGo, store
    <2>1. CASE TakeLease(w) \/ StartPipeline(w) \/ Gate(w) \/ InterruptedChecksFlag(w)
      BY <2>1 DEF TakeLease, StartPipeline, Gate, InterruptedChecksFlag
    <2>2. CASE CancelledChecksFlag(w) \/ Settle(w) \/ CheckLease(w) \/ ReleaseLease(w) \/ EndTask(w)
      BY <2>2 DEF CancelledChecksFlag, Settle, CheckLease, ReleaseLease, EndTask
    <2>3. CASE Watch(w)
      BY <2>3 DEF Watch, CancelTask
    <2>4. CASE Finish(w) \/ Interrupt(w)
      BY <2>4 DEF Finish, Interrupt
    <2>. QED
      BY <2>1, <2>2, <2>3, <2>4 DEF Process
  <1>. QED
    BY <1>1 DEF InOrder, AllIdle, NoneBefore, HeldAreBusy, ClaimIsExact, NothingHeld, DequeueLabels,
       EntryLabels

\* A signal, the end of the process or its start.
LEMMA ProcessEndsInOrder ==
  ASSUME Facts, NEW w \in Workers, InOrder(w), UNCHANGED act,
         UNCHANGED store, wk'[w] = Off \/ wk'[w] = Ready
  PROVE  InOrder(w)'
  <1>1. /\ wk'[w].at \in {"off", "top"} /\ wk'[w].tries = 0
        /\ \A q \in Projects : wk'[w].held[q] = 0
    BY DEF Off, Ready
  <1>. QED
    BY <1>1 DEF InOrder, AllIdle, NoneBefore, HeldAreBusy, ClaimIsExact, NothingHeld, DequeueLabels,
       EntryLabels

LEMMA SignalInOrder ==
  ASSUME Facts, NEW w \in Workers, InOrder(w), UNCHANGED act, Shutdown(w)
  PROVE  /\ InOrder(w)' /\ UNCHANGED store
         /\ wk'[w].tries = wk[w].tries
         /\ \/ wk'[w].at = wk[w].at /\ wk'[w].cur = wk[w].cur
            \/ wk[w].at \notin DequeueLabels /\ wk'[w].at \notin DequeueLabels
  <1>1. UNCHANGED store /\ Busy' = Busy
    BY BusyIsKept DEF Shutdown, store
  <1>2. CASE wk[w].at \in TaskLabels
    <2>1. /\ wk[w].at \notin DequeueLabels /\ wk'[w].at \notin DequeueLabels
          /\ wk'[w].held = wk[w].held /\ wk'[w].tries = wk[w].tries
      BY <1>2 DEF Shutdown, CancelTask, Facts, TypeOK, WorkerTypeOK, WorkerStates, DequeueLabels, TaskLabels
    <2>. QED
      BY <1>1, <2>1 DEF InOrder, AllIdle, NoneBefore, HeldAreBusy, ClaimIsExact, NothingHeld,
         DequeueLabels, EntryLabels
  <1>3. CASE wk[w].at \notin TaskLabels
    <2>1. /\ wk'[w].at = wk[w].at /\ wk'[w].cur = wk[w].cur /\ wk'[w].held = wk[w].held
          /\ wk'[w].tries = wk[w].tries /\ wk'[w].score = wk[w].score /\ wk'[w].fits = wk[w].fits
      BY <1>3 DEF Shutdown, Facts, TypeOK, WorkerTypeOK, WorkerStates
    <2>. QED
      BY <1>1, <2>1 DEF InOrder, AllIdle, NoneBefore, HeldAreBusy, ClaimIsExact, NothingHeld, Cur, store
  <1>. QED
    BY <1>2, <1>3

LEMMA StepInOrder ==
  ASSUME WorkerIsAlone, NEW w \in Workers, Facts, InOrder(w), Next
  PROVE  InOrder(w)'
  <1>0. Workers = {w} /\ AllIdle
    BY DEF InOrder, WorkerIsAlone
  <1>1. ASSUME NEW a \in Actors PROVE ~Asks(a) /\ ~Client(a) /\ ~Abort(a)
    BY <1>0, NobodyActs
  <1>2. ASSUME Worker(w) PROVE InOrder(w)'
    BY <1>0, <1>2, DequeueInOrder, ProcessInOrder DEF Worker, WorkerStep
  <1>3. ASSUME Sigterm(w) PROVE InOrder(w)'
    BY <1>0, <1>3, SignalInOrder DEF Sigterm
  <1>4. ASSUME Exit(w) \/ Kill(w) \/ Restart(w) \/ Crash(w) PROVE InOrder(w)'
    <2>1. UNCHANGED store /\ (wk'[w] = Off \/ wk'[w] = Ready)
      BY <1>0, <1>4 DEF Exit, Kill, Restart, Crash, Facts, TypeOK, WorkerTypeOK
    <2>2. UNCHANGED act
      <3>1. ASSUME StopLoops(w) PROVE UNCHANGED act
        <4>1. act \in [Actors -> ActorStates] /\ Loops \X {w} = {}
          BY DEF Facts, TypeOK, ClientTypeOK, WorkerIsAlone
        <4>. QED
          BY <3>1, <4>1 DEF StopLoops, LoopsOf
      <3>. QED
        BY <1>4, <3>1 DEF Exit, Kill, Restart, Crash
    <2>. QED
      BY <1>0, <2>1, <2>2, ProcessEndsInOrder
  <1>5. ASSUME NEW p \in Projects, LeaseExpires(p) \/ LeaseLapses(p) PROVE InOrder(w)'
    <2>1. UNCHANGED <<status, zqueue, act, wk>> /\ Busy' = Busy
      BY <1>5, BusyIsKept DEF LeaseExpires, LeaseLapses
    <2>. QED
      BY <2>1 DEF InOrder, AllIdle, NoneBefore, HeldAreBusy, ClaimIsExact, NothingHeld, Cur
  <1>. QED
    BY <1>0, <1>1, <1>2, <1>3, <1>4, <1>5 DEF Next

Ordered == \A w \in Workers : InOrder(w)

LEMMA OrderInvariant ==
  ASSUME WorkerIsAlone
  PROVE  Spec => []Ordered
  <1>1. Init => Ordered
    <2>. SUFFICES ASSUME Init, NEW w \in Workers PROVE InOrder(w)
      BY DEF Ordered
    <2>1. /\ wk[w].at = "top" /\ wk[w].tries = 0 /\ \A q \in Projects : wk[w].held[q] = 0
      BY DEF Init, Ready, Off
    <2>2. AllIdle
      BY DEF Init, AllIdle, Idle
    <2>. QED
      BY <2>1, <2>2 DEF InOrder, NoneBefore, HeldAreBusy, ClaimIsExact, NothingHeld, DequeueLabels,
         EntryLabels
  <1>2. Facts /\ Ordered /\ [Next]_vars => Ordered'
    <2>. SUFFICES ASSUME Facts, [Next]_vars, NEW w \in Workers, InOrder(w) PROVE InOrder(w)'
      BY DEF Ordered
    <2>1. ASSUME UNCHANGED vars PROVE InOrder(w)'
      <3>1. UNCHANGED <<status, zqueue, act, wk>> /\ Busy' = Busy
        BY <2>1, BusyIsKept DEF vars
      <3>. QED
        BY <3>1 DEF InOrder, AllIdle, NoneBefore, HeldAreBusy, ClaimIsExact, NothingHeld, Cur
    <2>. QED
      BY <2>1, StepInOrder
  <1>. QED
    BY <1>1, <1>2, FactsInvariant, PTL DEF Spec

\* Alone and undisturbed, a worker claims a project before the entries behind it: no
\* other queued project with a better score could have been claimed instead
\* (dequeue_next_eligible), whatever the priorities, the slots, the disk and the crashes.
THEOREM BestIsClaimed ==
  ASSUME WorkerIsAlone
  PROVE  Spec => ClaimsBest
  <1>. DEFINE Best == \A w \in Workers : wk[w].at = "commit" /\ wk'[w].at = "unpay"
                        => \A q \in Projects \ {Cur(w)} :
                             /\ status[q] = "queued" /\ ~cancel[q]
                             /\ (InQueue(q) /\ zqueue[q] < wk[w].score) \/ wk[w].held[q] # 0
                             => ~SlotFree(q)
  <1>1. Facts /\ Ordered => [Best]_vars
    <2>. SUFFICES ASSUME Facts, NEW w \in Workers, InOrder(w), wk[w].at = "commit",
                         NEW q \in Projects, status[q] = "queued",
                         (InQueue(q) /\ zqueue[q] < wk[w].score) \/ wk[w].held[q] # 0
                  PROVE  ~SlotFree(q)
      BY DEF Ordered
    <2>1. zqueue[q] \in Nat /\ wk[w].score \in Nat
      BY DEF Facts, TypeOK, StoreTypeOK, WorkerTypeOK, WorkerStates
    <2>2. wk[w].held[q] # 0
      BY <2>1 DEF InOrder, NoneBefore, EntryLabels, InQueue
    <2>. QED
      BY <2>2 DEF InOrder, HeldAreBusy, Busy
  <1>. QED
    BY <1>1, OrderInvariant, FactsInvariant, PTL DEF ClaimsBest

------------------------------------------------------------------------------
(* The end of a pass.                                                          *)

LEMMA MembersAreFinite ==
  /\ IsFiniteSet(QueueMembers) /\ Cardinality(QueueMembers) \in Nat
  /\ Cardinality(Projects) \in Nat /\ Cardinality(QueueMembers) <= Cardinality(Projects)
  <1>1. QueueMembers \subseteq Projects
    BY DEF QueueMembers
  <1>. QED
    BY <1>1, StoreAssumption, FS_Subset, FS_CardinalityType

\* Before the first pop no more entries are in the queue than there are projects.
LEMMA NoneIsPopped ==
  ASSUME NEW w \in Workers, wk'[w].at # "flush", wk'[w].tries = 0
  PROVE  Thorough(w)'
  <1>. DEFINE members == {p \in Projects : zqueue'[p] # 0}
              n == Cardinality(members)
  <1>1. members \subseteq Projects
    OBVIOUS
  <1>2. n \in Nat /\ Cardinality(Projects) \in Nat /\ n <= Cardinality(Projects)
    BY <1>1, StoreAssumption, FS_Subset, FS_CardinalityType
  <1>. HIDE DEF n
  <1>3. 0 + n <= Cardinality(Projects)
    BY <1>2
  <1>4. TriesCount(w)'
    BY <1>3 DEF TriesCount, QueueMembers, InQueue, n
  <1>. QED
    BY <1>4 DEF Thorough, PassIsThorough

\* The entries popped are counted, and what a pass has not popped has no slot.
LEMMA DequeueIsThorough ==
  ASSUME Facts, NEW w \in Workers, InOrder(w), Thorough(w), Dequeue(w),
         MaxAttempts >= Cardinality(Projects)
  PROVE  Thorough(w)'
  <1>0. UNCHANGED zqueue => QueueMembers' = QueueMembers
    BY DEF QueueMembers, InQueue
  <1>b. UNCHANGED status => Busy' = Busy
    BY BusyIsKept
  <1>m. Cardinality(QueueMembers) \in Nat /\ Cardinality(Projects) \in Nat
    BY MembersAreFinite
  <1>c. wk[w].tries \in Nat /\ wk[w].tries <= MaxAttempts /\ MaxAttempts \in Nat
    BY WorkerAssumption DEF Facts, TypeOK, WorkerTypeOK, WorkerStates
  <1>. USE DEF WAt, Thorough, TriesCount, PassIsThorough
  <1>1. CASE Pop(w)
    <2>1. wk[w].at = "pop" /\ wk[w].tries + Cardinality(QueueMembers) <= Cardinality(Projects)
      BY <1>1 DEF Pop
    <2>2. CASE /\ WGo(w, "flush") /\ UNCHANGED zqueue /\ (wk[w].tries = MaxAttempts \/ QueueMembers = {})
      <3>1. QueueMembers = {}
        <4>1. Cardinality(QueueMembers) = 0 \/ QueueMembers = {}
          BY <1>c, <1>m, <2>1, <2>2
        <4>. QED
          BY <4>1, MembersAreFinite, FS_EmptySet
      <3>2. \A q \in Projects : zqueue'[q] = 0
        BY <2>2, <3>1 DEF QueueMembers, InQueue
      <3>3. wk'[w].at = "flush"
        BY <2>2 DEF WGo, Facts, TypeOK, WorkerTypeOK, WorkerStates
      <3>. QED
        BY <3>2, <3>3
    <2>3. ASSUME NEW p \in Heads, ZRem(p),
                 wk' = [wk EXCEPT ![w].at = "load", ![w].cur = p, ![w].score = zqueue[p],
                                  ![w].tries = @ + 1]
          PROVE  Thorough(w)'
      <3>1. p \in QueueMembers /\ QueueMembers' = QueueMembers \ {p}
        BY <2>3 DEF Heads, QueueMembers, InQueue, ZRem, Facts, TypeOK, StoreTypeOK
      <3>2. Cardinality(QueueMembers') = Cardinality(QueueMembers) - 1
        BY <3>1, MembersAreFinite, FS_RemoveElement
      <3>3. wk'[w].at = "load" /\ wk'[w].tries = wk[w].tries + 1
        BY <2>3 DEF Facts, TypeOK, WorkerTypeOK, WorkerStates
      <3>. QED
        BY <1>c, <1>m, <2>1, <3>2, <3>3
    <2>. QED
      BY <1>1, <2>2, <2>3 DEF Pop
  <1>2. CASE ClaimSnapshot(w)
    <2>1. UNCHANGED zqueue /\ wk[w].at = "claim"
      BY <1>2 DEF ClaimSnapshot, store
    <2>2. CASE FALSE \in DiskOutcomes /\ Defer(w, "flush")
      <3>1. wk'[w].at = "flush" /\ DiskOutcomes # {TRUE}
        BY <2>2, DeferHolds DEF Facts, TypeOK, WorkerLabels, DequeueLabels
      <3>. QED
        BY <3>1
    <2>3. CASE wk' = [wk EXCEPT ![w].at = "commit",
                                ![w].fits = status[Cur(w)] = "queued" /\ SlotFree(Cur(w))]
      <3>1. wk'[w].at = "commit" /\ wk'[w].tries = wk[w].tries
        BY <2>3 DEF Facts, TypeOK, WorkerTypeOK, WorkerStates
      <3>. QED
        BY <1>0, <2>1, <3>1
    <2>4. PICK enough \in DiskOutcomes :
            \/ ~enough /\ Defer(w, "flush")
            \/ enough /\ wk' = [wk EXCEPT ![w].at = "commit",
                                ![w].fits = status[Cur(w)] = "queued" /\ SlotFree(Cur(w))]
      BY <1>2 DEF ClaimSnapshot
    <2>5. enough \in BOOLEAN
      BY WorkerAssumption
    <2>. QED
      BY <2>2, <2>3, <2>4, <2>5
  <1>3. CASE Claimed(w)
    <2>1. wk'[w].at = "flush" /\ wk'[w].cur = wk[w].cur /\ wk[w].cur \in Projects
      BY <1>3 DEF Claimed, Facts, TypeOK, WorkerTypeOK, WorkerStates, CurIsInHand, Cur
    <2>. QED
      BY <2>1, StoreAssumption DEF Cur
  <1>4. CASE Reenqueue(w)
    <2>1. PICK p \in Projects : /\ wk[w].held[p] # 0 /\ wk' = [wk EXCEPT ![w].held[p] = 0]
                              /\ ZAdd(p, wk[w].held[p])
      BY <1>4 DEF Reenqueue, Held
    <2>2. wk'[w].at = "flush" /\ wk[w].at = "flush" /\ wk'[w].cur = wk[w].cur /\ UNCHANGED status
      BY <1>4, <2>1 DEF Reenqueue, Facts, TypeOK, WorkerTypeOK, WorkerStates
    <2>3. \A q \in Projects : zqueue'[q] # 0 => zqueue[q] # 0 \/ q = p
      BY <2>1 DEF ZAdd, Facts, TypeOK, StoreTypeOK
    <2>4. DiskOutcomes = {TRUE} => (status[p] = "queued" => p \in Busy)
      BY <2>1, <2>2 DEF InOrder, HeldAreBusy
    <2>. QED
      BY <1>b, <2>2, <2>3, <2>4 DEF Cur
  <1>5. CASE EndPass(w)
    <2>1. wk'[w].at \in {"top", "lease"} /\ wk'[w].tries = 0
      BY <1>5 DEF EndPass, Facts, TypeOK, WorkerTypeOK, WorkerStates
    <2>. QED
      BY <2>1, NoneIsPopped
  <1>. DEFINE GoesOn == /\ UNCHANGED zqueue /\ wk[w].at # "flush" /\ wk'[w].at # "flush"
                        /\ wk'[w].tries = wk[w].tries
  <1>6. ASSUME GoesOn PROVE Thorough(w)'
    BY <1>0, <1>6
  <1>7. ASSUME \/ StartPassW(w) \/ LoadPayload(w) \/ CheckStatus(w) \/ CheckCancel(w) \/ NoPayload(w)
               \/ SetPending(w) \/ DropOrphan(w) \/ AbandonPayload(w) \/ AbandonFlag(w)
               \/ ClaimCommit(w) \/ ClaimRefused(w)
        PROVE  Thorough(w)'
    <2>. USE DEF Facts, TypeOK, WorkerTypeOK, WorkerStates, WGo, store
    <2>1. CASE StartPassW(w) \/ LoadPayload(w) \/ CheckStatus(w) \/ CheckCancel(w)
      <3>1. GoesOn
        BY <2>1 DEF StartPassW, LoadPayload, CheckStatus, CheckCancel
      <3>. QED
        BY <1>6, <3>1
    <2>2. CASE NoPayload(w) \/ SetPending(w)
      <3>1. GoesOn
        BY <2>2 DEF NoPayload, SetPending, NextEntry
      <3>. QED
        BY <1>6, <3>1
    <2>3. CASE DropOrphan(w) \/ AbandonPayload(w) \/ AbandonFlag(w)
      <3>1. GoesOn
        BY <2>3 DEF DropOrphan, AbandonPayload, AbandonFlag, NextEntry
      <3>. QED
        BY <1>6, <3>1
    <2>4. CASE ClaimCommit(w)
      <3>1. GoesOn
        BY <2>4 DEF ClaimCommit
      <3>. QED
        BY <1>6, <3>1
    <2>5. CASE ClaimRefused(w)
      <3>1. GoesOn
        BY <2>5 DEF ClaimRefused, Defer
      <3>. QED
        BY <1>6, <3>1
    <2>. QED
      BY <1>7, <2>1, <2>2, <2>3, <2>4, <2>5
  <1>. QED
    BY <1>1, <1>2, <1>3, <1>4, <1>5, <1>7 DEF Dequeue

\* A pass goes back to the loop with nothing in hand.
LEMMA PassEnds ==
  ASSUME WorkerIsAlone, NEW w \in Workers, Facts, InOrder(w), [Next]_vars,
         wk[w].at = "flush", wk'[w].at = "top"
  PROVE  Cur(w) = NoProject
  <1>0. Workers = {w} /\ ~UNCHANGED vars
    BY DEF vars, WorkerIsAlone
  <1>1. ASSUME NEW a \in Actors PROVE ~Asks(a) /\ ~Client(a) /\ ~Abort(a)
    BY NobodyActs DEF InOrder
  <1>2. ~(Process(w) \/ Finish(w) \/ Interrupt(w))
    BY DEF Process, TakeLease, StartPipeline, Gate, InterruptedChecksFlag, CancelledChecksFlag, Settle,
       Watch, CheckLease, ReleaseLease, EndTask, Finish, Interrupt, WAt, TaskLabels
  <1>3. ASSUME Dequeue(w) PROVE Cur(w) = NoProject
    <2>1. Reenqueue(w) \/ EndPass(w)
      BY <1>3 DEF Dequeue, StartPassW, Pop, LoadPayload, NoPayload, SetPending, CheckStatus, DropOrphan,
         CheckCancel, AbandonPayload, AbandonFlag, ClaimSnapshot, ClaimCommit, ClaimRefused, Claimed, WAt
    <2>2. ~Reenqueue(w)
      BY <1>0 DEF Reenqueue, Facts, TypeOK, WorkerTypeOK, WorkerStates
    <2>. QED
      BY <1>0, <2>1, <2>2 DEF EndPass, Facts, TypeOK, WorkerTypeOK, WorkerStates
  <1>4. ~Sigterm(w)
    BY <1>0 DEF Sigterm, Shutdown, TaskLabels, Facts, TypeOK, WorkerTypeOK, WorkerStates
  <1>5. ~(Exit(w) \/ Kill(w) \/ Restart(w) \/ Crash(w))
    BY <1>0 DEF Exit, Kill, Restart, Crash, Alive, WAt, TaskLabels, Off, Facts, TypeOK, WorkerTypeOK
  <1>6. ASSUME NEW p \in Projects PROVE ~(LeaseExpires(p) \/ LeaseLapses(p))
    BY DEF LeaseExpires, LeaseLapses
  <1>. QED
    BY <1>0, <1>1, <1>2, <1>3, <1>4, <1>5, <1>6 DEF Next, Worker, WorkerStep

\* A worker that may pop as many entries as there are projects, and takes nothing,
\* leaves in the queue no project that it could have taken.
THEOREM NothingIsPassedOver ==
  ASSUME WorkerIsAlone, MaxAttempts >= Cardinality(Projects)
  PROVE  Spec => PassFindsEligible
  <1>. DEFINE Finds == \A w \in Workers :
                 wk[w].at = "flush" /\ wk'[w].at = "top" /\ DiskOutcomes = {TRUE}
                 => \A q \in QueueMembers : status[q] = "queued" => cancel[q] \/ ~SlotFree(q)
              AllThorough == \A w \in Workers : Thorough(w)
  <1>1. Init => AllThorough
    <2>. SUFFICES ASSUME Init, NEW w \in Workers PROVE Thorough(w)
      OBVIOUS
    <2>1. wk[w].at = "top" /\ wk[w].tries = 0
      BY DEF Init, Ready, Off
    <2>. QED
      BY <2>1, MembersAreFinite DEF Thorough, TriesCount, PassIsThorough
  <1>2. Facts /\ Ordered /\ AllThorough /\ [Next]_vars => AllThorough'
    <2>. SUFFICES ASSUME Facts, NEW w \in Workers, InOrder(w), Thorough(w), [Next]_vars
                  PROVE  Thorough(w)'
      BY DEF Ordered
    <2>w. Workers = {w}
      BY DEF WorkerIsAlone
    <2>0. ASSUME UNCHANGED <<status, zqueue>>, wk'[w].at = wk[w].at, wk'[w].tries = wk[w].tries,
                 wk'[w].cur = wk[w].cur
          PROVE  Thorough(w)'
      BY <2>0, BusyIsKept DEF Thorough, TriesCount, PassIsThorough, QueueMembers, InQueue, Cur
    <2>1. ASSUME wk'[w].at # "flush", wk'[w].tries = 0
          PROVE  Thorough(w)'
      BY <2>1, NoneIsPopped
    <2>2. CASE UNCHANGED vars
      BY <2>0, <2>2 DEF vars
    <2>3. ASSUME NEW a \in Actors PROVE ~Asks(a) /\ ~Client(a) /\ ~Abort(a)
      BY NobodyActs DEF InOrder
    <2>4. CASE Worker(w)
      <3>1. CASE Dequeue(w)
        BY <3>1, DequeueIsThorough
      <3>2. CASE Process(w) \/ Finish(w) \/ Interrupt(w)
        <4>1. InOrder(w)' /\ wk'[w].at \notin DequeueLabels
          BY <2>4, <3>2, ProcessInOrder DEF Worker
        <4>. QED
          BY <2>1, <4>1 DEF InOrder, NothingHeld, DequeueLabels
      <3>. QED
        BY <2>4, <3>1, <3>2 DEF Worker, WorkerStep
    <2>5. CASE Sigterm(w)
      <3>1. /\ InOrder(w)' /\ UNCHANGED store /\ wk'[w].tries = wk[w].tries
            /\ \/ wk'[w].at = wk[w].at /\ wk'[w].cur = wk[w].cur
               \/ wk[w].at \notin DequeueLabels /\ wk'[w].at \notin DequeueLabels
        BY <2>5, SignalInOrder DEF Sigterm
      <3>. QED
        BY <2>0, <2>1, <3>1 DEF InOrder, NothingHeld, DequeueLabels, store
    <2>6. CASE Exit(w) \/ Kill(w) \/ Restart(w) \/ Crash(w)
      <3>1. wk'[w] = Off \/ wk'[w] = Ready
        BY <2>6 DEF Exit, Kill, Restart, Crash, Facts, TypeOK, WorkerTypeOK
      <3>. QED
        BY <2>1, <3>1 DEF Off, Ready
    <2>7. ASSUME NEW p \in Projects, LeaseExpires(p) \/ LeaseLapses(p) PROVE Thorough(w)'
      BY <2>0, <2>7 DEF LeaseExpires, LeaseLapses
    <2>. QED
      BY <2>w, <2>2, <2>3, <2>4, <2>5, <2>6, <2>7 DEF Next
  <1>3. Facts /\ Ordered /\ AllThorough /\ [Next]_vars => [Finds]_vars
    <2>. SUFFICES ASSUME Facts, [Next]_vars, NEW w \in Workers, InOrder(w), Thorough(w),
                         wk[w].at = "flush", wk'[w].at = "top", DiskOutcomes = {TRUE},
                         NEW q \in QueueMembers, status[q] = "queued"
                  PROVE  ~SlotFree(q)
      BY DEF Ordered
    <2>1. Cur(w) = NoProject
      BY PassEnds
    <2>2. q \in Projects /\ zqueue[q] # 0
      BY DEF QueueMembers, InQueue
    <2>. QED
      BY <2>1, <2>2 DEF Thorough, PassIsThorough, Busy
  <1>. QED
    BY <1>1, <1>2, <1>3, OrderInvariant, FactsInvariant, PTL DEF PassFindsEligible, Spec
================================================================================

---------------------------- MODULE PipelineWorker ----------------------------
(***************************************************************************)
(* The main coroutine of scripts/pipeline_worker.py: it takes the next     *)
(* eligible project off the queue (dequeue_next_eligible), runs its        *)
(* pipeline under a lease (_process_task, Orchestrator.run_pipeline) and   *)
(* starts again; and the two events that cancel the pipeline being run,    *)
(* the cancel watcher and the shutdown signal.  One action per command     *)
(* sent to a store, as in PipelineClients.                                 *)
(***************************************************************************)
EXTENDS PipelineStore

CONSTANTS
  MaxAttempts,   \* queue_dequeue_max_attempts
  DiskOutcomes   \* answers of is_disk_sufficient

ASSUME WorkerAssumption ==
  /\ MaxAttempts \in Nat \ {0}
  /\ DiskOutcomes \subseteq BOOLEAN

VARIABLE wk  \* the state of each worker process

(* at       next command                                                     *)
(* cur      project popped from the queue, then being processed              *)
(* score    the score it was popped with                                     *)
(* held     scores of the entries set aside (0: none), queued again at the   *)
(*          end of the pass                                                  *)
(* tries    entries popped in this pass                                      *)
(* fits     did the claim's UPDATE find the project queued and a slot free?  *)
(* outcome  the status about to be written at the end of the pipeline        *)
(* watching is the cancel watcher polling the flag?                          *)
(* stopping has the shutdown signal been received?                           *)
Off == [at |-> "off", cur |-> NoProject, score |-> 0, held |-> [p \in Projects |-> 0],
        tries |-> 0, fits |-> FALSE, outcome |-> "none", watching |-> FALSE,
        stopping |-> FALSE]

Ready == [Off EXCEPT !.at = "top"]

DequeueLabels == {"pop", "load", "nopay", "repend", "check", "orphan", "isCancelled",
                  "claim", "commit", "refused", "abandon", "abandonFlag", "unpay", "flush"}

\* From the creation of the pipeline task to its end.
TaskLabels == {"start", "gate", "run", "interrupted", "cancelled", "settle"}

\* While a worker is at one of these, it renews the lease of its project.
LeaseLabels == TaskLabels \cup {"release", "unlease"}

WorkerLabels == {"off", "top", "lease", "uncancel"} \cup DequeueLabels \cup LeaseLabels

Outcomes == {"approved", "failed", "paused", "stopped", "running"}

WorkerStates == [at : WorkerLabels, cur : Projects \cup {NoProject}, score : Nat,
                 held : [Projects -> Nat], tries : 0 .. MaxAttempts,
                 fits : BOOLEAN, outcome : Outcomes \cup {"none"},
                 watching : BOOLEAN, stopping : BOOLEAN]

WorkerTypeOK == wk \in [Workers -> WorkerStates]

------------------------------------------------------------------------------
Cur(w) == wk[w].cur
WAt(w, l) == wk[w].at = l
WGo(w, l) == wk' = [wk EXCEPT ![w].at = l]

Executing(w, p) == wk[w].at \in TaskLabels /\ Cur(w) = p

HoldsLease(w, p) == wk[w].at \in LeaseLabels /\ Cur(w) = p

\* The entry popped is dealt with: back to the loop of the pass.
NextEntry(w) ==
  wk' = [wk EXCEPT ![w].at = "pop", ![w].cur = NoProject, ![w].score = 0, ![w].fits = FALSE]

\* deferred.append: set aside until the end of the pass.
Defer(w, l) ==
  wk' = [wk EXCEPT ![w].at = l, ![w].cur = NoProject, ![w].score = 0, ![w].fits = FALSE,
                   ![w].held[Cur(w)] = wk[w].score]

------------------------------------------------------------------------------
(* dequeue_next_eligible.                                                      *)

StartPassW(w) ==
  /\ WAt(w, "top") /\ ~wk[w].stopping
  /\ WGo(w, "pop")
  /\ UNCHANGED store

Pop(w) ==
  /\ WAt(w, "pop")
  /\ \/ /\ wk[w].tries < MaxAttempts
        /\ \E p \in Heads :
             /\ wk' = [wk EXCEPT ![w].at = "load", ![w].cur = p, ![w].score = zqueue[p],
                                 ![w].tries = @ + 1]
             /\ ZRem(p)
     \/ /\ wk[w].tries = MaxAttempts \/ QueueMembers = {}
        /\ WGo(w, "flush") /\ UNCHANGED zqueue
  /\ UNCHANGED <<status, payload, cancel, lease>>

LoadPayload(w) ==
  /\ WAt(w, "load")
  /\ WGo(w, IF payload[Cur(w)] THEN "check" ELSE "nopay")
  /\ UNCHANGED store

NoPayload(w) ==
  /\ WAt(w, "nopay")
  /\ IF status[Cur(w)] = "queued" THEN WGo(w, "repend") ELSE NextEntry(w)
  /\ UNCHANGED store

SetPending(w) ==
  /\ WAt(w, "repend")
  /\ UpdateProjectStatus(Cur(w), "pending") /\ NextEntry(w)
  /\ UNCHANGED <<zqueue, payload, cancel, lease>>

CheckStatus(w) ==
  /\ WAt(w, "check")
  /\ WGo(w, IF status[Cur(w)] = "queued" THEN "isCancelled" ELSE "orphan")
  /\ UNCHANGED store

DropOrphan(w) ==
  /\ WAt(w, "orphan")
  /\ DeletePayload(Cur(w)) /\ NextEntry(w)
  /\ UNCHANGED <<status, zqueue, cancel, lease>>

CheckCancel(w) ==
  /\ WAt(w, "isCancelled")
  /\ WGo(w, IF cancel[Cur(w)] THEN "abandon" ELSE "claim")
  /\ UNCHANGED store

\* _abandon_dequeued_task: the payload, then the flag.
AbandonPayload(w) ==
  /\ WAt(w, "abandon")
  /\ DeletePayload(Cur(w)) /\ WGo(w, "abandonFlag")
  /\ UNCHANGED <<status, zqueue, cancel, lease>>

AbandonFlag(w) ==
  /\ WAt(w, "abandonFlag")
  /\ RequestCancel(Cur(w)) /\ NextEntry(w)
  /\ UNCHANGED <<status, zqueue, payload, lease>>

\* is_disk_sufficient; then the UPDATE of try_claim_project takes its snapshot
\* (READ COMMITTED): the subquery and the WHERE are evaluated on it.
ClaimSnapshot(w) ==
  /\ WAt(w, "claim")
  /\ \E enough \in DiskOutcomes :
       \/ ~enough /\ Defer(w, "flush")
       \/ /\ enough
          /\ wk' = [wk EXCEPT ![w].at = "commit",
                              ![w].fits = status[Cur(w)] = "queued" /\ SlotFree(Cur(w))]
  /\ UNCHANGED store

\* Mutation of ClaimCommit: the slots of the channel are not counted.
ClaimCommitAnySlot(w) ==
  /\ WAt(w, "commit")
  /\ IF status[Cur(w)] = "queued"
     THEN UpdateProjectStatus(Cur(w), "running") /\ WGo(w, "unpay")
     ELSE UNCHANGED status /\ WGo(w, "refused")
  /\ UNCHANGED <<zqueue, payload, cancel, lease>>

\* The row is locked and its own WHERE re-evaluated, not the subquery.
ClaimCommit(w) ==
  /\ WAt(w, "commit")
  /\ IF wk[w].fits /\ status[Cur(w)] = "queued"
     THEN UpdateProjectStatus(Cur(w), "running") /\ WGo(w, "unpay")
     ELSE UNCHANGED status /\ WGo(w, "refused")
  /\ UNCHANGED <<zqueue, payload, cancel, lease>>

\* Mutations of ClaimRefused: the entry is not set aside; its payload is deleted as
\* well; it goes back to the queue at once.
RefusedIsDropped(w) ==
  /\ WAt(w, "refused")
  /\ IF status[Cur(w)] = "queued" THEN NextEntry(w) ELSE WGo(w, "abandon")
  /\ UNCHANGED store

RefusedLosesPayload(w) ==
  /\ WAt(w, "refused")
  /\ IF status[Cur(w)] = "queued" THEN Defer(w, "pop") ELSE WGo(w, "abandon")
  /\ DeletePayload(Cur(w))
  /\ UNCHANGED <<status, zqueue, cancel, lease>>

RefusedGoesBackAtOnce(w) ==
  /\ WAt(w, "refused")
  /\ IF status[Cur(w)] = "queued" THEN NextEntry(w) /\ ZAdd(Cur(w), wk[w].score)
     ELSE WGo(w, "abandon") /\ UNCHANGED zqueue
  /\ UNCHANGED <<status, payload, cancel, lease>>

ClaimRefused(w) ==
  /\ WAt(w, "refused")
  /\ IF status[Cur(w)] = "queued" THEN Defer(w, "pop") ELSE WGo(w, "abandon")
  /\ UNCHANGED store

Claimed(w) ==
  /\ WAt(w, "unpay")
  /\ DeletePayload(Cur(w))
  /\ wk' = [wk EXCEPT ![w].at = "flush", ![w].score = 0, ![w].fits = FALSE]
  /\ UNCHANGED <<status, zqueue, cancel, lease>>

Held(w) == {p \in Projects : wk[w].held[p] # 0}

\* The finally clause: the entries set aside go back with their score.
Reenqueue(w) ==
  /\ WAt(w, "flush")
  /\ \E p \in Held(w) : ZAdd(p, wk[w].held[p]) /\ wk' = [wk EXCEPT ![w].held[p] = 0]
  /\ UNCHANGED <<status, payload, cancel, lease>>

EndPass(w) ==
  /\ WAt(w, "flush") /\ Held(w) = {}
  /\ wk' = [wk EXCEPT ![w].at = IF Cur(w) = NoProject THEN "top" ELSE "lease",
                      ![w].tries = 0]
  /\ UNCHANGED store

Dequeue(w) ==
  \/ StartPassW(w) \/ Pop(w) \/ LoadPayload(w) \/ NoPayload(w) \/ SetPending(w)
  \/ CheckStatus(w) \/ DropOrphan(w) \/ CheckCancel(w) \/ AbandonPayload(w)
  \/ AbandonFlag(w) \/ ClaimSnapshot(w) \/ ClaimCommit(w) \/ ClaimRefused(w)
  \/ Claimed(w) \/ Reenqueue(w) \/ EndPass(w)

------------------------------------------------------------------------------
(* _process_task and Orchestrator.run_pipeline(already_claimed=True).          *)

TakeLease(w) ==
  /\ WAt(w, "lease")
  /\ AcquireLease(Cur(w), w)
  /\ wk' = [wk EXCEPT ![w].at = "start", ![w].watching = TRUE]
  /\ UNCHANGED <<status, zqueue, payload, cancel>>

\* An exception here (project deleted or no longer running) ends the task.
StartPipeline(w) ==
  /\ WAt(w, "start")
  /\ WGo(w, IF status[Cur(w)] = "running" THEN "gate" ELSE "release")
  /\ UNCHANGED store

\* _raise_if_cancelled, before the try: the status is left as it is.
Gate(w) ==
  /\ WAt(w, "gate")
  /\ WGo(w, IF cancel[Cur(w)] THEN "release" ELSE "run")
  /\ UNCHANGED store

\* The creation ends, well or not, or pauses on a usage limit.
Finish(w) ==
  /\ WAt(w, "run")
  /\ \E o \in {"approved", "failed", "paused"} :
       wk' = [wk EXCEPT ![w].at = "settle", ![w].outcome = o]
  /\ UNCHANGED store

\* StudioInterrupted: the session was cut in the middle of its work.
Interrupt(w) ==
  /\ WAt(w, "run")
  /\ WGo(w, "interrupted")
  /\ UNCHANGED store

InterruptedChecksFlag(w) ==
  /\ WAt(w, "interrupted")
  /\ wk' = [wk EXCEPT ![w].at = "settle",
                      ![w].outcome = IF cancel[Cur(w)] THEN "stopped" ELSE "running"]
  /\ UNCHANGED store

\* The CancelledError handler.
CancelledChecksFlag(w) ==
  /\ WAt(w, "cancelled")
  /\ wk' = [wk EXCEPT ![w].at = "settle",
                      ![w].outcome = IF wk[w].stopping /\ ~cancel[Cur(w)]
                                     THEN "running" ELSE "stopped"]
  /\ UNCHANGED store

Settle(w) ==
  /\ WAt(w, "settle")
  /\ UpdateProjectStatus(Cur(w), wk[w].outcome)
  /\ wk' = [wk EXCEPT ![w].at = "release", ![w].outcome = "none"]
  /\ UNCHANGED <<zqueue, payload, cancel, lease>>

\* Mutation of CancelTask: a cancelled write of the status is carried on.
CancelTaskGoesOn(r) ==
  IF r.at = "run" THEN [r EXCEPT !.at = "cancelled"] ELSE [r EXCEPT !.outcome = "none"]

\* task.cancel(): CancelledError where the task awaits.  Only the execution and
\* the write of "approved" are inside the try that handles it.
CancelTask(r) ==
  IF r.at = "run" \/ (r.at = "settle" /\ r.outcome = "approved")
  THEN [r EXCEPT !.at = "cancelled", !.outcome = "none"]
  ELSE [r EXCEPT !.at = "release", !.outcome = "none"]

\* _cancel_watcher sees the flag; it does so once.
Watch(w) ==
  /\ wk[w].at \in TaskLabels /\ wk[w].watching /\ cancel[Cur(w)]
  /\ wk' = [wk EXCEPT ![w] = CancelTask([wk[w] EXCEPT !.watching = FALSE])]
  /\ UNCHANGED store

\* release_lease: GET, then DELETE if the lease was this worker's.
CheckLease(w) ==
  /\ WAt(w, "release")
  /\ wk' = [wk EXCEPT ![w].at = IF lease[Cur(w)] = w THEN "unlease" ELSE "uncancel",
                      ![w].watching = FALSE]
  /\ UNCHANGED store

ReleaseLease(w) ==
  /\ WAt(w, "unlease")
  /\ DeleteLease(Cur(w)) /\ WGo(w, "uncancel")
  /\ UNCHANGED <<status, zqueue, payload, cancel>>

EndTask(w) ==
  /\ WAt(w, "uncancel")
  /\ ClearCancel(Cur(w))
  /\ wk' = [wk EXCEPT ![w].at = "top", ![w].cur = NoProject]
  /\ UNCHANGED <<status, zqueue, payload, lease>>

Process(w) ==
  \/ TakeLease(w) \/ StartPipeline(w) \/ Gate(w) \/ InterruptedChecksFlag(w)
  \/ CancelledChecksFlag(w) \/ Settle(w) \/ Watch(w) \/ CheckLease(w)
  \/ ReleaseLease(w) \/ EndTask(w)

------------------------------------------------------------------------------
\* SIGTERM: _request_shutdown.  Before the lease is taken there is no task yet
\* and nothing is cancelled: a project already claimed will be started.
Shutdown(w) ==
  /\ wk[w].at # "off"
  /\ wk' = [wk EXCEPT ![w] =
       IF wk[w].at \in TaskLabels THEN CancelTask([wk[w] EXCEPT !.stopping = TRUE])
       ELSE [wk[w] EXCEPT !.stopping = TRUE]]
  /\ UNCHANGED store

WorkerStep(w) == Dequeue(w) \/ Process(w) \/ Finish(w) \/ Interrupt(w)
==============================================================================

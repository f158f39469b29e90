------------------------------- MODULE Pipeline -------------------------------
(***************************************************************************)
(* The creation pipeline: the API requests, the scheduler and the workers  *)
(* with their loops, over the shared stores, with the faults they meet:    *)
(* shutdown and crash of a worker, an API request cut short, a lease that  *)
(* lapses.  The TTL of the cancellation flag (one hour, against half a     *)
(* second between two looks at it) is left out.                            *)
(***************************************************************************)
EXTENDS PipelineClients, PipelineWorker

CONSTANTS
  InitStatus,  \* statuses projects may have at the beginning
  FaultKinds,  \* faults that may happen
  MaxFaults,   \* how many of them (bound of the model)
  MaxRequests  \* how many API requests (bound of the model)

ASSUME FaultAssumption ==
  /\ InitStatus \subseteq Statuses
  /\ FaultKinds \subseteq {"sigterm", "crash", "abort", "lapse"}
  /\ MaxFaults \in Nat
  /\ MaxRequests \in Nat

VARIABLES
  faults,   \* number of faults so far
  requests  \* number of API requests so far

bounds == <<faults, requests>>

vars == <<status, zqueue, payload, cancel, lease, act, wk, faults, requests>>

\* The stores agree: an entry and its payload for the queued projects, no lease,
\* no flag.  A running project is one whose worker died long ago; it was claimed
\* in a free slot.
Init ==
  /\ status \in [Projects -> InitStatus]
  /\ \A c \in Channels : Cardinality(Running(c)) <= MaxSlots[c]
  /\ \E at \in [Projects -> Times] :
       zqueue = [p \in Projects |-> IF status[p] = "queued"
                                    THEN ComputeQueueScore(Priority[p], at[p]) ELSE 0]
  /\ payload = [p \in Projects |-> status[p] = "queued"]
  /\ cancel = [p \in Projects |-> FALSE]
  /\ lease = [p \in Projects |-> NoWorker]
  /\ act = [a \in Actors |-> Idle]
  /\ wk = [w \in Workers |-> Ready]
  /\ faults = 0
  /\ requests = 0

TypeOK ==
  /\ StoreTypeOK /\ ClientTypeOK /\ WorkerTypeOK
  /\ faults \in 0 .. MaxFaults
  /\ requests \in 0 .. MaxRequests

------------------------------------------------------------------------------
\* The loops of a worker live in its process.
LoopsOf(w) == Loops \X {w}

Alive(w) == wk[w].at # "off"

LiveActors == Callers \cup Schedulers \cup (Loops \X {w \in Workers : Alive(w)})

\* The loops of a dead process do nothing: their operation is lost where it was.
StopLoops(w) ==
  act' = [a \in Actors |-> IF a \in LoopsOf(w) THEN Idle ELSE act[a]]

\* After a shutdown signal a loop ends its pass and does not begin another.
MayBegin(a) ==
  \A w \in Workers : a \in LoopsOf(w) => ~wk[w].stopping

Asks(a) ==
  /\ requests < MaxRequests /\ requests' = requests + 1
  /\ Request(a)
  /\ UNCHANGED <<wk, faults>>

Client(a) ==
  /\ a \in LiveActors
  /\ act[a].at = "idle" => MayBegin(a)
  /\ Job(a) \/ Proceed(a)
  /\ UNCHANGED <<wk, bounds>>

Worker(w) == WorkerStep(w) /\ UNCHANGED <<act, bounds>>

\* run_worker returns: the loops are cancelled wherever they are.
Exit(w) ==
  /\ WAt(w, "top") /\ wk[w].stopping
  /\ wk' = [wk EXCEPT ![w] = Off] /\ StopLoops(w)
  /\ UNCHANGED <<store, bounds>>

\* SIGKILL at the end of stop_grace_period: only the execution of a pipeline
\* can last that long after the signal.
Kill(w) ==
  /\ wk[w].at \in TaskLabels /\ wk[w].stopping
  /\ wk' = [wk EXCEPT ![w] = Off] /\ StopLoops(w)
  /\ UNCHANGED <<store, bounds>>

\* The container is started again (restart: unless-stopped, or a deployment).
Restart(w) ==
  /\ ~Alive(w)
  /\ wk' = [wk EXCEPT ![w] = Ready]
  /\ UNCHANGED <<store, act, bounds>>

\* A lease nobody renews any more expires (lease_ttl_seconds).
LeaseExpires(p) ==
  /\ lease[p] # NoWorker /\ ~HoldsLease(lease[p], p)
  /\ DeleteLease(p)
  /\ UNCHANGED <<status, zqueue, payload, cancel, act, wk, bounds>>

------------------------------------------------------------------------------
(* Faults.                                                                     *)

Fault(kind) ==
  kind \in FaultKinds /\ faults < MaxFaults /\ faults' = faults + 1 /\ UNCHANGED requests

Sigterm(w) ==
  /\ Fault("sigterm") /\ ~wk[w].stopping
  /\ Shutdown(w)
  /\ UNCHANGED act

\* The process dies: out of memory, host restarted...
Crash(w) ==
  /\ Fault("crash") /\ Alive(w)
  /\ wk' = [wk EXCEPT ![w] = Off] /\ StopLoops(w)
  /\ UNCHANGED store

\* The API process dies in the middle of a request, or a store refuses a command.
Abort(a) ==
  /\ Fault("abort") /\ a \in Callers /\ act[a].at # "idle"
  /\ act' = [act EXCEPT ![a] = Idle]
  /\ UNCHANGED <<store, wk>>

\* A lease expires although its worker is at work (event loop blocked, Redis
\* unreachable for longer than the TTL): the renewal loop gives up.
LeaseLapses(p) ==
  /\ Fault("lapse") /\ lease[p] # NoWorker /\ HoldsLease(lease[p], p)
  /\ DeleteLease(p)
  /\ UNCHANGED <<status, zqueue, payload, cancel, act, wk>>

------------------------------------------------------------------------------
Next ==
  \/ \E a \in Actors : Asks(a) \/ Client(a) \/ Abort(a)
  \/ \E w \in Workers : Worker(w) \/ Exit(w) \/ Kill(w) \/ Restart(w) \/ Sigterm(w) \/ Crash(w)
  \/ \E p \in Projects : LeaseExpires(p) \/ LeaseLapses(p)

Spec == Init /\ [][Next]_vars

\* What the processes guarantee: a request begun is carried on, a worker keeps
\* running its loop and its passes and is restarted, a lease ends.  Nothing
\* says that a creation ends: Finish and Interrupt are left out.
Fairness ==
  /\ \A a \in Actors : WF_vars(Proceed(a) /\ Client(a))
  /\ \A w \in Workers : /\ WF_vars((Dequeue(w) \/ Process(w)) /\ Worker(w))
                        /\ WF_vars(Exit(w) \/ Kill(w)) /\ WF_vars(Restart(w))
  /\ \A p \in Projects : WF_vars(LeaseExpires(p))

FairSpec == Spec /\ Fairness

\* The launcher ends a silent session and Claude Code ends the others.
CreationsEnd == \A w \in Workers : WF_vars((Finish(w) \/ Interrupt(w)) /\ Worker(w))

EndingSpec == FairSpec /\ CreationsEnd

------------------------------------------------------------------------------
(* Safety.                                                                     *)

\* A channel never has more running projects than it has slots ("1 création
\* active max par chaîne").  The claim is the only door to it, but orphans, and
\* the "running" an interrupted pipeline writes, take a slot as well.
SlotLimit == \A c \in Channels : Cardinality(Running(c)) <= MaxSlots[c]

\* An operation in progress that may still queue, unqueue or take this project.
InHand(p) ==
  \/ \E a \in Actors : act[a].at # "idle" /\ (On(a) = p \/ p \in act[a].todo)
  \/ \E w \in Workers : Cur(w) = p \/ wk[w].held[p] # 0

\* No project is left "queued" outside the queue: nothing would ever take it
\* again ("sinon le projet resterait `queued` hors file et plus rien ne le
\* reprendrait").
NoStranded ==
  \A p \in Projects : status[p] = "queued" => InQueue(p) \/ InHand(p)

\* A queued project has the payload its worker will need, or the worker that
\* pops it puts it back to pending and the creation asked for is lost.
QueuedHasPayload ==
  \A p \in Projects : status[p] = "queued" /\ ~InHand(p) => payload[p]

------------------------------------------------------------------------------
(* What a step may never do.                                                   *)

\* The end of an interrupted pipeline never brings a stopped project back.
InterruptRespectsStop ==
  [][\A w \in Workers : wk[w].at = "settle" /\ wk[w].outcome = "running" /\ wk'[w].at = "release"
       => ~(status[Cur(w)] = "stopped" /\ status'[Cur(w)] = "running")]_vars

\* A project is claimed before the entries behind it: no other project that is
\* queued with a better score, not cancelled, could have been claimed instead.
ClaimsBest ==
  [][\A w \in Workers : wk[w].at = "commit" /\ wk'[w].at = "unpay"
       => \A q \in Projects \ {Cur(w)} :
            /\ status[q] = "queued" /\ ~cancel[q]
            /\ (InQueue(q) /\ zqueue[q] < wk[w].score) \/ wk[w].held[q] # 0
            => ~SlotFree(q)]_vars

\* A pass that takes nothing leaves in the queue no project it could have taken.
PassFindsEligible ==
  [][\A w \in Workers :
       wk[w].at = "flush" /\ wk'[w].at = "top" /\ DiskOutcomes = {TRUE}
       => \A q \in QueueMembers : status[q] = "queued" => cancel[q] \/ ~SlotFree(q)]_vars

------------------------------------------------------------------------------
(* Liveness.                                                                   *)

IsExecuted(p) == \E w \in Workers : HoldsLease(w, p) \/ (WAt(w, "lease") /\ Cur(w) = p)

\* A running project whose worker is gone does not stay so: it is queued again.
OrphansAreReconciled ==
  \A p \in Projects : status[p] = "running" /\ ~IsExecuted(p)
                       ~> status[p] # "running" \/ IsExecuted(p)

\* A creation stopped or taken off the queue stops being executed, even if it
\* would never have ended by itself.
HaltIsObeyed ==
  \A p \in Projects : status[p] \in {"stopped", "pending"} /\ IsExecuted(p)
                       ~> ~IsExecuted(p)

\* A pause ends in a new execution (or in a stop): a project at rest in pause
\* does not stay paused, nor queued without ever being claimed.
PauseLeadsToRun ==
  \A p \in Projects : status[p] = "paused" /\ ~InHand(p)
                       ~> status[p] \notin {"paused", "queued"}
==============================================================================

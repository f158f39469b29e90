---------------------------- MODULE Pipeline_proofs ----------------------------
(***************************************************************************)
(* What the score of an entry promises and what the commands of the stores *)
(* do to the slots of a channel; type correctness of the pipeline, for any *)
(* projects, workers and clients; and the limit on the running projects of *)
(* a channel when there is one worker.                                     *)
(***************************************************************************)
EXTENDS Pipeline, FiniteSetTheorems, TLAPS

------------------------------------------------------------------------------
(* The score.                                                                  *)

\* A clamped priority is within 0 .. MAX_QUEUE_PRIORITY.
LEMMA ClampedInBounds ==
  ASSUME NEW priority \in Int
  PROVE  ClampedPriority(priority) \in 0 .. MaxPriority
  BY StoreAssumption DEF ClampedPriority

\* A score is a natural number: never 0, which stands for a non-member, since an instant is not.
LEMMA ScoreIsNat ==
  ASSUME NEW priority \in Int, NEW ms \in Nat
  PROVE  /\ ComputeQueueScore(priority, ms) \in Nat
         /\ ms <= ComputeQueueScore(priority, ms)
  <1>. DEFINE k == MaxPriority - ClampedPriority(priority)
  <1>1. k \in Nat
    BY ClampedInBounds, StoreAssumption
  <1>. HIDE DEF k
  <1>2. k * TimeMultiplier \in Nat
    BY <1>1, StoreAssumption
  <1>. HIDE StoreAssumption
  <1>3. ComputeQueueScore(priority, ms) = k * TimeMultiplier + ms
    BY DEF ComputeQueueScore, k
  <1>. QED
    BY <1>2, <1>3

\* Whatever the instants, provided they are less than SCORE_TIME_MULTIPLIER apart
\* (11 days and a half): a better plan comes first, and on equal priorities the
\* earlier entry does (compute_queue_score).
THEOREM PriorityThenTime ==
  ASSUME NEW a \in Int, NEW b \in Int, NEW s \in Nat, NEW t \in Nat,
         s - t < TimeMultiplier, t - s < TimeMultiplier
  PROVE  ComputeQueueScore(a, s) < ComputeQueueScore(b, t)
           <=> \/ ClampedPriority(a) > ClampedPriority(b)
               \/ ClampedPriority(a) = ClampedPriority(b) /\ s < t
  <1>. DEFINE x == MaxPriority - ClampedPriority(a)
              y == MaxPriority - ClampedPriority(b)
              M == TimeMultiplier
  <1>1. x \in Nat /\ y \in Nat /\ M \in Nat /\ M > 0
    BY ClampedInBounds, StoreAssumption
  <1>2. /\ ClampedPriority(a) > ClampedPriority(b) <=> x < y
        /\ ClampedPriority(a) = ClampedPriority(b) <=> x = y
    BY ClampedInBounds, StoreAssumption
  <1>3. /\ ComputeQueueScore(a, s) = x * M + s
        /\ ComputeQueueScore(b, t) = y * M + t
    BY DEF ComputeQueueScore
  <1>4. s - t < M /\ t - s < M
    OBVIOUS
  <1>. HIDE DEF x, y, M
  <1>5. CASE x = y
    BY <1>1, <1>2, <1>3, <1>5
  <1>6. CASE x < y
    <2>1. PICK d \in Nat : y = x + d + 1
      <3>1. y - x - 1 \in Nat /\ y = x + (y - x - 1) + 1
        BY <1>1, <1>6
      <3>. QED
        BY <3>1
    <2>2. y * M = x * M + d * M + M
      BY <1>1, <2>1
    <2>3. d * M \in Nat /\ x * M \in Nat /\ y * M \in Nat
      BY <1>1, <2>1
    <2>4. x * M + s < y * M + t
      BY <1>1, <1>4, <2>2, <2>3
    <2>. QED
      BY <1>2, <1>3, <1>6, <2>4
  <1>7. CASE y < x
    <2>1. PICK d \in Nat : x = y + d + 1
      <3>1. x - y - 1 \in Nat /\ x = y + (x - y - 1) + 1
        BY <1>1, <1>7
      <3>. QED
        BY <3>1
    <2>2. x * M = y * M + d * M + M
      BY <1>1, <2>1
    <2>3. d * M \in Nat /\ x * M \in Nat /\ y * M \in Nat
      BY <1>1, <2>1
    <2>4. y * M + t < x * M + s
      BY <1>1, <1>4, <2>2, <2>3
    <2>5. ~(x * M + s < y * M + t)
      BY <1>1, <2>3, <2>4
    <2>. QED
      BY <1>1, <1>2, <1>3, <1>7, <2>5
  <1>. QED
    BY <1>1, <1>5, <1>6, <1>7

------------------------------------------------------------------------------
(* The slots.                                                                  *)

\* The running projects of a channel can be counted.
LEMMA RunningIsFinite ==
  ASSUME NEW c \in Channels
  PROVE  IsFiniteSet(Running(c)) /\ Cardinality(Running(c)) \in Nat
  <1>1. Running(c) \subseteq Projects
    BY DEF Running
  <1>. QED
    BY <1>1, StoreAssumption, FS_Subset, FS_CardinalityType

\* No project starts running: a slot that is free stays free.
LEMMA SlotsStayFree ==
  ASSUME \A q \in Projects : status'[q] = "running" => status[q] = "running"
  PROVE  /\ \A c \in Channels : Cardinality(Running(c)') <= Cardinality(Running(c))
         /\ \A p \in Projects : SlotFree(p) => SlotFree(p)'
  <1>1. ASSUME NEW c \in Channels
        PROVE  Running(c)' \subseteq Running(c)
    BY DEF Running
  <1>2. ASSUME NEW c \in Channels
        PROVE  Cardinality(Running(c)') <= Cardinality(Running(c))
    BY <1>1, RunningIsFinite, FS_Subset
  <1>3. ASSUME NEW p \in Projects, SlotFree(p)
        PROVE  SlotFree(p)'
    <2>. DEFINE c == ChannelOf[p]
    <2>1. c \in Channels /\ MaxSlots[c] \in Nat
      BY StoreAssumption
    <2>2. IsFiniteSet(Running(c) \ {p}) /\ Running(c)' \ {p} \subseteq Running(c) \ {p}
      BY <1>1, <2>1, RunningIsFinite, FS_Subset
    <2>3. /\ Cardinality(Running(c)' \ {p}) <= Cardinality(Running(c) \ {p})
          /\ Cardinality(Running(c)' \ {p}) \in Nat /\ Cardinality(Running(c) \ {p}) \in Nat
      BY <2>2, FS_Subset, FS_CardinalityType
    <2>4. Cardinality(Running(c) \ {p}) < MaxSlots[c]
      BY <1>3 DEF SlotFree
    <2>5. Cardinality(Running(c)' \ {p}) < MaxSlots[c]
      BY <2>1, <2>3, <2>4
    <2>. QED
      BY <2>5 DEF SlotFree
  <1>. QED
    BY <1>2, <1>3

\* One project at most starts running, in a free slot: no channel gets too many.
LEMMA SlotIsTaken ==
  ASSUME NEW p \in Projects, SlotFree(p),
         \A q \in Projects \ {p} : status'[q] = "running" => status[q] = "running",
         \A c \in Channels : Cardinality(Running(c)) <= MaxSlots[c]
  PROVE  /\ \A c \in Channels : Cardinality(Running(c)') <= MaxSlots[c]
         /\ SlotFree(p)'
  <1>1. ASSUME NEW c \in Channels, c # ChannelOf[p]
        PROVE  Cardinality(Running(c)') <= MaxSlots[c]
    <2>1. Running(c)' \subseteq Running(c)
      BY <1>1 DEF Running
    <2>2. MaxSlots[c] \in Nat
      BY StoreAssumption
    <2>3. /\ Cardinality(Running(c)') <= Cardinality(Running(c))
          /\ Cardinality(Running(c)') \in Nat /\ Cardinality(Running(c)) \in Nat
      BY <2>1, RunningIsFinite, FS_Subset, FS_CardinalityType
    <2>. QED
      BY <2>2, <2>3
  <1>. DEFINE c == ChannelOf[p]
              others == Running(c) \ {p}
              others2 == Running(c)' \ {p}
  <1>2. c \in Channels /\ MaxSlots[c] \in Nat
    BY StoreAssumption
  <1>3. /\ IsFiniteSet(others) /\ others2 \subseteq others
        /\ Running(c)' \subseteq others2 \cup {p} /\ p \notin others2
    BY <1>2, RunningIsFinite, FS_Subset DEF Running
  <1>4. /\ IsFiniteSet(others2) /\ Cardinality(others2) <= Cardinality(others)
        /\ Cardinality(others2) \in Nat /\ Cardinality(others) \in Nat
    BY <1>3, FS_Subset, FS_CardinalityType
  <1>5. Cardinality(others) < MaxSlots[c]
    BY DEF SlotFree
  <1>6. Cardinality(others2) < MaxSlots[c]
    BY <1>2, <1>4, <1>5
  <1>7. SlotFree(p)'
    BY <1>6 DEF SlotFree
  <1>8. /\ IsFiniteSet(others2 \cup {p})
        /\ Cardinality(others2 \cup {p}) = Cardinality(others2) + 1
    BY <1>3, <1>4, FS_AddElement
  <1>9. /\ Cardinality(Running(c)') <= Cardinality(others2 \cup {p})
        /\ Cardinality(Running(c)') \in Nat
    BY <1>3, <1>8, FS_Subset, FS_CardinalityType
  <1>10. Cardinality(Running(c)') <= MaxSlots[c]
    BY <1>2, <1>4, <1>6, <1>8, <1>9
  <1>. QED
    BY <1>1, <1>7, <1>10

------------------------------------------------------------------------------
(* What the types of the pipeline need to be kept.                             *)

\* A worker about to write the status of its project knows which: a pipeline
\* cancelled at that very moment does not write it (_process_task).
OutcomeIsKnown == \A w \in Workers : WAt(w, "settle") => wk[w].outcome \in Outcomes

\* A worker has a project in hand between two returns to its loop, and only then.
CurIsInHand ==
  \A w \in Workers :
    /\ wk[w].at \in {"off", "top", "pop"} => Cur(w) = NoProject
    /\ wk[w].at \notin {"off", "top", "pop", "flush"} => Cur(w) \in Projects

\* From the claim to the last write of its status, the slot of a project is its
\* worker's to use.
HasSlot(w) ==
  \/ wk[w].at \in {"unpay", "lease"} \cup TaskLabels
  \/ wk[w].at = "flush" /\ Cur(w) # NoProject
  \/ wk[w].at = "commit" /\ wk[w].fits

SlotIsKept == \A w \in Workers : HasSlot(w) => SlotFree(Cur(w))

------------------------------------------------------------------------------
(* Types: the clients.                                                         *)

\* The ways an actor goes on keep its state well typed.
LEMMA IdleType == Idle \in ActorStates
  BY DEF Idle, ActorStates, ClientLabels, ClientOps

\* The end of an item, in a pass or not.
LEMMA AfterItemType ==
  ASSUME NEW r \in ActorStates
  PROVE  AfterItem(r) \in ActorStates
  BY IdleType DEF AfterItem, ActorStates, ClientLabels

\* An actor takes a well-typed state.
LEMMA BecomesType ==
  ASSUME ClientTypeOK, NEW a \in Actors, NEW r \in ActorStates,
         act' = [act EXCEPT ![a] = r]
  PROVE  ClientTypeOK'
  BY DEF ClientTypeOK

\* Go on with another command.
LEMMA GoType ==
  ASSUME ClientTypeOK, NEW a \in Actors, NEW l \in ClientLabels, Go(a, l)
  PROVE  ClientTypeOK'
  <1>1. act[a] \in ActorStates
    BY DEF ClientTypeOK
  <1>2. [act[a] EXCEPT !.at = l] \in ActorStates
    BY <1>1 DEF ActorStates
  <1>3. act' = [act EXCEPT ![a] = [act[a] EXCEPT !.at = l]]
    BY DEF Go
  <1>. QED
    BY <1>2, <1>3, BecomesType

\* The operation ends, or the pass goes on.
LEMMA ReturnType ==
  ASSUME ClientTypeOK, NEW a \in Actors, Return(a)
  PROVE  ClientTypeOK'
  <1>1. AfterItem(act[a]) \in ActorStates
    BY AfterItemType DEF ClientTypeOK
  <1>. QED
    BY <1>1, BecomesType DEF Return

\* enqueue_pipeline_task refuses, or raises.
LEMMA RefuseType ==
  ASSUME ClientTypeOK, NEW a \in Actors, Refuse(a) \/ Raise(a)
  PROVE  ClientTypeOK'
  <1>1. "repause" \in ClientLabels
    BY DEF ClientLabels
  <1>. QED
    BY <1>1, IdleType, BecomesType, GoType, ReturnType DEF Refuse, Raise

\* A pass picks a project, or skips it.
LEMMA PickType ==
  ASSUME ClientTypeOK, NEW a \in Actors, NEW p \in Projects,
         \/ \E l \in ClientLabels : Pick(a, p, l)
         \/ Skip(a, p)
  PROVE  ClientTypeOK'
  <1>1. act[a] \in ActorStates
    BY DEF ClientTypeOK
  <1>2. ASSUME NEW l \in ClientLabels, Pick(a, p, l) PROVE ClientTypeOK'
    <2>. DEFINE r == [act[a] EXCEPT !.at = l, !.on = p, !.todo = act[a].todo \ {p}]
    <2>1. r \in ActorStates
      BY <1>1 DEF ActorStates
    <2>2. act' = [act EXCEPT ![a] = r]
      BY <1>2 DEF Pick
    <2>. HIDE DEF r
    <2>. QED
      BY <2>1, <2>2, BecomesType
  <1>3. CASE Skip(a, p)
    <2>. DEFINE r == [act[a] EXCEPT !.todo = act[a].todo \ {p}]
    <2>1. r \in ActorStates
      BY <1>1 DEF ActorStates
    <2>2. act' = [act EXCEPT ![a] = AfterItem(r)]
      BY <1>3 DEF Skip
    <2>. HIDE DEF r
    <2>. QED
      BY <2>1, <2>2, AfterItemType, BecomesType
  <1>. QED
    BY <1>2, <1>3

\* A request begins.
LEMMA BeginType ==
  ASSUME ClientTypeOK, NEW a \in Actors, NEW op \in ClientOps, NEW p \in Projects,
         NEW l \in ClientLabels, NEW seen \in Statuses \cup {"none"}, Begin(a, op, p, l, seen)
  PROVE  ClientTypeOK'
  <1>. DEFINE r == [Idle EXCEPT !.at = l, !.op = op, !.on = p, !.saw = seen]
  <1>1. r \in ActorStates
    BY IdleType DEF ActorStates
  <1>2. act' = [act EXCEPT ![a] = r]
    BY DEF Begin
  <1>. HIDE DEF r
  <1>. QED
    BY <1>1, <1>2, BecomesType

\* A pass begins, on a snapshot.
LEMMA StartPassType ==
  ASSUME ClientTypeOK, NEW a \in Actors, NEW op \in ClientOps, NEW l \in ClientLabels,
         NEW snapshot \in SUBSET Projects, StartPass(a, op, l, snapshot)
  PROVE  ClientTypeOK'
  <1>. DEFINE r == [Idle EXCEPT !.at = l, !.op = op, !.todo = snapshot]
  <1>1. r \in ActorStates
    BY IdleType DEF ActorStates
  <1>2. act' = [act EXCEPT ![a] = r]
    BY DEF StartPass
  <1>. HIDE DEF r
  <1>. QED
    BY <1>1, <1>2, BecomesType

\* Every command of a client keeps the types of the clients...
LEMMA ClientTypeStep ==
  ASSUME StoreTypeOK, ClientTypeOK, NEW a \in Actors, Job(a) \/ Proceed(a) \/ Request(a)
  PROVE  ClientTypeOK'
  <1>. USE DEF ClientLabels, ClientOps
  <1>1. ASSUME NEW p \in Projects, RunRequest(a, p) PROVE ClientTypeOK'
    BY <1>1, BeginType DEF RunRequest, StoreTypeOK
  <1>2. ASSUME NEW p \in Projects, StopRequest(a, p) PROVE ClientTypeOK'
    BY <1>2, BeginType DEF StopRequest, StoreTypeOK
  <1>3. ASSUME NEW p \in Projects, RemoveRequest(a, p) PROVE ClientTypeOK'
    BY <1>3, BeginType DEF RemoveRequest, StoreTypeOK
  <1>4. ASSUME NEW p \in Projects, DeleteRequest(a, p) PROVE ClientTypeOK'
    BY <1>4, BeginType DEF DeleteRequest, StoreTypeOK
  <1>5. CASE IsQueued(a)
    <2>1. act[a] \in ActorStates
      BY DEF ClientTypeOK
    <2>2. ASSUME NEW l \in ClientLabels PROVE [act[a] EXCEPT !.at = l,
       !.saw = "none"] \in ActorStates
      BY <2>1 DEF ActorStates
    <2>3. ASSUME NEW l \in ClientLabels, act' = [act EXCEPT ![a].at = l, ![a].saw = "none"]
          PROVE  ClientTypeOK'
      <3>. DEFINE r == [act[a] EXCEPT !.at = l, !.saw = "none"]
      <3>1. act' = [act EXCEPT ![a] = r]
        BY <2>3
      <3>2. r \in ActorStates
        BY <2>2
      <3>. HIDE DEF r
      <3>. QED
        BY <3>1, <3>2, BecomesType
    <2>. QED
      BY <1>5, <2>3, ReturnType DEF IsQueued
  <1>6. CASE EnqueueZscore(a)
    BY <1>6, GoType, RefuseType DEF EnqueueZscore
  <1>7. CASE EnqueueRead(a)
    BY <1>7, GoType, RefuseType DEF EnqueueRead
  <1>8. CASE EnqueueLease(a)
    BY <1>8, GoType, RefuseType DEF EnqueueLease
  <1>9. CASE EnqueueClear(a)
    BY <1>9, GoType DEF EnqueueClear
  <1>10. CASE EnqueuePayload(a)
    BY <1>10, GoType DEF EnqueuePayload
  <1>11. CASE EnqueueZadd(a)
    BY <1>11, GoType DEF EnqueueZadd
  <1>12. CASE EnqueueMark(a)
    BY <1>12, ReturnType, RefuseType DEF EnqueueMark
  <1>13. CASE RemoveZrem(a)
    BY <1>13, GoType DEF RemoveZrem
  <1>14. CASE RemoveRecheck(a)
    BY <1>14, GoType, ReturnType DEF RemoveRecheck, NotRemoved
  <1>15. CASE RemoveDrop(a)
    BY <1>15, GoType DEF RemoveDrop
  <1>16. CASE RemoveFlag(a)
    BY <1>16, GoType DEF RemoveFlag
  <1>17. CASE RemoveUnqueue(a)
    BY <1>17, GoType, ReturnType DEF RemoveUnqueue, Removed
  <1>18. CASE DeleteErase(a)
    BY <1>18, ReturnType DEF DeleteErase
  <1>19. CASE StopRefresh(a)
    BY <1>19, GoType, ReturnType DEF StopRefresh
  <1>20. CASE StopFlag(a)
    BY <1>20, GoType DEF StopFlag
  <1>21. CASE StopWrite(a)
    BY <1>21, ReturnType DEF StopWrite
  <1>22. CASE JobStart(a)
    BY <1>22, StartPassType DEF JobStart, WithStatus
  <1>23. CASE JobNext(a)
    <2>1. act[a].todo \subseteq Projects
      BY DEF ClientTypeOK, ActorStates
    <2>. QED
      BY <1>23, <2>1, PickType DEF JobNext
  <1>24. CASE PruneStart(a)
    BY <1>24, StartPassType DEF PruneStart, QueueMembers
  <1>25. CASE PruneRead(a)
    <2>. DEFINE r == [act[a] EXCEPT !.at = "next", !.todo = {p \in @ : status[p] # "queued"}]
    <2>1. act[a] \in ActorStates
      BY DEF ClientTypeOK
    <2>2. r \in ActorStates
      BY <2>1 DEF ActorStates
    <2>3. act' = [act EXCEPT ![a] = r]
      BY <1>25 DEF PruneRead
    <2>. HIDE DEF r
    <2>. QED
      BY <2>2, <2>3, BecomesType
  <1>26. CASE PruneZrem(a)
    <2>1. act[a].todo \subseteq Projects
      BY DEF ClientTypeOK, ActorStates
    <2>. QED
      BY <1>26, <2>1, PickType DEF PruneZrem
  <1>27. CASE PrunePayload(a)
    BY <1>27, ReturnType DEF PrunePayload
  <1>28. CASE ReconcileStart(a)
    <2>. DEFINE r == [Idle EXCEPT !.at = "next", !.op = "reconcile", !.todo = WithStatus("running")]
    <2>1. r \in ActorStates
      BY IdleType DEF ActorStates, WithStatus
    <2>2. act' = [act EXCEPT ![a] = IF WithStatus("running") = {} THEN Idle ELSE r]
      BY <1>28 DEF ReconcileStart
    <2>. HIDE DEF r
    <2>. QED
      BY <2>1, <2>2, IdleType, BecomesType
  <1>29. CASE ReconcileNext(a)
    <2>1. act[a].todo \subseteq Projects
      BY DEF ClientTypeOK, ActorStates
    <2>. QED
      BY <1>29, <2>1, PickType DEF ReconcileNext
  <1>30. CASE ResumeStart(a)
    BY <1>30, StartPassType DEF ResumeStart, WithStatus
  <1>31. CASE ResumeNext(a)
    <2>1. act[a].todo \subseteq Projects
      BY DEF ClientTypeOK, ActorStates
    <2>. QED
      BY <1>31, <2>1, PickType DEF ResumeNext
  <1>32. CASE ResumeClaim(a)
    BY <1>32, GoType, ReturnType DEF ResumeClaim
  <1>33. CASE ResumeRepause(a)
    BY <1>33, ReturnType DEF ResumeRepause
  <1>. QED
    BY <1>1, <1>2, <1>3, <1>4, <1>5, <1>6, <1>7, <1>8, <1>9, <1>10, <1>11, <1>12, <1>13, <1>14,
       <1>15, <1>16, <1>17, <1>18, <1>19, <1>20, <1>21, <1>22, <1>23, <1>24, <1>25, <1>26, <1>27,
          <1>28, <1>29, <1>30, <1>31, <1>32, <1>33
    DEF Job, Proceed, Request, Enqueue, Remove, Stop, Prune, Reconcile, Resume

\* ... and those of the stores.
LEMMA ClientStoreTypeStep ==
  ASSUME StoreTypeOK, ClientTypeOK, NEW a \in Actors, Job(a) \/ Proceed(a) \/ Request(a)
  PROVE  StoreTypeOK'
  <1>. USE DEF StoreTypeOK
  <1>1. ASSUME NEW p \in Projects, RunRequest(a, p) PROVE StoreTypeOK'
    BY <1>1 DEF RunRequest, store
  <1>2. ASSUME NEW p \in Projects, StopRequest(a, p) PROVE StoreTypeOK'
    BY <1>2 DEF StopRequest, store
  <1>3. ASSUME NEW p \in Projects, RemoveRequest(a, p) PROVE StoreTypeOK'
    BY <1>3 DEF RemoveRequest, store
  <1>4. ASSUME NEW p \in Projects, DeleteRequest(a, p) PROVE StoreTypeOK'
    BY <1>4 DEF DeleteRequest, store
  <1>5. CASE IsQueued(a)
    BY <1>5 DEF IsQueued, store
  <1>6. CASE EnqueueZscore(a)
    BY <1>6 DEF EnqueueZscore, store
  <1>7. CASE EnqueueRead(a)
    BY <1>7 DEF EnqueueRead, store
  <1>8. CASE EnqueueLease(a)
    BY <1>8 DEF EnqueueLease, store
  <1>9. CASE EnqueueClear(a)
    BY <1>9 DEF EnqueueClear, ClearCancel
  <1>10. CASE EnqueuePayload(a)
    BY <1>10 DEF EnqueuePayload, SetPayload
  <1>11. CASE EnqueueZadd(a)
    <2>1. PICK ms \in Times : ZAdd(On(a), ComputeQueueScore(Priority[On(a)], ms))
      BY <1>11 DEF EnqueueZadd
    <2>2. zqueue' \in [Projects -> Nat]
      <3>1. CASE On(a) \in Projects
        <4>1. ComputeQueueScore(Priority[On(a)], ms) \in Nat
          BY <3>1, ScoreIsNat, StoreAssumption
        <4>. QED
          BY <2>1, <4>1 DEF ZAdd
      <3>2. CASE On(a) \notin Projects
        BY <2>1, <3>2 DEF ZAdd
      <3>. QED
        BY <3>1, <3>2
    <2>. QED
      BY <1>11, <2>2 DEF EnqueueZadd
  <1>12. CASE EnqueueMark(a)
    BY <1>12 DEF EnqueueMark, UpdateProjectStatus, Statuses
  <1>13. CASE RemoveZrem(a)
    BY <1>13 DEF RemoveZrem, ZRem
  <1>14. CASE RemoveRecheck(a)
    BY <1>14 DEF RemoveRecheck, store
  <1>15. CASE RemoveDrop(a)
    BY <1>15 DEF RemoveDrop, DeletePayload
  <1>16. CASE RemoveFlag(a)
    BY <1>16 DEF RemoveFlag, RequestCancel
  <1>17. CASE RemoveUnqueue(a)
    BY <1>17 DEF RemoveUnqueue, UpdateProjectStatus, Statuses
  <1>18. CASE DeleteErase(a)
    BY <1>18 DEF DeleteErase, Statuses
  <1>19. CASE StopRefresh(a)
    BY <1>19 DEF StopRefresh, store
  <1>20. CASE StopFlag(a)
    BY <1>20 DEF StopFlag, RequestCancel
  <1>21. CASE StopWrite(a)
    BY <1>21 DEF StopWrite, UpdateProjectStatus, Statuses
  <1>22. CASE JobStart(a)
    BY <1>22 DEF JobStart, StartPass, store
  <1>23. CASE JobNext(a)
    BY <1>23 DEF JobNext, store
  <1>24. CASE PruneStart(a)
    BY <1>24 DEF PruneStart, StartPass, store
  <1>25. CASE PruneRead(a)
    BY <1>25 DEF PruneRead, store
  <1>26. CASE PruneZrem(a)
    <2>1. PICK p \in act[a].todo : ZRem(p)
      BY <1>26 DEF PruneZrem
    <2>. QED
      BY <1>26, <2>1 DEF PruneZrem, ZRem
  <1>27. CASE PrunePayload(a)
    BY <1>27 DEF PrunePayload, DeletePayload
  <1>28. CASE ReconcileStart(a)
    BY <1>28 DEF ReconcileStart, store
  <1>29. CASE ReconcileNext(a)
    BY <1>29 DEF ReconcileNext, store
  <1>30. CASE ResumeStart(a)
    BY <1>30 DEF ResumeStart, StartPass, store
  <1>31. CASE ResumeNext(a)
    BY <1>31 DEF ResumeNext, store
  <1>32. CASE ResumeClaim(a)
    BY <1>32 DEF ResumeClaim, Statuses
  <1>33. CASE ResumeRepause(a)
    BY <1>33 DEF ResumeRepause, Statuses
  <1>. QED
    BY <1>1, <1>2, <1>3, <1>4, <1>5, <1>6, <1>7, <1>8, <1>9, <1>10, <1>11, <1>12, <1>13, <1>14,
       <1>15, <1>16, <1>17, <1>18, <1>19, <1>20, <1>21, <1>22, <1>23, <1>24, <1>25, <1>26, <1>27,
          <1>28, <1>29, <1>30, <1>31, <1>32, <1>33
    DEF Job, Proceed, Request, Enqueue, Remove, Stop, Prune, Reconcile, Resume

------------------------------------------------------------------------------
(* Types: the workers.                                                         *)

\* Every command of a worker keeps the types of the stores...
LEMMA WorkerStoreTypeStep ==
  ASSUME StoreTypeOK, WorkerTypeOK, OutcomeIsKnown, NEW w \in Workers,
         WorkerStep(w) \/ Shutdown(w)
  PROVE  StoreTypeOK'
  <1>. USE DEF StoreTypeOK
  <1>1. CASE StartPassW(w)
    BY <1>1 DEF StartPassW, store
  <1>2. CASE Pop(w)
    <2>1. zqueue' = zqueue \/ \E p \in Heads : ZRem(p)
      BY <1>2 DEF Pop
    <2>2. zqueue' \in [Projects -> Nat]
      BY <2>1 DEF ZRem
    <2>. QED
      BY <1>2, <2>2 DEF Pop
  <1>3. CASE LoadPayload(w)
    BY <1>3 DEF LoadPayload, store
  <1>4. CASE NoPayload(w)
    BY <1>4 DEF NoPayload, store
  <1>5. CASE SetPending(w)
    BY <1>5 DEF SetPending, UpdateProjectStatus, Statuses
  <1>6. CASE CheckStatus(w)
    BY <1>6 DEF CheckStatus, store
  <1>7. CASE DropOrphan(w)
    BY <1>7 DEF DropOrphan, DeletePayload
  <1>8. CASE CheckCancel(w)
    BY <1>8 DEF CheckCancel, store
  <1>9. CASE AbandonPayload(w)
    BY <1>9 DEF AbandonPayload, DeletePayload
  <1>10. CASE AbandonFlag(w)
    BY <1>10 DEF AbandonFlag, RequestCancel
  <1>11. CASE ClaimSnapshot(w)
    BY <1>11 DEF ClaimSnapshot, store
  <1>12. CASE ClaimCommit(w)
    BY <1>12 DEF ClaimCommit, UpdateProjectStatus, Statuses
  <1>13. CASE ClaimRefused(w)
    BY <1>13 DEF ClaimRefused, store
  <1>14. CASE Claimed(w)
    BY <1>14 DEF Claimed, DeletePayload
  <1>15. CASE Reenqueue(w)
    <2>1. PICK p \in Projects : ZAdd(p, wk[w].held[p])
      BY <1>15 DEF Reenqueue, Held
    <2>2. wk[w].held[p] \in Nat
      BY DEF WorkerTypeOK, WorkerStates
    <2>. QED
      BY <1>15, <2>1, <2>2 DEF Reenqueue, ZAdd
  <1>16. CASE EndPass(w)
    BY <1>16 DEF EndPass, store
  <1>17. CASE TakeLease(w)
    BY <1>17 DEF TakeLease, AcquireLease
  <1>18. CASE StartPipeline(w)
    BY <1>18 DEF StartPipeline, store
  <1>19. CASE Gate(w)
    BY <1>19 DEF Gate, store
  <1>20. CASE InterruptedChecksFlag(w)
    BY <1>20 DEF InterruptedChecksFlag, store
  <1>21. CASE CancelledChecksFlag(w)
    BY <1>21 DEF CancelledChecksFlag, store
  <1>22. CASE Settle(w)
    <2>1. WAt(w, "settle") => wk[w].outcome \in Outcomes
      BY DEF OutcomeIsKnown, WAt
    <2>2. status' \in [Projects -> Statuses]
      BY <1>22, <2>1 DEF Settle, UpdateProjectStatus, Outcomes, Statuses
    <2>. QED
      BY <1>22, <2>2 DEF Settle
  <1>23. CASE Watch(w)
    BY <1>23 DEF Watch, store
  <1>24. CASE CheckLease(w)
    BY <1>24 DEF CheckLease, store
  <1>25. CASE ReleaseLease(w)
    BY <1>25 DEF ReleaseLease, DeleteLease
  <1>26. CASE EndTask(w)
    BY <1>26 DEF EndTask, ClearCancel
  <1>27. CASE Finish(w)
    BY <1>27 DEF Finish, store
  <1>28. CASE Interrupt(w)
    BY <1>28 DEF Interrupt, store
  <1>29. CASE Shutdown(w)
    BY <1>29 DEF Shutdown, store
  <1>. QED
    BY <1>1, <1>2, <1>3, <1>4, <1>5, <1>6, <1>7, <1>8, <1>9, <1>10, <1>11, <1>12, <1>13, <1>14,
       <1>15, <1>16, <1>17, <1>18, <1>19, <1>20, <1>21, <1>22, <1>23, <1>24, <1>25, <1>26, <1>27,
          <1>28, <1>29
    DEF WorkerStep, Dequeue, Process

\* A worker takes a well-typed state.
LEMMA WorkerBecomesType ==
  ASSUME WorkerTypeOK, NEW w \in Workers, NEW r \in WorkerStates, wk' = [wk EXCEPT ![w] = r]
  PROVE  WorkerTypeOK'
  BY DEF WorkerTypeOK

\* Go on with another command.
LEMMA WGoType ==
  ASSUME WorkerTypeOK, NEW w \in Workers, NEW l \in WorkerLabels, WGo(w, l)
  PROVE  WorkerTypeOK'
  <1>. DEFINE r == [wk[w] EXCEPT !.at = l]
  <1>1. r \in WorkerStates
    BY DEF WorkerTypeOK, WorkerStates
  <1>2. wk' = [wk EXCEPT ![w] = r]
    BY DEF WGo
  <1>. HIDE DEF r
  <1>. QED
    BY <1>1, <1>2, WorkerBecomesType

\* The entry popped is dealt with.
LEMMA NextEntryType ==
  ASSUME WorkerTypeOK, NEW w \in Workers, NextEntry(w)
  PROVE  WorkerTypeOK'
  <1>. DEFINE r == [wk[w] EXCEPT !.at = "pop", !.cur = NoProject, !.score = 0, !.fits = FALSE]
  <1>1. r \in WorkerStates
    BY DEF WorkerTypeOK, WorkerStates, WorkerLabels, DequeueLabels
  <1>2. wk' = [wk EXCEPT ![w] = r]
    BY DEF NextEntry
  <1>. HIDE DEF r
  <1>. QED
    BY <1>1, <1>2, WorkerBecomesType

\* The entry popped is set aside.
LEMMA DeferType ==
  ASSUME WorkerTypeOK, NEW w \in Workers, NEW l \in WorkerLabels, Defer(w, l)
  PROVE  WorkerTypeOK'
  <1>. DEFINE h == [wk[w].held EXCEPT ![Cur(w)] = wk[w].score]
              r == [wk[w] EXCEPT !.at = l, !.cur = NoProject, !.score = 0, !.fits = FALSE,
                                 !.held = h]
  <1>1. wk[w] \in WorkerStates
    BY DEF WorkerTypeOK
  <1>2. h \in [Projects -> Nat]
    BY <1>1 DEF WorkerStates
  <1>3. wk' = [wk EXCEPT ![w] = r]
    BY DEF Defer
  <1>. HIDE DEF h
  <1>4. r \in WorkerStates
    BY <1>1, <1>2 DEF WorkerStates
  <1>. HIDE DEF r
  <1>. QED
    BY <1>3, <1>4, WorkerBecomesType

\* ... and those of the workers.
LEMMA WorkerTypeStep ==
  ASSUME StoreTypeOK, WorkerTypeOK, NEW w \in Workers, WorkerStep(w) \/ Shutdown(w)
  PROVE  WorkerTypeOK'
  <1>0. wk[w] \in WorkerStates
    BY DEF WorkerTypeOK
  <1>. USE <1>0 DEF WorkerTypeOK, WorkerStates, WorkerLabels, DequeueLabels, LeaseLabels,
     TaskLabels, Outcomes
  <1>1. CASE StartPassW(w)
    BY <1>1, WGoType DEF StartPassW
  <1>2. CASE Pop(w)
    <2>1. ASSUME NEW p \in Heads, wk[w].tries < MaxAttempts,
                 wk' = [wk EXCEPT ![w].at = "load", ![w].cur = p, ![w].score = zqueue[p],
                                  ![w].tries = @ + 1]
          PROVE  WorkerTypeOK'
      <3>. DEFINE r == [wk[w] EXCEPT !.at = "load", !.cur = p, !.score = zqueue[p],
                                     !.tries = @ + 1]
      <3>1. p \in Projects /\ zqueue[p] \in Nat /\ wk[w].tries + 1 \in 0 .. MaxAttempts
        BY <2>1, WorkerAssumption DEF Heads, QueueMembers, StoreTypeOK
      <3>2. r \in WorkerStates
        BY <3>1
      <3>3. wk' = [wk EXCEPT ![w] = r]
        BY <2>1
      <3>. HIDE DEF r
      <3>. QED
        BY <3>2, <3>3, WorkerBecomesType
    <2>. QED
      BY <1>2, <2>1, WGoType DEF Pop
  <1>3. CASE LoadPayload(w)
    BY <1>3, WGoType DEF LoadPayload, Cur
  <1>4. CASE NoPayload(w)
    BY <1>4, WGoType, NextEntryType DEF NoPayload
  <1>5. CASE SetPending(w)
    BY <1>5, NextEntryType DEF SetPending
  <1>6. CASE CheckStatus(w)
    BY <1>6, WGoType DEF CheckStatus, Cur
  <1>7. CASE DropOrphan(w)
    BY <1>7, NextEntryType DEF DropOrphan
  <1>8. CASE CheckCancel(w)
    BY <1>8, WGoType DEF CheckCancel, Cur
  <1>9. CASE AbandonPayload(w)
    BY <1>9, WGoType DEF AbandonPayload, Cur
  <1>10. CASE AbandonFlag(w)
    BY <1>10, NextEntryType DEF AbandonFlag
  <1>11. CASE ClaimSnapshot(w)
    BY <1>11, DeferType DEF ClaimSnapshot
  <1>12. CASE ClaimCommit(w)
    BY <1>12, WGoType DEF ClaimCommit, Cur
  <1>13. CASE ClaimRefused(w)
    BY <1>13, WGoType, DeferType DEF ClaimRefused
  <1>14. CASE Claimed(w)
    BY <1>14 DEF Claimed, WAt, Cur
  <1>15. CASE Reenqueue(w)
    <2>1. PICK p \in Projects : wk' = [wk EXCEPT ![w].held[p] = 0]
      BY <1>15 DEF Reenqueue, Held
    <2>. DEFINE h == [wk[w].held EXCEPT ![p] = 0]
                r == [wk[w] EXCEPT !.held = h]
    <2>2. h \in [Projects -> Nat]
      OBVIOUS
    <2>3. wk' = [wk EXCEPT ![w] = r]
      BY <2>1
    <2>. HIDE DEF h
    <2>4. r \in WorkerStates
      BY <2>2
    <2>. HIDE DEF r
    <2>. QED
      BY <2>3, <2>4, WorkerBecomesType
  <1>16. CASE EndPass(w)
    <2>. DEFINE l == IF Cur(w) = NoProject THEN "top" ELSE "lease"
                r == [wk[w] EXCEPT !.at = l, !.tries = 0]
    <2>1. l \in WorkerLabels /\ 0 \in 0 .. MaxAttempts
      BY WorkerAssumption
    <2>2. wk' = [wk EXCEPT ![w] = r]
      BY <1>16 DEF EndPass
    <2>. HIDE DEF l
    <2>3. r \in WorkerStates
      BY <2>1
    <2>. HIDE DEF r
    <2>. QED
      BY <2>2, <2>3, WorkerBecomesType
  <1>17. CASE TakeLease(w)
    BY <1>17 DEF TakeLease, WAt, Cur
  <1>18. CASE StartPipeline(w)
    BY <1>18, WGoType DEF StartPipeline, Cur
  <1>19. CASE Gate(w)
    BY <1>19, WGoType DEF Gate, Cur
  <1>20. CASE InterruptedChecksFlag(w)
    BY <1>20 DEF InterruptedChecksFlag, WAt, Cur
  <1>21. CASE CancelledChecksFlag(w)
    BY <1>21 DEF CancelledChecksFlag, WAt, Cur
  <1>22. CASE Settle(w)
    BY <1>22 DEF Settle, WAt, Cur
  <1>23. CASE Watch(w)
    BY <1>23 DEF Watch, Cur, CancelTask
  <1>24. CASE CheckLease(w)
    BY <1>24 DEF CheckLease, WAt, Cur
  <1>25. CASE ReleaseLease(w)
    BY <1>25, WGoType DEF ReleaseLease, Cur
  <1>26. CASE EndTask(w)
    BY <1>26 DEF EndTask, WAt, Cur
  <1>27. CASE Finish(w)
    <2>1. PICK o \in {"approved", "failed", "paused"} :
            wk' = [wk EXCEPT ![w].at = "settle", ![w].outcome = o]
      BY <1>27 DEF Finish
    <2>. DEFINE r == [wk[w] EXCEPT !.at = "settle", !.outcome = o]
    <2>2. r \in WorkerStates
      BY <2>1
    <2>3. wk' = [wk EXCEPT ![w] = r]
      BY <2>1
    <2>. HIDE DEF r
    <2>. QED
      BY <2>2, <2>3, WorkerBecomesType
  <1>28. CASE Interrupt(w)
    BY <1>28, WGoType DEF Interrupt
  <1>29. CASE Shutdown(w)
    BY <1>29 DEF Shutdown, CancelTask
  <1>. QED
    BY <1>1, <1>2, <1>3, <1>4, <1>5, <1>6, <1>7, <1>8, <1>9, <1>10, <1>11, <1>12, <1>13, <1>14,
       <1>15, <1>16, <1>17, <1>18, <1>19, <1>20, <1>21, <1>22, <1>23, <1>24, <1>25, <1>26, <1>27,
          <1>28, <1>29
    DEF WorkerStep, Dequeue, Process

------------------------------------------------------------------------------
(* The project in hand, and the outcome to be written.                         *)

\* Setting an entry aside leaves nothing in hand, and keeps its score for the flush.
LEMMA DeferHolds ==
  ASSUME WorkerTypeOK, NEW w \in Workers, NEW l \in WorkerLabels, Defer(w, l)
  PROVE  /\ wk'[w].at = l /\ wk'[w].cur = NoProject
         /\ wk'[w].held = [wk[w].held EXCEPT ![Cur(w)] = wk[w].score]
         /\ \A v \in Workers \ {w} : wk'[v] = wk[v]
  <1>. DEFINE h == [wk[w].held EXCEPT ![Cur(w)] = wk[w].score]
              r == [wk[w] EXCEPT !.at = l, !.cur = NoProject, !.score = 0, !.fits = FALSE,
                                 !.held = h]
  <1>1. wk' = [wk EXCEPT ![w] = r]
    BY DEF Defer
  <1>. HIDE DEF h
  <1>2. r.at = l /\ r.cur = NoProject /\ r.held = h
    BY DEF WorkerTypeOK, WorkerStates
  <1>. HIDE DEF r
  <1>3. /\ wk'[w].at = l /\ wk'[w].cur = NoProject /\ wk'[w].held = h
        /\ \A v \in Workers \ {w} : wk'[v] = wk[v]
    BY <1>1, <1>2 DEF WorkerTypeOK
  <1>. QED
    BY <1>3 DEF h

\* What it leaves of the worker, and of the others.
LEMMA DeferEffect ==
  ASSUME WorkerTypeOK, NEW w \in Workers, NEW l \in WorkerLabels, Defer(w, l)
  PROVE  /\ wk'[w].at = l /\ wk'[w].cur = NoProject
         /\ \A v \in Workers \ {w} : wk'[v] = wk[v]
  BY DeferHolds

\* A pop takes an entry in hand, or ends the pass.
LEMMA PopEffect ==
  ASSUME WorkerTypeOK, NEW w \in Workers, Pop(w)
  PROVE  /\ \/ wk'[w].at = "flush" /\ wk'[w].cur = wk[w].cur
            \/ wk'[w].at = "load" /\ wk'[w].cur \in Projects
         /\ \A v \in Workers \ {w} : wk'[v] = wk[v]
  <1>1. CASE WGo(w, "flush")
    BY <1>1 DEF WGo, WorkerTypeOK, WorkerStates
  <1>2. ASSUME NEW p \in Projects,
               wk' = [wk EXCEPT ![w].at = "load", ![w].cur = p, ![w].score = zqueue[p],
                                ![w].tries = @ + 1]
        PROVE  /\ wk'[w].at = "load" /\ wk'[w].cur \in Projects
               /\ \A v \in Workers \ {w} : wk'[v] = wk[v]
    BY <1>2 DEF WorkerTypeOK, WorkerStates
  <1>. QED
    BY <1>1, <1>2 DEF Pop, Heads, QueueMembers

\* An outcome is chosen before it is written.
LEMMA OutcomeStep ==
  ASSUME StoreTypeOK, WorkerTypeOK, OutcomeIsKnown, NEW w \in Workers, WorkerStep(w) \/ Shutdown(w)
  PROVE  OutcomeIsKnown'
  <1>. USE DEF WorkerTypeOK, WorkerStates, OutcomeIsKnown, WAt, TaskLabels, Outcomes
  <1>1. CASE StartPassW(w)
    BY <1>1 DEF StartPassW, WGo
  <1>2. CASE Pop(w)
    BY <1>2, PopEffect DEF Pop
  <1>3. CASE LoadPayload(w)
    BY <1>3 DEF LoadPayload, WGo, Cur
  <1>4. CASE NoPayload(w)
    BY <1>4 DEF NoPayload, WGo, Cur, NextEntry
  <1>5. CASE SetPending(w)
    BY <1>5 DEF SetPending, Cur, NextEntry
  <1>6. CASE CheckStatus(w)
    BY <1>6 DEF CheckStatus, WGo, Cur
  <1>7. CASE DropOrphan(w)
    BY <1>7 DEF DropOrphan, Cur, NextEntry
  <1>8. CASE CheckCancel(w)
    BY <1>8 DEF CheckCancel, WGo, Cur
  <1>9. CASE AbandonPayload(w)
    BY <1>9 DEF AbandonPayload, WGo, Cur
  <1>10. CASE AbandonFlag(w)
    BY <1>10 DEF AbandonFlag, Cur, NextEntry
  <1>11. CASE ClaimSnapshot(w)
    <2>1. CASE Defer(w, "flush")
      BY <2>1, DeferEffect DEF WorkerLabels, DequeueLabels
    <2>2. CASE ~Defer(w, "flush")
      BY <1>11, <2>2 DEF ClaimSnapshot
    <2>. QED
      BY <2>1, <2>2
  <1>12. CASE ClaimCommit(w)
    BY <1>12 DEF ClaimCommit, WGo, Cur
  <1>13. CASE ClaimRefused(w)
    <2>1. CASE Defer(w, "pop")
      BY <2>1, DeferEffect DEF WorkerLabels, DequeueLabels
    <2>2. CASE WGo(w, "abandon")
      BY <1>13, <2>2 DEF ClaimRefused, WGo
    <2>. QED
      BY <1>13, <2>1, <2>2 DEF ClaimRefused
  <1>14. CASE Claimed(w)
    BY <1>14 DEF Claimed, Cur
  <1>15. CASE Reenqueue(w)
    BY <1>15 DEF Reenqueue, Held
  <1>16. CASE EndPass(w)
    BY <1>16 DEF EndPass, Cur, Held
  <1>17. CASE TakeLease(w)
    BY <1>17 DEF TakeLease, Cur
  <1>18. CASE StartPipeline(w)
    BY <1>18 DEF StartPipeline, WGo, Cur
  <1>19. CASE Gate(w)
    BY <1>19 DEF Gate, WGo, Cur
  <1>20. CASE InterruptedChecksFlag(w)
    BY <1>20 DEF InterruptedChecksFlag, Cur
  <1>21. CASE CancelledChecksFlag(w)
    BY <1>21 DEF CancelledChecksFlag, Cur
  <1>22. CASE Settle(w)
    BY <1>22 DEF Settle, Cur
  <1>23. CASE Watch(w)
    BY <1>23 DEF Watch, Cur, CancelTask
  <1>24. CASE CheckLease(w)
    BY <1>24 DEF CheckLease, Cur
  <1>25. CASE ReleaseLease(w)
    BY <1>25 DEF ReleaseLease, WGo, Cur
  <1>26. CASE EndTask(w)
    BY <1>26 DEF EndTask, Cur
  <1>27. CASE Finish(w)
    BY <1>27 DEF Finish
  <1>28. CASE Interrupt(w)
    BY <1>28 DEF Interrupt, WGo
  <1>29. CASE Shutdown(w)
    BY <1>29 DEF Shutdown, CancelTask
  <1>. QED
    BY <1>1, <1>2, <1>3, <1>4, <1>5, <1>6, <1>7, <1>8, <1>9, <1>10, <1>11, <1>12, <1>13, <1>14,
       <1>15, <1>16, <1>17, <1>18, <1>19, <1>20, <1>21, <1>22, <1>23, <1>24, <1>25, <1>26, <1>27,
          <1>28, <1>29
    DEF WorkerStep, Dequeue, Process

\* A project is in hand exactly between pop and the end of its task.
LEMMA CurStep ==
  ASSUME StoreTypeOK, WorkerTypeOK, CurIsInHand, NEW w \in Workers, WorkerStep(w) \/ Shutdown(w)
  PROVE  CurIsInHand'
  <1>. USE DEF WorkerTypeOK, WorkerStates, CurIsInHand, WAt, TaskLabels, Cur
  <1>1. CASE StartPassW(w)
    BY <1>1 DEF StartPassW, WGo
  <1>2. CASE Pop(w)
    BY <1>2, PopEffect DEF Pop
  <1>3. CASE LoadPayload(w)
    BY <1>3 DEF LoadPayload, WGo
  <1>4. CASE NoPayload(w)
    BY <1>4 DEF NoPayload, WGo, NextEntry
  <1>5. CASE SetPending(w)
    BY <1>5 DEF SetPending, NextEntry
  <1>6. CASE CheckStatus(w)
    BY <1>6 DEF CheckStatus, WGo
  <1>7. CASE DropOrphan(w)
    BY <1>7 DEF DropOrphan, NextEntry
  <1>8. CASE CheckCancel(w)
    BY <1>8 DEF CheckCancel, WGo
  <1>9. CASE AbandonPayload(w)
    BY <1>9 DEF AbandonPayload, WGo
  <1>10. CASE AbandonFlag(w)
    BY <1>10 DEF AbandonFlag, NextEntry
  <1>11. CASE ClaimSnapshot(w)
    <2>1. CASE Defer(w, "flush")
      BY <2>1, DeferEffect DEF WorkerLabels, DequeueLabels
    <2>2. CASE ~Defer(w, "flush")
      BY <1>11, <2>2 DEF ClaimSnapshot
    <2>. QED
      BY <2>1, <2>2
  <1>12. CASE ClaimCommit(w)
    BY <1>12 DEF ClaimCommit, WGo
  <1>13. CASE ClaimRefused(w)
    <2>1. CASE Defer(w, "pop")
      BY <2>1, DeferEffect DEF WorkerLabels, DequeueLabels
    <2>2. CASE WGo(w, "abandon")
      BY <1>13, <2>2 DEF ClaimRefused, WGo
    <2>. QED
      BY <1>13, <2>1, <2>2 DEF ClaimRefused
  <1>14. CASE Claimed(w)
    BY <1>14 DEF Claimed
  <1>15. CASE Reenqueue(w)
    BY <1>15 DEF Reenqueue, Held
  <1>16. CASE EndPass(w)
    BY <1>16 DEF EndPass, Held
  <1>17. CASE TakeLease(w)
    BY <1>17 DEF TakeLease
  <1>18. CASE StartPipeline(w)
    BY <1>18 DEF StartPipeline, WGo
  <1>19. CASE Gate(w)
    BY <1>19 DEF Gate, WGo
  <1>20. CASE InterruptedChecksFlag(w)
    BY <1>20 DEF InterruptedChecksFlag
  <1>21. CASE CancelledChecksFlag(w)
    BY <1>21 DEF CancelledChecksFlag
  <1>22. CASE Settle(w)
    BY <1>22 DEF Settle
  <1>23. CASE Watch(w)
    BY <1>23 DEF Watch, CancelTask
  <1>24. CASE CheckLease(w)
    BY <1>24 DEF CheckLease
  <1>25. CASE ReleaseLease(w)
    BY <1>25 DEF ReleaseLease, WGo
  <1>26. CASE EndTask(w)
    BY <1>26 DEF EndTask
  <1>27. CASE Finish(w)
    BY <1>27 DEF Finish
  <1>28. CASE Interrupt(w)
    BY <1>28 DEF Interrupt, WGo
  <1>29. CASE Shutdown(w)
    BY <1>29 DEF Shutdown, CancelTask
  <1>. QED
    BY <1>1, <1>2, <1>3, <1>4, <1>5, <1>6, <1>7, <1>8, <1>9, <1>10, <1>11, <1>12, <1>13, <1>14,
       <1>15, <1>16, <1>17, <1>18, <1>19, <1>20, <1>21, <1>22, <1>23, <1>24, <1>25, <1>26, <1>27,
          <1>28, <1>29
    DEF WorkerStep, Dequeue, Process

------------------------------------------------------------------------------
(* The whole pipeline.                                                         *)

\* A process that starts or is dead is well typed.
LEMMA OffType == Off \in WorkerStates /\ Ready \in WorkerStates
  <1>1. 0 \in 0 .. MaxAttempts
    BY WorkerAssumption
  <1>. QED
    BY <1>1 DEF Off, Ready, WorkerStates, WorkerLabels

\* So are the loops of a process that ends.
LEMMA StopLoopsType ==
  ASSUME ClientTypeOK, NEW w \in Workers, StopLoops(w)
  PROVE  ClientTypeOK'
  BY IdleType DEF ClientTypeOK, StopLoops

\* Types alone are not inductive: they rest on what a worker has in hand.
Facts == TypeOK /\ OutcomeIsKnown /\ CurIsInHand

\* The initial states satisfy the invariant...
LEMMA FactsInit ==
  ASSUME Init
  PROVE  Facts
  <1>1. StoreTypeOK
    <2>1. status \in [Projects -> Statuses]
      BY FaultAssumption DEF Init
    <2>2. zqueue \in [Projects -> Nat]
      <3>1. PICK at \in [Projects -> Times] :
              zqueue = [p \in Projects |-> IF status[p] = "queued"
                                           THEN ComputeQueueScore(Priority[p], at[p]) ELSE 0]
        BY DEF Init
      <3>2. ASSUME NEW p \in Projects PROVE ComputeQueueScore(Priority[p], at[p]) \in Nat
        BY ScoreIsNat, StoreAssumption
      <3>. QED
        BY <3>1, <3>2
    <2>3. payload \in [Projects -> BOOLEAN]
      BY Zenon DEF Init
    <2>4. cancel \in [Projects -> BOOLEAN] /\ lease \in [Projects -> Workers \cup {NoWorker}]
      BY DEF Init
    <2>. QED
      BY <2>1, <2>2, <2>3, <2>4 DEF StoreTypeOK
  <1>2. ClientTypeOK
    BY IdleType DEF Init, ClientTypeOK
  <1>3. WorkerTypeOK
    BY OffType DEF Init, WorkerTypeOK
  <1>4. faults \in 0 .. MaxFaults /\ requests \in 0 .. MaxRequests
    BY FaultAssumption DEF Init
  <1>5. OutcomeIsKnown /\ CurIsInHand
    BY DEF Init, OutcomeIsKnown, CurIsInHand, WAt, Cur, Ready, Off
  <1>. QED
    BY <1>1, <1>2, <1>3, <1>4, <1>5 DEF Facts, TypeOK

\* ... and every step preserves it.
LEMMA FactsStep ==
  ASSUME Facts, Next
  PROVE  Facts'
  <1>. USE DEF Facts, TypeOK
  <1>. DEFINE Counts == faults \in 0 .. MaxFaults /\ requests \in 0 .. MaxRequests
  <1>1. ASSUME NEW a \in Actors, Asks(a) \/ Client(a)
        PROVE  Facts'
    <2>1. Job(a) \/ Proceed(a) \/ Request(a)
      BY <1>1 DEF Asks, Client
    <2>2. StoreTypeOK' /\ ClientTypeOK'
      BY <2>1, ClientStoreTypeStep, ClientTypeStep
    <2>3. UNCHANGED wk /\ Counts'
      BY <1>1, FaultAssumption DEF Asks, Client, bounds
    <2>. QED
      BY <2>2, <2>3 DEF WorkerTypeOK, OutcomeIsKnown, CurIsInHand, WAt, Cur
  <1>2. ASSUME NEW a \in Actors, Abort(a)
        PROVE  Facts'
    <2>1. ClientTypeOK'
      BY <1>2, IdleType, BecomesType DEF Abort
    <2>2. UNCHANGED <<store, wk>> /\ Counts'
      BY <1>2, FaultAssumption DEF Abort, Fault
    <2>. QED
      BY <2>1, <2>2 DEF store, StoreTypeOK, WorkerTypeOK, OutcomeIsKnown, CurIsInHand, WAt, Cur
  <1>3. ASSUME NEW w \in Workers, Worker(w) \/ Sigterm(w)
        PROVE  Facts'
    <2>1. WorkerStep(w) \/ Shutdown(w)
      BY <1>3 DEF Worker, Sigterm
    <2>2. StoreTypeOK' /\ WorkerTypeOK' /\ OutcomeIsKnown' /\ CurIsInHand'
      BY <2>1, WorkerStoreTypeStep, WorkerTypeStep, OutcomeStep, CurStep
    <2>3. UNCHANGED act /\ Counts'
      BY <1>3, FaultAssumption DEF Worker, Sigterm, Fault, bounds
    <2>. QED
      BY <2>2, <2>3 DEF ClientTypeOK
  <1>4. ASSUME NEW w \in Workers, Exit(w) \/ Kill(w) \/ Restart(w) \/ Crash(w)
        PROVE  Facts'
    <2>1. wk' = [wk EXCEPT ![w] = Off] \/ wk' = [wk EXCEPT ![w] = Ready]
      BY <1>4 DEF Exit, Kill, Restart, Crash
    <2>2. WorkerTypeOK' /\ OutcomeIsKnown' /\ CurIsInHand'
      <3>1. /\ Off.at = "off" /\ Off.cur = NoProject
            /\ Ready.at = "top" /\ Ready.cur = NoProject
        BY DEF Off, Ready
      <3>. QED
        BY <2>1, <3>1, OffType, WorkerBecomesType
        DEF WorkerTypeOK, OutcomeIsKnown, CurIsInHand, WAt, Cur
    <2>3. ClientTypeOK'
      BY <1>4, StopLoopsType DEF Exit, Kill, Restart, Crash, ClientTypeOK
    <2>4. UNCHANGED store /\ Counts'
      BY <1>4, FaultAssumption DEF Exit, Kill, Restart, Crash, Fault, bounds
    <2>. QED
      BY <2>2, <2>3, <2>4 DEF store, StoreTypeOK
  <1>5. ASSUME NEW p \in Projects, LeaseExpires(p) \/ LeaseLapses(p)
        PROVE  Facts'
    <2>1. StoreTypeOK'
      BY <1>5 DEF LeaseExpires, LeaseLapses, DeleteLease, StoreTypeOK
    <2>2. UNCHANGED <<act, wk>> /\ Counts'
      BY <1>5, FaultAssumption DEF LeaseExpires, LeaseLapses, Fault, bounds
    <2>. QED
      BY <2>1, <2>2 DEF ClientTypeOK, WorkerTypeOK, OutcomeIsKnown, CurIsInHand, WAt, Cur
  <1>. QED
    BY <1>1, <1>2, <1>3, <1>4, <1>5 DEF Next

\* The invariant the other theorems rest on.
THEOREM FactsInvariant == Spec => []Facts
  <1>1. Init => Facts
    BY FactsInit
  <1>2. Facts /\ [Next]_vars => Facts'
    <2>1. Facts /\ UNCHANGED vars => Facts'
      BY DEF vars, Facts, TypeOK, StoreTypeOK, ClientTypeOK, WorkerTypeOK, OutcomeIsKnown,
         CurIsInHand, WAt, Cur
    <2>. QED
      BY <2>1, FactsStep
  <1>. QED
    BY <1>1, <1>2, PTL DEF Spec

\* Type correctness of the stores, the clients and the workers: in particular no
\* status is ever written that is not one (Orchestrator._update_project_status).
THEOREM TypeCorrect == Spec => []TypeOK
  <1>1. Facts => TypeOK
    BY DEF Facts
  <1>. QED
    BY <1>1, FactsInvariant, PTL

------------------------------------------------------------------------------
(* The slots of a channel.                                                     *)

\* No request, job or loop writes "running".
LEMMA ClientsNeverRun ==
  ASSUME NEW a \in Actors, StoreTypeOK, Job(a) \/ Proceed(a) \/ Request(a)
  PROVE  \A q \in Projects : status'[q] = "running" => status[q] = "running"
  <1>. USE DEF StoreTypeOK
  <1>1. ASSUME NEW p \in Projects, RunRequest(a, p)
        PROVE  \A q \in Projects : status'[q] = "running" => status[q] = "running"
    BY <1>1 DEF RunRequest, store
  <1>2. ASSUME NEW p \in Projects, StopRequest(a, p)
        PROVE  \A q \in Projects : status'[q] = "running" => status[q] = "running"
    BY <1>2 DEF StopRequest, store
  <1>3. ASSUME NEW p \in Projects, RemoveRequest(a, p)
        PROVE  \A q \in Projects : status'[q] = "running" => status[q] = "running"
    BY <1>3 DEF RemoveRequest, store
  <1>4. ASSUME NEW p \in Projects, DeleteRequest(a, p)
        PROVE  \A q \in Projects : status'[q] = "running" => status[q] = "running"
    BY <1>4 DEF DeleteRequest, store
  <1>5. CASE IsQueued(a)
    BY <1>5 DEF IsQueued, store
  <1>6. CASE EnqueueZscore(a)
    BY <1>6 DEF EnqueueZscore, store
  <1>7. CASE EnqueueRead(a)
    BY <1>7 DEF EnqueueRead, store
  <1>8. CASE EnqueueLease(a)
    BY <1>8 DEF EnqueueLease, store
  <1>9. CASE EnqueueClear(a)
    BY <1>9 DEF EnqueueClear
  <1>10. CASE EnqueuePayload(a)
    BY <1>10 DEF EnqueuePayload
  <1>11. CASE EnqueueZadd(a)
    BY <1>11 DEF EnqueueZadd
  <1>12. CASE EnqueueMark(a)
    BY <1>12 DEF EnqueueMark, UpdateProjectStatus
  <1>13. CASE RemoveZrem(a)
    BY <1>13 DEF RemoveZrem
  <1>14. CASE RemoveRecheck(a)
    BY <1>14 DEF RemoveRecheck, store
  <1>15. CASE RemoveDrop(a)
    BY <1>15 DEF RemoveDrop
  <1>16. CASE RemoveFlag(a)
    BY <1>16 DEF RemoveFlag
  <1>17. CASE RemoveUnqueue(a)
    BY <1>17 DEF RemoveUnqueue, UpdateProjectStatus
  <1>18. CASE DeleteErase(a)
    BY <1>18 DEF DeleteErase
  <1>19. CASE StopRefresh(a)
    BY <1>19 DEF StopRefresh, store
  <1>20. CASE StopFlag(a)
    BY <1>20 DEF StopFlag
  <1>21. CASE StopWrite(a)
    BY <1>21 DEF StopWrite, UpdateProjectStatus
  <1>22. CASE JobStart(a)
    BY <1>22 DEF JobStart, StartPass, store
  <1>23. CASE JobNext(a)
    BY <1>23 DEF JobNext, store
  <1>24. CASE PruneStart(a)
    BY <1>24 DEF PruneStart, StartPass, store
  <1>25. CASE PruneRead(a)
    BY <1>25 DEF PruneRead, store
  <1>26. CASE PruneZrem(a)
    BY <1>26 DEF PruneZrem
  <1>27. CASE PrunePayload(a)
    BY <1>27 DEF PrunePayload
  <1>28. CASE ReconcileStart(a)
    BY <1>28 DEF ReconcileStart, store
  <1>29. CASE ReconcileNext(a)
    BY <1>29 DEF ReconcileNext, store
  <1>30. CASE ResumeStart(a)
    BY <1>30 DEF ResumeStart, StartPass, store
  <1>31. CASE ResumeNext(a)
    BY <1>31 DEF ResumeNext, store
  <1>32. CASE ResumeClaim(a)
    BY <1>32 DEF ResumeClaim
  <1>33. CASE ResumeRepause(a)
    BY <1>33 DEF ResumeRepause
  <1>. QED
    BY <1>1, <1>2, <1>3, <1>4, <1>5, <1>6, <1>7, <1>8, <1>9, <1>10, <1>11, <1>12, <1>13, <1>14,
       <1>15, <1>16, <1>17, <1>18, <1>19, <1>20, <1>21, <1>22, <1>23, <1>24, <1>25, <1>26, <1>27,
          <1>28, <1>29, <1>30, <1>31, <1>32, <1>33
    DEF Job, Proceed, Request, Enqueue, Remove, Stop, Prune, Reconcile, Resume

\* Of a worker's commands, only the claim and the end of an interrupted pipeline
\* write "running", for the project in hand.
LEMMA WorkersRunTheirs ==
  ASSUME NEW w \in Workers, Facts, WorkerStep(w) \/ Shutdown(w)
  PROVE  /\ \A q \in Projects \ {Cur(w)} : status'[q] = "running" => status[q] = "running"
         /\ \/ \A q \in Projects : status'[q] = "running" => status[q] = "running"
            \/ Settle(w) \/ (ClaimCommit(w) /\ wk[w].fits)
  <1>. USE DEF Facts, TypeOK, StoreTypeOK
  <1>1. CASE StartPassW(w)
    BY <1>1 DEF StartPassW, store
  <1>2. CASE Pop(w)
    BY <1>2 DEF Pop
  <1>3. CASE LoadPayload(w)
    BY <1>3 DEF LoadPayload, store
  <1>4. CASE NoPayload(w)
    BY <1>4 DEF NoPayload, store
  <1>5. CASE SetPending(w)
    BY <1>5 DEF SetPending, UpdateProjectStatus
  <1>6. CASE CheckStatus(w)
    BY <1>6 DEF CheckStatus, store
  <1>7. CASE DropOrphan(w)
    BY <1>7 DEF DropOrphan
  <1>8. CASE CheckCancel(w)
    BY <1>8 DEF CheckCancel, store
  <1>9. CASE AbandonPayload(w)
    BY <1>9 DEF AbandonPayload
  <1>10. CASE AbandonFlag(w)
    BY <1>10 DEF AbandonFlag
  <1>11. CASE ClaimSnapshot(w)
    BY <1>11 DEF ClaimSnapshot, store
  <1>12. CASE ClaimCommit(w)
    BY <1>12 DEF ClaimCommit, UpdateProjectStatus
  <1>13. CASE ClaimRefused(w)
    BY <1>13 DEF ClaimRefused, store
  <1>14. CASE Claimed(w)
    BY <1>14 DEF Claimed
  <1>15. CASE Reenqueue(w)
    BY <1>15 DEF Reenqueue
  <1>16. CASE EndPass(w)
    BY <1>16 DEF EndPass, store
  <1>17. CASE TakeLease(w)
    BY <1>17 DEF TakeLease
  <1>18. CASE StartPipeline(w)
    BY <1>18 DEF StartPipeline, store
  <1>19. CASE Gate(w)
    BY <1>19 DEF Gate, store
  <1>20. CASE InterruptedChecksFlag(w)
    BY <1>20 DEF InterruptedChecksFlag, store
  <1>21. CASE CancelledChecksFlag(w)
    BY <1>21 DEF CancelledChecksFlag, store
  <1>22. CASE Settle(w)
    BY <1>22 DEF Settle, UpdateProjectStatus
  <1>23. CASE Watch(w)
    BY <1>23 DEF Watch, store
  <1>24. CASE CheckLease(w)
    BY <1>24 DEF CheckLease, store
  <1>25. CASE ReleaseLease(w)
    BY <1>25 DEF ReleaseLease
  <1>26. CASE EndTask(w)
    BY <1>26 DEF EndTask
  <1>27. CASE Finish(w)
    BY <1>27 DEF Finish, store
  <1>28. CASE Interrupt(w)
    BY <1>28 DEF Interrupt, store
  <1>29. CASE Shutdown(w)
    BY <1>29 DEF Shutdown, store
  <1>. QED
    BY <1>1, <1>2, <1>3, <1>4, <1>5, <1>6, <1>7, <1>8, <1>9, <1>10, <1>11, <1>12, <1>13, <1>14,
       <1>15, <1>16, <1>17, <1>18, <1>19, <1>20, <1>21, <1>22, <1>23, <1>24, <1>25, <1>26, <1>27,
          <1>28, <1>29
    DEF WorkerStep, Dequeue, Process

\* A worker that has a slot afterwards already had it, or has just seen it free.
LEMMA SlotsAreSeen ==
  ASSUME NEW w \in Workers, Facts, WorkerStep(w) \/ Shutdown(w), HasSlot(w)'
  PROVE  /\ Cur(w)' = Cur(w) /\ Cur(w) \in Projects
         /\ HasSlot(w) \/ (SlotFree(Cur(w)) /\ UNCHANGED status)
  <1>. USE DEF Facts, TypeOK, WorkerTypeOK, WorkerStates, CurIsInHand, HasSlot, TaskLabels, WAt, Cur
  <1>1. CASE StartPassW(w)
    BY <1>1 DEF StartPassW, WGo
  <1>2. CASE Pop(w)
    BY <1>2, PopEffect DEF Pop
  <1>3. CASE LoadPayload(w)
    BY <1>3 DEF LoadPayload, WGo
  <1>4. CASE NoPayload(w)
    BY <1>4 DEF NoPayload, WGo, NextEntry
  <1>5. CASE SetPending(w)
    BY <1>5 DEF SetPending, NextEntry
  <1>6. CASE CheckStatus(w)
    BY <1>6 DEF CheckStatus, WGo
  <1>7. CASE DropOrphan(w)
    BY <1>7 DEF DropOrphan, NextEntry
  <1>8. CASE CheckCancel(w)
    BY <1>8 DEF CheckCancel, WGo
  <1>9. CASE AbandonPayload(w)
    BY <1>9 DEF AbandonPayload, WGo
  <1>10. CASE AbandonFlag(w)
    BY <1>10 DEF AbandonFlag, NextEntry
  <1>11. CASE ClaimSnapshot(w)
    <2>1. CASE Defer(w, "flush")
      BY <2>1, DeferEffect DEF WorkerLabels, DequeueLabels
    <2>2. CASE ~Defer(w, "flush")
      BY <1>11, <2>2 DEF ClaimSnapshot, store
    <2>. QED
      BY <2>1, <2>2
  <1>12. CASE ClaimCommit(w)
    BY <1>12 DEF ClaimCommit, WGo
  <1>13. CASE ClaimRefused(w)
    <2>1. CASE Defer(w, "pop")
      BY <2>1, DeferEffect DEF WorkerLabels, DequeueLabels
    <2>2. CASE WGo(w, "abandon")
      BY <1>13, <2>2 DEF WGo
    <2>. QED
      BY <1>13, <2>1, <2>2 DEF ClaimRefused
  <1>14. CASE Claimed(w)
    BY <1>14 DEF Claimed
  <1>15. CASE Reenqueue(w)
    BY <1>15 DEF Reenqueue, Held
  <1>16. CASE EndPass(w)
    BY <1>16 DEF EndPass, Held
  <1>17. CASE TakeLease(w)
    BY <1>17 DEF TakeLease
  <1>18. CASE StartPipeline(w)
    BY <1>18 DEF StartPipeline, WGo
  <1>19. CASE Gate(w)
    BY <1>19 DEF Gate, WGo
  <1>20. CASE InterruptedChecksFlag(w)
    BY <1>20 DEF InterruptedChecksFlag
  <1>21. CASE CancelledChecksFlag(w)
    BY <1>21 DEF CancelledChecksFlag
  <1>22. CASE Settle(w)
    BY <1>22 DEF Settle
  <1>23. CASE Watch(w)
    BY <1>23 DEF Watch, CancelTask
  <1>24. CASE CheckLease(w)
    BY <1>24 DEF CheckLease
  <1>25. CASE ReleaseLease(w)
    BY <1>25 DEF ReleaseLease, WGo
  <1>26. CASE EndTask(w)
    BY <1>26 DEF EndTask
  <1>27. CASE Finish(w)
    BY <1>27 DEF Finish
  <1>28. CASE Interrupt(w)
    BY <1>28 DEF Interrupt, WGo
  <1>29. CASE Shutdown(w)
    BY <1>29 DEF Shutdown, CancelTask
  <1>. QED
    BY <1>1, <1>2, <1>3, <1>4, <1>5, <1>6, <1>7, <1>8, <1>9, <1>10, <1>11, <1>12, <1>13, <1>14,
       <1>15, <1>16, <1>17, <1>18, <1>19, <1>20, <1>21, <1>22, <1>23, <1>24, <1>25, <1>26, <1>27,
          <1>28, <1>29
    DEF WorkerStep, Dequeue, Process

\* With one worker, every step keeps the slots.
LEMMA SlotStep ==
  ASSUME NEW w, Workers = {w}, Facts, SlotIsKept, SlotLimit, Next
  PROVE  SlotIsKept' /\ SlotLimit'
  <1>. DEFINE Frees == \A q \in Projects : status'[q] = "running" => status[q] = "running"
  <1>0. w \in Workers /\ SlotLimit
    OBVIOUS
  <1>1. ASSUME Frees
        PROVE  SlotLimit'
    <2>1. ASSUME NEW c \in Channels
          PROVE  Cardinality(Running(c)') <= MaxSlots[c]
      <3>1. Cardinality(Running(c)') <= Cardinality(Running(c))
        BY <1>1, SlotsStayFree
      <3>2. Running(c)' \subseteq Running(c)
        BY <1>1 DEF Running
      <3>3. Cardinality(Running(c)') \in Nat /\ Cardinality(Running(c)) \in Nat
        BY <3>2, RunningIsFinite, FS_Subset, FS_CardinalityType
      <3>4. MaxSlots[c] \in Nat /\ Cardinality(Running(c)) <= MaxSlots[c]
        BY <1>0, StoreAssumption DEF SlotLimit
      <3>. QED
        BY <3>1, <3>3, <3>4
    <2>. QED
      BY <2>1 DEF SlotLimit
  <1>2. ASSUME Frees, UNCHANGED wk
        PROVE  SlotIsKept'
    <2>1. SUFFICES ASSUME HasSlot(w) PROVE SlotFree(Cur(w))'
      BY <1>2 DEF SlotIsKept, HasSlot, Cur
    <2>2. Cur(w) \in Projects
      BY <2>1 DEF Facts, CurIsInHand, HasSlot, TaskLabels, TypeOK, WorkerTypeOK, WorkerStates, Cur
    <2>3. SlotFree(Cur(w)) /\ Cur(w)' = Cur(w)
      BY <1>2, <2>1 DEF SlotIsKept, Cur
    <2>. QED
      BY <1>2, <2>2, <2>3, SlotsStayFree DEF SlotFree, Running
  <1>3. ASSUME NEW a \in Actors, Asks(a) \/ Client(a) \/ Abort(a)
        PROVE  SlotIsKept' /\ SlotLimit'
    <2>1. UNCHANGED wk
      BY <1>3 DEF Asks, Client, Abort
    <2>2. Frees
      BY <1>3, ClientsNeverRun DEF Asks, Client, Abort, Facts, TypeOK, store
    <2>. QED
      BY <1>1, <1>2, <2>1, <2>2
  <1>4. ASSUME NEW p \in Projects, LeaseExpires(p) \/ LeaseLapses(p)
        PROVE  SlotIsKept' /\ SlotLimit'
    <2>1. UNCHANGED <<status, wk>>
      BY <1>4 DEF LeaseExpires, LeaseLapses
    <2>. QED
      BY <1>1, <1>2, <2>1
  <1>5. ASSUME Exit(w) \/ Kill(w) \/ Restart(w) \/ Crash(w)
        PROVE  SlotIsKept' /\ SlotLimit'
    <2>1. UNCHANGED status
      BY <1>5 DEF Exit, Kill, Restart, Crash, store
    <2>2. wk'[w] = Off \/ wk'[w] = Ready
      BY <1>5 DEF Exit, Kill, Restart, Crash, Facts, TypeOK, WorkerTypeOK
    <2>3. SlotIsKept'
      BY <2>2 DEF SlotIsKept, HasSlot, Off, Ready, Cur, TaskLabels
    <2>. QED
      BY <1>1, <2>1, <2>3
  <1>6. ASSUME Worker(w) \/ Sigterm(w)
        PROVE  SlotIsKept' /\ SlotLimit'
    <2>1. WorkerStep(w) \/ Shutdown(w)
      BY <1>6 DEF Worker, Sigterm
    <2>2. CASE Frees
      <3>1. SUFFICES ASSUME HasSlot(w)' PROVE SlotFree(Cur(w))'
        BY <1>1, <2>2 DEF SlotIsKept
      <3>2. Cur(w)' = Cur(w) /\ Cur(w) \in Projects /\ SlotFree(Cur(w))
        BY <2>1, <3>1, SlotsAreSeen DEF SlotIsKept
      <3>. QED
        BY <2>2, <3>2, SlotsStayFree DEF SlotFree, Running
    <2>3. CASE ~Frees
      <3>1. HasSlot(w)
        BY <2>1, <2>3, WorkersRunTheirs DEF HasSlot, Settle, ClaimCommit, WAt, TaskLabels
      <3>2. Cur(w) \in Projects /\ SlotFree(Cur(w))
        BY <3>1 DEF SlotIsKept, Facts, CurIsInHand, HasSlot, TaskLabels, TypeOK, WorkerTypeOK,
           WorkerStates, Cur
      <3>3. \A q \in Projects \ {Cur(w)} : status'[q] = "running" => status[q] = "running"
        BY <2>1, WorkersRunTheirs
      <3>. DEFINE p == Cur(w)
      <3>4. p \in Projects /\ SlotFree(p)
        BY <3>2
      <3>5. \A q \in Projects \ {p} : status'[q] = "running" => status[q] = "running"
        BY <3>3
      <3>6. PICK q \in Projects : q = p
        BY <3>4
      <3>7. (\A c \in Channels : Cardinality(Running(c)') <= MaxSlots[c]) /\ SlotFree(q)'
        BY <1>0, <3>4, <3>5, <3>6, SlotIsTaken DEF SlotLimit
      <3>8. SlotLimit'
        BY <3>7 DEF SlotLimit
      <3>9. SlotIsKept'
        <4>1. SUFFICES ASSUME HasSlot(w)' PROVE SlotFree(Cur(w))'
          BY DEF SlotIsKept
        <4>2. Cur(w)' = q
          BY <2>1, <3>6, <4>1, SlotsAreSeen
        <4>. QED
          BY <3>7, <4>2 DEF SlotFree, Running
      <3>. QED
        BY <3>8, <3>9
    <2>. QED
      BY <2>2, <2>3
  <1>. QED
    BY <1>3, <1>4, <1>5, <1>6 DEF Next

\* With one worker a channel never has more running projects than it has slots,
\* whatever the requests, the jobs and the faults (try_claim_project, and the
\* "running" that an interrupted pipeline writes).
THEOREM OneWorkerKeepsSlots ==
  ASSUME NEW w, Workers = {w}
  PROVE  Spec => []SlotLimit
  <1>1. Init => SlotIsKept /\ SlotLimit
    BY DEF Init, SlotIsKept, HasSlot, Ready, Off, TaskLabels, Cur, SlotLimit
  <1>2. Facts /\ SlotIsKept /\ SlotLimit /\ [Next]_vars => (SlotIsKept /\ SlotLimit)'
    <2>1. SlotIsKept /\ SlotLimit /\ UNCHANGED vars => (SlotIsKept /\ SlotLimit)'
      BY DEF vars, SlotIsKept, HasSlot, Cur, SlotFree, SlotLimit, Running
    <2>. QED
      BY <2>1, SlotStep
  <1>. QED
    BY <1>1, <1>2, FactsInvariant, PTL DEF Spec
==============================================================================

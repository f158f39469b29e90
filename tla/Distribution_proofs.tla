-------------------------- MODULE Distribution_proofs --------------------------
(***************************************************************************)
(* The distribution agent, for any number of videos, passes and requests,  *)
(* of tries and of polls: what a pass has claimed is its own, and no video *)
(* is sent twice.                                                          *)
(***************************************************************************)
EXTENDS MCServices, TLAPS, FiniteSetTheorems

PubRows == [video : Videos, status : D!Live \cup {"failed"}, at : Nat, doneAt : Nat, byAgent : BOOLEAN]

PassStates == [at : D!Labels, day : Nat, long : Nat, short : Nat, todo : Seq(Videos), slots : SUBSET Nat,
               due : Seq([id : Nat, purged : BOOLEAN]), tries : 0 .. MaxTries, polls : 0 .. MaxPolls,
               known : Nat]

PostStates == [state : {"none", "working", "live", "dead"}, copies : Nat, calls : Nat, stray : BOOLEAN]

CallStates == [at : {"idle", "insert"}, video : Videos \cup {D!NoCall.video}, known : Nat]

\* The slot being chosen is for a video of which the quota is not used up.
MayChoose(x) ==
  x.at = "choose" => x.todo # <<>> /\ (IF D!IsShort(Head(x.todo)) THEN x.short ELSE x.long) # 0

\* The types of the agent, its records in full.
AgentTypeOK ==
  /\ now \in Nat /\ pubs \in Seq(PubRows) /\ cfg \in ChannelSettings /\ post \in [D!Ids -> PostStates]
  /\ run \in [Runs -> PassStates] /\ call \in [Callers -> CallStates]
  /\ \A c \in Callers : call[c].at = "insert" => call[c].video \in Videos
  /\ purged \subseteq Videos /\ doubtful \subseteq Videos /\ overlap \in BOOLEAN
  /\ \A r \in Runs : MayChoose(run[r])

------------------------------------------------------------------------------
(* Types.                                                                      *)

\* The steps of the component that is checked are its own.
LEMMA AgentSteps ==
  ASSUME focus = "distribution", [ServicesNext]_all
  PROVE  (D!Next \/ UNCHANGED D!vars) /\ UNCHANGED focus
  <1>1. CASE ServicesNext
    BY <1>1 DEF ServicesNext
  <1>2. CASE UNCHANGED all
    BY <1>2 DEF all, distribution, vars, D!vars
  <1>. QED
    BY <1>1, <1>2

\* The parameters are numbers.
LEMMA AgentNumbers ==
  ASSUME D!DistributionAssumption
  PROVE  /\ LongQuota \in Nat /\ ShortQuota \in Nat /\ Lead \in Nat /\ Lead >= 1
         /\ MaxTries \in Nat /\ MaxTries >= 1 /\ MaxPolls \in Nat
         /\ DayLength \in Nat /\ DayLength > 0
         /\ MaxTime \in Nat /\ MaxPubs \in Nat /\ DistributionEvents \in Nat
  BY DEF D!DistributionAssumption

LEMMA DayType ==
  ASSUME D!DistributionAssumption, NEW t \in Nat
  PROVE  D!Day(t) \in Nat
  <1>1. DayLength \in Nat /\ DayLength > 0
    BY AgentNumbers
  <1>2. t \div DayLength \in Nat
    BY <1>1
  <1>. QED
    BY <1>2 DEF D!Day

LEMMA AgentIdle ==
  ASSUME D!DistributionAssumption
  PROVE  D!Idle \in PassStates /\ D!NoCall \in CallStates
  BY DEF D!Idle, D!NoCall, PassStates, CallStates, D!Labels, D!DistributionAssumption

LEMMA AgentTypeInit ==
  ASSUME D!DistributionAssumption, D!Init
  PROVE  AgentTypeOK
  <1>1. pubs = <<>> /\ pubs \in Seq(PubRows)
    BY DEF D!Init
  <1>2. post \in [D!Ids -> PostStates]
    BY DEF D!Init, PostStates
  <1>3. run \in [Runs -> PassStates] /\ call \in [Callers -> CallStates]
    BY AgentIdle DEF D!Init
  <1>. QED
    BY <1>1, <1>2, <1>3 DEF AgentTypeOK, MayChoose, D!Init, D!Idle, D!NoCall

\* A pass takes a well-typed state.
LEMMA PassBecomes ==
  ASSUME AgentTypeOK, NEW r \in Runs, NEW x \in PassStates, run' = [run EXCEPT ![r] = x],
         MayChoose(x)
  PROVE  /\ run' \in [Runs -> PassStates]
         /\ run'[r] = x /\ \A s \in Runs \ {r} : run'[s] = run[s]
         /\ \A s \in Runs : MayChoose(run'[s])
  BY DEF AgentTypeOK

\* The operators on sets that the agent uses are the usual ones.
LEMMA SameCardinality ==
  ASSUME NEW set
  PROVE  D!Cardinality(set) = Cardinality(set)
  BY DEF D!Cardinality, Cardinality, D!IsFiniteSet, IsFiniteSet

\* The videos to plan.
LEMMA PendingType ==
  ASSUME IsFiniteSet(Videos), NEW day
  PROVE  D!Pending(day) \in Seq(Videos)
  <1>1. ASSUME NEW among \in SUBSET Videos PROVE D!SetToSeq(among) \in Seq(among)
    <2>1. IsFiniteSet(among)
      BY FS_Subset
    <2>2. PICK f : f \in Bijection(1 .. Cardinality(among), among)
      BY <2>1, FS_CardinalityType DEF ExistsBijection
    <2>3. f \in [1 .. Cardinality(among) -> among] /\ D!IsInjective(f)
      BY <2>2 DEF Bijection, Injection, IsInjective, D!IsInjective
    <2>. DEFINE F == [1 .. Cardinality(among) -> among]
    <2>4. D!SetToSeq(among) = CHOOSE g \in F : D!IsInjective(g)
      BY SameCardinality DEF D!SetToSeq
    <2>5. f \in F /\ D!IsInjective(f)
      BY <2>3
    <2>. HIDE DEF F
    <2>6. D!SetToSeq(among) \in F
      BY <2>4, <2>5, Zenon
    <2>. QED
      BY <2>1, <2>6, FS_CardinalityType DEF F
  <1>. QED
    BY <1>1 DEF D!Pending

PassTypeOK ==
  /\ run \in [Runs -> PassStates]
  /\ \A r \in Runs : MayChoose(run[r])

\* A pass goes on at another command.
LEMMA PassGoes ==
  ASSUME AgentTypeOK, NEW r \in Runs, NEW l \in D!Labels \ {"choose"}, run' = [run EXCEPT ![r].at = l]
  PROVE  /\ PassTypeOK'
         /\ run'[r].at = l /\ run'[r].due = run[r].due /\ run'[r].todo = run[r].todo
         /\ run'[r].tries = run[r].tries
         /\ \A s \in Runs \ {r} : run'[s] = run[s]
  <1>. DEFINE x == [run[r] EXCEPT !.at = l]
  <1>1. /\ x \in PassStates /\ x.at = l /\ x.due = run[r].due /\ x.todo = run[r].todo
        /\ x.tries = run[r].tries
    BY DEF AgentTypeOK, PassStates
  <1>2. run' = [run EXCEPT ![r] = x]
    OBVIOUS
  <1>. HIDE DEF x
  <1>. QED
    BY <1>1, <1>2, PassBecomes DEF PassTypeOK, MayChoose

\* A pass counts a try,
LEMMA PassTries ==
  ASSUME AgentTypeOK, NEW r \in Runs, run[r].at # "choose", run[r].tries < MaxTries,
         run' = [run EXCEPT ![r].tries = @ + 1], D!DistributionAssumption
  PROVE  /\ PassTypeOK'
         /\ run'[r].at = run[r].at /\ run'[r].due = run[r].due /\ run'[r].todo = run[r].todo
         /\ run'[r].tries = run[r].tries + 1
         /\ \A s \in Runs \ {r} : run'[s] = run[s]
  <1>. DEFINE x == [run[r] EXCEPT !.tries = @ + 1]
  <1>1. run[r] \in PassStates /\ run[r].tries \in 0 .. MaxTries
    BY DEF AgentTypeOK, PassStates
  <1>2. run[r].tries + 1 \in 0 .. MaxTries
    BY <1>1, AgentNumbers
  <1>3. /\ x \in PassStates /\ x.at = run[r].at /\ x.due = run[r].due /\ x.todo = run[r].todo
        /\ x.tries = run[r].tries + 1
    BY <1>1, <1>2 DEF PassStates
  <1>4. run' = [run EXCEPT ![r] = x]
    OBVIOUS
  <1>. HIDE DEF x
  <1>. QED
    BY <1>3, <1>4, PassBecomes DEF PassTypeOK, MayChoose

\* or a poll.
LEMMA PassPolls ==
  ASSUME AgentTypeOK, NEW r \in Runs, run[r].at # "choose", run[r].polls < MaxPolls,
         run' = [run EXCEPT ![r].polls = @ + 1], D!DistributionAssumption
  PROVE  /\ PassTypeOK'
         /\ run'[r].at = run[r].at /\ run'[r].due = run[r].due /\ run'[r].todo = run[r].todo
         /\ run'[r].tries = run[r].tries
         /\ \A s \in Runs \ {r} : run'[s] = run[s]
  <1>. DEFINE x == [run[r] EXCEPT !.polls = @ + 1]
  <1>1. run[r] \in PassStates /\ run[r].polls \in 0 .. MaxPolls
    BY DEF AgentTypeOK, PassStates
  <1>2. run[r].polls + 1 \in 0 .. MaxPolls
    BY <1>1, AgentNumbers
  <1>3. /\ x \in PassStates /\ x.at = run[r].at /\ x.due = run[r].due /\ x.todo = run[r].todo
        /\ x.tries = run[r].tries
    BY <1>1, <1>2 DEF PassStates
  <1>4. run' = [run EXCEPT ![r] = x]
    OBVIOUS
  <1>. HIDE DEF x
  <1>. QED
    BY <1>3, <1>4, PassBecomes DEF PassTypeOK, MayChoose

\* A pass leaves its publication for the next.
LEMMA PassOver ==
  ASSUME AgentTypeOK, NEW r \in Runs, run[r].due # <<>>, run' = [run EXCEPT ![r] = D!Over(r)],
         D!DistributionAssumption
  PROVE  /\ PassTypeOK'
         /\ run'[r].at = "claim" /\ run'[r].due = Tail(run[r].due) /\ run'[r].todo = run[r].todo
         /\ run'[r].tries = 0
         /\ \A s \in Runs \ {r} : run'[s] = run[s]
  <1>. DEFINE x == D!Over(r)
  <1>0. run[r] \in PassStates /\ Tail(run[r].due) \in Seq([id : Nat, purged : BOOLEAN])
    BY DEF AgentTypeOK, PassStates
  <1>1. 0 \in 0 .. MaxTries /\ 0 \in 0 .. MaxPolls
    BY AgentNumbers
  <1>2. /\ x \in PassStates /\ x.at = "claim" /\ x.due = Tail(run[r].due) /\ x.todo = run[r].todo
        /\ x.tries = 0
    BY <1>0, <1>1 DEF PassStates, D!Over, D!Labels
  <1>3. run' = [run EXCEPT ![r] = x]
    OBVIOUS
  <1>. HIDE DEF x
  <1>. QED
    BY <1>2, <1>3, PassBecomes DEF PassTypeOK, MayChoose

\* A pass is over, or dies.
LEMMA PassEnds ==
  ASSUME AgentTypeOK, NEW r \in Runs, run' = [run EXCEPT ![r] = D!Idle], D!DistributionAssumption
  PROVE  /\ PassTypeOK' /\ run'[r] = D!Idle
         /\ \A s \in Runs \ {r} : run'[s] = run[s]
  <1>1. D!Idle.at = "idle"
    BY DEF D!Idle
  <1>. QED
    BY <1>1, AgentIdle, PassBecomes DEF PassTypeOK, MayChoose

\* A pass begins.
LEMMA PassBegins ==
  ASSUME AgentTypeOK, NEW r \in Runs, D!Launch(r), D!DistributionAssumption
  PROVE  /\ PassTypeOK' /\ run'[r].at = "plan" /\ run'[r].due = <<>> /\ run'[r].todo = <<>>
         /\ run'[r].day = D!Day(now) + Lead
         /\ \A s \in Runs \ {r} : run'[s] = run[s]
  <1>. DEFINE x == [D!Idle EXCEPT !.at = "plan", !.day = D!Day(now) + Lead]
  <1>0. D!Day(now) \in Nat
    BY DayType DEF AgentTypeOK
  <1>1. D!Day(now) + Lead \in Nat
    BY <1>0, AgentNumbers
  <1>2. x \in PassStates /\ x.at = "plan" /\ x.due = <<>> /\ x.todo = <<>> /\ x.day = D!Day(now) + Lead
    BY <1>1, AgentIdle DEF PassStates, D!Idle, D!Labels
  <1>3. run' = [run EXCEPT ![r] = x]
    BY DEF D!Launch
  <1>. HIDE DEF x
  <1>. QED
    BY <1>2, <1>3, PassBecomes DEF PassTypeOK, MayChoose

\* The rows of a day are finitely many.
LEMMA RowsAreFinite ==
  ASSUME AgentTypeOK, NEW some \in SUBSET D!Rows
  PROVE  IsFiniteSet(some) /\ Cardinality(some) \in Nat /\ D!Cardinality(some) = Cardinality(some)
  <1>1. D!Rows = 1 .. Len(pubs) /\ Len(pubs) \in Nat
    BY DEF AgentTypeOK, D!Rows
  <1>2. IsFiniteSet(D!Rows)
    BY <1>1, FS_Interval
  <1>. QED
    BY <1>2, FS_Subset, FS_CardinalityType, SameCardinality

LEMMA CountType ==
  ASSUME AgentTypeOK, NEW day, NEW short
  PROVE  D!CountFor(day, short) \in Nat
  BY RowsAreFinite DEF D!CountFor

\* A pass has counted what is left, or has nothing left.
LEMMA PassPlans ==
  ASSUME AgentTypeOK, IsFiniteSet(Videos), NEW r \in Runs, D!Plan(r), D!DistributionAssumption
  PROVE  /\ PassTypeOK' /\ run'[r].at \in {"select", "next"} /\ run'[r].due = run[r].due
         /\ run'[r].day = run[r].day
         /\ run'[r].at = "next" =>
              /\ run'[r].long = D!Remaining(LongQuota, D!CountFor(run[r].day, FALSE))
              /\ run'[r].short = D!Remaining(ShortQuota, D!CountFor(run[r].day, TRUE))
         /\ \A s \in Runs \ {r} : run'[s] = run[s]
  <1>. DEFINE l == D!Remaining(LongQuota, D!CountFor(run[r].day, FALSE))
              s == D!Remaining(ShortQuota, D!CountFor(run[r].day, TRUE))
              todo == D!Pending(run[r].day)
              x == [run[r] EXCEPT !.at = "select"]
              y == [run[r] EXCEPT !.at = "next", !.long = l, !.short = s, !.todo = todo]
  <1>1. run' = [run EXCEPT ![r] = IF l = 0 /\ s = 0 THEN x ELSE y]
    BY DEF D!Plan
  <1>2. l \in Nat /\ s \in Nat
    <2>1. \A day \in Nat, short \in BOOLEAN : D!CountFor(day, short) \in Nat
      BY CountType
    <2>2. run[r].day \in Nat
      BY DEF AgentTypeOK, PassStates
    <2>3. \A quota, used \in Nat : D!Remaining(quota, used) \in Nat
      BY DEF D!Remaining
    <2>. QED
      BY <2>1, <2>2, <2>3, AgentNumbers
  <1>3. todo \in Seq(Videos)
    BY PendingType
  <1>. HIDE DEF l, s, todo
  <1>4. /\ x \in PassStates /\ x.at = "select" /\ x.due = run[r].due /\ x.day = run[r].day
        /\ y \in PassStates /\ y.at = "next" /\ y.due = run[r].due /\ y.day = run[r].day
        /\ y.long = l /\ y.short = s
    BY <1>2, <1>3 DEF AgentTypeOK, PassStates, D!Labels
  <1>. HIDE DEF x, y
  <1>5. PassTypeOK' /\ run'[r] \in {x, y} /\ \A v \in Runs \ {r} : run'[v] = run[v]
    BY <1>1, <1>4, PassBecomes DEF PassTypeOK, MayChoose
  <1>. QED
    BY <1>4, <1>5 DEF l, s

\* The slots to come.
LEMMA SlotsType ==
  ASSUME AgentTypeOK, D!DistributionAssumption, NEW where, NEW day \in Nat
  PROVE  D!FreeSlots(where, day) \in SUBSET Nat
  <1>1. now \in Nat /\ DayLength \in Nat /\ cfg.zone \in Int /\ Hours \subseteq Nat
    BY DEF AgentTypeOK, D!DistributionAssumption, D!Zones
  <1>2. \A h \in Hours : day * DayLength + h + cfg.zone \in Int
    BY <1>1
  <1>3. \A t \in D!FreeSlots(where, day) : t > now /\ \E h \in Hours : t = day * DayLength + h + cfg.zone
    BY DEF D!FreeSlots
  <1>. QED
    BY <1>1, <1>2, <1>3

\* Where the slots of a day are of that day in Paris, they are counted for it.
LEMMA SlotsAreOfTheDay ==
  ASSUME AgentTypeOK, D!DistributionAssumption, D!SlotsOfTheDay, NEW where, NEW day \in Nat
  PROVE  \A t \in D!FreeSlots(where, day) : D!Day(t) = day
  <1>1. DayLength \in Nat /\ DayLength > 0 /\ cfg.zone \in Int /\ Hours \subseteq Nat
    BY AgentNumbers DEF AgentTypeOK, D!DistributionAssumption, D!Zones
  <1>. DEFINE from == day * DayLength
  <1>2. from \in Nat
    BY <1>1
  <1>3. ASSUME NEW h \in Hours
        PROVE  D!Day(from + h + cfg.zone) = day
    <2>. DEFINE k == h + cfg.zone
    <2>1. k \in Int /\ 0 <= k /\ k <= DayLength - 1 /\ from + h + cfg.zone = from + k
      BY <1>1, <1>2 DEF D!SlotsOfTheDay
    <2>. HIDE DEF k
    <2>2. (day * DayLength + k) \div DayLength = day
      BY <1>1, <2>1
    <2>. QED
      BY <2>1, <2>2 DEF D!Day
  <1>4. \A t \in D!FreeSlots(where, day) : \E h \in Hours : t = from + h + cfg.zone
    BY DEF D!FreeSlots
  <1>. QED
    BY <1>3, <1>4

\* A video is passed over, or its slot is to be chosen.
LEMMA PassConsiders ==
  ASSUME AgentTypeOK, NEW r \in Runs, D!NextVideo(r), D!DistributionAssumption
  PROVE  /\ PassTypeOK' /\ run'[r].at \in {"select", "next", "choose"} /\ run'[r].due = run[r].due
         /\ run'[r].day = run[r].day /\ run'[r].long = run[r].long /\ run'[r].short = run[r].short
         /\ run'[r].at = "choose" =>
              /\ run'[r].todo = run[r].todo /\ run[r].todo # <<>> /\ run'[r].known = Len(pubs)
              /\ ~D!HasPublication(Head(run[r].todo)) /\ D!Left(r, Head(run[r].todo)) # 0
              /\ run'[r].slots = D!FreeSlots(D!Platform(Head(run[r].todo)), run[r].day)
         /\ \A s \in Runs \ {r} : run'[s] = run[s]
  <1>. DEFINE v == Head(run[r].todo)
              free == D!FreeSlots(D!Platform(v), run[r].day)
              x == [run[r] EXCEPT !.at = "select"]
              y == [run[r] EXCEPT !.todo = Tail(@)]
              z == [run[r] EXCEPT !.at = "choose", !.slots = free, !.known = Len(pubs)]
  <1>1. run[r] \in PassStates /\ Len(pubs) \in Nat /\ run[r].at = "next"
    BY DEF AgentTypeOK, D!NextVideo, D!At
  <1>2. free \in SUBSET Nat
    BY <1>1, SlotsType DEF PassStates
  <1>3. \/ run' = [run EXCEPT ![r] = x]
        \/ run[r].todo # <<>> /\ run' = [run EXCEPT ![r] = y]
        \/ /\ run[r].todo # <<>> /\ ~D!HasPublication(v) /\ D!Left(r, v) # 0
           /\ run' = [run EXCEPT ![r] = z]
    BY DEF D!NextVideo
  <1>. HIDE DEF free
  <1>4. /\ x \in PassStates /\ x.at = "select" /\ x.due = run[r].due /\ x.day = run[r].day
        /\ x.long = run[r].long /\ x.short = run[r].short
    BY <1>1 DEF PassStates, D!Labels
  <1>5. run[r].todo # <<>> =>
        /\ y \in PassStates /\ y.at = "next" /\ y.due = run[r].due /\ y.day = run[r].day
        /\ y.long = run[r].long /\ y.short = run[r].short
    <2>1. run[r].todo # <<>> => Tail(run[r].todo) \in Seq(Videos)
      BY <1>1 DEF PassStates
    <2>. QED
      BY <1>1, <2>1 DEF PassStates
  <1>6. /\ z \in PassStates /\ z.at = "choose" /\ z.due = run[r].due /\ z.day = run[r].day
        /\ z.long = run[r].long /\ z.short = run[r].short
        /\ z.todo = run[r].todo /\ z.known = Len(pubs) /\ z.slots = free
    BY <1>1, <1>2 DEF PassStates, D!Labels
  <1>10. D!Left(r, v) # 0 /\ run[r].todo # <<>> => MayChoose(z)
    BY <1>6 DEF MayChoose, D!Left
  <1>. HIDE DEF x, y, z, v
  <1>7. CASE run' = [run EXCEPT ![r] = x]
    BY <1>4, <1>7, PassBecomes DEF PassTypeOK, MayChoose
  <1>8. CASE run[r].todo # <<>> /\ run' = [run EXCEPT ![r] = y]
    BY <1>5, <1>8, PassBecomes DEF PassTypeOK, MayChoose
  <1>9. CASE run[r].todo # <<>> /\ ~D!HasPublication(v) /\ D!Left(r, v) # 0 /\ run' = [run EXCEPT ![r] = z]
    <2>1. PassTypeOK' /\ run'[r] = z /\ \A s \in Runs \ {r} : run'[s] = run[s]
      BY <1>6, <1>10, <1>9, PassBecomes DEF PassTypeOK
    <2>. QED
      BY <1>6, <1>9, <2>1 DEF free, v
  <1>. QED
    BY <1>3, <1>7, <1>8, <1>9

\* A row is written for the slot chosen.
LEMMA PassSchedules ==
  ASSUME AgentTypeOK, NEW r \in Runs, D!Schedule(r), D!DistributionAssumption
  PROVE  /\ PassTypeOK' /\ run'[r].at = "next" /\ run'[r].due = run[r].due /\ run'[r].day = run[r].day
         /\ run[r].todo # <<>> /\ Head(run[r].todo) \in Videos
         /\ D!Left(r, Head(run[r].todo)) # 0
         /\ run'[r].long = IF D!IsShort(Head(run[r].todo)) THEN run[r].long ELSE run[r].long - 1
         /\ run'[r].short = IF D!IsShort(Head(run[r].todo)) THEN run[r].short - 1 ELSE run[r].short
         /\ \E t \in run[r].slots : t \in Nat /\ pubs' = Append(pubs, D!Row(Head(run[r].todo), t, TRUE))
         /\ \A s \in Runs \ {r} : run'[s] = run[s]
  <1>. DEFINE v == Head(run[r].todo)
              l == IF D!IsShort(v) THEN run[r].long ELSE run[r].long - 1
              s == IF D!IsShort(v) THEN run[r].short - 1 ELSE run[r].short
              x == [run[r] EXCEPT !.at = "next", !.todo = Tail(@), !.slots = {}, !.known = 0,
                                  !.long = l, !.short = s]
  <1>1. run[r] \in PassStates /\ run[r].at = "choose" /\ run[r].todo # <<>> /\ D!Left(r, v) # 0
    BY DEF AgentTypeOK, MayChoose, D!Schedule, D!At, D!Left
  <1>2. v \in Videos /\ Tail(run[r].todo) \in Seq(Videos)
    BY <1>1 DEF PassStates
  <1>3. l \in Nat /\ s \in Nat
    BY <1>1 DEF PassStates, D!Left
  <1>4. run' = [run EXCEPT ![r] = x]
    BY DEF D!Schedule
  <1>5. \E t \in run[r].slots : t \in Nat /\ pubs' = Append(pubs, D!Row(v, t, TRUE))
    BY <1>1 DEF D!Schedule, PassStates
  <1>. HIDE DEF l, s, v
  <1>6. /\ x \in PassStates /\ x.at = "next" /\ x.due = run[r].due /\ x.day = run[r].day
        /\ x.long = l /\ x.short = s
    BY <1>1, <1>2, <1>3 DEF PassStates, D!Labels
  <1>. HIDE DEF x
  <1>7. PassTypeOK' /\ run'[r] = x /\ \A w \in Runs \ {r} : run'[w] = run[w]
    BY <1>4, <1>6, PassBecomes DEF PassTypeOK, MayChoose
  <1>. QED
    BY <1>1, <1>2, <1>5, <1>6, <1>7 DEF l, s, v

\* The due publications, in the order of their slots.
LEMMA PassSelects ==
  ASSUME AgentTypeOK, NEW r \in Runs, D!SelectDue(r), D!DistributionAssumption
  PROVE  /\ PassTypeOK' /\ run'[r].at = "claim" /\ run'[r].tries = 0
         /\ \A k \in 1 .. Len(run'[r].due) : run'[r].due[k].id \in D!Rows /\ pubs[run'[r].due[k].id].at <= now
         /\ \A s \in Runs \ {r} : run'[s] = run[s]
  <1>. DEFINE due == {i \in D!Rows : pubs[i].status = "scheduled" /\ pubs[i].at <= now}
  <1>1. D!Cardinality(due) \in Nat /\ due \subseteq Nat
    BY RowsAreFinite DEF D!Rows, AgentTypeOK
  <1>2. PICK order \in D!SetToSeqs(due) :
          run' = [run EXCEPT ![r] = [D!Idle EXCEPT !.at = "claim",
                    !.due = [k \in DOMAIN order |-> [id |-> order[k],
                                                     purged |-> pubs[order[k]].video \in purged]]]]
    BY DEF D!SelectDue
  <1>. DEFINE q == [k \in DOMAIN order |-> [id |-> order[k], purged |-> pubs[order[k]].video \in purged]]
              x == [D!Idle EXCEPT !.at = "claim", !.due = q]
  <1>3. order \in [1 .. D!Cardinality(due) -> due]
    BY DEF D!SetToSeqs
  <1>. HIDE DEF due
  <1>4. /\ q \in Seq([id : Nat, purged : BOOLEAN])
        /\ \A k \in 1 .. Len(q) : q[k].id \in due
    <2>. DEFINE n == D!Cardinality(due)
    <2>1. n \in Nat /\ DOMAIN order = 1 .. n /\ \A k \in 1 .. n : order[k] \in due /\ order[k] \in Nat
      BY <1>1, <1>3
    <2>. HIDE DEF n
    <2>2. q \in [1 .. n -> [id : Nat, purged : BOOLEAN]] /\ \A k \in 1 .. n : q[k].id \in due
      BY <2>1
    <2>. QED
      BY <2>1, <2>2
  <1>. HIDE DEF q
  <1>5. x \in PassStates /\ x.at = "claim" /\ x.due = q /\ x.tries = 0
    BY <1>4, AgentIdle DEF PassStates, D!Labels, D!Idle
  <1>6. run' = [run EXCEPT ![r] = x]
    BY <1>2 DEF q
  <1>. HIDE DEF x
  <1>7. PassTypeOK' /\ run'[r] = x /\ \A s \in Runs \ {r} : run'[s] = run[s]
    BY <1>5, <1>6, PassBecomes DEF PassTypeOK, MayChoose
  <1>. QED
    BY <1>4, <1>5, <1>7 DEF due

------------------------------------------------------------------------------
(* The invariant.                                                              *)

\* A pass has claimed the publication at the head of its list.
Handling(r) == run[r].at \in {"check", "send", "poll", "container", "publish", "mark", "fail"}

\* What a pass has claimed is being published, and by no other pass.
ClaimsAreHeld ==
  \A r \in Runs :
    /\ \A k \in 1 .. Len(run[r].due) : run[r].due[k].id \in D!Rows
    /\ Handling(r) => run[r].due # <<>> /\ pubs[D!Current(r)].status = "publishing"
    /\ \A s \in Runs \ {r} : Handling(r) /\ Handling(s) => D!Current(r) # D!Current(s)

\* The rows there are, and those about to be written, are within the bound.
Writers == {r \in Runs : run[r].at = "choose"}
Askers == {c \in Callers : call[c].at = "insert"}
RoomKept == Len(pubs) + Cardinality(Writers) + Cardinality(Askers) <= MaxPubs

\* The platform holds nothing of a publication that nobody has claimed.
PostsAreNew ==
  \A i \in D!Ids : i \notin D!Rows \/ pubs[i].status = "scheduled"
                  => post[i].copies = 0 /\ post[i].calls = 0

\* No row of the first n is in the way of another publication of the video.
NoneLive(n, v) ==
  n <= Len(pubs) /\ \A i \in 1 .. n : pubs[i].video = v => pubs[i].status \notin D!Live

\* A video that is not in doubt has one live row at most, what it had before has not
\* reached the platform, and a row about to be written knows of all.
SentOnce ==
  /\ \A i \in D!Rows : pubs[i].status = "failed" /\ pubs[i].video \notin doubtful => ~D!Reached(i)
  /\ \A i, j \in D!Rows : i # j /\ pubs[i].video = pubs[j].video /\ pubs[i].video \notin doubtful
       => pubs[i].status \notin D!Live \/ pubs[j].status \notin D!Live
  /\ \A r \in Runs : run[r].at = "choose" => NoneLive(run[r].known, Head(run[r].todo))
  /\ \A c \in Callers : call[c].at = "insert" => NoneLive(call[c].known, call[c].video)

AgentInv == AgentTypeOK /\ ClaimsAreHeld /\ RoomKept /\ PostsAreNew /\ SentOnce

FiniteAgent == D!DistributionAssumption /\ IsFiniteSet(Videos) /\ IsFiniteSet(Runs) /\ IsFiniteSet(Callers)

\* A row is written.
LEMMA RowAppended ==
  ASSUME AgentTypeOK, NEW v \in Videos, NEW t \in Nat, NEW byAgent \in BOOLEAN,
         pubs' = Append(pubs, D!Row(v, t, byAgent))
  PROVE  /\ pubs' \in Seq(PubRows) /\ D!Rows' = D!Rows \cup {Len(pubs) + 1}
         /\ Len(pubs) + 1 \notin D!Rows /\ \A i \in D!Rows : pubs'[i] = pubs[i]
         /\ pubs'[Len(pubs) + 1] = D!Row(v, t, byAgent)
  <1>1. D!Row(v, t, byAgent) \in PubRows
    BY DEF D!Row, PubRows, D!Live
  <1>. QED
    BY <1>1 DEF AgentTypeOK, D!Rows

\* The status of a row is written.
LEMMA RowUpdated ==
  ASSUME AgentTypeOK, NEW i \in D!Rows, NEW s \in D!Live \cup {"failed"},
         \/ pubs' = [pubs EXCEPT ![i].status = s]
         \/ pubs' = [pubs EXCEPT ![i].status = s, ![i].doneAt = now]
  PROVE  /\ pubs' \in Seq(PubRows) /\ D!Rows' = D!Rows
         /\ \A j \in D!Rows \ {i} : pubs'[j] = pubs[j]
         /\ pubs'[i].status = s /\ pubs'[i].video = pubs[i].video /\ pubs'[i].at = pubs[i].at
         /\ pubs'[i].byAgent = pubs[i].byAgent
  <1>. DEFINE x == [pubs[i] EXCEPT !.status = s]
              y == [pubs[i] EXCEPT !.status = s, !.doneAt = now]
  <1>1. pubs[i] \in PubRows /\ now \in Nat
    BY DEF AgentTypeOK, D!Rows
  <1>2. /\ x \in PubRows /\ x.status = s /\ x.video = pubs[i].video /\ x.at = pubs[i].at /\ x.byAgent = pubs[i].byAgent
        /\ y \in PubRows /\ y.status = s /\ y.video = pubs[i].video /\ y.at = pubs[i].at /\ y.byAgent = pubs[i].byAgent
    BY <1>1 DEF PubRows
  <1>3. pubs' = [pubs EXCEPT ![i] = x] \/ pubs' = [pubs EXCEPT ![i] = y]
    OBVIOUS
  <1>. HIDE DEF x, y
  <1>4. pubs \in Seq(PubRows) /\ i \in 1 .. Len(pubs)
    BY DEF AgentTypeOK, D!Rows
  <1>5. ASSUME NEW z \in PubRows, pubs' = [pubs EXCEPT ![i] = z]
        PROVE  /\ pubs' \in Seq(PubRows) /\ Len(pubs') = Len(pubs) /\ pubs'[i] = z
               /\ \A j \in 1 .. Len(pubs) : j # i => pubs'[j] = pubs[j]
    BY <1>4, <1>5
  <1>6. /\ pubs' \in Seq(PubRows) /\ Len(pubs') = Len(pubs) /\ (pubs'[i] = x \/ pubs'[i] = y)
        /\ \A j \in 1 .. Len(pubs) : j # i => pubs'[j] = pubs[j]
    <2>1. CASE pubs' = [pubs EXCEPT ![i] = x]
      BY <1>2, <1>5, <2>1
    <2>2. CASE pubs' = [pubs EXCEPT ![i] = y]
      BY <1>2, <1>5, <2>2
    <2>. QED
      BY <1>3, <2>1, <2>2
  <1>7. D!Rows' = D!Rows /\ \A j \in D!Rows \ {i} : pubs'[j] = pubs[j]
    BY <1>6 DEF D!Rows
  <1>. QED
    BY <1>2, <1>6, <1>7

\* The platform knows the request that a pass sends.
Recognised(r) == post[D!Current(r)].copies > 0 /\ D!OnTiktok(D!Current(r)) /\ cfg.provider \in Deduplicates

\* A request: the platform takes it, or it does not.
LEMMA PostIsCalled ==
  ASSUME AgentTypeOK, NEW r \in Runs, NEW s \in {"working", "live"}, D!Taken(r, s) \/ D!Refused(r),
         D!Current(r) \in D!Ids
  PROVE  LET i == D!Current(r)
         IN  /\ post' \in [D!Ids -> PostStates]
             /\ \A j \in D!Ids \ {i} : post'[j] = post[j]
             /\ post'[i].calls = post[i].calls + D!Calls(r)
             /\ \/ post'[i].copies = post[i].copies
                \/ post'[i].copies = post[i].copies + 1 /\ ~Recognised(r)
  <1>. DEFINE i == D!Current(r)
              told == [post[i] EXCEPT !.calls = @ + D!Calls(r)]
              more == [state |-> s, copies |-> post[i].copies + 1, calls |-> post[i].calls + D!Calls(r),
                       stray |-> post[i].stray \/ post[i].state \in {"working", "live"}]
  <1>1. post[i] \in PostStates /\ D!Calls(r) \in {0, 1}
    BY DEF AgentTypeOK, D!Calls
  <1>2. /\ told \in PostStates /\ told.copies = post[i].copies /\ told.calls = post[i].calls + D!Calls(r)
        /\ more \in PostStates /\ more.copies = post[i].copies + 1 /\ more.state = s
        /\ more.calls = post[i].calls + D!Calls(r)
    BY <1>1 DEF PostStates
  <1>3. \/ post' = [post EXCEPT ![i] = told]
        \/ post' = [post EXCEPT ![i] = more] /\ ~Recognised(r)
    <2>1. CASE D!Refused(r)
      BY <2>1 DEF D!Refused
    <2>2. CASE D!Taken(r, s)
      <3>1. post' = [post EXCEPT ![i] = IF Recognised(r) THEN told ELSE more]
        BY <2>2 DEF D!Taken, Recognised
      <3>. QED
        BY <3>1
    <2>. QED
      BY <2>1, <2>2
  <1>. HIDE DEF told, more
  <1>4. ASSUME NEW x \in PostStates, post' = [post EXCEPT ![i] = x]
        PROVE  post' \in [D!Ids -> PostStates] /\ post'[i] = x /\ \A j \in D!Ids \ {i} : post'[j] = post[j]
    BY <1>4 DEF AgentTypeOK
  <1>. QED
    BY <1>2, <1>3, <1>4

\* A request that is taken and not known leaves a copy, the one that is followed.
LEMMA NewCopy ==
  ASSUME AgentTypeOK, NEW r \in Runs, NEW s, D!Taken(r, s), ~Recognised(r), D!Current(r) \in D!Ids
  PROVE  /\ post'[D!Current(r)].state = s
         /\ post'[D!Current(r)].copies = post[D!Current(r)].copies + 1
  BY DEF AgentTypeOK, D!Taken, Recognised

------------------------------------------------------------------------------
(* Steps.                                                                      *)

\* A step of a pass that writes neither the rows nor the platform.
Quiet(r) ==
  /\ UNCHANGED <<pubs, post, call, doubtful>> /\ PassTypeOK'
  /\ \A s \in Runs \ {r} : run'[s] = run[s]
  /\ run'[r].at = "choose" =>
       /\ run[r].at = "next" /\ D!Room /\ run'[r].known = Len(pubs)
       /\ ~D!HasPublication(Head(run'[r].todo))
  /\ run[r].at # "choose"
  /\ \A k \in 1 .. Len(run'[r].due) : run'[r].due[k].id \in D!Rows
  /\ run'[r].at = "claim" => run'[r].tries = 0
  /\ Handling(r)' =>
       /\ Handling(r) /\ run'[r].due = run[r].due /\ run'[r].tries = run[r].tries
       /\ run'[r].at \in {"check", "container", "publish"} => run[r].at \in {"check", "container", "publish"}
       /\ run'[r].at = "send" => run[r].at = "check"
       /\ run'[r].at = "poll" => run[r].at = "poll"
       /\ run'[r].at = "mark" =>
            \/ run[r].at = "mark"
            \/ post[D!Current(r)].state = "live"
            \/ run[r].at = "poll" /\ cfg.provider = "composio"

\* A publication, row and post, is left as it is by the steps of the others.
LEMMA QuietStep ==
  ASSUME AgentTypeOK, IsFiniteSet(Videos), ClaimsAreHeld, D!DistributionAssumption, NEW r \in Runs,
         \/ D!Launch(r) \/ D!Plan(r) \/ D!NextVideo(r) \/ D!SelectDue(r) \/ D!EndPass(r) \/ D!Check(r)
         \/ D!Poll(r) \/ D!WaitContainer(r) \/ D!WriteRefused(r)
  PROVE  Quiet(r)
  <1>. USE DEF Quiet, Handling, ClaimsAreHeld, D!At, D!Labels, D!Steps
  <1>1. CASE D!Launch(r)
    <2>1. UNCHANGED <<pubs, post, call, doubtful>> /\ run[r].at = "idle"
      BY <1>1 DEF D!Launch
    <2>2. /\ PassTypeOK' /\ run'[r].at = "plan" /\ run'[r].due = <<>>
          /\ \A s \in Runs \ {r} : run'[s] = run[s]
      BY <1>1, PassBegins
    <2>. QED
      BY <2>1, <2>2
  <1>2. CASE D!Plan(r)
    BY <1>2, PassPlans DEF D!Plan
  <1>3. CASE D!NextVideo(r)
    <2>1. run'[r].at = "choose" => D!Room
      <3>. DEFINE x == [run[r] EXCEPT !.at = "select"]
                  y == [run[r] EXCEPT !.todo = Tail(@)]
      <3>1. ASSUME ~D!Room PROVE run' = [run EXCEPT ![r] = x] \/ run' = [run EXCEPT ![r] = y]
        BY <1>3, <3>1 DEF D!NextVideo
      <3>2. x.at = "select" /\ y.at = run[r].at
        BY DEF AgentTypeOK, PassStates
      <3>. HIDE DEF x, y
      <3>3. run[r].at = "next"
        BY <1>3 DEF D!NextVideo
      <3>. QED
        BY <3>1, <3>2, <3>3 DEF AgentTypeOK
    <2>. QED
      BY <1>3, <2>1, PassConsiders DEF D!NextVideo
  <1>4. CASE D!SelectDue(r)
    BY <1>4, PassSelects DEF D!SelectDue
  <1>5. CASE D!EndPass(r)
    <2>1. UNCHANGED <<pubs, post, call, doubtful>> /\ run[r].at = "claim" /\ run' = [run EXCEPT ![r] = D!Idle]
      BY <1>5 DEF D!EndPass
    <2>2. PassTypeOK' /\ run'[r] = D!Idle /\ \A s \in Runs \ {r} : run'[s] = run[s]
      BY <2>1, PassEnds
    <2>3. D!Idle.at = "idle" /\ D!Idle.due = <<>>
      BY DEF D!Idle
    <2>. QED
      BY <2>1, <2>2, <2>3
  <1>6. CASE D!Check(r)
    <2>1. PICK l \in {"container", "send", "fail"} : run' = [run EXCEPT ![r].at = l]
      BY <1>6 DEF D!Check
    <2>. QED
      BY <1>6, <2>1, PassGoes DEF D!Check
  <1>7. CASE D!Poll(r)
    <2>1. CASE run[r].polls < MaxPolls /\ run' = [run EXCEPT ![r].polls = @ + 1]
      BY <1>7, <2>1, PassPolls DEF D!Poll
    <2>2. ASSUME NEW l \in {"mark", "fail"}, run' = [run EXCEPT ![r].at = l],
                 l = "mark" => post[D!Current(r)].state = "live" \/ cfg.provider = "composio"
          PROVE  Quiet(r)
      BY <1>7, <2>2, PassGoes DEF D!Poll
    <2>. QED
      BY <1>7, <2>1, <2>2 DEF D!Poll
  <1>8. CASE D!WaitContainer(r)
    <2>1. CASE run[r].polls < MaxPolls /\ run' = [run EXCEPT ![r].polls = @ + 1]
      BY <1>8, <2>1, PassPolls DEF D!WaitContainer
    <2>2. ASSUME NEW l \in {"publish", "fail"}, run' = [run EXCEPT ![r].at = l]
          PROVE  Quiet(r)
      BY <1>8, <2>2, PassGoes DEF D!WaitContainer
    <2>. QED
      BY <1>8, <2>1, <2>2 DEF D!WaitContainer
  <1>9. CASE D!WriteRefused(r)
    <2>1. CASE D!At(r, "mark") /\ run' = [run EXCEPT ![r].at = "fail"]
      <3>1. UNCHANGED <<pubs, post, call, doubtful>>
        BY <1>9 DEF D!WriteRefused
      <3>2. /\ PassTypeOK' /\ run'[r].at = "fail" /\ run'[r].due = run[r].due
            /\ \A s \in Runs \ {r} : run'[s] = run[s]
        BY <2>1, PassGoes
      <3>. QED
        BY <2>1, <3>1, <3>2
    <2>2. CASE D!At(r, "fail") /\ run' = [run EXCEPT ![r] = D!Idle]
      <3>1. UNCHANGED <<pubs, post, call, doubtful>>
        BY <1>9 DEF D!WriteRefused
      <3>2. PassTypeOK' /\ run'[r] = D!Idle /\ \A s \in Runs \ {r} : run'[s] = run[s]
        BY <2>2, PassEnds
      <3>3. D!Idle.at = "idle" /\ D!Idle.due = <<>>
        BY DEF D!Idle
      <3>. QED
        BY <2>2, <3>1, <3>2, <3>3
    <2>. QED
      BY <1>9, <2>1, <2>2 DEF D!WriteRefused
  <1>. QED
    BY <1>1, <1>2, <1>3, <1>4, <1>5, <1>6, <1>7, <1>8, <1>9

\* A request of a pass, which goes on, tries again or gives up.
Sends(r) ==
  /\ UNCHANGED <<pubs, call, doubtful>> /\ PassTypeOK'
  /\ \A s \in Runs \ {r} : run'[s] = run[s]
  /\ run[r].at \in {"send", "publish"} /\ run'[r].due = run[r].due
  /\ run'[r].at \in {"send", "poll", "mark", "fail"}
  /\ run'[r].at = "send" =>
       /\ run[r].at = "send" /\ D!Platform(pubs[D!Current(r)].video) = "tiktok" /\ cfg.provider # "composio"
       /\ run'[r].tries = run[r].tries + 1 /\ run[r].tries + 1 < MaxTries
  /\ \/ D!Refused(r) /\ run'[r].at \in {"send", "fail"}
     \/ /\ D!Taken(r, "live") /\ run'[r].at \in {"mark", "fail"}
        /\ run[r].at = "publish" \/ D!Platform(pubs[D!Current(r)].video) = "youtube"
     \/ /\ D!Taken(r, "working") /\ run'[r].at \in {"send", "poll", "fail"}
        /\ run[r].at = "send" /\ D!Platform(pubs[D!Current(r)].video) = "tiktok"

LEMMA CallStep ==
  ASSUME AgentTypeOK, D!DistributionAssumption, NEW r \in Runs,
         D!UploadYoutube(r) \/ D!CreateTiktok(r) \/ D!PublishContainer(r)
  PROVE  Sends(r)
  <1>. USE DEF Sends, D!At, D!Labels, D!Steps
  <1>1. CASE D!UploadYoutube(r)
    BY <1>1, PassGoes DEF D!UploadYoutube
  <1>2. CASE D!CreateTiktok(r)
    <2>1. /\ run[r].at = "send" /\ D!Platform(pubs[D!Current(r)].video) = "tiktok"
          /\ UNCHANGED <<now, pubs, purged, call, events, overlap, doubtful>>
      BY <1>2 DEF D!CreateTiktok
    <2>2. CASE /\ cfg.provider # "composio" /\ run[r].tries + 1 < MaxTries
               /\ run' = [run EXCEPT ![r].tries = @ + 1]
      <3>1. run[r].tries < MaxTries
        BY <2>2, AgentNumbers DEF AgentTypeOK, PassStates
      <3>2. D!Taken(r, "working") \/ D!Refused(r)
        BY <1>2 DEF D!CreateTiktok
      <3>. QED
        BY <2>1, <2>2, <3>1, <3>2, PassTries
    <2>3. ASSUME NEW l \in {"poll", "fail"}, run' = [run EXCEPT ![r].at = l],
                 D!Taken(r, "working") \/ (l = "fail" /\ D!Refused(r))
          PROVE  Sends(r)
      BY <2>1, <2>3, PassGoes
    <2>. QED
      BY <1>2, <2>2, <2>3 DEF D!CreateTiktok
  <1>3. CASE D!PublishContainer(r)
    BY <1>3, PassGoes DEF D!PublishContainer
  <1>. QED
    BY <1>1, <1>2, <1>3

------------------------------------------------------------------------------
(* The bound of the rows.                                                      *)

LEMMA WritersAreFinite ==
  ASSUME FiniteAgent, NEW W \in SUBSET Runs, NEW A \in SUBSET Callers
  PROVE  IsFiniteSet(W) /\ Cardinality(W) \in Nat /\ IsFiniteSet(A) /\ Cardinality(A) \in Nat
  BY FS_Subset, FS_CardinalityType DEF FiniteAgent

LEMMA RoomMeans ==
  ASSUME D!Room
  PROVE  Len(pubs) + Cardinality(Writers) + Cardinality(Askers) < MaxPubs
  BY SameCardinality DEF D!Room, D!At, Writers, Askers

\* A step takes the place it has found, or writes in the place it has taken.
LEMMA RoomStays ==
  ASSUME FiniteAgent, RoomKept, AgentTypeOK, Len(pubs') = Len(pubs),
         \/ Writers' \subseteq Writers /\ Askers' \subseteq Askers
         \/ D!Room /\ (\E r \in Runs : Writers' \subseteq Writers \cup {r}) /\ Askers' = Askers
         \/ D!Room /\ (\E c \in Callers : Askers' \subseteq Askers \cup {c}) /\ Writers' = Writers
  PROVE  RoomKept'
  <1>1. /\ Writers \in SUBSET Runs /\ Writers' \in SUBSET Runs /\ Askers \in SUBSET Callers
        /\ Askers' \in SUBSET Callers
    BY DEF Writers, Askers
  <1>2. /\ IsFiniteSet(Writers) /\ IsFiniteSet(Askers) /\ Cardinality(Writers) \in Nat
        /\ Cardinality(Askers) \in Nat /\ Cardinality(Writers') \in Nat /\ Cardinality(Askers') \in Nat
    BY <1>1, WritersAreFinite
  <1>3. Len(pubs) \in Nat /\ MaxPubs \in Nat
    BY AgentNumbers DEF AgentTypeOK, FiniteAgent
  <1>4. CASE Writers' \subseteq Writers /\ Askers' \subseteq Askers
    <2>1. Cardinality(Writers') <= Cardinality(Writers) /\ Cardinality(Askers') <= Cardinality(Askers)
      BY <1>2, <1>4, FS_Subset
    <2>. QED
      BY <1>2, <1>3, <2>1 DEF RoomKept
  <1>5. ASSUME D!Room, NEW r \in Runs, Writers' \subseteq Writers \cup {r}, Askers' = Askers
        PROVE  RoomKept'
    <2>1. Cardinality(Writers') <= Cardinality(Writers) + 1
      <3>1. /\ IsFiniteSet(Writers \cup {r})
            /\ Cardinality(Writers \cup {r}) = IF r \in Writers THEN Cardinality(Writers) ELSE Cardinality(Writers) + 1
        BY <1>2, FS_AddElement, Zenon
      <3>2. Cardinality(Writers') <= Cardinality(Writers \cup {r}) /\ Cardinality(Writers \cup {r}) \in Nat
        BY <1>5, <3>1, FS_Subset, FS_CardinalityType
      <3>. QED
        BY <1>2, <3>1, <3>2
    <2>2. Len(pubs) + Cardinality(Writers) + Cardinality(Askers) < MaxPubs
      BY <1>5, RoomMeans
    <2>. QED
      BY <1>2, <1>3, <1>5, <2>1, <2>2 DEF RoomKept
  <1>6. ASSUME D!Room, NEW c \in Callers, Askers' \subseteq Askers \cup {c}, Writers' = Writers
        PROVE  RoomKept'
    <2>1. Cardinality(Askers') <= Cardinality(Askers) + 1
      <3>1. /\ IsFiniteSet(Askers \cup {c})
            /\ Cardinality(Askers \cup {c}) = IF c \in Askers THEN Cardinality(Askers) ELSE Cardinality(Askers) + 1
        BY <1>2, FS_AddElement, Zenon
      <3>2. Cardinality(Askers') <= Cardinality(Askers \cup {c}) /\ Cardinality(Askers \cup {c}) \in Nat
        BY <1>6, <3>1, FS_Subset, FS_CardinalityType
      <3>. QED
        BY <1>2, <3>1, <3>2
    <2>2. Len(pubs) + Cardinality(Writers) + Cardinality(Askers) < MaxPubs
      BY <1>6, RoomMeans
    <2>. QED
      BY <1>2, <1>3, <1>6, <2>1, <2>2 DEF RoomKept
  <1>. QED
    BY <1>4, <1>5, <1>6

LEMMA RoomIsUsed ==
  ASSUME FiniteAgent, RoomKept, AgentTypeOK, Len(pubs') = Len(pubs) + 1,
         \/ \E r \in Writers : Writers' = Writers \ {r} /\ Askers' = Askers
         \/ \E c \in Askers : Askers' = Askers \ {c} /\ Writers' = Writers
  PROVE  RoomKept'
  <1>1. Writers \in SUBSET Runs /\ Askers \in SUBSET Callers
    BY DEF Writers, Askers
  <1>2. /\ IsFiniteSet(Writers) /\ IsFiniteSet(Askers) /\ Cardinality(Writers) \in Nat
        /\ Cardinality(Askers) \in Nat
    BY <1>1, WritersAreFinite
  <1>3. Len(pubs) \in Nat /\ MaxPubs \in Nat
    BY AgentNumbers DEF AgentTypeOK, FiniteAgent
  <1>4. ASSUME NEW r \in Writers, Writers' = Writers \ {r}, Askers' = Askers
        PROVE  RoomKept'
    <2>1. Cardinality(Writers') = Cardinality(Writers) - 1
      BY <1>2, <1>4, FS_RemoveElement
    <2>. QED
      BY <1>2, <1>3, <1>4, <2>1 DEF RoomKept
  <1>5. ASSUME NEW c \in Askers, Askers' = Askers \ {c}, Writers' = Writers
        PROVE  RoomKept'
    <2>1. Cardinality(Askers') = Cardinality(Askers) - 1
      BY <1>2, <1>5, FS_RemoveElement
    <2>. QED
      BY <1>2, <1>3, <1>5, <2>1 DEF RoomKept
  <1>. QED
    BY <1>4, <1>5

\* Every row has its place on the platform.
LEMMA RowsHavePosts ==
  ASSUME FiniteAgent, RoomKept, AgentTypeOK
  PROVE  D!Rows \subseteq D!Ids /\ D!Rows = 1 .. Len(pubs) /\ Len(pubs) \in Nat
  <1>1. /\ Cardinality(Writers) \in Nat /\ Cardinality(Askers) \in Nat
        /\ Len(pubs) \in Nat /\ MaxPubs \in Nat
    BY WritersAreFinite, AgentNumbers DEF Writers, Askers, AgentTypeOK, FiniteAgent
  <1>2. D!Rows = 1 .. Len(pubs) /\ D!Ids = 1 .. MaxPubs
    BY DEF D!Rows, D!Ids, AgentTypeOK
  <1>. QED
    BY <1>1, <1>2 DEF RoomKept

------------------------------------------------------------------------------
(* Every step keeps the invariant.                                             *)

Surroundings == now \in Nat /\ purged \subseteq Videos /\ overlap \in BOOLEAN /\ cfg \in ChannelSettings

\* What a row about to be written knows stays true while no row comes back to life.
LEMMA NoneLiveStays ==
  ASSUME AgentTypeOK, Len(pubs') \in Nat, Len(pubs) <= Len(pubs'),
         \A j \in D!Rows : /\ pubs'[j].video = pubs[j].video
                           /\ pubs'[j].status \in D!Live => pubs[j].status \in D!Live,
         NEW n \in Nat, NEW v, NoneLive(n, v)
  PROVE  NoneLive(n, v)'
  <1>1. Len(pubs) \in Nat /\ D!Rows = 1 .. Len(pubs)
    BY DEF AgentTypeOK, D!Rows
  <1>2. n <= Len(pubs') /\ 1 .. n \subseteq D!Rows
    BY <1>1 DEF NoneLive
  <1>. QED
    BY <1>2 DEF NoneLive

\* So does all that is known of the videos.
LEMMA SentStays ==
  ASSUME AgentTypeOK, SentOnce, Len(pubs') = Len(pubs), D!Rows' = D!Rows,
         \A j \in D!Rows :
           /\ pubs'[j].video = pubs[j].video
           /\ pubs'[j].status \in D!Live => pubs[j].status \in D!Live
           /\ pubs'[j].status = "failed" => \/ pubs[j].status = "failed" /\ (D!Reached(j)' => D!Reached(j))
                                           \/ pubs[j].video \in doubtful'
                                           \/ ~D!Reached(j)',
         doubtful \subseteq doubtful',
         \A r \in Runs : run'[r].at = "choose" => run'[r] = run[r],
         \A c \in Callers : call'[c].at = "insert" => call'[c] = call[c]
  PROVE  SentOnce'
  <1>1. Len(pubs) \in Nat
    BY DEF AgentTypeOK
  <1>2. ASSUME NEW i \in D!Rows, pubs'[i].status = "failed", pubs'[i].video \notin doubtful'
        PROVE  ~D!Reached(i)'
    BY <1>2 DEF SentOnce
  <1>3. ASSUME NEW i \in D!Rows, NEW j \in D!Rows, i # j, pubs'[i].video = pubs'[j].video,
               pubs'[i].video \notin doubtful'
        PROVE  pubs'[i].status \notin D!Live \/ pubs'[j].status \notin D!Live
    BY <1>3 DEF SentOnce
  <1>4. ASSUME NEW r \in Runs, run'[r].at = "choose"
        PROVE  NoneLive(run[r].known, Head(run[r].todo))'
    <2>1. run'[r] = run[r] /\ run[r].known \in Nat
      BY <1>4 DEF AgentTypeOK, PassStates
    <2>2. NoneLive(run[r].known, Head(run[r].todo))
      BY <1>4, <2>1 DEF SentOnce
    <2>. DEFINE n == run[r].known
                v == Head(run[r].todo)
    <2>3. NoneLive(n, v) /\ n \in Nat
      BY <2>1, <2>2
    <2>. HIDE DEF n, v
    <2>4. n <= Len(pubs') /\ \A i \in 1 .. n : pubs'[i].video = v => pubs'[i].status \notin D!Live
      BY <1>1, <2>3 DEF NoneLive, D!Rows, AgentTypeOK
    <2>. QED
      BY <2>1, <2>4 DEF n, v, NoneLive
  <1>5. ASSUME NEW c \in Callers, call'[c].at = "insert"
        PROVE  NoneLive(call[c].known, call[c].video)'
    <2>1. call'[c] = call[c] /\ call[c].known \in Nat
      BY <1>5 DEF AgentTypeOK, CallStates
    <2>2. NoneLive(call[c].known, call[c].video)
      BY <1>5, <2>1 DEF SentOnce
    <2>. DEFINE n == call[c].known
                v == call[c].video
    <2>3. NoneLive(n, v) /\ n \in Nat
      BY <2>1, <2>2
    <2>. HIDE DEF n, v
    <2>4. n <= Len(pubs') /\ \A i \in 1 .. n : pubs'[i].video = v => pubs'[i].status \notin D!Live
      BY <1>1, <2>3 DEF NoneLive, D!Rows, AgentTypeOK
    <2>. QED
      BY <2>1, <2>4 DEF n, v, NoneLive
  <1>. QED
    BY <1>2, <1>3, <1>4, <1>5 DEF SentOnce

LEMMA QuietKeeps ==
  ASSUME FiniteAgent, AgentInv, NEW r \in Runs, Quiet(r), Surroundings'
  PROVE  AgentInv'
  <1>. USE DEF AgentInv
  <1>1. AgentTypeOK'
    BY DEF Quiet, Surroundings, AgentTypeOK, PassTypeOK
  <1>2. ClaimsAreHeld'
    BY DEF Quiet, ClaimsAreHeld, Handling, D!Rows, D!Current
  <1>3. RoomKept'
    <2>1. Askers' = Askers /\ Len(pubs') = Len(pubs)
      BY DEF Quiet, Askers
    <2>2. CASE run'[r].at = "choose"
      <3>1. Writers' \subseteq Writers \cup {r} /\ D!Room
        BY <2>2 DEF Quiet, Writers
      <3>. QED
        BY <2>1, <3>1, RoomStays
    <2>3. CASE run'[r].at # "choose"
      <3>1. Writers' \subseteq Writers
        BY <2>3 DEF Quiet, Writers
      <3>. QED
        BY <2>1, <3>1, RoomStays
    <2>. QED
      BY <2>2, <2>3
  <1>4. PostsAreNew'
    BY DEF Quiet, PostsAreNew, D!Rows
  <1>5. SentOnce'
    <2>1. /\ \A i \in D!Rows' : pubs'[i].status = "failed" /\ pubs'[i].video \notin doubtful' => ~D!Reached(i)'
          /\ \A i, j \in D!Rows' : i # j /\ pubs'[i].video = pubs'[j].video /\ pubs'[i].video \notin doubtful'
               => pubs'[i].status \notin D!Live \/ pubs'[j].status \notin D!Live
          /\ \A c \in Callers : call'[c].at = "insert" => NoneLive(call[c].known, call[c].video)'
      BY DEF Quiet, SentOnce, NoneLive, D!Rows, D!Reached
    <2>2. ASSUME NEW s \in Runs, run'[s].at = "choose"
          PROVE  NoneLive(run[s].known, Head(run[s].todo))'
      <3>1. CASE s # r
        BY <2>2, <3>1 DEF Quiet, SentOnce, NoneLive
      <3>2. CASE s = r
        <4>1. run'[r].known = Len(pubs) /\ ~D!HasPublication(Head(run'[r].todo)) /\ UNCHANGED pubs
          BY <2>2, <3>2 DEF Quiet
        <4>2. Len(pubs) \in Nat /\ D!Rows = 1 .. Len(pubs)
          BY RowsHavePosts
        <4>. QED
          BY <3>2, <4>1, <4>2 DEF NoneLive, D!HasPublication
      <3>. QED
        BY <3>1, <3>2
    <2>. QED
      BY <2>1, <2>2 DEF SentOnce
  <1>. QED
    BY <1>1, <1>2, <1>3, <1>4, <1>5

LEMMA CallKeeps ==
  ASSUME FiniteAgent, AgentInv, NEW r \in Runs, Sends(r), Surroundings'
  PROVE  AgentInv'
  <1>. USE DEF AgentInv
  <1>. DEFINE i == D!Current(r)
  <1>1. i \in D!Rows /\ i \in D!Ids /\ pubs[i].status = "publishing" /\ run[r].due # <<>>
    <2>1. run[r].due # <<>> /\ pubs[i].status = "publishing"
      BY DEF Sends, ClaimsAreHeld, Handling
    <2>2. run[r].due \in Seq([id : Nat, purged : BOOLEAN])
      BY DEF AgentTypeOK, PassStates
    <2>3. 1 \in 1 .. Len(run[r].due) /\ i = run[r].due[1].id
      BY <2>1, <2>2 DEF D!Current
    <2>. QED
      BY <2>1, <2>3, RowsHavePosts DEF ClaimsAreHeld
  <1>2. /\ post' \in [D!Ids -> PostStates] /\ \A j \in D!Ids \ {i} : post'[j] = post[j]
    <2>1. D!Taken(r, "live") \/ D!Taken(r, "working") \/ D!Refused(r)
      BY DEF Sends
    <2>. QED
      BY <1>1, <2>1, PostIsCalled
  <1>3. AgentTypeOK'
    BY <1>2 DEF Sends, Surroundings, AgentTypeOK, PassTypeOK
  <1>4. ClaimsAreHeld'
    BY DEF Sends, ClaimsAreHeld, Handling, D!Rows, D!Current
  <1>5. RoomKept'
    <2>1. Askers' = Askers /\ Writers' \subseteq Writers /\ Len(pubs') = Len(pubs)
      BY DEF Sends, Askers, Writers
    <2>. QED
      BY <2>1, RoomStays
  <1>6. PostsAreNew'
    BY <1>1, <1>2 DEF Sends, PostsAreNew, D!Rows
  <1>7. SentOnce'
    <2>1. \A j \in D!Rows : pubs[j].status = "failed" => post'[j] = post[j]
      BY <1>1, <1>2, RowsHavePosts
    <2>. QED
      BY <2>1 DEF Sends, SentOnce, NoneLive, D!Rows, D!Reached
  <1>. QED
    BY <1>3, <1>4, <1>5, <1>6, <1>7

\* The head of the list of a pass.
LEMMA CurrentIsARow ==
  ASSUME FiniteAgent, AgentInv, NEW r \in Runs, run[r].due # <<>>
  PROVE  /\ D!Current(r) \in D!Rows /\ D!Current(r) \in D!Ids
         /\ Len(Tail(run[r].due)) < Len(run[r].due)
         /\ \A k \in 1 .. Len(Tail(run[r].due)) : Tail(run[r].due)[k].id \in D!Rows
  <1>1. run[r].due \in Seq([id : Nat, purged : BOOLEAN])
    BY DEF AgentInv, AgentTypeOK, PassStates
  <1>2. /\ 1 \in 1 .. Len(run[r].due) /\ D!Current(r) = run[r].due[1].id
        /\ Len(Tail(run[r].due)) < Len(run[r].due)
        /\ \A k \in 1 .. Len(Tail(run[r].due)) : k + 1 \in 1 .. Len(run[r].due)
                                               /\ Tail(run[r].due)[k] = run[r].due[k + 1]
    BY <1>1 DEF D!Current
  <1>3. \A k \in 1 .. Len(run[r].due) : run[r].due[k].id \in D!Rows
    BY DEF AgentInv, ClaimsAreHeld
  <1>. QED
    BY <1>2, <1>3, RowsHavePosts DEF AgentInv

LEMMA AgentClaimKeeps ==
  ASSUME FiniteAgent, AgentInv, NEW r \in Runs, D!Claim(r), Surroundings'
  PROVE  AgentInv'
  <1>. DEFINE i == D!Current(r)
  <1>1. /\ run[r].at = "claim" /\ run[r].due # <<>> /\ UNCHANGED <<now, post, purged, call, events, overlap, doubtful>>
    BY DEF D!Claim, D!At
  <1>2. CASE run' = [run EXCEPT ![r] = D!Over(r)] /\ UNCHANGED pubs
    <2>1. Quiet(r)
      BY <1>1, <1>2, PassOver, CurrentIsARow DEF Quiet, Handling, FiniteAgent, AgentInv
    <2>. QED
      BY <2>1, QuietKeeps
  <1>3. CASE /\ pubs[i].status = "scheduled" /\ pubs' = [pubs EXCEPT ![i].status = "publishing"]
            /\ run' = [run EXCEPT ![r].at = "check"]
    <2>. USE DEF AgentInv
    <2>1. i \in D!Rows /\ i \in D!Ids
      BY <1>1, CurrentIsARow
    <2>2. /\ pubs' \in Seq(PubRows) /\ D!Rows' = D!Rows /\ \A j \in D!Rows \ {i} : pubs'[j] = pubs[j]
          /\ pubs'[i].status = "publishing" /\ pubs'[i].video = pubs[i].video
      BY <1>3, <2>1, RowUpdated DEF D!Live
    <2>3. /\ PassTypeOK' /\ run'[r].at = "check" /\ run'[r].due = run[r].due
          /\ \A s \in Runs \ {r} : run'[s] = run[s]
      BY <1>3, PassGoes DEF D!Labels
    <2>4. AgentTypeOK'
      BY <1>1, <2>2, <2>3 DEF Surroundings, AgentTypeOK, PassTypeOK
    <2>5. ClaimsAreHeld'
      <3>1. \A s \in Runs : Handling(s) => D!Current(s) \in D!Rows /\ D!Current(s) # i
        BY <1>3, CurrentIsARow DEF ClaimsAreHeld
      <3>2. \A s \in Runs : /\ run'[s].due = run[s].due /\ D!Current(s)' = D!Current(s)
                            /\ s # r /\ Handling(s)' => Handling(s)
        BY <2>3 DEF Handling, D!Current
      <3>3. ASSUME NEW s \in Runs
            PROVE  \A k \in 1 .. Len(run'[s].due) : run'[s].due[k].id \in D!Rows'
        BY <2>2, <3>2 DEF ClaimsAreHeld
      <3>4. ASSUME NEW s \in Runs, Handling(s)'
            PROVE  run'[s].due # <<>> /\ pubs'[D!Current(s)'].status = "publishing"
        <4>1. CASE s = r
          BY <1>1, <2>2, <3>2, <4>1
        <4>2. CASE s # r
          BY <2>2, <3>1, <3>2, <3>4, <4>2 DEF ClaimsAreHeld
        <4>. QED
          BY <4>1, <4>2
      <3>5. ASSUME NEW s \in Runs, NEW q \in Runs \ {s}, Handling(s)', Handling(q)'
            PROVE  D!Current(s)' # D!Current(q)'
        BY <3>1, <3>2, <3>5 DEF ClaimsAreHeld
      <3>. QED
        BY <3>3, <3>4, <3>5 DEF ClaimsAreHeld
    <2>6. Len(pubs') = Len(pubs)
      BY <2>4, <2>2 DEF AgentTypeOK, D!Rows
    <2>7. RoomKept'
      <3>1. Askers' = Askers /\ Writers' \subseteq Writers
        BY <1>1, <2>3 DEF Askers, Writers
      <3>. QED
        BY <2>6, <3>1, RoomStays
    <2>8. PostsAreNew'
      BY <1>1, <2>2 DEF PostsAreNew
    <2>9. SentOnce'
      <3>1. \A j \in D!Rows :
                             /\ pubs'[j].video = pubs[j].video
                             /\ pubs'[j].status \in D!Live => pubs[j].status \in D!Live
                             /\ pubs'[j].status = "failed" =>
                                  \/ pubs[j].status = "failed" /\ (D!Reached(j)' => D!Reached(j))
                                  \/ pubs[j].video \in doubtful'
                                  \/ ~D!Reached(j)'
        BY <1>1, <1>3, <2>1, <2>2 DEF D!Live, D!Reached
      <3>2. \A s \in Runs : run'[s].at = "choose" => run'[s] = run[s]
        BY <2>3
      <3>3. /\ \A c \in Callers : call'[c].at = "insert" => call'[c] = call[c]
            /\ doubtful \subseteq doubtful'
        BY <1>1
      <3>. QED
        BY <2>2, <2>6, <3>1, <3>2, <3>3, SentStays
    <2>. QED
      BY <2>4, <2>5, <2>7, <2>8, <2>9
  <1>. QED
    BY <1>2, <1>3 DEF D!Claim

LEMMA SettleKeeps ==
  ASSUME FiniteAgent, AgentInv, NEW r \in Runs, D!MarkPublished(r) \/ D!MarkFailed(r), Surroundings'
  PROVE  AgentInv'
  <1>. USE DEF AgentInv
  <1>. DEFINE i == D!Current(r)
  <1>1. /\ run[r].at \in {"mark", "fail"} /\ run' = [run EXCEPT ![r] = D!Over(r)]
        /\ UNCHANGED <<now, post, purged, call, events, overlap>>
    BY DEF D!MarkPublished, D!MarkFailed, D!At
  <1>2. run[r].due # <<>> /\ i \in D!Rows /\ i \in D!Ids /\ pubs[i].status = "publishing"
    BY <1>1, CurrentIsARow DEF ClaimsAreHeld, Handling
  <1>3. PICK st \in {"published", "failed"} :
          /\ pubs' \in Seq(PubRows) /\ D!Rows' = D!Rows /\ \A j \in D!Rows \ {i} : pubs'[j] = pubs[j]
          /\ pubs'[i].status = st /\ pubs'[i].video = pubs[i].video
    BY <1>2, RowUpdated DEF D!MarkPublished, D!MarkFailed, D!Live
  <1>4. /\ doubtful \subseteq doubtful' /\ doubtful' \subseteq Videos
        /\ pubs'[i].status = "failed" => pubs[i].video \in doubtful' \/ ~D!Reached(i)
    <2>1. pubs[i].video \in Videos
      <3>1. pubs[i] \in PubRows
        BY <1>2 DEF AgentTypeOK, D!Rows
      <3>. QED
        BY <3>1 DEF PubRows
    <2>2. CASE D!MarkPublished(r)
      <3>1. /\ pubs' = [pubs EXCEPT ![i].status = "published", ![i].doneAt = now]
            /\ doubtful' = doubtful /\ "published" \in D!Live
        BY <2>2 DEF D!MarkPublished, D!Live
      <3>2. pubs'[i].status = "published"
        BY <1>2, <3>1, RowUpdated
      <3>. QED
        BY <3>1, <3>2 DEF AgentTypeOK
    <2>3. CASE D!MarkFailed(r)
      BY <2>1, <2>3 DEF D!MarkFailed, AgentTypeOK
    <2>. QED
      BY <2>2, <2>3
  <1>5. /\ PassTypeOK' /\ run'[r].at = "claim" /\ run'[r].due = Tail(run[r].due)
        /\ \A s \in Runs \ {r} : run'[s] = run[s]
    BY <1>1, <1>2, PassOver DEF FiniteAgent
  <1>6. AgentTypeOK'
    BY <1>1, <1>3, <1>4, <1>5 DEF Surroundings, AgentTypeOK, PassTypeOK
  <1>7. ClaimsAreHeld'
    <2>1. \A s \in Runs \ {r} : Handling(s) => D!Current(s) \in D!Rows /\ D!Current(s) # i
      BY <1>1, CurrentIsARow DEF ClaimsAreHeld, Handling
    <2>2. \A k \in 1 .. Len(run'[r].due) : run'[r].due[k].id \in D!Rows
      BY <1>2, <1>5, CurrentIsARow
    <2>3. ~Handling(r)'
      BY <1>5 DEF Handling
    <2>4. \A s \in Runs \ {r} : /\ run'[s] = run[s] /\ D!Current(s)' = D!Current(s)
                               /\ Handling(s)' = Handling(s)
      BY <1>5 DEF Handling, D!Current
    <2>5. \A s \in Runs : \A k \in 1 .. Len(run'[s].due) : run'[s].due[k].id \in D!Rows'
      BY <1>3, <2>2, <2>4 DEF ClaimsAreHeld
    <2>6. \A s \in Runs : Handling(s)' => /\ run'[s].due # <<>>
                                         /\ pubs'[D!Current(s)'].status = "publishing"
      BY <1>3, <2>1, <2>3, <2>4 DEF ClaimsAreHeld
    <2>7. \A s \in Runs : \A t \in Runs \ {s} :
            Handling(s)' /\ Handling(t)' => D!Current(s)' # D!Current(t)'
      BY <2>3, <2>4 DEF ClaimsAreHeld
    <2>. QED
      BY <2>5, <2>6, <2>7 DEF ClaimsAreHeld
  <1>8. Len(pubs') = Len(pubs)
    BY <1>3, <1>6 DEF AgentTypeOK, D!Rows
  <1>9. RoomKept'
    <2>1. Askers' = Askers /\ Writers' \subseteq Writers
      BY <1>1, <1>5 DEF Askers, Writers
    <2>. QED
      BY <1>8, <2>1, RoomStays
  <1>10. PostsAreNew'
    BY <1>1, <1>3 DEF PostsAreNew
  <1>11. SentOnce'
    <2>1. \A j \in D!Rows :
            /\ pubs'[j].video = pubs[j].video
            /\ pubs'[j].status \in D!Live => pubs[j].status \in D!Live
            /\ pubs'[j].status = "failed" => \/ pubs[j].status = "failed" /\ (D!Reached(j)' => D!Reached(j))
                                            \/ pubs[j].video \in doubtful'
                                            \/ ~D!Reached(j)'
      BY <1>1, <1>2, <1>3, <1>4 DEF D!Live, D!Reached
    <2>2. \A s \in Runs : run'[s].at = "choose" => run'[s] = run[s]
      BY <1>5
    <2>3. \A c \in Callers : call'[c].at = "insert" => call'[c] = call[c]
      BY <1>1
    <2>. QED
      BY <1>3, <1>4, <1>8, <2>1, <2>2, <2>3, SentStays
  <1>. QED
    BY <1>6, <1>7, <1>9, <1>10, <1>11

\* The rest of the environment.
LEMMA ProcessKeeps ==
  ASSUME FiniteAgent, AgentInv, NEW i \in D!Ids, D!Process(i), Surroundings'
  PROVE  AgentInv'
  <1>. USE DEF AgentInv
  <1>1. /\ UNCHANGED <<now, pubs, purged, run, call, events, overlap, doubtful>> /\ post[i].state = "working"
        /\ post' \in [D!Ids -> PostStates] /\ \A j \in D!Ids \ {i} : post'[j] = post[j]
        /\ post'[i].state \in {"live", "dead"} /\ post'[i].copies = post[i].copies
        /\ post'[i].calls = post[i].calls /\ post'[i].stray = post[i].stray
    BY DEF D!Process, AgentTypeOK, PostStates
  <1>2. AgentTypeOK'
    BY <1>1 DEF Surroundings, AgentTypeOK
  <1>3. ClaimsAreHeld'
    BY <1>1 DEF ClaimsAreHeld, Handling, D!Rows, D!Current
  <1>4. RoomKept'
    BY <1>1 DEF RoomKept, Writers, Askers
  <1>5. PostsAreNew'
    BY <1>1 DEF PostsAreNew, D!Rows
  <1>6. SentOnce'
    <2>1. \A j \in D!Rows : D!Reached(j)' => D!Reached(j)
      BY <1>1, RowsHavePosts DEF D!Reached
    <2>. QED
      BY <1>1, <2>1, SentStays DEF D!Rows
  <1>. QED
    BY <1>2, <1>3, <1>4, <1>5, <1>6

\* Nothing that the invariant tells of changes, but for the passes and requests that die.
LEMMA AgentCrashKeeps ==
  ASSUME FiniteAgent, AgentInv, UNCHANGED <<pubs, post, doubtful>>, Surroundings',
         \/ UNCHANGED <<run, call>>
         \/ run' = [r \in Runs |-> D!Idle] /\ call' = [c \in Callers |-> D!NoCall]
  PROVE  AgentInv'
  <1>. USE DEF AgentInv
  <1>1. CASE UNCHANGED <<run, call>>
    BY <1>1 DEF Surroundings, AgentTypeOK, ClaimsAreHeld, Handling, D!Rows, D!Current, RoomKept, Writers,
       Askers, PostsAreNew, SentOnce, NoneLive, D!Reached
  <1>2. CASE run' = [r \in Runs |-> D!Idle] /\ call' = [c \in Callers |-> D!NoCall]
    <2>1. D!Idle \in PassStates /\ D!NoCall \in CallStates /\ D!Idle.at = "idle" /\ D!Idle.due = <<>>
          /\ D!NoCall.at = "idle"
      BY AgentIdle DEF FiniteAgent, D!Idle, D!NoCall
    <2>2. AgentTypeOK'
      BY <1>2, <2>1 DEF Surroundings, AgentTypeOK, MayChoose
    <2>3. ClaimsAreHeld'
      BY <1>2, <2>1 DEF ClaimsAreHeld, Handling
    <2>4. RoomKept'
      <3>1. Writers' \subseteq Writers /\ Askers' \subseteq Askers
        BY <1>2, <2>1 DEF Writers, Askers
      <3>. QED
        BY <3>1, RoomStays
    <2>5. PostsAreNew'
      BY DEF PostsAreNew, D!Rows
    <2>6. SentOnce'
      BY <1>2, <2>1 DEF SentOnce, D!Rows, D!Reached
    <2>. QED
      BY <2>2, <2>3, <2>4, <2>5, <2>6
  <1>. QED
    BY <1>1, <1>2

\* A row is written by who knew of all the rows of its video, or else the video is in doubt.
LEMMA RowIsNew ==
  ASSUME FiniteAgent, AgentInv, NEW v \in Videos, NEW t \in Nat, NEW byAgent \in BOOLEAN, NEW n \in Nat,
         pubs' = Append(pubs, D!Row(v, t, byAgent)), NoneLive(n, v), UNCHANGED <<post, purged>>,
         doubtful' = doubtful \cup {w \in {v} : D!TakenSince(n, w)}, Surroundings', PassTypeOK',
         call' \in [Callers -> CallStates],
         \A c \in Callers : call'[c].at = "insert" => call'[c] = call[c],
         \A r \in Runs : /\ run'[r].at = "choose" => run'[r] = run[r]
                         /\ run'[r].due = run[r].due /\ (Handling(r)' => Handling(r)),
         RoomKept'
  PROVE  AgentInv'
  <1>. USE DEF AgentInv
  <1>. DEFINE new == Len(pubs) + 1
  <1>1. /\ pubs' \in Seq(PubRows) /\ D!Rows' = D!Rows \cup {new} /\ new \notin D!Rows
        /\ \A i \in D!Rows : pubs'[i] = pubs[i]
        /\ pubs'[new] = D!Row(v, t, byAgent)
    BY RowAppended
  <1>2. pubs'[new].video = v /\ pubs'[new].status = "scheduled"
    BY <1>1 DEF D!Row
  <1>3. AgentTypeOK'
    BY <1>1 DEF Surroundings, AgentTypeOK, PassTypeOK
  <1>4. ClaimsAreHeld'
    <2>1. \A r \in Runs : Handling(r) => D!Current(r) \in D!Rows
      BY CurrentIsARow DEF ClaimsAreHeld
    <2>2. \A r \in Runs : D!Current(r)' = D!Current(r) /\ run'[r].due = run[r].due
      BY DEF D!Current
    <2>3. \A r \in Runs : \A k \in 1 .. Len(run'[r].due) : run'[r].due[k].id \in D!Rows'
      BY <1>1, <2>2 DEF ClaimsAreHeld
    <2>4. ASSUME NEW r \in Runs, Handling(r)'
          PROVE  run'[r].due # <<>> /\ pubs'[D!Current(r)'].status = "publishing"
      <3>1. Handling(r) /\ D!Current(r)' = D!Current(r) /\ run'[r].due = run[r].due
        BY <2>2, <2>4
      <3>2. run[r].due # <<>> /\ pubs[D!Current(r)].status = "publishing" /\ D!Current(r) \in D!Rows
        BY <2>1, <3>1 DEF ClaimsAreHeld
      <3>. QED
        BY <1>1, <3>1, <3>2
    <2>5. \A r \in Runs : \A s \in Runs \ {r} :
            Handling(r)' /\ Handling(s)' => D!Current(r)' # D!Current(s)'
      BY <2>2 DEF ClaimsAreHeld
    <2>. QED
      BY <2>3, <2>4, <2>5 DEF ClaimsAreHeld
  <1>6. PostsAreNew'
    BY <1>1 DEF PostsAreNew
  <1>7. D!Rows = 1 .. Len(pubs) /\ Len(pubs) \in Nat /\ n <= Len(pubs) /\ Len(pubs') = Len(pubs) + 1
    BY RowsHavePosts DEF NoneLive, AgentTypeOK
  <1>8. ASSUME NEW i \in D!Rows, v \notin doubtful', pubs[i].video = v PROVE pubs[i].status \notin D!Live
    <2>1. ~(i > n)
      BY <1>8 DEF D!TakenSince
    <2>2. i \in 1 .. n
      BY <1>7, <2>1
    <2>. QED
      BY <1>8, <2>2 DEF NoneLive
  <1>9. SentOnce'
    <2>1. ASSUME NEW i \in D!Rows', pubs'[i].status = "failed", pubs'[i].video \notin doubtful'
          PROVE  ~D!Reached(i)'
      BY <1>1, <1>2, <2>1 DEF SentOnce, D!Reached
    <2>2. ASSUME NEW i \in D!Rows', NEW j \in D!Rows', i # j, pubs'[i].video = pubs'[j].video,
                 pubs'[i].video \notin doubtful'
          PROVE  pubs'[i].status \notin D!Live \/ pubs'[j].status \notin D!Live
      <3>1. CASE i = new
        BY <1>1, <1>2, <1>8, <2>2, <3>1
      <3>2. CASE j = new
        BY <1>1, <1>2, <1>8, <2>2, <3>2
      <3>3. CASE i # new /\ j # new
        <4>1. i \in D!Rows /\ j \in D!Rows /\ pubs'[i] = pubs[i] /\ pubs'[j] = pubs[j]
          BY <1>1, <3>3
        <4>. QED
          BY <2>2, <4>1 DEF SentOnce
      <3>. QED
        BY <3>1, <3>2, <3>3
    <2>3. ASSUME NEW m \in Nat, NEW w, NoneLive(m, w) PROVE NoneLive(m, w)'
      <3>1. AgentTypeOK /\ Len(pubs') \in Nat /\ Len(pubs) <= Len(pubs')
        BY <1>7
      <3>2. \A j \in D!Rows : /\ pubs'[j].video = pubs[j].video
                              /\ pubs'[j].status \in D!Live => pubs[j].status \in D!Live
        BY <1>1
      <3>. QED
        BY <2>3, <3>1, <3>2, NoneLiveStays
    <2>4. ASSUME NEW r \in Runs, run'[r].at = "choose" PROVE NoneLive(run[r].known, Head(run[r].todo))'
      <3>1. run'[r] = run[r] /\ run[r].at = "choose"
        BY <2>4
      <3>2. NoneLive(run[r].known, Head(run[r].todo))
        BY <3>1 DEF SentOnce
      <3>3. run[r].known \in Nat
        <4>1. run[r] \in PassStates
          BY DEF AgentTypeOK, PassTypeOK
        <4>. QED
          BY <4>1 DEF PassStates
      <3>. QED
        BY <2>3, <3>1, <3>2, <3>3
    <2>5. ASSUME NEW c \in Callers, call'[c].at = "insert" PROVE NoneLive(call[c].known, call[c].video)'
      <3>1. call'[c] = call[c] /\ call[c].at = "insert"
        BY <2>5
      <3>2. NoneLive(call[c].known, call[c].video)
        BY <3>1 DEF SentOnce
      <3>3. call[c].known \in Nat
        BY DEF AgentTypeOK, CallStates
      <3>. QED
        BY <2>3, <3>1, <3>2, <3>3
    <2>. QED
      BY <2>1, <2>2, <2>4, <2>5 DEF SentOnce
  <1>. QED
    BY <1>3, <1>4, <1>6, <1>9

LEMMA ScheduleKeeps ==
  ASSUME FiniteAgent, AgentInv, NEW r \in Runs, D!Schedule(r), Surroundings'
  PROVE  AgentInv'
  <1>. USE DEF AgentInv, FiniteAgent
  <1>. DEFINE v == Head(run[r].todo)
  <1>1. /\ run[r].at = "choose" /\ UNCHANGED <<now, post, purged, call, events, overlap>>
        /\ doubtful' = doubtful \cup {w \in {v} : D!TakenSince(run[r].known, w)}
    BY DEF D!Schedule, D!At
  <1>2. /\ PassTypeOK' /\ run'[r].at = "next" /\ run'[r].due = run[r].due /\ v \in Videos
        /\ \A s \in Runs \ {r} : run'[s] = run[s]
    BY PassSchedules
  <1>3. PICK t \in Nat : pubs' = Append(pubs, D!Row(v, t, TRUE))
    BY PassSchedules
  <1>4. run[r].known \in Nat /\ NoneLive(run[r].known, v)
    BY <1>1 DEF SentOnce, AgentTypeOK, PassStates
  <1>5. RoomKept'
    <2>1. r \in Writers /\ Writers' = Writers \ {r} /\ Askers' = Askers
      BY <1>1, <1>2 DEF Writers, Askers
    <2>2. Len(pubs') = Len(pubs) + 1
      BY <1>2, <1>3, RowAppended DEF AgentTypeOK, D!Rows
    <2>. QED
      BY <2>1, <2>2, RoomIsUsed
  <1>6. \A s \in Runs : /\ run'[s].at = "choose" => run'[s] = run[s]
                        /\ run'[s].due = run[s].due /\ (Handling(s)' => Handling(s))
    BY <1>2 DEF Handling
  <1>7. call' \in [Callers -> CallStates] /\ \A c \in Callers : call'[c].at = "insert" => call'[c] = call[c]
    BY <1>1 DEF AgentTypeOK
  <1>. QED
    BY <1>1, <1>2, <1>3, <1>4, <1>5, <1>6, <1>7, RowIsNew

LEMMA InsertKeeps ==
  ASSUME FiniteAgent, AgentInv, NEW c \in Callers, D!InsertPublication(c), Surroundings'
  PROVE  AgentInv'
  <1>. USE DEF AgentInv, FiniteAgent
  <1>. DEFINE v == call[c].video
  <1>1. /\ call[c].at = "insert" /\ UNCHANGED <<now, post, purged, run, events, overlap>>
        /\ pubs' = Append(pubs, D!Row(v, now, FALSE)) /\ call' = [call EXCEPT ![c] = D!NoCall]
        /\ doubtful' = doubtful \cup {w \in {v} : D!TakenSince(call[c].known, w)}
    BY DEF D!InsertPublication
  <1>2. v \in Videos /\ now \in Nat /\ call[c].known \in Nat /\ NoneLive(call[c].known, v)
    BY <1>1 DEF SentOnce, AgentTypeOK, CallStates
  <1>3. D!NoCall \in CallStates /\ D!NoCall.at = "idle"
    BY AgentIdle DEF D!NoCall
  <1>4. /\ call' \in [Callers -> CallStates] /\ call'[c].at = "idle"
        /\ \A e \in Callers \ {c} : call'[e] = call[e]
    BY <1>1, <1>3 DEF AgentTypeOK
  <1>5. RoomKept'
    <2>1. c \in Askers /\ Askers' = Askers \ {c} /\ Writers' = Writers
      BY <1>1, <1>4 DEF Writers, Askers
    <2>2. Len(pubs') = Len(pubs) + 1
      BY <1>1 DEF AgentTypeOK
    <2>. QED
      BY <2>1, <2>2, RoomIsUsed
  <1>6. \A s \in Runs : /\ run'[s].at = "choose" => run'[s] = run[s]
                        /\ run'[s].due = run[s].due /\ (Handling(s)' => Handling(s))
    BY <1>1 DEF Handling
  <1>7. \A e \in Callers : call'[e].at = "insert" => call'[e] = call[e]
    BY <1>4
  <1>8. PassTypeOK' /\ FALSE \in BOOLEAN
    BY <1>1 DEF AgentTypeOK, PassTypeOK
  <1>. QED
    BY <1>1, <1>2, <1>4, <1>5, <1>6, <1>7, <1>8, RowIsNew

LEMMA AskKeeps ==
  ASSUME FiniteAgent, AgentInv, NEW c \in Callers, NEW v \in Videos, D!AskPublish(c, v), Surroundings'
  PROVE  AgentInv'
  <1>. USE DEF AgentInv, FiniteAgent
  <1>. DEFINE x == [at |-> "insert", video |-> v, known |-> Len(pubs)]
  <1>1. /\ UNCHANGED <<pubs, post, run, doubtful>> /\ call' = [call EXCEPT ![c] = x]
        /\ D!Room /\ ~D!HasPublication(v)
    BY DEF D!AskPublish
  <1>2. Len(pubs) \in Nat /\ D!Rows = 1 .. Len(pubs)
    BY RowsHavePosts
  <1>3. x \in CallStates
    BY <1>2 DEF CallStates
  <1>4. call' \in [Callers -> CallStates] /\ call'[c] = x /\ \A e \in Callers \ {c} : call'[e] = call[e]
    BY <1>1, <1>3 DEF AgentTypeOK
  <1>5. AgentTypeOK'
    BY <1>1, <1>4 DEF Surroundings, AgentTypeOK
  <1>6. ClaimsAreHeld'
    BY <1>1 DEF ClaimsAreHeld, Handling, D!Rows, D!Current
  <1>7. RoomKept'
    <2>1. Askers' \subseteq Askers \cup {c} /\ Writers' = Writers
      BY <1>1, <1>4 DEF Writers, Askers
    <2>. QED
      BY <1>1, <2>1, RoomStays
  <1>8. PostsAreNew'
    BY <1>1 DEF PostsAreNew, D!Rows
  <1>9. SentOnce'
    <2>1. /\ \A i \in D!Rows' : pubs'[i].status = "failed" /\ pubs'[i].video \notin doubtful' => ~D!Reached(i)'
          /\ \A i, j \in D!Rows' : i # j /\ pubs'[i].video = pubs'[j].video /\ pubs'[i].video \notin doubtful'
               => pubs'[i].status \notin D!Live \/ pubs'[j].status \notin D!Live
          /\ \A r \in Runs : run'[r].at = "choose" => NoneLive(run[r].known, Head(run[r].todo))'
      BY <1>1 DEF SentOnce, D!Rows, D!Reached, NoneLive
    <2>2. ASSUME NEW e \in Callers, call'[e].at = "insert" PROVE NoneLive(call[e].known, call[e].video)'
      <3>1. CASE e = c
        BY <1>1, <1>2, <1>4, <3>1 DEF NoneLive, D!HasPublication
      <3>2. CASE e # c
        BY <1>1, <1>4, <2>2, <3>2 DEF SentOnce, NoneLive
      <3>. QED
        BY <3>1, <3>2
    <2>. QED
      BY <2>1, <2>2 DEF SentOnce
  <1>. QED
    BY <1>5, <1>6, <1>7, <1>8, <1>9

LEMMA AgentInvInit ==
  ASSUME FiniteAgent, D!Init
  PROVE  AgentInv
  <1>1. AgentTypeOK
    BY AgentTypeInit DEF FiniteAgent
  <1>2. /\ pubs = <<>> /\ D!Rows = {} /\ Len(pubs) = 0
        /\ \A r \in Runs : run[r].at = "idle" /\ run[r].due = <<>>
        /\ \A c \in Callers : call[c].at = "idle"
        /\ \A i \in D!Ids : post[i].copies = 0 /\ post[i].calls = 0
    BY DEF D!Init, D!Idle, D!NoCall, D!Rows
  <1>3. ClaimsAreHeld /\ PostsAreNew /\ SentOnce
    BY <1>2 DEF ClaimsAreHeld, Handling, PostsAreNew, SentOnce
  <1>4. RoomKept
    <2>1. Writers = {} /\ Askers = {}
      BY <1>2 DEF Writers, Askers
    <2>2. MaxPubs \in Nat
      BY AgentNumbers DEF FiniteAgent
    <2>. QED
      BY <1>2, <2>1, <2>2, FS_EmptySet DEF RoomKept
  <1>. QED
    BY <1>1, <1>3, <1>4 DEF AgentInv

\* The settings of the channel.
LEMMA SettingsStay ==
  ASSUME D!Next \/ UNCHANGED D!vars
  PROVE  cfg' = cfg
  <1>1. ASSUME NEW r \in Runs, D!Launch(r) \/ D!PassStep(r) \/ D!WriteRefused(r) PROVE cfg' = cfg
    BY <1>1, Zenon DEF D!PassStep, D!Launch, D!Plan, D!NextVideo, D!Schedule, D!SelectDue, D!Claim, D!EndPass,
       D!Check, D!UploadYoutube, D!CreateTiktok, D!Poll, D!WaitContainer, D!PublishContainer,
       D!MarkPublished, D!MarkFailed, D!WriteRefused
  <1>. QED
    BY <1>1 DEF D!Next, D!InsertPublication, D!AskPublish, D!Process, D!Tick, D!Purge, D!Crash, D!vars

\* The clock, the purged files and the history.
LEMMA SurroundingsStay ==
  ASSUME FiniteAgent, AgentTypeOK, D!Next
  PROVE  Surroundings'
  <1>1. D!Tick \/ UNCHANGED now
    BY DEF D!Next, D!PassStep, D!Launch, D!Plan, D!NextVideo, D!Schedule, D!SelectDue, D!Claim, D!EndPass,
       D!Check, D!UploadYoutube, D!CreateTiktok, D!Poll, D!WaitContainer, D!PublishContainer,
       D!MarkPublished, D!MarkFailed, D!WriteRefused, D!InsertPublication, D!AskPublish, D!Process, D!Purge,
       D!Crash
  <1>2. (\E v \in Videos : D!Purge(v)) \/ UNCHANGED purged
    BY DEF D!Next, D!PassStep, D!Launch, D!Plan, D!NextVideo, D!Schedule, D!SelectDue, D!Claim, D!EndPass,
       D!Check, D!UploadYoutube, D!CreateTiktok, D!Poll, D!WaitContainer, D!PublishContainer,
       D!MarkPublished, D!MarkFailed, D!WriteRefused, D!InsertPublication, D!AskPublish, D!Process, D!Tick,
       D!Crash
  <1>3. (\E r \in Runs : D!Launch(r)) \/ UNCHANGED overlap
    BY DEF D!Next, D!PassStep, D!Plan, D!NextVideo, D!Schedule, D!SelectDue, D!Claim, D!EndPass,
       D!Check, D!UploadYoutube, D!CreateTiktok, D!Poll, D!WaitContainer, D!PublishContainer,
       D!MarkPublished, D!MarkFailed, D!WriteRefused, D!InsertPublication, D!AskPublish, D!Process, D!Tick,
       D!Purge, D!Crash
  <1>4. now' \in Nat /\ cfg' \in ChannelSettings
    BY <1>1, SettingsStay DEF D!Tick, AgentTypeOK
  <1>5. purged' \subseteq Videos
    BY <1>2 DEF D!Purge, AgentTypeOK
  <1>6. overlap' \in BOOLEAN
    BY <1>3 DEF D!Launch, AgentTypeOK
  <1>. QED
    BY <1>4, <1>5, <1>6 DEF Surroundings

LEMMA AgentInvStep ==
  ASSUME FiniteAgent, AgentInv, D!Next \/ UNCHANGED D!vars
  PROVE  AgentInv'
  <1>1. CASE UNCHANGED D!vars
    <2>1. UNCHANGED <<pubs, post, doubtful>> /\ UNCHANGED <<run, call>> /\ Surroundings'
      BY <1>1 DEF D!vars, Surroundings, AgentInv, AgentTypeOK
    <2>. QED
      BY <2>1, AgentCrashKeeps
  <1>2. CASE D!Next
    <2>1. Surroundings'
      BY <1>2, SurroundingsStay DEF AgentInv
    <2>2. ASSUME NEW r \in Runs, D!Launch(r) \/ D!PassStep(r) \/ D!WriteRefused(r)
          PROVE  AgentInv'
      <3>1. CASE \/ D!Launch(r) \/ D!Plan(r) \/ D!NextVideo(r) \/ D!SelectDue(r) \/ D!EndPass(r) \/ D!Check(r)
                 \/ D!Poll(r) \/ D!WaitContainer(r) \/ D!WriteRefused(r)
        <4>1. Quiet(r)
          BY <3>1, QuietStep DEF AgentInv, FiniteAgent
        <4>. QED
          BY <2>1, <4>1, QuietKeeps
      <3>2. CASE D!UploadYoutube(r) \/ D!CreateTiktok(r) \/ D!PublishContainer(r)
        <4>1. Sends(r)
          BY <3>2, CallStep DEF AgentInv, FiniteAgent
        <4>. QED
          BY <2>1, <4>1, CallKeeps
      <3>3. CASE D!Schedule(r)
        BY <2>1, <3>3, ScheduleKeeps
      <3>4. CASE D!Claim(r)
        BY <2>1, <3>4, AgentClaimKeeps
      <3>5. CASE D!MarkPublished(r) \/ D!MarkFailed(r)
        BY <2>1, <3>5, SettleKeeps
      <3>. QED
        BY <2>2, <3>1, <3>2, <3>3, <3>4, <3>5 DEF D!PassStep
    <2>3. ASSUME NEW c \in Callers, D!InsertPublication(c) PROVE AgentInv'
      BY <2>1, <2>3, InsertKeeps
    <2>4. ASSUME NEW c \in Callers, NEW v \in Videos, D!AskPublish(c, v) PROVE AgentInv'
      BY <2>1, <2>4, AskKeeps
    <2>5. ASSUME NEW i \in D!Ids, D!Process(i) PROVE AgentInv'
      BY <2>1, <2>5, ProcessKeeps
    <2>6. ASSUME NEW v \in Videos, D!Purge(v) PROVE AgentInv'
      BY <2>1, <2>6, AgentCrashKeeps DEF D!Purge
    <2>7. CASE D!Tick
      BY <2>1, <2>7, AgentCrashKeeps DEF D!Tick
    <2>8. CASE D!Crash
      BY <2>1, <2>8, AgentCrashKeeps DEF D!Crash
    <2>. QED
      BY <1>2, <2>2, <2>3, <2>4, <2>5, <2>6, <2>7, <2>8 DEF D!Next
  <1>. QED
    BY <1>1, <1>2

\* A video has one row at most that has reached its platform.
LEMMA OneRowReaches ==
  ASSUME FiniteAgent, AgentInv
  PROVE  D!VideoPostedOnce
  <1>. USE DEF AgentInv
  <1>1. ASSUME NEW v \in Videos \ doubtful
        PROVE  D!Cardinality({i \in D!Rows : pubs[i].video = v /\ D!Reached(i)}) <= 1
    <2>. DEFINE reached == {i \in D!Rows : pubs[i].video = v /\ D!Reached(i)}
    <2>1. \A i \in reached : i \in D!Rows /\ pubs[i].video = v /\ pubs[i].status \in D!Live
      <3>1. \A i \in reached : pubs[i] \in PubRows /\ D!Reached(i)
        BY DEF AgentTypeOK, D!Rows
      <3>. QED
        BY <3>1 DEF SentOnce, PubRows
    <2>2. \A i, j \in reached : i = j
      BY <2>1 DEF SentOnce
    <2>. HIDE DEF reached
    <2>3. CASE reached = {}
      BY <2>3, FS_EmptySet, SameCardinality DEF reached
    <2>4. ASSUME NEW i \in reached PROVE D!Cardinality(reached) <= 1
      <3>1. reached = {i}
        BY <2>2, <2>4
      <3>. QED
        BY <3>1, FS_Singleton, SameCardinality
    <2>. QED
      BY <2>3, <2>4 DEF reached
  <1>. QED
    BY <1>1 DEF D!VideoPostedOnce

\* While the agent is checked, its invariant holds.
AgentHolds == focus = "distribution" => AgentInv

LEMMA AgentInvariant ==
  ASSUME FiniteAgent
  PROVE  ServicesSpec => []AgentHolds
  <1>1. ServicesInit => AgentHolds
    BY AgentInvInit DEF ServicesInit, AgentHolds
  <1>2. AgentHolds /\ [ServicesNext]_all => AgentHolds'
    <2>. SUFFICES ASSUME AgentHolds, [ServicesNext]_all, focus' = "distribution" PROVE AgentInv'
      BY DEF AgentHolds
    <2>1. focus = "distribution"
      BY DEF ServicesNext, all
    <2>. QED
      BY <2>1, AgentSteps, AgentInvStep DEF AgentHolds
  <1>. QED
    BY <1>1, <1>2, PTL DEF ServicesSpec

\* However passes of the agent and "Publish" requests interleave and die, a video is
\* sent to its platform by one publication only, but for one planned twice by a race or
\* given up though the platform had accepted it.
THEOREM VideosArePostedOnce ==
  ASSUME FiniteAgent
  PROVE  ServicesSpec => []VideoPostedOnce
  <1>1. AgentHolds => VideoPostedOnce
    BY OneRowReaches DEF AgentHolds, VideoPostedOnce
  <1>. QED
    BY <1>1, AgentInvariant, PTL

------------------------------------------------------------------------------
(* One copy on the platform.                                                   *)

\* The platform shows the publication; or the wait for Composio ended without a result.
Arrived(i) ==
  \/ post[i].state = "live"
  \/ D!OnTiktok(i) /\ cfg.provider = "composio" /\ post[i].copies = 1

\* What a pass knows of the publication that it has claimed: how often its call was tried.
KnowsItsPost(r) ==
  LET i == D!Current(r)
  IN  /\ run[r].at \in {"claim", "check", "container", "publish"} => run[r].tries = 0
      /\ run[r].at \in {"check", "container", "publish"} => post[i].copies = 0 /\ post[i].calls = 0
      /\ run[r].at = "send" =>
           /\ post[i].calls = (IF run[r].tries = 0 THEN 0 ELSE 1)
           /\ post[i].copies <= run[r].tries /\ run[r].tries < MaxTries
           /\ run[r].tries # 0 => D!OnTiktok(i) /\ cfg.provider # "composio"
      /\ run[r].at = "poll" => D!OnTiktok(i) /\ post[i].copies > 0
      /\ run[r].at = "mark" => Arrived(i)

\* The platform is called once for a publication, holds what that call may leave at most,
\* and what is published has arrived there.
ClaimsAreSent ==
  /\ \A i \in D!Ids : post[i].calls <= 1 /\ post[i].copies <= D!MostCopies(i)
  /\ \A i \in D!Rows : pubs[i].status = "published" => Arrived(i)
  /\ \A r \in Runs : KnowsItsPost(r)

LEMMA CopiesMayBe ==
  ASSUME FiniteAgent, NEW i
  PROVE  /\ D!MostCopies(i) \in Nat /\ D!MostCopies(i) >= 1
         /\ D!OnTiktok(i) /\ cfg.provider \notin Deduplicates \cup {"composio"} => D!MostCopies(i) = MaxTries
         /\ cfg.provider = "composio" => D!MostCopies(i) = 1
  BY AgentNumbers DEF FiniteAgent, D!MostCopies

LEMMA QuietSends ==
  ASSUME FiniteAgent, AgentInv, ClaimsAreSent, NEW r \in Runs, Quiet(r), UNCHANGED cfg
  PROVE  ClaimsAreSent'
  <1>1. /\ UNCHANGED <<pubs, post, cfg>> /\ D!Rows' = D!Rows
        /\ \A i : /\ D!OnTiktok(i)' = D!OnTiktok(i) /\ D!MostCopies(i)' = D!MostCopies(i)
                  /\ Arrived(i)' = Arrived(i)
    BY DEF Quiet, D!Rows, D!OnTiktok, D!MostCopies, Arrived
  <1>2. ASSUME NEW s \in Runs \ {r} PROVE KnowsItsPost(s)'
    <2>1. run'[s] = run[s] /\ D!Current(s)' = D!Current(s) /\ KnowsItsPost(s)
      BY DEF Quiet, ClaimsAreSent, D!Current
    <2>. QED
      BY <1>1, <2>1 DEF KnowsItsPost
  <1>3. KnowsItsPost(r)'
    <2>1. CASE ~Handling(r)'
      BY <2>1 DEF Quiet, Handling, KnowsItsPost
    <2>2. CASE Handling(r)'
      <3>1. /\ D!Current(r)' = D!Current(r) /\ D!Current(r) \in D!Ids /\ KnowsItsPost(r)
            /\ Handling(r) /\ run'[r].tries = run[r].tries
        BY <2>2, CurrentIsARow DEF Quiet, D!Current, ClaimsAreSent, AgentInv, ClaimsAreHeld
      <3>. DEFINE i == D!Current(r)
      <3>2. post[i].copies \in Nat /\ post[i].copies <= D!MostCopies(i) /\ MaxTries \in Nat /\ MaxTries >= 1
        BY <3>1, AgentNumbers DEF ClaimsAreSent, AgentInv, AgentTypeOK, PostStates, FiniteAgent
      <3>3. run[r].at = "poll" /\ cfg.provider = "composio" => Arrived(i)
        BY <3>1, <3>2, CopiesMayBe DEF KnowsItsPost, Arrived
      <3>4. run'[r].at = "mark" => Arrived(i)
        BY <2>2, <3>1, <3>3 DEF Quiet, KnowsItsPost, Arrived
      <3>5. run'[r].at = "send" => run'[r].tries = 0 /\ post[i].copies = 0 /\ post[i].calls = 0
        BY <2>2, <3>1 DEF Quiet, KnowsItsPost
      <3>6. run'[r].at \in {"check", "container", "publish"} =>
              run'[r].tries = 0 /\ post[i].copies = 0 /\ post[i].calls = 0
        BY <2>2, <3>1 DEF Quiet, KnowsItsPost
      <3>7. run'[r].at = "poll" => D!OnTiktok(i) /\ post[i].copies > 0
        BY <2>2, <3>1 DEF Quiet, KnowsItsPost
      <3>8. run'[r].at # "claim"
        BY <2>2 DEF Handling
      <3>. HIDE DEF i
      <3>9. D!Current(r)' = i /\ post'[i] = post[i]
        BY <1>1, <3>1 DEF i
      <3>. QED
        BY <1>1, <3>2, <3>4, <3>5, <3>6, <3>7, <3>8, <3>9 DEF KnowsItsPost
    <2>. QED
      BY <2>1, <2>2
  <1>. QED
    BY <1>1, <1>2, <1>3 DEF ClaimsAreSent

\* A request counts once for its call, and leaves a copy more at most.
LEMMA RequestSends ==
  ASSUME FiniteAgent, AgentInv, ClaimsAreSent, NEW r \in Runs, Sends(r), UNCHANGED cfg
  PROVE  LET i == D!Current(r)
         IN  /\ \A j \in D!Ids \ {i} : post'[j] = post[j]
             /\ post'[i].calls = 1 /\ post'[i].copies <= D!MostCopies(i)
             /\ run'[r].at = "send" => /\ run'[r].tries # 0 /\ run'[r].tries < MaxTries
                                       /\ post'[i].copies <= run'[r].tries
                                       /\ D!OnTiktok(i) /\ cfg.provider # "composio"
             /\ run'[r].at = "poll" => D!OnTiktok(i) /\ post'[i].copies > 0
             /\ run'[r].at = "mark" => post'[i].state = "live"
  <1>. USE DEF AgentInv
  <1>. DEFINE i == D!Current(r)
  <1>1. i \in D!Rows /\ i \in D!Ids /\ KnowsItsPost(r)
    BY CurrentIsARow DEF Sends, ClaimsAreHeld, Handling, ClaimsAreSent
  <1>2. /\ post[i].copies \in Nat /\ post[i].calls \in Nat /\ post[i].copies <= D!MostCopies(i)
        /\ run[r].tries \in Nat /\ MaxTries \in Nat /\ MaxTries >= 1
    BY <1>1, AgentNumbers DEF ClaimsAreSent, AgentTypeOK, PostStates, PassStates, FiniteAgent
  <1>3. /\ post[i].calls = (IF run[r].tries = 0 THEN 0 ELSE 1) /\ post[i].copies <= run[r].tries
        /\ run[r].tries < MaxTries
        /\ run[r].tries # 0 => D!OnTiktok(i) /\ cfg.provider # "composio" /\ run[r].at = "send"
    BY <1>1, <1>2 DEF Sends, KnowsItsPost
  <1>4. post[i].calls + D!Calls(r) = 1
    BY <1>3 DEF D!Calls
  <1>5. PICK s \in {"working", "live"} : D!Taken(r, s) \/ D!Refused(r)
    BY DEF Sends
  <1>6. /\ \A j \in D!Ids \ {i} : post'[j] = post[j]
        /\ post'[i].calls = 1
        /\ \/ post'[i].copies = post[i].copies
           \/ post'[i].copies = post[i].copies + 1 /\ ~Recognised(r)
    BY <1>1, <1>4, <1>5, PostIsCalled
  <1>7. ~Recognised(r) => post[i].copies + 1 <= D!MostCopies(i)
    <2>1. CASE run[r].tries = 0
      BY <1>2, <1>3, <2>1, CopiesMayBe
    <2>2. CASE run[r].tries # 0 /\ cfg.provider \notin Deduplicates
      BY <1>2, <1>3, <2>2, CopiesMayBe
    <2>3. CASE run[r].tries # 0 /\ cfg.provider \in Deduplicates /\ ~Recognised(r)
      <3>1. post[i].copies = 0
        BY <1>2, <1>3, <2>3 DEF Recognised
      <3>. QED
        BY <3>1, CopiesMayBe
    <2>. QED
      BY <2>1, <2>2, <2>3
  <1>8. post'[i].copies <= D!MostCopies(i)
    BY <1>2, <1>6, <1>7, CopiesMayBe
  <1>9. run'[r].at = "send" => /\ run'[r].tries # 0 /\ run'[r].tries < MaxTries
                              /\ post'[i].copies <= run'[r].tries
                              /\ D!OnTiktok(i) /\ cfg.provider # "composio"
    BY <1>1, <1>2, <1>3, <1>6 DEF Sends, D!OnTiktok
  <1>10. run'[r].at = "poll" => D!OnTiktok(i) /\ post'[i].copies > 0
    <2>. SUFFICES ASSUME run'[r].at = "poll" PROVE D!OnTiktok(i) /\ post'[i].copies > 0
      OBVIOUS
    <2>1. D!Taken(r, "working") /\ D!OnTiktok(i)
      BY <1>1 DEF Sends, D!OnTiktok
    <2>2. post'[i].copies = post[i].copies \/ post'[i].copies = post[i].copies + 1
      BY <1>6
    <2>3. ~Recognised(r) => post'[i].copies = post[i].copies + 1
      BY <1>1, <1>2, <2>1, NewCopy
    <2>. QED
      BY <1>2, <2>1, <2>2, <2>3 DEF Recognised
  <1>11. run'[r].at = "mark" => post'[i].state = "live"
    <2>. SUFFICES ASSUME run'[r].at = "mark" PROVE post'[i].state = "live"
      OBVIOUS
    <2>1. D!Taken(r, "live") /\ (run[r].at = "publish" \/ D!Platform(pubs[i].video) = "youtube")
      BY DEF Sends
    <2>2. ~D!OnTiktok(i) \/ post[i].copies = 0
      BY <1>1, <2>1 DEF KnowsItsPost, D!OnTiktok
    <2>3. ~Recognised(r)
      BY <1>2, <2>2 DEF Recognised
    <2>. QED
      BY <1>1, <2>1, <2>3, NewCopy
  <1>. QED
    BY <1>6, <1>8, <1>9, <1>10, <1>11

LEMMA CallSends ==
  ASSUME FiniteAgent, AgentInv, ClaimsAreSent, NEW r \in Runs, Sends(r), UNCHANGED cfg
  PROVE  ClaimsAreSent'
  <1>. USE DEF AgentInv
  <1>. DEFINE i == D!Current(r)
  <1>1. i \in D!Rows /\ i \in D!Ids /\ pubs[i].status = "publishing"
    BY CurrentIsARow DEF Sends, ClaimsAreHeld, Handling
  <1>2. /\ UNCHANGED pubs /\ D!Rows' = D!Rows /\ i' = i
        /\ \A s \in Runs \ {r} : run'[s] = run[s] /\ D!Current(s)' = D!Current(s)
        /\ \A j : D!OnTiktok(j)' = D!OnTiktok(j) /\ D!MostCopies(j)' = D!MostCopies(j)
    BY DEF Sends, D!Rows, D!Current, D!OnTiktok, D!MostCopies
  <1>3. /\ \A j \in D!Ids \ {i} : post'[j] = post[j]
        /\ post'[i].calls = 1 /\ post'[i].copies <= D!MostCopies(i)
        /\ run'[r].at = "send" => /\ run'[r].tries # 0 /\ run'[r].tries < MaxTries
                                  /\ post'[i].copies <= run'[r].tries
                                  /\ D!OnTiktok(i) /\ cfg.provider # "composio"
        /\ run'[r].at = "poll" => D!OnTiktok(i) /\ post'[i].copies > 0
        /\ run'[r].at = "mark" => post'[i].state = "live"
        /\ run'[r].at \notin {"claim", "check", "container", "publish"}
    BY RequestSends DEF Sends
  <1>4. ASSUME NEW s \in Runs \ {r} PROVE KnowsItsPost(s)'
    <2>1. run'[s] = run[s] /\ D!Current(s)' = D!Current(s) /\ KnowsItsPost(s)
      BY <1>2 DEF ClaimsAreSent
    <2>2. CASE ~Handling(s)
      BY <2>1, <2>2 DEF Handling, KnowsItsPost
    <2>3. CASE Handling(s)
      <3>1. D!Current(s) # i /\ D!Current(s) \in D!Ids
        BY <2>3, CurrentIsARow DEF ClaimsAreHeld, Sends, Handling
      <3>2. post'[D!Current(s)] = post[D!Current(s)]
        BY <1>3, <3>1
      <3>. QED
        BY <1>2, <2>1, <3>2 DEF KnowsItsPost, Arrived
    <2>. QED
      BY <2>2, <2>3
  <1>5. KnowsItsPost(r)'
    <2>. HIDE DEF i
    <2>1. D!Current(r)' = i
      BY <1>2 DEF i
    <2>. QED
      BY <1>2, <1>3, <2>1 DEF KnowsItsPost, Arrived
  <1>6. \A j \in D!Rows : pubs[j].status = "published" => Arrived(j)'
    <2>1. \A j \in D!Rows : pubs[j].status = "published" => Arrived(j) /\ post'[j] = post[j]
      BY <1>1, <1>3, RowsHavePosts DEF ClaimsAreSent
    <2>. QED
      BY <1>2, <2>1 DEF Arrived
  <1>7. \A j \in D!Ids : post'[j].calls <= 1 /\ post'[j].copies <= D!MostCopies(j)
    BY <1>1, <1>3 DEF ClaimsAreSent
  <1>. QED
    BY <1>2, <1>4, <1>5, <1>6, <1>7 DEF ClaimsAreSent

\* A step of the rows: none is published that has not arrived.
LEMMA RowsSend ==
  ASSUME FiniteAgent, AgentInv, ClaimsAreSent, UNCHANGED <<post, cfg>>,
         \A j \in D!Rows' : pubs'[j].status = "published" => j \in D!Rows /\ Arrived(j),
         \A j \in D!Rows : j \in D!Rows' /\ pubs'[j].video = pubs[j].video,
         \A s \in Runs : \/ ~Handling(s)' /\ (run'[s].at = "claim" => run'[s].tries = 0)
                         \/ run'[s] = run[s]
                         \/ /\ run'[s].at = "check" /\ run'[s].due = run[s].due /\ run'[s].tries = 0
                            /\ post[D!Current(s)].copies = 0 /\ post[D!Current(s)].calls = 0
  PROVE  ClaimsAreSent'
  <1>1. \A j \in D!Rows : /\ D!OnTiktok(j)' = D!OnTiktok(j) /\ Arrived(j)' = Arrived(j)
                          /\ D!MostCopies(j)' = D!MostCopies(j)
    BY DEF D!OnTiktok, Arrived, D!MostCopies
  <1>2. ASSUME NEW s \in Runs PROVE KnowsItsPost(s)'
    <2>1. CASE ~Handling(s)' /\ (run'[s].at = "claim" => run'[s].tries = 0)
      BY <2>1 DEF Handling, KnowsItsPost
    <2>2. CASE Handling(s)' /\ run'[s] = run[s]
      <3>1. D!Current(s)' = D!Current(s) /\ D!Current(s) \in D!Rows /\ KnowsItsPost(s)
        BY <2>2, CurrentIsARow DEF AgentInv, ClaimsAreHeld, Handling, D!Current, ClaimsAreSent
      <3>. QED
        BY <1>1, <2>2, <3>1 DEF KnowsItsPost
    <2>3. CASE ~Handling(s)' /\ run'[s] = run[s]
      <3>1. KnowsItsPost(s)
        BY DEF ClaimsAreSent
      <3>. QED
        BY <2>3, <3>1 DEF Handling, KnowsItsPost
    <2>4. CASE /\ run'[s].at = "check" /\ run'[s].due = run[s].due /\ run'[s].tries = 0
               /\ post[D!Current(s)].copies = 0 /\ post[D!Current(s)].calls = 0
      BY <2>4 DEF KnowsItsPost, D!Current
    <2>. QED
      BY <2>1, <2>2, <2>3, <2>4
  <1>3. ASSUME NEW j \in D!Ids PROVE post'[j].calls <= 1 /\ post'[j].copies <= D!MostCopies(j)'
    <2>1. CASE j \in D!Rows
      BY <1>1, <2>1 DEF ClaimsAreSent
    <2>2. CASE j \notin D!Rows
      <3>1. post[j].copies = 0 /\ post[j].calls = 0
        BY <2>2 DEF AgentInv, PostsAreNew
      <3>2. D!MostCopies(j)' \in {1, MaxTries}
        BY DEF D!MostCopies
      <3>. QED
        BY <3>1, <3>2, AgentNumbers DEF FiniteAgent
    <2>. QED
      BY <2>1, <2>2
  <1>. QED
    BY <1>1, <1>2, <1>3 DEF ClaimsAreSent

LEMMA ClaimSends ==
  ASSUME FiniteAgent, AgentInv, ClaimsAreSent, NEW r \in Runs, D!Claim(r), UNCHANGED cfg
  PROVE  ClaimsAreSent'
  <1>. USE DEF AgentInv
  <1>. DEFINE i == D!Current(r)
  <1>1. run[r].at = "claim" /\ run[r].due # <<>> /\ UNCHANGED post
    BY DEF D!Claim, D!At
  <1>2. i \in D!Rows /\ i \in D!Ids
    BY <1>1, CurrentIsARow
  <1>3. CASE run' = [run EXCEPT ![r] = D!Over(r)] /\ UNCHANGED pubs
    <2>1. run'[r].at = "claim" /\ run'[r].tries = 0 /\ \A s \in Runs \ {r} : run'[s] = run[s]
      BY <1>1, <1>3, PassOver DEF FiniteAgent
    <2>2. \A s \in Runs : (~Handling(s)' /\ run'[s].tries = 0) \/ run'[s] = run[s]
      BY <2>1 DEF Handling
    <2>. QED
      BY <1>1, <1>3, <2>2, RowsSend DEF ClaimsAreSent, D!Rows
  <1>4. CASE /\ pubs[i].status = "scheduled" /\ pubs' = [pubs EXCEPT ![i].status = "publishing"]
            /\ run' = [run EXCEPT ![r].at = "check"]
    <2>1. /\ run'[r].at = "check" /\ run'[r].due = run[r].due /\ run'[r].tries = 0
          /\ \A s \in Runs \ {r} : run'[s] = run[s]
      BY <1>1, <1>4, PassGoes DEF D!Labels, ClaimsAreSent, KnowsItsPost
    <2>2. post[i].copies = 0 /\ post[i].calls = 0
      BY <1>2, <1>4 DEF PostsAreNew
    <2>3. /\ D!Rows' = D!Rows /\ \A j \in D!Rows \ {i} : pubs'[j] = pubs[j]
          /\ pubs'[i].status = "publishing" /\ pubs'[i].video = pubs[i].video
      BY <1>2, <1>4, RowUpdated DEF D!Live
    <2>4. \A j \in D!Rows' : pubs'[j].status = "published" => j \in D!Rows /\ Arrived(j)
      BY <2>3 DEF ClaimsAreSent
    <2>5. \A j \in D!Rows : j \in D!Rows' /\ pubs'[j].video = pubs[j].video
      BY <2>3
    <2>6. \A s \in Runs : \/ run'[s] = run[s]
                         \/ /\ run'[s].at = "check" /\ run'[s].due = run[s].due /\ run'[s].tries = 0
                            /\ post[D!Current(s)].copies = 0 /\ post[D!Current(s)].calls = 0
      BY <2>1, <2>2
    <2>. QED
      BY <1>1, <2>4, <2>5, <2>6, RowsSend
  <1>. QED
    BY <1>3, <1>4 DEF D!Claim

LEMMA SettleSends ==
  ASSUME FiniteAgent, AgentInv, ClaimsAreSent, NEW r \in Runs, D!MarkPublished(r) \/ D!MarkFailed(r),
         UNCHANGED cfg
  PROVE  ClaimsAreSent'
  <1>. USE DEF AgentInv
  <1>. DEFINE i == D!Current(r)
  <1>1. run[r].at \in {"mark", "fail"} /\ UNCHANGED post /\ run' = [run EXCEPT ![r] = D!Over(r)]
    BY DEF D!MarkPublished, D!MarkFailed, D!At
  <1>2. run[r].due # <<>> /\ i \in D!Rows /\ KnowsItsPost(r)
    BY <1>1, CurrentIsARow DEF ClaimsAreHeld, Handling, ClaimsAreSent
  <1>3. run'[r].at = "claim" /\ run'[r].tries = 0 /\ \A s \in Runs \ {r} : run'[s] = run[s]
    BY <1>1, <1>2, PassOver DEF FiniteAgent
  <1>4. \A s \in Runs : (~Handling(s)' /\ run'[s].tries = 0) \/ run'[s] = run[s]
    BY <1>3 DEF Handling
  <1>5. /\ D!Rows' = D!Rows /\ \A j \in D!Rows \ {i} : pubs'[j] = pubs[j]
        /\ pubs'[i].video = pubs[i].video
        /\ pubs'[i].status = "published" => Arrived(i)
    <2>1. CASE D!MarkPublished(r)
      <3>1. pubs' = [pubs EXCEPT ![i].status = "published", ![i].doneAt = now] /\ "published" \in D!Live
        BY <2>1 DEF D!MarkPublished, D!Live
      <3>2. Arrived(i)
        BY <1>2, <2>1 DEF D!MarkPublished, D!At, KnowsItsPost
      <3>. QED
        BY <1>2, <3>1, <3>2, RowUpdated
    <2>2. CASE D!MarkFailed(r)
      <3>1. pubs' = [pubs EXCEPT ![i].status = "failed"]
        BY <2>2 DEF D!MarkFailed
      <3>. QED
        BY <1>2, <3>1, RowUpdated
    <2>. QED
      BY <2>1, <2>2
  <1>6. \A j \in D!Rows' : pubs'[j].status = "published" => j \in D!Rows /\ Arrived(j)
    BY <1>5 DEF ClaimsAreSent
  <1>7. \A j \in D!Rows : j \in D!Rows' /\ pubs'[j].video = pubs[j].video
    BY <1>5
  <1>. QED
    BY <1>1, <1>4, <1>6, <1>7, RowsSend

\* A new row is nowhere yet.
LEMMA WriteSends ==
  ASSUME FiniteAgent, AgentInv, ClaimsAreSent, UNCHANGED cfg,
         \/ \E r \in Runs : D!Schedule(r)
         \/ \E c \in Callers : D!InsertPublication(c)
  PROVE  ClaimsAreSent'
  <1>. USE DEF AgentInv, FiniteAgent
  <1>1. PICK v \in Videos, t \in Nat, byAgent \in BOOLEAN : pubs' = Append(pubs, D!Row(v, t, byAgent))
    <2>1. ASSUME NEW r \in Runs, D!Schedule(r)
          PROVE  \E v \in Videos, t \in Nat : pubs' = Append(pubs, D!Row(v, t, TRUE))
      BY <2>1, PassSchedules
    <2>2. ASSUME NEW c \in Callers, D!InsertPublication(c)
          PROVE  \E v \in Videos, t \in Nat : pubs' = Append(pubs, D!Row(v, t, FALSE))
      BY <2>2 DEF D!InsertPublication, AgentTypeOK
    <2>. QED
      BY <2>1, <2>2
  <1>2. UNCHANGED post /\ \A s \in Runs : (~Handling(s)' /\ run'[s].at # "claim") \/ run'[s] = run[s]
    <2>1. ASSUME NEW r \in Runs, D!Schedule(r)
          PROVE  UNCHANGED post /\ \A s \in Runs : (~Handling(s)' /\ run'[s].at # "claim") \/ run'[s] = run[s]
      BY <2>1, PassSchedules DEF Handling, D!Schedule
    <2>2. ASSUME NEW c \in Callers, D!InsertPublication(c)
          PROVE  UNCHANGED post /\ \A s \in Runs : (~Handling(s)' /\ run'[s].at # "claim") \/ run'[s] = run[s]
      BY <2>2 DEF D!InsertPublication
    <2>. QED
      BY <2>1, <2>2
  <1>3. /\ D!Rows' = D!Rows \cup {Len(pubs) + 1} /\ \A i \in D!Rows : pubs'[i] = pubs[i]
        /\ pubs'[Len(pubs) + 1].status = "scheduled"
    <2>1. /\ D!Rows' = D!Rows \cup {Len(pubs) + 1} /\ \A i \in D!Rows : pubs'[i] = pubs[i]
          /\ pubs'[Len(pubs) + 1] = D!Row(v, t, byAgent)
      BY <1>1, RowAppended
    <2>. QED
      BY <2>1 DEF D!Row
  <1>4. \A j \in D!Rows' : pubs'[j].status = "published" => j \in D!Rows /\ Arrived(j)
    BY <1>3 DEF ClaimsAreSent
  <1>5. \A j \in D!Rows : j \in D!Rows' /\ pubs'[j].video = pubs[j].video
    BY <1>3
  <1>. QED
    BY <1>2, <1>4, <1>5, RowsSend

LEMMA ProcessSends ==
  ASSUME FiniteAgent, AgentInv, ClaimsAreSent, NEW i \in D!Ids, D!Process(i), UNCHANGED cfg
  PROVE  ClaimsAreSent'
  <1>1. /\ UNCHANGED <<pubs, run>> /\ post[i].state = "working"
        /\ \A j \in D!Ids \ {i} : post'[j] = post[j]
        /\ post'[i].state \in {"live", "dead"} /\ post'[i].copies = post[i].copies
        /\ post'[i].calls = post[i].calls
    BY DEF D!Process, AgentInv, AgentTypeOK, PostStates
  <1>2. /\ D!Rows' = D!Rows /\ \A r \in Runs : D!Current(r)' = D!Current(r)
        /\ \A j : D!OnTiktok(j)' = D!OnTiktok(j) /\ D!MostCopies(j)' = D!MostCopies(j)
    BY <1>1 DEF D!Rows, D!Current, D!OnTiktok, D!MostCopies
  <1>3. ASSUME NEW j \in D!Ids PROVE /\ post'[j].copies = post[j].copies /\ post'[j].calls = post[j].calls
                                     /\ Arrived(j) => Arrived(j)'
    BY <1>1, <1>2 DEF Arrived
  <1>4. ASSUME NEW r \in Runs PROVE KnowsItsPost(r)'
    <2>1. KnowsItsPost(r) /\ run'[r] = run[r]
      BY <1>1 DEF ClaimsAreSent
    <2>2. CASE ~Handling(r)
      BY <2>1, <2>2 DEF Handling, KnowsItsPost
    <2>3. CASE Handling(r)
      <3>1. D!Current(r) \in D!Ids
        BY <2>3, CurrentIsARow DEF AgentInv, ClaimsAreHeld
      <3>. QED
        BY <1>2, <1>3, <2>1, <3>1 DEF KnowsItsPost
    <2>. QED
      BY <2>2, <2>3
  <1>5. \A j \in D!Rows : pubs'[j].status = "published" => Arrived(j)'
    BY <1>1, <1>3, RowsHavePosts DEF AgentInv, ClaimsAreSent
  <1>6. \A j \in D!Ids : post'[j].calls <= 1 /\ post'[j].copies <= D!MostCopies(j)'
    BY <1>2, <1>3 DEF ClaimsAreSent
  <1>. QED
    BY <1>2, <1>4, <1>5, <1>6 DEF ClaimsAreSent

LEMMA ClaimsAreSentStep ==
  ASSUME FiniteAgent, AgentInv, ClaimsAreSent, D!Next \/ UNCHANGED D!vars
  PROVE  ClaimsAreSent'
  <1>. UNCHANGED cfg
    BY SettingsStay
  <1>1. ASSUME UNCHANGED <<pubs, post>>,
               \A s \in Runs : (~Handling(s)' /\ run'[s].at # "claim") \/ run'[s] = run[s]
        PROVE  ClaimsAreSent'
    BY <1>1, RowsSend DEF ClaimsAreSent, D!Rows
  <1>2. CASE UNCHANGED D!vars
    BY <1>1, <1>2 DEF D!vars
  <1>3. CASE D!Next
    <2>2. ASSUME NEW r \in Runs, D!Launch(r) \/ D!PassStep(r) \/ D!WriteRefused(r)
          PROVE  ClaimsAreSent'
      <3>1. CASE \/ D!Launch(r) \/ D!Plan(r) \/ D!NextVideo(r) \/ D!SelectDue(r) \/ D!EndPass(r) \/ D!Check(r)
                 \/ D!Poll(r) \/ D!WaitContainer(r) \/ D!WriteRefused(r)
        BY <3>1, QuietStep, QuietSends DEF AgentInv, FiniteAgent
      <3>2. CASE D!UploadYoutube(r) \/ D!CreateTiktok(r) \/ D!PublishContainer(r)
        BY <3>2, CallStep, CallSends DEF AgentInv, FiniteAgent
      <3>3. CASE D!Schedule(r)
        BY <3>3, WriteSends
      <3>4. CASE D!Claim(r)
        BY <3>4, ClaimSends
      <3>5. CASE D!MarkPublished(r) \/ D!MarkFailed(r)
        BY <3>5, SettleSends
      <3>. QED
        BY <2>2, <3>1, <3>2, <3>3, <3>4, <3>5 DEF D!PassStep
    <2>3. ASSUME NEW c \in Callers, D!InsertPublication(c) PROVE ClaimsAreSent'
      BY <2>3, WriteSends
    <2>4. ASSUME NEW c \in Callers, NEW v \in Videos, D!AskPublish(c, v) PROVE ClaimsAreSent'
      BY <1>1, <2>4 DEF D!AskPublish
    <2>5. ASSUME NEW i \in D!Ids, D!Process(i) PROVE ClaimsAreSent'
      BY <2>5, ProcessSends
    <2>6. CASE D!Tick \/ \E v \in Videos : D!Purge(v)
      BY <1>1, <2>6 DEF D!Tick, D!Purge
    <2>7. CASE D!Crash
      BY <1>1, <2>7 DEF D!Crash, D!Idle, Handling
    <2>. QED
      BY <1>3, <2>2, <2>3, <2>4, <2>5, <2>6, <2>7 DEF D!Next
  <1>. QED
    BY <1>2, <1>3

LEMMA ClaimsAreSentInit ==
  ASSUME FiniteAgent, D!Init
  PROVE  ClaimsAreSent
  <1>1. /\ \A i \in D!Ids : post[i].calls = 0 /\ post[i].copies = 0
        /\ D!Rows = {} /\ \A r \in Runs : run[r].at = "idle"
    BY DEF D!Init, D!Idle, D!Rows
  <1>2. \A i : D!MostCopies(i) \in Nat
    BY CopiesMayBe
  <1>. QED
    BY <1>1, <1>2 DEF ClaimsAreSent, KnowsItsPost

\* While the agent is checked, what is claimed is sent once.
SendsHold == focus = "distribution" => AgentInv /\ ClaimsAreSent

LEMMA CopiesAreSent ==
  ASSUME FiniteAgent
  PROVE  ServicesSpec => []SendsHold
  <1>1. ServicesInit => SendsHold
    BY ClaimsAreSentInit, AgentInvInit DEF ServicesInit, SendsHold
  <1>2. SendsHold /\ [ServicesNext]_all => SendsHold'
    <2>. SUFFICES ASSUME SendsHold, [ServicesNext]_all, focus' = "distribution"
                  PROVE  AgentInv' /\ ClaimsAreSent'
      BY DEF SendsHold
    <2>1. focus = "distribution"
      BY DEF ServicesNext, all
    <2>2. AgentInv /\ ClaimsAreSent /\ (D!Next \/ UNCHANGED D!vars)
      BY <2>1, AgentSteps DEF SendsHold
    <2>. QED
      BY <2>2, AgentInvStep, ClaimsAreSentStep
  <1>. QED
    BY <1>1, <1>2, PTL DEF ServicesSpec

\* "Two concurrent distributions must never upload the same publication twice": through
\* overlapping passes, tries of a call whose answer is lost, crashes and refused writes,
\* the platform holds no more copies of a publication than one call may leave: one, but
\* for a provider that sends again what the platform does not recognise.  And what is
\* marked published is live there, or was taken at least by Composio, which is not waited
\* for to the end.
THEOREM OneCopyIsLive ==
  ASSUME FiniteAgent
  PROVE  ServicesSpec => []OneLiveCopy
  <1>1. SendsHold => OneLiveCopy
    BY DEF SendsHold, ClaimsAreSent, Arrived, OneLiveCopy, D!OneLiveCopy
  <1>. QED
    BY <1>1, CopiesAreSent, PTL

------------------------------------------------------------------------------
(* The promise in full.                                                        *)

\* A claim, a call and a row are the only steps that a publication sees: it is new, or
\* no longer waiting, or sent once; none waits again.
FatesMove ==
  \A i \in D!Ids : \/ D!Fate(i)' = D!Fate(i)
                   \/ D!Fate(i) = "unknown"
                   \/ D!Fate(i) = "open" /\ D!Fate(i)' = "closed"

Fates == [i \in D!Ids |-> D!Fate(i)]
Sendings == [i \in D!Ids |-> post[i].calls]

\* A step that leaves the platform alone and takes no row back is a Record.
LEMMA RowsRecord ==
  ASSUME UNCHANGED Sendings, FatesMove
  PROVE  \E X, Y \in SUBSET D!Ids : D!Sending!Record(X, Y)
  <1>. DEFINE X == {i \in D!Ids : D!Fate(i) = "unknown" /\ D!Fate(i)' # "unknown"}
              Y == {i \in D!Ids : D!Fate(i) = "open" /\ D!Fate(i)' # "open"}
              s == [i \in X |-> D!Fate(i)']
  <1>1. \A i \in D!Ids : D!Fate(i)' \in {"unknown", "open", "closed"}
    BY DEF D!Fate
  <1>2. s \in [X -> {"open", "closed"}]
    BY <1>1
  <1>3. Fates' = [i \in D!Ids |-> IF i \in X THEN s[i] ELSE IF i \in Y THEN "closed" ELSE Fates[i]]
    BY <1>1 DEF FatesMove, Fates
  <1>4. (\A i \in X : Fates[i] = "unknown") /\ (\A i \in Y : Fates[i] = "open")
    BY DEF Fates
  <1>. QED
    BY <1>2, <1>3, <1>4 DEF D!Sending!Record, Fates, Sendings

\* No row is taken back, and none waits that did not.
LEMMA RowsMoveOn ==
  ASSUME \A i \in D!Rows : i \in D!Rows' /\ (pubs'[i].status = pubs[i].status \/ pubs'[i].status # "scheduled")
  PROVE  FatesMove
  <1>. QED
    BY DEF FatesMove, D!Fate

LEMMA SameSendings ==
  ASSUME UNCHANGED post
  PROVE  UNCHANGED Sendings
  <1>. QED
    BY DEF Sendings

\* A row is added, claimed or settled.
LEMMA WritesRecord ==
  ASSUME FiniteAgent, AgentInv,
         \/ \E r \in Runs : D!Schedule(r) \/ D!Claim(r) \/ D!MarkPublished(r) \/ D!MarkFailed(r)
         \/ \E c \in Callers : D!InsertPublication(c)
  PROVE  UNCHANGED Sendings /\ FatesMove
  <1>. USE DEF AgentInv, FiniteAgent
  <1>1. ASSUME NEW v \in Videos, NEW t \in Nat, NEW byAgent \in BOOLEAN, pubs' = Append(pubs, D!Row(v, t, byAgent))
        PROVE  FatesMove
    <2>1. D!Rows' = D!Rows \cup {Len(pubs) + 1} /\ \A i \in D!Rows : pubs'[i] = pubs[i]
      BY <1>1, RowAppended
    <2>. QED
      BY <2>1, RowsMoveOn
  <1>2. ASSUME NEW r \in Runs, D!Schedule(r) PROVE UNCHANGED post /\ FatesMove
    BY <1>1, <1>2, PassSchedules DEF D!Schedule
  <1>3. ASSUME NEW c \in Callers, D!InsertPublication(c) PROVE UNCHANGED post /\ FatesMove
    BY <1>1, <1>3 DEF D!InsertPublication, AgentTypeOK
  <1>4. ASSUME NEW r \in Runs, D!Claim(r) \/ D!MarkPublished(r) \/ D!MarkFailed(r)
        PROVE  UNCHANGED post /\ FatesMove
    <2>. DEFINE i == D!Current(r)
    <2>1. i \in D!Rows /\ UNCHANGED post
      BY <1>4, CurrentIsARow DEF D!Claim, D!MarkPublished, D!MarkFailed, D!At, ClaimsAreHeld, Handling
    <2>2. CASE UNCHANGED pubs
      BY <2>1, <2>2, RowsMoveOn DEF D!Rows
    <2>3. CASE \/ pubs' = [pubs EXCEPT ![i].status = "publishing"]
               \/ pubs' = [pubs EXCEPT ![i].status = "failed"]
      <3>1. /\ D!Rows' = D!Rows /\ \A j \in D!Rows \ {i} : pubs'[j] = pubs[j]
            /\ pubs'[i].status \in {"publishing", "failed"}
        BY <2>1, <2>3, RowUpdated DEF D!Live
      <3>. QED
        BY <2>1, <3>1, RowsMoveOn
    <2>4. CASE pubs' = [pubs EXCEPT ![i].status = "published", ![i].doneAt = now]
      <3>1. /\ D!Rows' = D!Rows /\ \A j \in D!Rows \ {i} : pubs'[j] = pubs[j]
            /\ pubs'[i].status = "published"
        BY <2>1, <2>4, RowUpdated DEF D!Live
      <3>. QED
        BY <2>1, <3>1, RowsMoveOn
    <2>. QED
      BY <1>4, <2>1, <2>2, <2>3, <2>4 DEF D!Claim, D!MarkPublished, D!MarkFailed
  <1>. QED
    BY <1>2, <1>3, <1>4, SameSendings

\* A request is the first of its call, or one more of it.
LEMMA CallsAct ==
  ASSUME FiniteAgent, AgentInv, ClaimsAreSent, NEW r \in Runs, Sends(r), UNCHANGED cfg
  PROVE  \/ UNCHANGED Sendings /\ FatesMove
         \/ \E i \in D!Ids : D!Sending!Act(i)
  <1>. USE DEF AgentInv
  <1>1. PICK i \in D!Ids : i = D!Current(r) /\ i \in D!Rows /\ pubs[i].status = "publishing"
    BY CurrentIsARow DEF Sends, ClaimsAreHeld, Handling
  <1>2. UNCHANGED pubs /\ FatesMove /\ Fates' = Fates
    BY DEF Sends, FatesMove, D!Fate, Fates, D!Rows
  <1>3. post[i].calls \in {0, 1} /\ post'[i].calls = 1 /\ \A j \in D!Ids \ {i} : post'[j] = post[j]
    <2>1. post[i].calls \in Nat /\ post[i].calls <= 1
      BY DEF ClaimsAreSent, AgentTypeOK, PostStates
    <2>. QED
      BY <1>1, <2>1, RequestSends
  <1>4. CASE post[i].calls = 0
    <2>1. Sendings' = [Sendings EXCEPT ![i] = 1]
      BY <1>3 DEF Sendings
    <2>2. Fates[i] = "closed" /\ Sendings[i] = 0
      BY <1>1, <1>4 DEF Fates, Sendings, D!Fate
    <2>. QED
      BY <1>2, <2>1, <2>2 DEF D!Sending!Act, Fates, Sendings
  <1>5. CASE post[i].calls = 1
    BY <1>2, <1>3, <1>5 DEF Sendings
  <1>. QED
    BY <1>3, <1>4, <1>5

LEMMA AgentRefines ==
  ASSUME FiniteAgent, AgentInv, ClaimsAreSent, D!Next \/ UNCHANGED D!vars
  PROVE  [D!Sending!Next]_<<Fates, Sendings>>
  <1>. UNCHANGED cfg
    BY SettingsStay
  <1>1. ASSUME UNCHANGED Sendings /\ FatesMove PROVE D!Sending!Next
    BY <1>1, RowsRecord DEF D!Sending!Next
  <1>2. ASSUME UNCHANGED pubs PROVE FatesMove
    BY <1>2 DEF FatesMove, D!Fate, D!Rows
  <1>3. ASSUME UNCHANGED <<pubs, post>> PROVE D!Sending!Next
    BY <1>1, <1>2, <1>3, SameSendings
  <1>4. CASE UNCHANGED D!vars
    BY <1>3, <1>4 DEF D!vars
  <1>5. CASE D!Next
    <2>1. ASSUME NEW r \in Runs, D!Launch(r) \/ D!PassStep(r) \/ D!WriteRefused(r)
          PROVE  D!Sending!Next
      <3>1. CASE \/ D!Launch(r) \/ D!Plan(r) \/ D!NextVideo(r) \/ D!SelectDue(r) \/ D!EndPass(r) \/ D!Check(r)
                 \/ D!Poll(r) \/ D!WaitContainer(r) \/ D!WriteRefused(r)
        BY <1>3, <3>1, QuietStep DEF AgentInv, FiniteAgent, Quiet
      <3>2. CASE D!UploadYoutube(r) \/ D!CreateTiktok(r) \/ D!PublishContainer(r)
        <4>1. Sends(r)
          BY <3>2, CallStep DEF AgentInv, FiniteAgent
        <4>. QED
          BY <1>1, <4>1, CallsAct DEF D!Sending!Next
      <3>3. CASE D!Schedule(r) \/ D!Claim(r) \/ D!MarkPublished(r) \/ D!MarkFailed(r)
        BY <1>1, <3>3, WritesRecord
      <3>. QED
        BY <2>1, <3>1, <3>2, <3>3 DEF D!PassStep
    <2>2. ASSUME NEW c \in Callers, D!InsertPublication(c) PROVE D!Sending!Next
      BY <1>1, <2>2, WritesRecord
    <2>3. ASSUME NEW c \in Callers, NEW v \in Videos, D!AskPublish(c, v) PROVE D!Sending!Next
      BY <1>3, <2>3 DEF D!AskPublish
    <2>4. ASSUME NEW i \in D!Ids, D!Process(i) PROVE D!Sending!Next
      <3>1. UNCHANGED pubs /\ UNCHANGED Sendings
        BY <2>4 DEF D!Process, Sendings, AgentInv, AgentTypeOK, PostStates
      <3>. QED
        BY <1>1, <1>2, <3>1
    <2>5. CASE D!Tick \/ D!Crash \/ \E v \in Videos : D!Purge(v)
      BY <1>3, <2>5 DEF D!Tick, D!Purge, D!Crash
    <2>. QED
      BY <1>5, <2>1, <2>2, <2>3, <2>4, <2>5 DEF D!Next
  <1>. QED
    BY <1>4, <1>5

\* While the agent is checked, it calls the platforms as AtMostOnce says, whatever the
\* provider: once at most for a publication, after its claim, that no pass takes back.
\* In the other behaviours nothing of it moves.
THEOREM PublicationsRefine ==
  ASSUME FiniteAgent
  PROVE  ServicesSpec => PublicationsAtMostOnce
  <1>1. ServicesInit => D!Sending!Init
    <2>1. ASSUME D!Init PROVE Fates = [i \in D!Ids |-> "unknown"] /\ Sendings = [i \in D!Ids |-> 0]
      BY <2>1 DEF D!Init, Fates, Sendings, D!Fate, D!Rows
    <2>. QED
      BY <2>1 DEF ServicesInit, D!Sending!Init, Fates, Sendings
  <1>2. ServicesSpec => []SendsHold
    BY CopiesAreSent
  <1>3. SendsHold /\ [ServicesNext]_all => [D!Sending!Next]_<<Fates, Sendings>>
    <2>. SUFFICES ASSUME SendsHold, [ServicesNext]_all PROVE [D!Sending!Next]_<<Fates, Sendings>>
      OBVIOUS
    <2>1. CASE focus = "distribution"
      BY <2>1, AgentSteps, AgentRefines DEF SendsHold
    <2>2. CASE focus # "distribution"
      <3>1. UNCHANGED <<pubs, post>>
        BY <2>2 DEF ServicesNext, all, distribution
      <3>. QED
        BY <3>1 DEF Fates, Sendings, D!Fate, D!Rows
    <2>. QED
      BY <2>1, <2>2
  <1>. QED
    BY <1>1, <1>2, <1>3, PTL DEF ServicesSpec, PublicationsAtMostOnce, D!PublicationsAtMostOnce, D!Sending!Spec,
       Fates, Sendings

------------------------------------------------------------------------------
(* The quotas of a day.                                                        *)

Planning(r) == run[r].at \in {"plan", "next", "choose"}

\* The agent's publications of a day and a class.
OfDay(day, short) ==
  {j \in D!Rows : /\ pubs[j].byAgent /\ pubs[j].status \in D!Live
                  /\ D!Day(pubs[j].at) = day /\ D!IsShort(pubs[j].video) = short}

Quota(short) == IF short THEN ShortQuota ELSE LongQuota

\* What a pass may still plan of the class.
Share(r, short) == IF short THEN run[r].short ELSE run[r].long

Sent == {"publishing", "published"}

\* What is published, or about to be, was due.
DueHasCome ==
  /\ \A r \in Runs : \A k \in 1 .. Len(run[r].due) : pubs[run[r].due[k].id].at <= now
  /\ \A i \in D!Rows : pubs[i].status \in Sent => pubs[i].at <= now

\* A pass that is alone plans a day of which nothing is published yet.
DayAhead(r) ==
  /\ \A s \in Runs : run[s].at # "idle" => s = r
  /\ \A i \in D!Rows : pubs[i].status \in Sent => D!Day(pubs[i].at) < run[r].day
  /\ run[r].at = "choose" => \A t \in run[r].slots : D!Day(t) = run[r].day
  /\ run[r].at \in {"next", "choose"} =>
       \A short \in BOOLEAN : Cardinality(OfDay(run[r].day, short)) + Share(r, short) <= Quota(short)

\* One pass at a time, on slots that are of their day.
Unshared == ~overlap /\ D!SlotsOfTheDay

\* The quotas are kept, with what the pass that is planning may still add.
DaysAreKept ==
  /\ DueHasCome
  /\ Unshared =>
       /\ \A r, s \in Runs : run[r].at # "idle" /\ run[s].at # "idle" => r = s
       /\ \A r \in Runs : Planning(r) => DayAhead(r)
       /\ \A day \in Nat, short \in BOOLEAN : Cardinality(OfDay(day, short)) <= Quota(short)

LEMMA DaysFollow ==
  ASSUME D!DistributionAssumption, NEW a \in Nat, NEW b \in Nat, a <= b
  PROVE  D!Day(a) <= D!Day(b)
  <1>1. DayLength \in Nat /\ DayLength > 0
    BY AgentNumbers
  <1>. DEFINE p == a \div DayLength
              q == b \div DayLength
  <1>2. p \in Nat /\ q \in Nat /\ p * DayLength <= a /\ b < (q + 1) * DayLength
    BY <1>1
  <1>3. p <= q
    <2>. HIDE DEF p, q
    <2>1. p * DayLength < (q + 1) * DayLength
      <3>1. p * DayLength \in Nat /\ (q + 1) * DayLength \in Nat
        BY <1>1, <1>2
      <3>. QED
        BY <1>2, <3>1
    <2>2. ASSUME q + 1 <= p PROVE FALSE
      <3>1. (q + 1) * DayLength <= p * DayLength
        BY <1>1, <1>2, <2>2
      <3>2. p * DayLength \in Nat /\ (q + 1) * DayLength \in Nat
        BY <1>1, <1>2
      <3>. QED
        BY <2>1, <3>1, <3>2
    <2>. QED
      BY <1>2, <2>2
  <1>. QED
    BY <1>3 DEF D!Day

LEMMA QuotaNumbers ==
  ASSUME FiniteAgent, AgentTypeOK, NEW short \in BOOLEAN
  PROVE  /\ Quota(short) \in Nat /\ \A r \in Runs : Share(r, short) \in Nat
         /\ \A day : IsFiniteSet(OfDay(day, short)) /\ Cardinality(OfDay(day, short)) \in Nat
  <1>1. Quota(short) \in Nat
    BY AgentNumbers DEF Quota, FiniteAgent
  <1>2. \A r \in Runs : Share(r, short) \in Nat
    BY DEF Share, AgentTypeOK, PassStates
  <1>3. \A day : OfDay(day, short) \in SUBSET D!Rows
    BY DEF OfDay
  <1>. QED
    BY <1>1, <1>2, <1>3, RowsAreFinite

\* A step that plans nothing: the rows go on,
RowsGoOn ==
  /\ \A j \in D!Rows : j \in D!Rows' /\ pubs'[j].at = pubs[j].at
  /\ \A j \in D!Rows' :
       \/ ~pubs'[j].byAgent /\ pubs'[j].status \notin Sent
       \/ /\ j \in D!Rows /\ pubs'[j].video = pubs[j].video /\ pubs'[j].byAgent = pubs[j].byAgent
          /\ pubs'[j].status \in D!Live => pubs[j].status \in D!Live
          /\ \/ pubs'[j].status \notin Sent
             \/ pubs[j].status \in Sent
             \/ pubs[j].at <= now /\ \E r \in Runs : run[r].at = "claim"

\* and the passes that plan stay.
PassesGoOn ==
  \A r \in Runs :
    \/ run'[r] = run[r]
    \/ /\ ~Planning(r)' /\ (run'[r].at # "idle" => run[r].at # "idle")
       /\ \A k \in 1 .. Len(run'[r].due) :
            run'[r].due[k].id \in D!Rows /\ pubs[run'[r].due[k].id].at <= now

LEMMA DaysStay ==
  ASSUME FiniteAgent, AgentInv, DaysAreKept, AgentTypeOK', now <= now', Unshared' => Unshared,
         RowsGoOn, PassesGoOn
  PROVE  DaysAreKept'
  <1>. USE DEF AgentInv, RowsGoOn, PassesGoOn
  <1>1. \A j \in D!Rows : pubs[j].at \in Nat
    <2>1. \A j \in D!Rows : pubs[j] \in PubRows
      BY DEF AgentTypeOK, D!Rows
    <2>. QED
      BY <2>1 DEF PubRows
  <1>2. now \in Nat /\ now' \in Nat
    BY DEF AgentTypeOK
  <1>3. DueHasCome'
    <2>1. ASSUME NEW r \in Runs, NEW k \in 1 .. Len(run'[r].due) PROVE pubs'[run'[r].due[k].id].at <= now'
      <3>1. run'[r].due[k].id \in D!Rows /\ pubs[run'[r].due[k].id].at <= now
        <4>1. CASE run'[r] = run[r]
          BY <2>1, <4>1 DEF ClaimsAreHeld, DaysAreKept, DueHasCome
        <4>2. CASE run'[r] # run[r]
          BY <2>1, <4>2
        <4>. QED
          BY <4>1, <4>2
      <3>. QED
        BY <1>1, <1>2, <3>1
    <2>2. ASSUME NEW j \in D!Rows', pubs'[j].status \in Sent PROVE pubs'[j].at <= now'
      <3>1. j \in D!Rows /\ pubs[j].at <= now
        BY <2>2 DEF DaysAreKept, DueHasCome
      <3>. QED
        BY <1>1, <1>2, <3>1
    <2>. QED
      BY <2>1, <2>2 DEF DueHasCome
  <1>4. ASSUME NEW day, NEW short \in BOOLEAN
        PROVE  Cardinality(OfDay(day, short)') <= Cardinality(OfDay(day, short))
    <2>1. OfDay(day, short)' \subseteq OfDay(day, short)
      BY DEF OfDay
    <2>. QED
      BY <2>1, QuotaNumbers, FS_Subset
  <1>5. ASSUME Unshared', NEW day \in Nat, NEW short \in BOOLEAN
        PROVE  Cardinality(OfDay(day, short)') <= Quota(short)
    <2>1. /\ Cardinality(OfDay(day, short)') <= Cardinality(OfDay(day, short))
          /\ Cardinality(OfDay(day, short)) <= Quota(short)
      BY <1>4, <1>5 DEF DaysAreKept
    <2>2. Cardinality(OfDay(day, short)') \in Nat
      <3>1. OfDay(day, short)' \subseteq OfDay(day, short)
        BY DEF OfDay
      <3>. QED
        BY <3>1, QuotaNumbers, FS_Subset, FS_CardinalityType
    <2>. QED
      BY <2>1, <2>2, QuotaNumbers
  <1>6. ASSUME Unshared', NEW r \in Runs, Planning(r)' PROVE DayAhead(r)'
    <2>1. run'[r] = run[r] /\ Planning(r) /\ DayAhead(r)
      BY <1>6 DEF DaysAreKept, Planning
    <2>2. \A s \in Runs : run[s].at # "claim"
      BY <2>1 DEF DayAhead, Planning
    <2>3. \A s \in Runs : run'[s].at # "idle" => s = r
      BY <2>1 DEF DayAhead
    <2>4. \A j \in D!Rows' : pubs'[j].status \in Sent => D!Day(pubs'[j].at) < run'[r].day
      BY <2>1, <2>2 DEF DayAhead
    <2>5. ASSUME NEW short \in BOOLEAN, NEW day, run[r].day = day, run[r].at \in {"next", "choose"}
          PROVE  Cardinality(OfDay(day, short)') + Share(r, short)' <= Quota(short)
      <3>1. /\ Cardinality(OfDay(day, short)') <= Cardinality(OfDay(day, short))
            /\ Cardinality(OfDay(day, short)) + Share(r, short) <= Quota(short)
        BY <1>4, <2>1, <2>5 DEF DayAhead
      <3>2. Cardinality(OfDay(day, short)') \in Nat
        <4>1. OfDay(day, short)' \subseteq OfDay(day, short)
          BY DEF OfDay
        <4>. QED
          BY <4>1, QuotaNumbers, FS_Subset, FS_CardinalityType
      <3>3. Share(r, short)' = Share(r, short)
        BY <2>1 DEF Share
      <3>. QED
        BY <3>1, <3>2, <3>3, QuotaNumbers
    <2>6. (run[r].at \in {"next", "choose"} =>
             \A short \in BOOLEAN : Cardinality(OfDay(run[r].day, short)) + Share(r, short) <= Quota(short))'
      BY <2>1, <2>5 DEF OfDay, Share
    <2>. QED
      BY <2>1, <2>3, <2>4, <2>6 DEF DayAhead
  <1>7. ASSUME Unshared', NEW r \in Runs, NEW s \in Runs, run'[r].at # "idle", run'[s].at # "idle"
        PROVE  r = s
    BY <1>7 DEF DaysAreKept
  <1>. QED
    BY <1>3, <1>5, <1>6, <1>7 DEF DaysAreKept

LEMMA LaunchPlans ==
  ASSUME FiniteAgent, AgentInv, DaysAreKept, NEW r \in Runs, D!Launch(r)
  PROVE  DaysAreKept'
  <1>. USE DEF AgentInv, FiniteAgent
  <1>1. /\ UNCHANGED <<now, pubs>> /\ D!Rows' = D!Rows
        /\ Unshared' => Unshared /\ \A s \in Runs : run[s].at = "idle"
    BY DEF D!Launch, D!At, D!Rows, Unshared, D!SlotsOfTheDay
  <1>2. /\ run'[r].at = "plan" /\ run'[r].due = <<>> /\ run'[r].day = D!Day(now) + Lead
        /\ \A s \in Runs \ {r} : run'[s] = run[s]
    BY PassBegins
  <1>3. DueHasCome'
    BY <1>1, <1>2 DEF DaysAreKept, DueHasCome
  <1>4. ASSUME Unshared' PROVE Unshared /\ \A s \in Runs : run[s].at = "idle"
    BY <1>1, <1>4
  <1>5. ASSUME Unshared', NEW j \in D!Rows, pubs[j].status \in Sent
        PROVE  D!Day(pubs[j].at) < run'[r].day
    <2>1. pubs[j].at \in Nat /\ now \in Nat /\ pubs[j].at <= now
      <3>1. pubs[j] \in PubRows
        BY DEF AgentTypeOK, D!Rows
      <3>. QED
        BY <1>5, <3>1 DEF PubRows, AgentTypeOK, DaysAreKept, DueHasCome
    <2>2. D!Day(pubs[j].at) <= D!Day(now) /\ D!Day(pubs[j].at) \in Nat /\ D!Day(now) \in Nat
      BY <2>1, DaysFollow, DayType
    <2>3. Lead \in Nat /\ Lead >= 1
      BY AgentNumbers
    <2>. QED
      BY <1>2, <2>2, <2>3
  <1>6. ASSUME Unshared', NEW s \in Runs, run'[s].at # "idle" PROVE s = r
    BY <1>2, <1>4, <1>6
  <1>7. ASSUME Unshared' PROVE DayAhead(r)'
    BY <1>1, <1>2, <1>5, <1>6, <1>7 DEF DayAhead
  <1>8. ASSUME Unshared', NEW day \in Nat, NEW short \in BOOLEAN
        PROVE  Cardinality(OfDay(day, short)') <= Quota(short)
    BY <1>1, <1>4, <1>8 DEF DaysAreKept, OfDay
  <1>. QED
    BY <1>3, <1>6, <1>7, <1>8 DEF DaysAreKept, Planning

\* A pass that goes on planning, the rows being as they were.
LEMMA PlanningGoesOn ==
  ASSUME FiniteAgent, AgentInv, DaysAreKept, NEW r \in Runs, Planning(r),
         UNCHANGED <<now, pubs, Unshared>>, run'[r].day = run[r].day, run'[r].due = run[r].due,
         run'[r].at \in {"select", "next", "choose"}, \A s \in Runs \ {r} : run'[s] = run[s],
         Unshared /\ run'[r].at = "choose" => \A t \in run'[r].slots : D!Day(t) = run[r].day,
         Unshared /\ run'[r].at \in {"next", "choose"} =>
           \A short \in BOOLEAN :
             Cardinality(OfDay(run[r].day, short)) + (IF short THEN run'[r].short ELSE run'[r].long) <= Quota(short)
  PROVE  DaysAreKept'
  <1>1. D!Rows' = D!Rows
    BY DEF D!Rows
  <1>2. DueHasCome'
    BY <1>1 DEF DaysAreKept, DueHasCome
  <1>3. ASSUME Unshared' PROVE DayAhead(r) /\ \A s \in Runs : run[s].at # "idle" => s = r
    BY <1>3 DEF DaysAreKept, DayAhead
  <1>4. ASSUME Unshared', NEW s \in Runs, run'[s].at # "idle" PROVE s = r
    BY <1>3, <1>4
  <1>5. ASSUME Unshared' PROVE DayAhead(r)'
    <2>1. (run[r].at \in {"next", "choose"} =>
             \A short \in BOOLEAN : Cardinality(OfDay(run[r].day, short)) + Share(r, short) <= Quota(short))'
      BY <1>1, <1>5 DEF OfDay, Share
    <2>. QED
      BY <1>1, <1>3, <1>4, <1>5, <2>1 DEF DayAhead
  <1>6. ASSUME Unshared', NEW day \in Nat, NEW short \in BOOLEAN
        PROVE  Cardinality(OfDay(day, short)') <= Quota(short)
    BY <1>1, <1>6 DEF DaysAreKept, OfDay
  <1>. QED
    BY <1>2, <1>4, <1>5, <1>6 DEF DaysAreKept, Planning

\* The agent's publications of the day that is planned are among those counted.
LEMMA CountCovers ==
  ASSUME FiniteAgent, AgentInv, DaysAreKept, Unshared, NEW r \in Runs, Planning(r), NEW short \in BOOLEAN
  PROVE  Cardinality(OfDay(run[r].day, short)) + D!Remaining(Quota(short), D!CountFor(run[r].day, short))
           <= Quota(short)
  <1>. USE DEF AgentInv
  <1>. DEFINE day == run[r].day
              counted == {i \in D!Rows : /\ D!IsShort(pubs[i].video) = short
                                         /\ \/ pubs[i].status = "scheduled" /\ D!Day(pubs[i].at) = day
                                            \/ pubs[i].status = "published" /\ D!Day(pubs[i].doneAt) = day}
  <1>1. OfDay(day, short) \subseteq counted
    <2>1. \A j \in D!Rows : pubs[j].status \in Sent => D!Day(pubs[j].at) # day
      <3>1. \A j \in D!Rows : D!Day(pubs[j].at) \in Nat
        <4>1. \A j \in D!Rows : pubs[j] \in PubRows
          BY DEF AgentTypeOK, D!Rows
        <4>. QED
          BY <4>1, DayType DEF PubRows, FiniteAgent
      <3>2. day \in Nat
        BY DEF AgentTypeOK, PassStates
      <3>. QED
        BY <3>1, <3>2 DEF DaysAreKept, DayAhead
    <2>. QED
      BY <2>1 DEF OfDay, D!Live, Sent
  <1>2. /\ D!CountFor(day, short) = Cardinality(counted) /\ Cardinality(counted) \in Nat
        /\ Cardinality(OfDay(day, short)) <= Cardinality(counted)
    <2>1. counted \in SUBSET D!Rows
      OBVIOUS
    <2>2. D!CountFor(day, short) = D!Cardinality(counted)
      BY DEF D!CountFor
    <2>. HIDE DEF counted
    <2>. QED
      BY <1>1, <2>1, <2>2, RowsAreFinite, FS_Subset
  <1>3. Cardinality(OfDay(day, short)) \in Nat /\ Quota(short) \in Nat
        /\ Cardinality(OfDay(day, short)) <= Quota(short)
    BY QuotaNumbers DEF DaysAreKept, AgentTypeOK, PassStates
  <1>. HIDE DEF day, counted
  <1>4. Cardinality(OfDay(day, short)) + D!Remaining(Quota(short), D!CountFor(day, short)) <= Quota(short)
    BY <1>2, <1>3 DEF D!Remaining
  <1>. QED
    BY <1>4 DEF day

LEMMA PlanPlans ==
  ASSUME FiniteAgent, AgentInv, DaysAreKept, NEW r \in Runs, D!Plan(r)
  PROVE  DaysAreKept'
  <1>1. UNCHANGED <<now, pubs, Unshared>> /\ Planning(r)
    BY DEF D!Plan, D!At, Planning, Unshared, D!SlotsOfTheDay
  <1>2. /\ run'[r].at \in {"select", "next"} /\ run'[r].due = run[r].due /\ run'[r].day = run[r].day
        /\ run'[r].at = "next" =>
             /\ run'[r].long = D!Remaining(LongQuota, D!CountFor(run[r].day, FALSE))
             /\ run'[r].short = D!Remaining(ShortQuota, D!CountFor(run[r].day, TRUE))
        /\ \A s \in Runs \ {r} : run'[s] = run[s]
    BY PassPlans DEF AgentInv, FiniteAgent
  <1>3. ASSUME Unshared, run'[r].at = "next", NEW short \in BOOLEAN
        PROVE  Cardinality(OfDay(run[r].day, short)) + (IF short THEN run'[r].short ELSE run'[r].long)
                 <= Quota(short)
    <2>1. Cardinality(OfDay(run[r].day, short)) + D!Remaining(Quota(short), D!CountFor(run[r].day, short))
            <= Quota(short)
      BY <1>1, <1>3, CountCovers
    <2>2. CASE short = TRUE
      BY <1>2, <1>3, <2>1, <2>2 DEF Quota
    <2>3. CASE short = FALSE
      BY <1>2, <1>3, <2>1, <2>3 DEF Quota
    <2>. QED
      BY <2>2, <2>3
  <1>. QED
    BY <1>1, <1>2, <1>3, PlanningGoesOn

LEMMA NextVideoPlans ==
  ASSUME FiniteAgent, AgentInv, DaysAreKept, NEW r \in Runs, D!NextVideo(r)
  PROVE  DaysAreKept'
  <1>1. UNCHANGED <<now, pubs, Unshared>> /\ Planning(r) /\ run[r].at = "next"
    BY DEF D!NextVideo, D!At, Planning, Unshared, D!SlotsOfTheDay
  <1>2. /\ run'[r].at \in {"select", "next", "choose"} /\ run'[r].due = run[r].due
        /\ run'[r].day = run[r].day /\ run'[r].long = run[r].long /\ run'[r].short = run[r].short
        /\ run'[r].at = "choose" => run'[r].slots = D!FreeSlots(D!Platform(Head(run[r].todo)), run[r].day)
        /\ \A s \in Runs \ {r} : run'[s] = run[s]
    BY PassConsiders DEF AgentInv, FiniteAgent
  <1>3. ASSUME Unshared, NEW short \in BOOLEAN
        PROVE  Cardinality(OfDay(run[r].day, short)) + (IF short THEN run'[r].short ELSE run'[r].long)
                 <= Quota(short)
    BY <1>1, <1>2, <1>3 DEF DaysAreKept, DayAhead, Share
  <1>4. Unshared /\ run'[r].at = "choose" => \A t \in run'[r].slots : D!Day(t) = run[r].day
    <2>1. run[r].day \in Nat
      BY DEF AgentInv, AgentTypeOK, PassStates
    <2>. QED
      BY <1>2, <2>1, SlotsAreOfTheDay DEF AgentInv, FiniteAgent, Unshared
  <1>. QED
    BY <1>1, <1>2, <1>3, <1>4, PlanningGoesOn

\* A row more for the day, a place less for the pass.
LEMMA SchedulePlans ==
  ASSUME FiniteAgent, AgentInv, DaysAreKept, NEW r \in Runs, D!Schedule(r)
  PROVE  DaysAreKept'
  <1>. USE DEF AgentInv, FiniteAgent
  <1>. DEFINE v == Head(run[r].todo)
              new == Len(pubs) + 1
              c == D!IsShort(v)
  <1>1. UNCHANGED <<now, Unshared>> /\ Planning(r) /\ run[r].at = "choose"
    BY DEF D!Schedule, D!At, Planning, Unshared, D!SlotsOfTheDay
  <1>2. /\ run'[r].at = "next" /\ run'[r].due = run[r].due /\ run'[r].day = run[r].day
        /\ v \in Videos /\ D!Left(r, v) # 0
        /\ run'[r].long = IF c THEN run[r].long ELSE run[r].long - 1
        /\ run'[r].short = IF c THEN run[r].short - 1 ELSE run[r].short
        /\ \A s \in Runs \ {r} : run'[s] = run[s]
    BY PassSchedules
  <1>3. PICK t \in run[r].slots : t \in Nat /\ pubs' = Append(pubs, D!Row(v, t, TRUE))
    BY PassSchedules
  <1>4. /\ D!Rows' = D!Rows \cup {new} /\ new \notin D!Rows /\ \A j \in D!Rows : pubs'[j] = pubs[j]
        /\ pubs'[new] = D!Row(v, t, TRUE)
    BY <1>2, <1>3, RowAppended
  <1>5. /\ pubs'[new].status = "scheduled" /\ pubs'[new].at = t /\ pubs'[new].video = v /\ pubs'[new].byAgent
    BY <1>4 DEF D!Row
  <1>6. DueHasCome'
    <2>1. \A s \in Runs : run'[s].due = run[s].due
      BY <1>2
    <2>2. \A s \in Runs : \A k \in 1 .. Len(run[s].due) : run[s].due[k].id \in D!Rows
      BY DEF ClaimsAreHeld
    <2>3. \A s \in Runs : \A k \in 1 .. Len(run'[s].due) : pubs'[run'[s].due[k].id].at <= now'
      BY <1>1, <1>4, <2>1, <2>2 DEF DaysAreKept, DueHasCome
    <2>4. \A j \in D!Rows' : pubs'[j].status \in Sent => pubs'[j].at <= now'
      BY <1>1, <1>4, <1>5 DEF DaysAreKept, DueHasCome, Sent
    <2>. QED
      BY <2>3, <2>4 DEF DueHasCome
  <1>7. ASSUME Unshared' PROVE DayAhead(r) /\ \A s \in Runs : run[s].at # "idle" => s = r
    BY <1>1, <1>7 DEF DaysAreKept, DayAhead
  <1>8. ASSUME Unshared', NEW s \in Runs, run'[s].at # "idle" PROVE s = r
    BY <1>1, <1>2, <1>7, <1>8
  <1>9. ASSUME Unshared', NEW day, NEW short \in BOOLEAN, day = run[r].day, short = c
        PROVE  OfDay(day, short)' = OfDay(day, short) \cup {new} /\ new \notin OfDay(day, short)
    <2>1. D!Day(t) = day
      BY <1>1, <1>7, <1>9 DEF DayAhead
    <2>. QED
      BY <1>4, <1>5, <1>9, <2>1 DEF OfDay, D!Live
  <1>10. ASSUME Unshared', NEW day, NEW short \in BOOLEAN, day # run[r].day \/ short # c
         PROVE  OfDay(day, short)' = OfDay(day, short)
    <2>1. D!Day(t) = run[r].day
      BY <1>1, <1>7, <1>10 DEF DayAhead
    <2>. QED
      BY <1>4, <1>5, <1>10, <2>1 DEF OfDay
  <1>11. ASSUME Unshared', NEW short \in BOOLEAN
         PROVE  /\ Cardinality(OfDay(run[r].day, short)) + Share(r, short) <= Quota(short)
                /\ Cardinality(OfDay(run[r].day, short)) \in Nat /\ Share(r, short) \in Nat /\ Quota(short) \in Nat
    BY <1>1, <1>7, <1>11, QuotaNumbers DEF DayAhead
  <1>12. ASSUME Unshared', NEW day, NEW short \in BOOLEAN, day = run[r].day
         PROVE  /\ Cardinality(OfDay(day, short)') + Share(r, short)' <= Quota(short)
                /\ Cardinality(OfDay(day, short)') \in Nat /\ Share(r, short)' \in Nat
    <2>1. CASE short = c
      <3>1. Share(r, short)' = Share(r, short) - 1 /\ Share(r, short) # 0
        BY <1>2, <2>1 DEF Share, D!Left
      <3>2. Cardinality(OfDay(day, short)') = Cardinality(OfDay(day, short)) + 1
        <4>1. OfDay(day, short)' = OfDay(day, short) \cup {new} /\ new \notin OfDay(day, short)
          BY <1>9, <1>12, <2>1
        <4>2. IsFiniteSet(OfDay(day, short))
          BY QuotaNumbers
        <4>3. Cardinality(OfDay(day, short) \cup {new}) = Cardinality(OfDay(day, short)) + 1
          BY <4>1, <4>2, FS_AddElement
        <4>. QED
          BY <4>1, <4>3
      <3>. QED
        BY <1>11, <1>12, <3>1, <3>2
    <2>2. CASE short # c
      <3>1. Share(r, short)' = Share(r, short)
        <4>1. c \in BOOLEAN
          BY DEF D!IsShort
        <4>. HIDE DEF c
        <4>2. CASE short = TRUE
          BY <1>2, <2>2, <4>1, <4>2 DEF Share
        <4>3. CASE short = FALSE
          BY <1>2, <2>2, <4>1, <4>3 DEF Share
        <4>. QED
          BY <4>2, <4>3
      <3>. QED
        BY <1>10, <1>11, <1>12, <2>2, <3>1
    <2>. QED
      BY <2>1, <2>2
  <1>13. ASSUME Unshared', NEW day \in Nat, NEW short \in BOOLEAN
         PROVE  Cardinality(OfDay(day, short)') <= Quota(short)
    <2>1. CASE day = run[r].day
      BY <1>11, <1>12, <1>13, <2>1
    <2>2. CASE day # run[r].day
      BY <1>1, <1>10, <1>13, <2>2 DEF DaysAreKept
    <2>. QED
      BY <2>1, <2>2
  <1>14. ASSUME Unshared' PROVE DayAhead(r)'
    <2>1. (run[r].at \in {"next", "choose"} =>
             \A short \in BOOLEAN : Cardinality(OfDay(run[r].day, short)) + Share(r, short) <= Quota(short))'
      BY <1>2, <1>12, <1>14 DEF OfDay, Share
    <2>2. \A j \in D!Rows' : pubs'[j].status \in Sent => D!Day(pubs'[j].at) < run'[r].day
      BY <1>2, <1>4, <1>5, <1>7, <1>14 DEF DayAhead, Sent
    <2>. QED
      BY <1>2, <1>8, <1>14, <2>1, <2>2 DEF DayAhead
  <1>. QED
    BY <1>6, <1>8, <1>13, <1>14 DEF DaysAreKept, Planning

\* The steps of a pass that has planned, or is over.
LEMMA PassesPlan ==
  ASSUME FiniteAgent, AgentInv, DaysAreKept, AgentTypeOK', NEW r \in Runs,
         \/ D!SelectDue(r) \/ D!EndPass(r) \/ D!Check(r) \/ D!Poll(r) \/ D!WaitContainer(r)
         \/ D!WriteRefused(r) \/ D!UploadYoutube(r) \/ D!CreateTiktok(r) \/ D!PublishContainer(r)
  PROVE  DaysAreKept'
  <1>. USE DEF AgentInv, FiniteAgent
  <1>1. /\ UNCHANGED <<now, pubs, overlap, cfg>> /\ run[r].at # "idle"
        /\ ~D!SelectDue(r) => run[r].at \notin {"plan", "next", "choose", "select"}
    BY DEF D!SelectDue, D!EndPass, D!Check, D!Poll, D!WaitContainer, D!WriteRefused, D!UploadYoutube,
       D!CreateTiktok, D!PublishContainer, D!At
  <1>2. \A s \in Runs \ {r} : run'[s] = run[s]
    BY QuietStep, CallStep DEF Quiet, Sends
  <1>3. /\ ~Planning(r)'
        /\ \A k \in 1 .. Len(run'[r].due) : run'[r].due[k].id \in D!Rows /\ pubs[run'[r].due[k].id].at <= now
    <2>1. CASE D!SelectDue(r)
      BY <2>1, PassSelects DEF Planning
    <2>2. CASE D!UploadYoutube(r) \/ D!CreateTiktok(r) \/ D!PublishContainer(r)
      BY <2>2, CallStep DEF Sends, Planning, ClaimsAreHeld, DaysAreKept, DueHasCome
    <2>3. CASE \/ D!EndPass(r) \/ D!Check(r) \/ D!Poll(r) \/ D!WaitContainer(r) \/ D!WriteRefused(r)
      <3>1. run'[r] = D!Idle \/ Handling(r)'
        <4>1. \A l \in D!Labels : run' = [run EXCEPT ![r].at = l] => run'[r].at = l
          BY DEF AgentTypeOK, PassStates
        <4>2. run' = [run EXCEPT ![r] = D!Idle] => run'[r] = D!Idle
          BY DEF AgentTypeOK
        <4>3. run' = [run EXCEPT ![r].polls = @ + 1] => run'[r].at = run[r].at
          BY DEF AgentTypeOK, PassStates
        <4>. QED
          BY <2>3, <4>1, <4>2, <4>3 DEF D!EndPass, D!Check, D!Poll, D!WaitContainer, D!WriteRefused, D!Steps,
             D!At, D!Labels, Handling
      <3>2. D!Idle.at = "idle" /\ D!Idle.due = <<>>
        BY DEF D!Idle
      <3>3. Quiet(r)
        BY <2>3, QuietStep
      <3>4. CASE run'[r] = D!Idle
        BY <3>2, <3>4 DEF Planning
      <3>5. CASE Handling(r)'
        BY <3>3, <3>5 DEF Quiet, Planning, Handling, ClaimsAreHeld, DaysAreKept, DueHasCome
      <3>. QED
        BY <3>1, <3>4, <3>5
    <2>. QED
      BY <2>1, <2>2, <2>3
  <1>4. RowsGoOn /\ now <= now'
    BY <1>1 DEF D!Rows, AgentTypeOK, RowsGoOn
  <1>5. PassesGoOn
    BY <1>1, <1>2, <1>3 DEF PassesGoOn
  <1>. QED
    BY <1>1, <1>4, <1>5, DaysStay DEF Unshared, D!SlotsOfTheDay

\* The rows of a pass that claims or settles one.
LEMMA RowsPlan ==
  ASSUME FiniteAgent, AgentInv, DaysAreKept, AgentTypeOK', NEW r \in Runs,
         D!Claim(r) \/ D!MarkPublished(r) \/ D!MarkFailed(r)
  PROVE  DaysAreKept'
  <1>. USE DEF AgentInv, FiniteAgent
  <1>. DEFINE i == D!Current(r)
  <1>1. /\ UNCHANGED <<now, Unshared>> /\ run[r].at \in {"claim", "mark", "fail"} /\ now \in Nat
    BY DEF Unshared, D!SlotsOfTheDay, D!Claim, D!MarkPublished, D!MarkFailed, D!At, AgentTypeOK
  <1>2. run[r].due # <<>> /\ i \in D!Rows /\ pubs[i].at <= now
    <2>1. run[r].due # <<>>
      BY DEF D!Claim, D!MarkPublished, D!MarkFailed, D!At, ClaimsAreHeld, Handling
    <2>2. run[r].due \in Seq([id : Nat, purged : BOOLEAN])
      BY DEF AgentTypeOK, PassStates
    <2>3. 1 \in 1 .. Len(run[r].due) /\ i = run[r].due[1].id
      BY <2>1, <2>2 DEF D!Current
    <2>. QED
      BY <2>1, <2>3 DEF ClaimsAreHeld, DaysAreKept, DueHasCome
  <1>3. \/ UNCHANGED pubs
        \/ \E st \in {"publishing", "published", "failed"} :
             /\ st = "publishing" => run[r].at = "claim" /\ pubs[i].status = "scheduled"
             /\ st # "publishing" => pubs[i].status = "publishing"
             /\ \/ pubs' = [pubs EXCEPT ![i].status = st]
                \/ pubs' = [pubs EXCEPT ![i].status = st, ![i].doneAt = now]
    BY DEF D!Claim, D!MarkPublished, D!MarkFailed, D!At, ClaimsAreHeld, Handling
  <1>4. /\ \A s \in Runs \ {r} : run'[s] = run[s]
        /\ run'[r].at \in {"claim", "check"} /\ run'[r].due \in {run[r].due, Tail(run[r].due)}
    <2>1. CASE run' = [run EXCEPT ![r].at = "check"]
      BY <2>1, PassGoes DEF D!Labels
    <2>2. CASE run' = [run EXCEPT ![r] = D!Over(r)]
      BY <1>2, <2>2, PassOver
    <2>. QED
      BY <2>1, <2>2 DEF D!Claim, D!MarkPublished, D!MarkFailed
  <1>5. \A k \in 1 .. Len(run'[r].due) : run'[r].due[k].id \in D!Rows /\ pubs[run'[r].due[k].id].at <= now
    <2>1. run[r].due \in Seq([id : Nat, purged : BOOLEAN])
      BY DEF AgentTypeOK, PassStates
    <2>2. \A k \in 1 .. Len(Tail(run[r].due)) : k + 1 \in 1 .. Len(run[r].due)
                                              /\ Tail(run[r].due)[k] = run[r].due[k + 1]
      BY <1>2, <2>1
    <2>3. \A k \in 1 .. Len(run[r].due) : run[r].due[k].id \in D!Rows /\ pubs[run[r].due[k].id].at <= now
      BY DEF ClaimsAreHeld, DaysAreKept, DueHasCome
    <2>4. CASE run'[r].due = run[r].due
      BY <2>3, <2>4
    <2>5. CASE run'[r].due = Tail(run[r].due)
      BY <2>2, <2>3, <2>5
    <2>. QED
      BY <1>4, <2>4, <2>5
  <1>6. PassesGoOn
    BY <1>1, <1>4, <1>5 DEF Planning, PassesGoOn
  <1>. DEFINE Stands(j) ==
                /\ pubs'[j].at = pubs[j].at /\ pubs'[j].video = pubs[j].video /\ pubs'[j].byAgent = pubs[j].byAgent
                /\ pubs'[j].status \in D!Live => pubs[j].status \in D!Live
                /\ \/ pubs'[j].status \notin Sent
                   \/ pubs[j].status \in Sent
                   \/ pubs[j].at <= now /\ run[r].at = "claim"
  <1>7. D!Rows' = D!Rows /\ \A j \in D!Rows : Stands(j)
    <2>1. CASE UNCHANGED pubs
      BY <2>1 DEF D!Rows
    <2>2. ASSUME NEW st \in {"publishing", "published", "failed"},
                 st = "publishing" => run[r].at = "claim" /\ pubs[i].status = "scheduled",
                 st # "publishing" => pubs[i].status = "publishing",
                 \/ pubs' = [pubs EXCEPT ![i].status = st]
                 \/ pubs' = [pubs EXCEPT ![i].status = st, ![i].doneAt = now]
          PROVE  D!Rows' = D!Rows /\ \A j \in D!Rows : Stands(j)
      <3>1. /\ D!Rows' = D!Rows /\ \A j \in D!Rows \ {i} : pubs'[j] = pubs[j]
            /\ pubs'[i].status = st /\ pubs'[i].video = pubs[i].video /\ pubs'[i].at = pubs[i].at
            /\ pubs'[i].byAgent = pubs[i].byAgent
        BY <1>2, <2>2, RowUpdated DEF D!Live
      <3>. QED
        BY <1>2, <2>2, <3>1 DEF D!Live, Sent
    <2>. QED
      BY <1>3, <2>1, <2>2
  <1>8. RowsGoOn
    BY <1>7 DEF RowsGoOn
  <1>9. now <= now'
    BY <1>1
  <1>. QED
    BY <1>1, <1>6, <1>8, <1>9, DaysStay

LEMMA DaysAreKeptStep ==
  ASSUME FiniteAgent, AgentInv, DaysAreKept, AgentTypeOK', D!Next \/ UNCHANGED D!vars
  PROVE  DaysAreKept'
  <1>0. cfg' = cfg
    BY SettingsStay
  <1>1. ASSUME UNCHANGED <<pubs, run, overlap>>, now' = now \/ now' = now + 1
        PROVE  DaysAreKept'
    <2>1. now <= now' /\ RowsGoOn /\ PassesGoOn /\ (Unshared' => Unshared)
      BY <1>0, <1>1 DEF AgentInv, AgentTypeOK, D!Rows, RowsGoOn, PassesGoOn, Unshared, D!SlotsOfTheDay
    <2>. QED
      BY <1>1, <2>1, DaysStay
  <1>2. CASE UNCHANGED D!vars
    BY <1>1, <1>2 DEF D!vars
  <1>3. CASE D!Next
    <2>2. ASSUME NEW r \in Runs, D!Launch(r) \/ D!PassStep(r) \/ D!WriteRefused(r)
          PROVE  DaysAreKept'
      BY <2>2, LaunchPlans, PlanPlans, NextVideoPlans, SchedulePlans, PassesPlan, RowsPlan DEF D!PassStep
    <2>3. ASSUME NEW c \in Callers, D!InsertPublication(c) PROVE DaysAreKept'
      <3>1. /\ UNCHANGED <<now, run, overlap>> /\ now \in Nat
            /\ pubs' = Append(pubs, D!Row(call[c].video, now, FALSE)) /\ call[c].video \in Videos
        BY <2>3 DEF D!InsertPublication, AgentInv, AgentTypeOK
      <3>2. /\ D!Rows' = D!Rows \cup {Len(pubs) + 1} /\ \A i \in D!Rows : pubs'[i] = pubs[i]
            /\ pubs'[Len(pubs) + 1] = D!Row(call[c].video, now, FALSE)
        BY <3>1, RowAppended DEF AgentInv
      <3>3. ~pubs'[Len(pubs) + 1].byAgent /\ pubs'[Len(pubs) + 1].status \notin Sent
        BY <3>2 DEF D!Row, Sent
      <3>4. RowsGoOn /\ PassesGoOn /\ now <= now'
        <4>1. /\ \A j \in D!Rows : j \in D!Rows' /\ pubs'[j] = pubs[j]
              /\ \A j \in D!Rows' : j \in D!Rows \/ (~pubs'[j].byAgent /\ pubs'[j].status \notin Sent)
          BY <3>2, <3>3
        <4>2. RowsGoOn
          BY <4>1 DEF RowsGoOn
        <4>. QED
          BY <3>1, <4>2 DEF PassesGoOn
      <3>. QED
        BY <1>0, <3>1, <3>4, DaysStay DEF Unshared, D!SlotsOfTheDay
    <2>4. ASSUME NEW c \in Callers, NEW v \in Videos, D!AskPublish(c, v) PROVE DaysAreKept'
      BY <1>1, <2>4 DEF D!AskPublish
    <2>5. CASE (\E i \in D!Ids : D!Process(i)) \/ (\E v \in Videos : D!Purge(v)) \/ D!Tick
      BY <1>1, <2>5 DEF D!Process, D!Purge, D!Tick
    <2>6. CASE D!Crash
      <3>1. /\ UNCHANGED <<now, pubs, overlap>> /\ now \in Nat /\ D!Rows' = D!Rows
            /\ \A r \in Runs : run'[r] = D!Idle
        BY <2>6 DEF D!Crash, AgentInv, AgentTypeOK, D!Rows
      <3>2. D!Idle.at = "idle" /\ D!Idle.due = <<>>
        BY DEF D!Idle
      <3>3. \A r \in Runs : ~Planning(r)' /\ run'[r].at = "idle" /\ Len(run'[r].due) = 0
        BY <3>1, <3>2 DEF Planning
      <3>4. RowsGoOn /\ PassesGoOn /\ now <= now'
        BY <3>1, <3>3 DEF RowsGoOn, PassesGoOn
      <3>. QED
        BY <1>0, <3>1, <3>4, DaysStay DEF Unshared, D!SlotsOfTheDay
    <2>. QED
      BY <1>3, <2>2, <2>3, <2>4, <2>5, <2>6 DEF D!Next
  <1>. QED
    BY <1>2, <1>3

\* While passes do not overlap, and where the slots of a day of the channel fall on that
\* day in Paris, the agent plans no more for a day than the quotas of the
\* channel allow, whatever was being sent, failed or had been asked for by hand.
THEOREM QuotasAreKept ==
  ASSUME FiniteAgent
  PROVE  ServicesSpec => []QuotaKept
  <1>. DEFINE Holds == focus = "distribution" => AgentInv /\ DaysAreKept
  <1>1. ServicesInit => Holds
    <2>1. ASSUME D!Init PROVE DaysAreKept
      <3>1. D!Rows = {} /\ \A r \in Runs : run[r].at = "idle" /\ run[r].due = <<>>
        BY <2>1 DEF D!Init, D!Idle, D!Rows
      <3>2. \A day, short : OfDay(day, short) = {}
        BY <3>1 DEF OfDay
      <3>3. \A short \in BOOLEAN : Quota(short) \in Nat
        BY <2>1, AgentInvInit, QuotaNumbers DEF AgentInv
      <3>4. \A day \in Nat, short \in BOOLEAN : Cardinality(OfDay(day, short)) <= Quota(short)
        <4>1. Cardinality({}) = 0
          BY FS_EmptySet
        <4>. QED
          BY <3>2, <3>3, <4>1
      <3>. QED
        BY <3>1, <3>4 DEF DaysAreKept, DueHasCome, Planning
    <2>. QED
      BY <2>1, AgentInvInit DEF ServicesInit
  <1>2. Holds /\ [ServicesNext]_all => Holds'
    <2>. SUFFICES ASSUME Holds, [ServicesNext]_all, focus' = "distribution"
                  PROVE  AgentInv' /\ DaysAreKept'
      OBVIOUS
    <2>1. focus = "distribution"
      BY DEF ServicesNext, all
    <2>2. AgentInv /\ DaysAreKept /\ (D!Next \/ UNCHANGED D!vars)
      BY <2>1, AgentSteps
    <2>3. AgentInv'
      BY <2>2, AgentInvStep
    <2>. QED
      BY <2>2, <2>3, DaysAreKeptStep DEF AgentInv
  <1>3. Holds => QuotaKept
    <2>. SUFFICES ASSUME AgentInv, DaysAreKept PROVE D!QuotaKept
      BY DEF QuotaKept
    <2>1. ASSUME Unshared, NEW i \in D!Rows, pubs[i].byAgent
          PROVE  LET same == {j \in D!Rows : /\ pubs[j].byAgent /\ pubs[j].status \in D!Live
                                             /\ D!Day(pubs[j].at) = D!Day(pubs[i].at)
                                             /\ D!IsShort(pubs[j].video) = D!IsShort(pubs[i].video)}
                 IN D!Cardinality(same) <= IF D!IsShort(pubs[i].video) THEN ShortQuota ELSE LongQuota
      <3>. DEFINE day == D!Day(pubs[i].at)
                  short == D!IsShort(pubs[i].video)
      <3>1. day \in Nat /\ short \in BOOLEAN
        <4>1. pubs[i] \in PubRows
          BY DEF AgentInv, AgentTypeOK, D!Rows
        <4>. QED
          BY <4>1, DayType DEF PubRows, D!IsShort, FiniteAgent
      <3>2. Cardinality(OfDay(day, short)) <= Quota(short)
        BY <2>1, <3>1 DEF DaysAreKept
      <3>. QED
        BY <3>2, SameCardinality DEF OfDay, Quota
    <2>. QED
      BY <2>1 DEF D!QuotaKept, Unshared
  <1>. HIDE DEF Holds
  <1>. QED
    BY <1>1, <1>2, <1>3, PTL DEF ServicesSpec
================================================================================

-------------------------- MODULE ServicesBounds_proofs -------------------------
(***************************************************************************)
(* The bounds of the services, for every value of their constants: the     *)
(* limit of the plan on channels, and the type invariant of the services   *)
(* as a whole.  The types a proof needs are parts of the invariants of the *)
(* modules extended here; what is added is what TypeOK says besides: the   *)
(* bounds of retries, continuations and copies, and of the counters.       *)
(***************************************************************************)
EXTENDS Services_proofs, Distribution_proofs, CommentReplies_proofs

------------------------------------------------------------------------------
(* The comments.                                                               *)

\* A pending comment has tries left; so has one as a pass read it.
RowsCounted ==
  \A c \in Comments : row[c].attempts <= MaxAttempts /\ (row[c].status = "pending" => row[c].attempts < MaxAttempts)

PassesCounted ==
  \A p \in Passes : pass[p].posts < MaxPosts /\ \A c \in Comments : pass[p].tries[c] < MaxAttempts

\* What the invariant of the answers leaves out.
CommentMore ==
  /\ human \subseteq Comments /\ lock \in Passes \cup {NoPass}
  /\ limited \in BOOLEAN /\ capable \in BOOLEAN /\ events \in Nat /\ lapsed \in BOOLEAN
  /\ RowsCounted /\ PassesCounted

\* A comment is given up after MAX_LLM_ATTEMPTS failures.
LEMMA AttemptsAreCounted ==
  ASSUME CommentAssumption, Types, RowsCounted, PassesCounted, [Next]_vars
  PROVE  RowsCounted'
<1>0. /\ MaxAttempts \in Nat /\ MaxAttempts >= 1 /\ row \in [Comments -> RowPlan]
      /\ \A p \in Passes : pass[p].tries \in [Comments -> Nat]
  BY DEF CommentAssumption, Types, Plan
<1> USE DEF RowsCounted
<1>1. CASE UNCHANGED row  BY <1>1
<1>2. ASSUME NEW c, NEW s, s # "pending", Becomes(c, s) PROVE RowsCounted'
  BY <1>0, <1>2 DEF Becomes, RowPlan
<1>3. ASSUME NEW p \in Passes, NEW c \in Comments, Decide(p, c) PROVE RowsCounted'
  <2>1. CASE row' = [row EXCEPT ![c].attempts = pass[p].tries[c] + 1, ![c].due = FALSE,
                       ![c].status = IF pass[p].tries[c] + 1 >= MaxAttempts THEN "failed" ELSE @]
    <3> DEFINE t == pass[p].tries[c]
    <3>1. t \in Nat /\ t + 1 <= MaxAttempts  BY <1>0 DEF PassesCounted
    <3>2. /\ row'[c].attempts = t + 1 /\ (t + 1 >= MaxAttempts => row'[c].status = "failed")
          /\ \A d \in Comments \ {c} : row'[d] = row[d]
      BY <1>0, <2>1 DEF RowPlan
    <3> HIDE DEF t
    <3> QED  BY <1>0, <3>1, <3>2
  <2> QED  BY <1>1, <1>2, <1>3, <2>1 DEF Decide
<1>4. ASSUME NEW p \in Passes, Commit(p) PROVE RowsCounted'
  <2>1. CASE UNCHANGED row  BY <1>1, <2>1
  <2>2. CASE row' = [c \in Comments |-> CASE c \in pass[p].kept -> Row("pending")
                                          [] c \in pass[p].dropped -> Row("skipped")
                                          [] c \in pass[p].list -> [row[c] EXCEPT !.status = "skipped", !.due = FALSE]
                                          [] OTHER -> row[c]]
    <3>1. ASSUME NEW d \in Comments
          PROVE  \/ row'[d].attempts = 0
                 \/ row'[d].attempts = row[d].attempts /\ row'[d].status = "skipped"
                 \/ row'[d] = row[d]
      <4> DEFINE gone == [row[d] EXCEPT !.status = "skipped", !.due = FALSE]
      <4>1. row'[d] = CASE d \in pass[p].kept -> Row("pending")
                        [] d \in pass[p].dropped -> Row("skipped")
                        [] d \in pass[p].list -> gone
                        [] OTHER -> row[d]
        BY <2>2
      <4>2. /\ row[d] \in RowPlan /\ Row("pending").attempts = 0 /\ Row("skipped").attempts = 0
            /\ gone.attempts = row[d].attempts /\ gone.status = "skipped"
        BY <1>0 DEF Row, RowPlan
      <4> HIDE DEF gone
      <4> QED  BY <4>1, <4>2
    <3> QED  BY <1>0, <3>1
  <2> QED  BY <1>4, <2>1, <2>2 DEF Commit
<1>5. ASSUME NEW c \in Comments, BecomeDue(c) PROVE RowsCounted'
  BY <1>0, <1>5 DEF BecomeDue, RowPlan
<1> QED
  <2>1. CASE Next
    BY <2>1, <1>1, <1>2, <1>3, <1>4, <1>5 DEF Next, Step, Begin, List, Upsert, Unsupported, Select, Claim, Send, Write,
       ReadLock, DeleteLock, WriteRefused, Arrive, HumanReply, Expire, Lapse, LimitBegins, LimitEnds,
       ChangeProvider, Crash
  <2>2. CASE UNCHANGED vars  BY <1>1, <2>2 DEF vars
  <2> QED  BY <2>1, <2>2

\* A pass selects pending comments; an answer is posted MaxPosts times at most.
LEMMA PassesAreCounted ==
  ASSUME CommentAssumption, Types, RowsCounted, PassesCounted, [Next]_vars
  PROVE  PassesCounted'
<1>0. /\ MaxAttempts \in Nat /\ MaxAttempts >= 1 /\ MaxPosts \in Nat /\ MaxPosts >= 1 /\ pass \in [Passes -> Plan]
      /\ row \in [Comments -> RowPlan]
  BY DEF CommentAssumption, Types
<1> DEFINE Counted(x) == x.posts < MaxPosts /\ \A c \in Comments : x.tries[c] < MaxAttempts
<1>1. \A q \in Passes : Counted(pass[q])  BY DEF PassesCounted
<1>2. Counted(Idle) /\ \A at, todo : Counted([Idle EXCEPT !.at = at, !.todo = todo]) /\ Counted([Idle EXCEPT !.at = at])
  BY <1>0 DEF Idle, NoTries
<1>3. ASSUME NEW p \in Passes, NEW x, Counted(x), pass' = [pass EXCEPT ![p] = x] PROVE PassesCounted'
  BY <1>0, <1>1, <1>3 DEF PassesCounted
<1>4. ASSUME NEW p \in Passes, NEW label, Goto(p, label) PROVE PassesCounted'
  BY <1>0, <1>1, <1>4 DEF PassesCounted, Goto, Plan
<1>5. ASSUME NEW p \in Passes, NEW c \in Comments, Done(p, c) PROVE PassesCounted'
  <2>1. /\ \A q \in Passes \ {p} : pass'[q] = pass[q]
        /\ pass'[p].posts = 0 /\ pass'[p].tries = [pass[p].tries EXCEPT ![c] = 0]
    BY <1>0, <1>5 DEF Done, Plan
  <2>2. pass[p].tries \in [Comments -> Nat]  BY <1>0 DEF Plan
  <2> QED  BY <1>0, <1>1, <2>1, <2>2 DEF PassesCounted
<1>6. ASSUME NEW p \in Passes, NEW b \in Pubs, List(p, b) PROVE PassesCounted'
  <2>1. ASSUME NEW rest, pass' = [pass EXCEPT ![p].todo = rest] PROVE PassesCounted'
    <3> DEFINE x == [pass[p] EXCEPT !.todo = rest]
    <3>1. Counted(x) /\ pass' = [pass EXCEPT ![p] = x]  BY <1>0, <1>1, <2>1 DEF Plan
    <3> QED  BY <1>3, <3>1
  <2>2. ASSUME NEW rest, NEW listed, NEW known,
               pass' = [pass EXCEPT ![p].at = "upsert", ![p].todo = rest, ![p].list = listed, ![p].answered = known]
        PROVE  PassesCounted'
    <3> DEFINE x == [pass[p] EXCEPT !.at = "upsert", !.todo = rest, !.list = listed, !.answered = known]
    <3>1. Counted(x) /\ pass' = [pass EXCEPT ![p] = x]  BY <1>0, <1>1, <2>2 DEF Plan
    <3> QED  BY <1>3, <3>1
  <2> HIDE DEF Counted
  <2>3. \/ \E rest : pass' = [pass EXCEPT ![p].todo = rest]
        \/ \E rest, listed, known :
             pass' = [pass EXCEPT ![p].at = "upsert", ![p].todo = rest, ![p].list = listed, ![p].answered = known]
    BY <1>6, Zenon DEF List
  <2> QED  BY <2>1, <2>2, <2>3
<1>7. ASSUME NEW p \in Passes, Upsert(p) PROVE PassesCounted'
  <2>1. PICK list, kept, dropped :
          pass' = [pass EXCEPT ![p].at = "commit", ![p].list = list, ![p].answered = {},
                               ![p].kept = kept, ![p].dropped = dropped]
    BY <1>7, Zenon DEF Upsert
  <2> DEFINE x == [pass[p] EXCEPT !.at = "commit", !.list = list, !.answered = {}, !.kept = kept, !.dropped = dropped]
  <2>2. Counted(x) /\ pass' = [pass EXCEPT ![p] = x]  BY <1>0, <1>1, <2>1 DEF Plan
  <2> QED  BY <1>3, <2>2
<1>8. ASSUME NEW p \in Passes, Commit(p) PROVE PassesCounted'
  <2> DEFINE x == [pass[p] EXCEPT !.at = "collect", !.list = {}, !.kept = {}, !.dropped = {}]
  <2>1. pass' = [pass EXCEPT ![p] = x]  BY <1>8 DEF Commit
  <2>2. Counted(x)  BY <1>0, <1>1 DEF Plan
  <2> QED  BY <1>3, <2>1, <2>2
<1>9. ASSUME NEW p \in Passes, Select(p) PROVE PassesCounted'
  <2>1. PICK some \in SUBSET {c \in Comments : row[c].status = "pending"} :
          pass' = [pass EXCEPT ![p].at = "next", ![p].due = some,
                               ![p].tries = [c \in Comments |-> IF c \in some THEN row[c].attempts ELSE 0]]
    BY <1>9, Zenon DEF Select, Status
  <2>2. /\ \A q \in Passes \ {p} : pass'[q] = pass[q]
        /\ pass'[p].posts = pass[p].posts
        /\ pass'[p].tries = [c \in Comments |-> IF c \in some THEN row[c].attempts ELSE 0]
    BY <1>0, <2>1 DEF Plan
  <2>3. \A c \in Comments : pass'[p].tries[c] < MaxAttempts  BY <1>0, <2>1, <2>2 DEF RowsCounted
  <2> QED  BY <1>1, <2>2, <2>3 DEF PassesCounted
<1>10. ASSUME NEW p \in Passes, Send(p) PROVE PassesCounted'
  <2>1. \/ pass' = [pass EXCEPT ![p].at = "write", ![p].sent = TRUE]
        \/ Goto(p, "write")
        \/ pass[p].posts + 1 < MaxPosts /\ pass' = [pass EXCEPT ![p].posts = @ + 1]
    BY <1>10 DEF Send
  <2>2. CASE pass' = [pass EXCEPT ![p].at = "write", ![p].sent = TRUE]
    BY <1>0, <1>1, <2>2 DEF PassesCounted, Plan
  <2>3. CASE pass[p].posts + 1 < MaxPosts /\ pass' = [pass EXCEPT ![p].posts = @ + 1]
    BY <1>0, <1>1, <2>3 DEF PassesCounted, Plan
  <2> QED  BY <1>4, <2>1, <2>2, <2>3
<1>11. ASSUME NEW p \in Passes, NEW c \in Comments, Decide(p, c) PROVE PassesCounted'
  <2>1. CASE pass' = [pass EXCEPT ![p].at = "claim", ![p].kept = {c}]
    BY <1>0, <1>1, <2>1 DEF PassesCounted, Plan
  <2> QED  BY <1>5, <1>11, <2>1 DEF Decide
<1>12. ASSUME NEW p \in Passes, Claim(p) \/ Write(p) PROVE PassesCounted'
  <2>1. CASE Done(p, Subject(p))
    <3>1. /\ \A q \in Passes \ {p} : pass'[q] = pass[q]
          /\ pass'[p].posts = 0 /\ pass'[p].tries = [pass[p].tries EXCEPT ![Subject(p)] = 0]
      BY <1>0, <2>1 DEF Done, Plan
    <3>2. pass[p].tries \in [Comments -> Nat]  BY <1>0 DEF Plan
    <3> QED  BY <1>0, <1>1, <3>1, <3>2 DEF PassesCounted
  <2> QED  BY <1>4, <1>12, <2>1 DEF Claim, Write
<1>13. ASSUME Crash PROVE PassesCounted'
  BY <1>2, <1>13 DEF Crash, PassesCounted
<1>14. CASE UNCHANGED pass  BY <1>14 DEF PassesCounted
<1> QED
  <2>1. ASSUME NEW p \in Passes, Begin(p) \/ WriteRefused(p) PROVE PassesCounted'
    <3>1. \E x : Counted(x) /\ pass' = [pass EXCEPT ![p] = x]  BY <1>2, <2>1, Zenon DEF Begin, WriteRefused
    <3> QED  BY <1>3, <3>1
  <2>2. ASSUME NEW p \in Passes, Step(p) PROVE PassesCounted'
    BY <2>2, <1>4, <1>5, <1>6, <1>7, <1>8, <1>9, <1>10, <1>11, <1>12
       DEF Step, Unsupported, ReadLock, DeleteLock
  <2>3. CASE Next
    BY <2>1, <2>2, <2>3, <1>13, <1>14 DEF Next, Arrive, HumanReply, BecomeDue, Expire, Lapse, LimitBegins, LimitEnds,
       ChangeProvider
  <2>4. CASE UNCHANGED vars  BY <1>14, <2>4 DEF vars
  <2> QED  BY <2>3, <2>4

LEMMA CommentTypes ==
  ASSUME CommentAssumption, Inv, CommentMore, Next \/ UNCHANGED vars
  PROVE  Inv' /\ CommentMore'
<1> USE DEF CommentMore
<1>1. Inv'  BY InvStep
<1>2. RowsCounted' /\ PassesCounted'  BY AttemptsAreCounted, PassesAreCounted DEF Inv
<1>0. ASSUME NEW p \in Passes, Step(p) PROVE UNCHANGED <<human, setting, history>>
  <2> DEFINE Same == UNCHANGED <<human, setting, history>>
  <2>1. ASSUME NEW b \in Pubs, List(p, b) PROVE Same  BY <2>1, Zenon DEF List, platform
  <2>2. ASSUME NEW c \in Comments, Unsupported(p, c) PROVE Same  BY <2>2 DEF Unsupported, platform
  <2>3. ASSUME NEW c \in Comments, Decide(p, c) PROVE Same  BY <2>3 DEF Decide, platform
  <2>4. ASSUME Upsert(p) PROVE Same  BY <2>4, Zenon DEF Upsert, platform
  <2>5. ASSUME Commit(p) PROVE Same  BY <2>5, Zenon DEF Commit, platform
  <2>6. ASSUME Select(p) PROVE Same  BY <2>6 DEF Select, platform
  <2>7. ASSUME Claim(p) PROVE Same  BY <2>7 DEF Claim, platform
  <2>8. ASSUME Send(p) PROVE Same  BY <2>8 DEF Send, platform
  <2>9. ASSUME Write(p) PROVE Same  BY <2>9 DEF Write, platform
  <2>10. ASSUME ReadLock(p) PROVE Same  BY <2>10 DEF ReadLock, platform
  <2>11. ASSUME DeleteLock(p) PROVE Same  BY <2>11 DEF DeleteLock, platform
  <2> QED  BY <1>0, <2>1, <2>2, <2>3, <2>4, <2>5, <2>6, <2>7, <2>8, <2>9, <2>10, <2>11 DEF Step
<1>3. human' \subseteq Comments
  <2>1. (\E c \in Comments : HumanReply(c)) \/ UNCHANGED human
    <3>1. CASE Next
      BY <1>0, <3>1 DEF Next, Begin, WriteRefused, Arrive, BecomeDue, Expire, Lapse, LimitBegins, LimitEnds,
         ChangeProvider, Crash, platform
    <3>2. CASE UNCHANGED vars  BY <3>2 DEF vars
    <3> QED  BY <3>1, <3>2
  <2> QED  BY <2>1 DEF HumanReply
<1>4. events' \in Nat
  <2>1. Event \/ UNCHANGED events
    <3>1. CASE Next
      BY <1>0, <3>1 DEF Next, Begin, WriteRefused, Arrive, HumanReply, BecomeDue, Expire, Lapse, LimitBegins,
         LimitEnds, ChangeProvider, Crash, history
    <3>2. CASE UNCHANGED vars  BY <3>2 DEF vars
    <3> QED  BY <3>1, <3>2
  <2> QED  BY <2>1 DEF Event
<1>5. lock' \in Passes \cup {NoPass}
  <2>1. ASSUME NEW p \in Passes, Step(p) PROVE DeleteLock(p) \/ UNCHANGED lock
    BY <2>1 DEF Step, List, Upsert, Unsupported, Decide, Commit, Select, Claim, Send, Write, ReadLock
  <2>2. CASE Next
    BY <2>1, <2>2 DEF Next, Begin, DeleteLock, WriteRefused, Arrive, HumanReply, BecomeDue, Expire, Lapse,
       LimitBegins, LimitEnds, ChangeProvider, Crash
  <2>3. CASE UNCHANGED vars  BY <2>3 DEF vars
  <2> QED  BY <2>2, <2>3
<1>6. lapsed' \in BOOLEAN
  <2>1. Lapse \/ UNCHANGED lapsed
    <3>1. CASE Next
      BY <1>0, <3>1 DEF Next, Begin, WriteRefused, Arrive, HumanReply, BecomeDue, Expire, LimitBegins, LimitEnds,
         ChangeProvider, Crash, history
    <3>2. CASE UNCHANGED vars  BY <3>2 DEF vars
    <3> QED  BY <3>1, <3>2
  <2>2. CASE Lapse  BY <2>2, Zenon DEF Lapse
  <2>3. CASE UNCHANGED lapsed  BY <2>3, Zenon
  <2> QED  BY <2>1, <2>2, <2>3
<1>7. limited' \in BOOLEAN /\ capable' \in BOOLEAN
  <2>1. LimitBegins \/ LimitEnds \/ ChangeProvider \/ UNCHANGED setting
    <3>1. CASE Next
      BY <1>0, <3>1 DEF Next, Begin, WriteRefused, Arrive, HumanReply, BecomeDue, Expire, Lapse, Crash
    <3>2. CASE UNCHANGED vars  BY <3>2 DEF vars, setting
    <3> QED  BY <3>1, <3>2
  <2>2. CASE LimitBegins  BY <2>2, Zenon DEF LimitBegins
  <2>3. CASE LimitEnds  BY <2>3, Zenon DEF LimitEnds
  <2>4. CASE ChangeProvider  BY <2>4, Zenon DEF ChangeProvider
  <2>5. CASE UNCHANGED setting  BY <2>5 DEF setting
  <2> QED  BY <2>1, <2>2, <2>3, <2>4, <2>5
<1> QED  BY <1>1, <1>2, <1>3, <1>4, <1>5, <1>6, <1>7

LEMMA CommentTypesHold ==
  ASSUME CommentAssumption, Inv, CommentMore PROVE CommentTypeOK
<1>1. row \in [Comments -> Rows]
  <2>1. row \in [Comments -> RowPlan] /\ MaxAttempts \in Nat  BY DEF Inv, Types, CommentAssumption
  <2>2. ASSUME NEW c \in Comments PROVE row[c] \in Rows  BY <2>1 DEF CommentMore, RowsCounted, RowPlan, Rows
  <2> QED  BY <2>1, <2>2
<1>2. pass \in [Passes -> [at : Labels, todo : SUBSET Pubs, list : SUBSET Comments, answered : SUBSET Comments,
                          kept : SUBSET Comments, dropped : SUBSET Comments, due : SUBSET Comments,
                          tries : [Comments -> 0 .. MaxAttempts], posts : 0 .. MaxPosts - 1, sent : BOOLEAN]]
  <2>1. /\ pass \in [Passes -> Plan] /\ MaxAttempts \in Nat /\ MaxPosts \in Nat
        /\ \A p \in Passes : pass[p].posts < MaxPosts /\ \A c \in Comments : pass[p].tries[c] < MaxAttempts
    BY DEF Inv, Types, CommentAssumption, CommentMore, PassesCounted
  <2>2. ASSUME NEW p \in Passes
        PROVE  pass[p].tries \in [Comments -> 0 .. MaxAttempts] /\ pass[p].posts \in 0 .. MaxPosts - 1
    BY <2>1 DEF Plan
  <2> QED  BY <2>1, <2>2 DEF Plan
<1> QED  BY <1>1, <1>2 DEF Inv, Types, CommentMore, CommentTypeOK

------------------------------------------------------------------------------
(* The settings of the scheduler.                                              *)

SettingsMore == planned \in [Jobs -> Crons \cup {S!Off}] /\ asked \in 0 .. MaxAsked

LEMMA TriggerType ==
  ASSUME NEW x \in S!Plannings PROVE S!Trigger(x) \in Crons \cup {S!Off}
BY DEF S!Plannings, S!Trigger

LEMMA SettingsMoreStep ==
  ASSUME S!SettingsAssumption, SettingsInv, SettingsMore, S!Next \/ UNCHANGED S!vars
  PROVE  SettingsMore'
<1>0. /\ stored \in [Jobs -> S!Plannings] /\ request \in [Requests -> Asks] /\ MaxAsked \in Nat
      /\ planned \in [Jobs -> Crons \cup {S!Off}] /\ asked \in 0 .. MaxAsked
  BY DEF SettingsInv, SettingsTypes, SettingsMore, S!SettingsAssumption
<1>1. asked' \in 0 .. MaxAsked
  <2>1. (asked < MaxAsked /\ asked' = asked + 1) \/ UNCHANGED asked
    BY DEF S!Next, S!AskStart, S!AskStop, S!AskPut, S!Ask, S!SaveSwitch, S!Start, S!Setup, S!Stop, S!Load, S!Save,
       S!Apply, S!Restart, S!vars
  <2> QED  BY <1>0, <2>1
<1>2. ASSUME NEW c \in Requests, S!Setup(c) PROVE planned' \in [Jobs -> Crons \cup {S!Off}]
  <2>1. request[c].read \in [Jobs -> S!Plannings]  BY <1>0 DEF Asks
  <2> QED  BY <1>2, <2>1, TriggerType DEF S!Setup
<1>3. ASSUME NEW c \in Requests, S!Apply(c) PROVE planned' \in [Jobs -> Crons \cup {S!Off}]
  <2>1. request[c].read \in [Jobs -> S!Plannings] /\ request[c].new \in S!Plannings /\ request[c].job \in Jobs
    BY <1>0 DEF Asks
  <2>2. S!Updated(c) \in S!Plannings  BY <2>1 DEF S!Updated, S!Plannings
  <2> QED  BY <1>0, <1>3, <2>1, <2>2, TriggerType DEF S!Apply
<1>4. ASSUME S!Restart PROVE planned' \in [Jobs -> Crons \cup {S!Off}]
  <2>1. \A j \in Jobs : S!Trigger(stored[j]) \in Crons \cup {S!Off}  BY <1>0, TriggerType
  <2> QED  BY <1>4, <2>1 DEF S!Restart
<1>5. ASSUME NEW c \in Requests, S!Stop(c) PROVE planned' \in [Jobs -> Crons \cup {S!Off}]
  BY <1>0, <1>5 DEF S!Stop
<1>6. ASSUME UNCHANGED planned PROVE planned' \in [Jobs -> Crons \cup {S!Off}]
  BY <1>0, <1>6
<1> QED
  BY <1>1, <1>2, <1>3, <1>4, <1>5, <1>6 DEF SettingsMore, S!Next, S!AskStart, S!AskStop, S!AskPut, S!Ask,
     S!SaveSwitch, S!Start, S!Load, S!Save, S!vars

LEMMA SettingsMoreStart ==
  ASSUME S!SettingsAssumption, S!Init PROVE SettingsMore
<1>1. \A j \in Jobs : S!Trigger(Default[j]) \in Crons \cup {S!Off}  BY TriggerType DEF S!SettingsAssumption
<1> QED  BY <1>1 DEF S!Init, SettingsMore, S!SettingsAssumption

LEMMA SettingsTypesHold ==
  ASSUME SettingsInv, SettingsMore PROVE S!SettingsTypeOK
BY DEF SettingsInv, SettingsTypes, SettingsMore, S!SettingsTypeOK, Asks

------------------------------------------------------------------------------
(* The calls to the models.                                                    *)

\* The retries and the continuations of a call are bounded, in all.
LlmMore ==
  /\ admin \in BOOLEAN /\ cli \in BOOLEAN
  /\ held \subseteq L!KeyNames /\ modelEdits \in 0 .. ModelEdits /\ calls \in 0 .. MaxCalls
  /\ \A a \in Agents : llm[a].tries < MaxTries /\ llm[a].continued <= MaxContinuations

LEMMA LlmMoreStep ==
  ASSUME L!LlmAssumption, LlmInv, LlmMore, L!Next \/ UNCHANGED L!vars
  PROVE  LlmMore'
<1>0. /\ llm \in [Agents -> CallRecords] /\ MaxTries \in Nat /\ MaxTries > 0 /\ MaxContinuations \in Nat
      /\ ModelEdits \in Nat /\ MaxCalls \in Nat
  BY DEF LlmInv, LlmTypes, L!LlmAssumption
<1> USE DEF LlmMore
<1>1. held' \subseteq L!KeyNames /\ modelEdits' \in 0 .. ModelEdits
  <2>1. \/ L!Edit /\ held' \subseteq L!KeyNames
        \/ UNCHANGED modelEdits /\ held' \subseteq L!KeyNames
    BY DEF L!Next, L!SaveKey, L!DeleteKey, L!TestPreference, L!SavePreference, L!Call, L!TryCli, L!HasAnthropic,
       L!TryAnthropic, L!HasGemini, L!TryGemini, L!TryDefault, L!Request, L!Account, L!vars
  <2> QED  BY <1>0, <2>1 DEF L!Edit
<1>2. calls' \in 0 .. MaxCalls
  <2>1. (calls < MaxCalls /\ calls' = calls + 1) \/ UNCHANGED calls
    BY DEF L!Next, L!SaveKey, L!DeleteKey, L!TestPreference, L!SavePreference, L!Call, L!TryCli, L!HasAnthropic,
       L!TryAnthropic, L!HasGemini, L!TryGemini, L!TryDefault, L!Request, L!vars
  <2> QED  BY <1>0, <2>1
<1>3. ASSUME NEW b \in Agents PROVE llm'[b].tries < MaxTries /\ llm'[b].continued <= MaxContinuations
  <2> DEFINE Kept == llm'[b].tries = llm[b].tries /\ llm'[b].continued = llm[b].continued
             Rested == llm'[b].tries = 0 /\ llm'[b].continued = 0
  <2>1. ASSUME NEW a \in Agents, NEW label, L!Goto(a, label) PROVE Kept
    BY <1>0, <2>1 DEF L!Goto, CallRecords
  <2>2. ASSUME NEW a \in Agents, NEW provider, NEW model, NEW vertex, L!Decided(a, provider, model, vertex)
        PROVE  Kept
    BY <1>0, <2>2 DEF L!Decided, CallRecords
  <2>3. ASSUME NEW a \in Agents, llm' = [llm EXCEPT ![a] = L!Rest] PROVE Kept \/ Rested
    BY <1>0, <2>3 DEF L!Rest
  <2>4. ASSUME NEW a \in Agents, L!Call(a) PROVE Kept \/ Rested
    BY <1>0, <2>4 DEF L!Call, L!Rest
  <2>5. ASSUME NEW a \in Agents, L!Retried(a)
        PROVE  Kept \/ (llm'[b].tries < MaxTries /\ llm'[b].continued = llm[b].continued)
    BY <1>0, <2>5 DEF L!Retried, CallRecords
  <2>6. ASSUME NEW a \in Agents, L!Continued(a)
        PROVE  Kept \/ (llm'[b].tries = 0 /\ llm'[b].continued <= MaxContinuations)
    BY <1>0, <2>6 DEF L!Continued, CallRecords
  <2>7. CASE UNCHANGED llm  BY <2>7
  <2>8. ASSUME NEW a \in Agents,
               \/ L!TryCli(a) \/ L!HasAnthropic(a) \/ L!TryAnthropic(a) \/ L!HasGemini(a) \/ L!TryGemini(a)
               \/ L!TryDefault(a)
        PROVE  Kept \/ Rested
    <3> HIDE DEF Kept, Rested
    <3> QED
      BY <2>1, <2>2, <2>3, <2>8 DEF L!TryCli, L!HasAnthropic, L!TryAnthropic, L!HasGemini, L!TryGemini, L!TryDefault
  <2> QED
    BY <1>0, <2>3, <2>4, <2>5, <2>6, <2>7, <2>8 DEF L!Next, L!SaveKey, L!DeleteKey, L!TestPreference,
       L!SavePreference, L!Request, L!Ends, L!vars
<1>4. UNCHANGED <<admin, cli>>
  BY DEF L!Next, L!SaveKey, L!DeleteKey, L!TestPreference, L!SavePreference, L!Call, L!TryCli, L!HasAnthropic,
     L!TryAnthropic, L!HasGemini, L!TryGemini, L!TryDefault, L!Request, L!Account, L!vars
<1> QED  BY <1>1, <1>2, <1>3, <1>4

LEMMA LlmMoreStart ==
  ASSUME L!LlmAssumption, L!Init PROVE LlmInv /\ LlmMore
<1>1. /\ L!Rest \in CallRecords /\ L!Rest.at = "idle" /\ L!Rest.tries = 0 /\ L!Rest.continued = 0
      /\ L!NoPref \in AnyPref
  BY DEF L!Rest, CallRecords, L!Labels, AnyPref
<1>2. llm \in [Agents -> CallRecords] /\ \A a \in Agents : llm[a] = L!Rest  BY <1>1 DEF L!Init
<1>3. LlmInv  BY <1>1, <1>2 DEF L!Init, LlmInv, LlmTypes, KeysThrough, OnPath
<1>4. LlmMore  BY <1>1, <1>2 DEF L!Init, LlmMore, L!LlmAssumption
<1> QED  BY <1>3, <1>4

LEMMA LlmTypesHold ==
  ASSUME L!LlmAssumption, LlmInv, LlmMore PROVE L!LlmTypeOK
<1>1. /\ llm \in [Agents -> CallRecords] /\ MaxTries \in Nat /\ MaxTries > 0 /\ MaxContinuations \in Nat
  BY DEF LlmInv, LlmTypes, L!LlmAssumption
<1>2. ASSUME NEW a \in Agents
      PROVE  llm[a] \in [at : L!Labels, pref : AnyPref, vertex : BOOLEAN, provider : L!Providers \cup {L!None},
                         model : L!Claude \cup L!Gemini \cup {L!None}, tries : 0 .. MaxTries - 1,
                         continued : 0 .. MaxContinuations]
  BY <1>1 DEF LlmMore, CallRecords
<1>3. llm \in [Agents -> [at : L!Labels, pref : AnyPref, vertex : BOOLEAN, provider : L!Providers \cup {L!None},
                          model : L!Claude \cup L!Gemini \cup {L!None}, tries : 0 .. MaxTries - 1,
                          continued : 0 .. MaxContinuations]]
  BY <1>1, <1>2
<1> QED  BY <1>3 DEF LlmInv, LlmTypes, LlmMore, L!LlmTypeOK, AnyPref

------------------------------------------------------------------------------
(* The distribution.                                                           *)

\* The bounds of the counters; what a call may leave bounds the copies.
AgentMore == now <= MaxTime /\ events \in 0 .. DistributionEvents /\ ClaimsAreSent

LEMMA AgentMoreStep ==
  ASSUME FiniteAgent, AgentInv, AgentMore, D!Next \/ UNCHANGED D!vars
  PROVE  AgentMore'
<1>0. /\ now \in Nat /\ MaxTime \in Nat /\ DistributionEvents \in Nat /\ MaxTries \in Nat
      /\ post \in [D!Ids -> PostStates] /\ run \in [Runs -> PassStates]
  BY AgentNumbers DEF AgentInv, AgentTypeOK, FiniteAgent
<1>1. now' <= MaxTime
  <2>1. (now < MaxTime /\ now' = now + 1) \/ UNCHANGED now
    BY DEF D!Next, D!PassStep, D!Launch, D!Plan, D!NextVideo, D!Schedule, D!SelectDue, D!Claim, D!EndPass,
       D!Check, D!UploadYoutube, D!CreateTiktok, D!Poll, D!WaitContainer, D!PublishContainer,
       D!MarkPublished, D!MarkFailed, D!WriteRefused, D!InsertPublication, D!AskPublish, D!Process, D!Purge,
       D!Tick, D!Crash, D!vars
  <2> QED  BY <1>0, <2>1 DEF AgentMore
<1>2. events' \in 0 .. DistributionEvents
  <2>1. D!Event \/ UNCHANGED events
    BY DEF D!Next, D!PassStep, D!Launch, D!Plan, D!NextVideo, D!Schedule, D!SelectDue, D!Claim, D!EndPass,
       D!Check, D!UploadYoutube, D!CreateTiktok, D!Poll, D!WaitContainer, D!PublishContainer,
       D!MarkPublished, D!MarkFailed, D!WriteRefused, D!InsertPublication, D!AskPublish, D!Process, D!Purge,
       D!Tick, D!Crash, D!vars
  <2> QED  BY <1>0, <2>1 DEF AgentMore, D!Event
<1>3. ClaimsAreSent'  BY ClaimsAreSentStep DEF AgentMore
<1> QED  BY <1>1, <1>2, <1>3 DEF AgentMore

LEMMA AgentMoreStart ==
  ASSUME FiniteAgent, D!Init PROVE AgentMore
<1>1. MaxTime \in Nat /\ DistributionEvents \in Nat  BY AgentNumbers DEF FiniteAgent
<1>2. ClaimsAreSent  BY ClaimsAreSentInit
<1> QED  BY <1>1, <1>2 DEF D!Init, AgentMore

LEMMA AgentTypesHold ==
  ASSUME FiniteAgent, AgentInv, AgentMore PROVE D!TypeOK
<1>1. now \in 0 .. MaxTime /\ events \in 0 .. DistributionEvents
  BY AgentNumbers DEF AgentInv, AgentTypeOK, AgentMore, FiniteAgent
<1>2. Len(pubs) <= MaxPubs
  <2>1. D!Rows = 1 .. Len(pubs) /\ Len(pubs) \in Nat /\ D!Rows \subseteq D!Ids /\ MaxPubs \in Nat
    BY RowsHavePosts, AgentNumbers DEF AgentInv, FiniteAgent
  <2>2. CASE Len(pubs) = 0  BY <2>1, <2>2
  <2>3. CASE Len(pubs) # 0
    <3>1. Len(pubs) \in 1 .. MaxPubs  BY <2>1, <2>3 DEF D!Ids
    <3> QED  BY <2>1, <3>1
  <2> QED  BY <2>2, <2>3
<1>3. ASSUME NEW i \in D!Ids
      PROVE  /\ post[i].state \in {"none", "working", "live", "dead"} /\ post[i].copies \in 0 .. MaxTries
             /\ post[i].calls \in Nat /\ post[i].stray \in BOOLEAN
  <2>1. post[i] \in PostStates /\ MaxTries \in Nat /\ MaxTries >= 1 /\ post[i].copies <= D!MostCopies(i)
    BY AgentNumbers DEF AgentInv, AgentTypeOK, AgentMore, ClaimsAreSent, FiniteAgent
  <2>2. D!MostCopies(i) = MaxTries \/ D!MostCopies(i) = 1  BY DEF D!MostCopies
  <2> QED  BY <2>1, <2>2 DEF PostStates
<1>4. \A r \in Runs : run[r].at \in D!Labels /\ run[r].tries \in 0 .. MaxTries /\ run[r].polls \in 0 .. MaxPolls
  BY DEF AgentInv, AgentTypeOK, PassStates
<1> QED  BY <1>1, <1>2, <1>3, <1>4 DEF AgentInv, AgentTypeOK, PubRows, D!TypeOK

------------------------------------------------------------------------------
(* The limit of the plan on channels: the count is looked at in one step of a  *)
(* creation and acted on in another, between the two the place has to stay.    *)

\* Requests that have looked at the quota and not yet inserted their channel.
Creating == {r \in DOMAIN req : req[r].kind = "create"}

\* The place a creation has seen is still there; without a second creation in
\* progress it is the only one to take it.
PlaceInv ==
  /\ IsFiniteSet(DOMAIN chan)
  /\ ~rushed => /\ Cardinality(DOMAIN chan) <= Limit
                /\ \A p, q \in Creating : p = q
                /\ Creating # {} => Cardinality(DOMAIN chan) < Limit

LEMMA ChannelCardinality ==
  ASSUME NEW set PROVE K!Cardinality(set) = Cardinality(set)
BY DEF K!Cardinality, Cardinality, K!IsFiniteSet, IsFiniteSet

\* A request begun does not change the others.
LEMMA Begun ==
  ASSUME NEW r, NEW s, NEW kind, NEW arg, K!Start(r, s, kind, arg), kind # "create"
  PROVE Creating' = Creating
<1>1. DOMAIN req' = DOMAIN req \cup {r}  BY DEF K!Start, K!With
<1>2. \A q \in DOMAIN req : req'[q] = req[q]  BY DEF K!Start, K!With
<1>3. req'[r].kind = kind  BY DEF K!Start, K!With
<1> QED  BY <1>1, <1>2, <1>3 DEF Creating, K!Start

\* A request that ends takes itself away, and nothing else.
LEMMA Ended ==
  ASSUME NEW r, K!End(r)
  PROVE Creating' = Creating \ {r}
<1>1. DOMAIN req' = DOMAIN req \ {r}  BY DEF K!End, K!Restrict
<1>2. \A q \in DOMAIN req' : req'[q] = req[q]  BY DEF K!End, K!Restrict
<1> QED  BY <1>1, <1>2 DEF Creating

\* Steps that neither look at the quota nor insert a channel keep the place.
LEMMA PlaceStays ==
  ASSUME PlaceInv, DOMAIN chan' \subseteq DOMAIN chan, Creating' \subseteq Creating, rushed' = rushed,
         Limit \in Nat
  PROVE PlaceInv'
<1>1. /\ IsFiniteSet(DOMAIN chan') /\ Cardinality(DOMAIN chan') <= Cardinality(DOMAIN chan)
      /\ Cardinality(DOMAIN chan') \in Nat /\ Cardinality(DOMAIN chan) \in Nat
  BY FS_Subset, FS_CardinalityType DEF PlaceInv
<1> QED  BY <1>1 DEF PlaceInv

\* What a request commits is a row that is there.
LEMMA CommitKeepsRows ==
  ASSUME NEW r, NEW new, K!Commit(r, new)
  PROVE DOMAIN chan' = DOMAIN chan
BY DEF K!Commit

LEMMA PlaceStep ==
  ASSUME K!ChannelsAssumption, PlaceInv, [K!ChannelsNext]_(K!vars)
  PROVE PlaceInv'
<1>0. Limit \in Nat  BY DEF K!ChannelsAssumption
<1> USE <1>0, PlaceStays
<1>1. ASSUME NEW r \in Requests, NEW s \in Slugs, NEW guided \in BOOLEAN, K!AskCreate(r, s, guided)
      PROVE PlaceInv'
  <2>1. PICK new : req' = K!With(req, r, [kind |-> "create", slug |-> s, row |-> new, arg |-> "none"])
    BY <1>1 DEF K!AskCreate
  <2>2. DOMAIN req' = DOMAIN req \cup {r} /\ r \notin DOMAIN req  BY <1>1, <2>1 DEF K!AskCreate, K!With
  <2>3. \A q \in DOMAIN req : req'[q] = req[q]  BY <2>1, <2>2 DEF K!With
  <2>4. Creating' \subseteq Creating \cup {r}  BY <2>2, <2>3 DEF Creating
  <2>5. ~rushed' => ~rushed /\ Creating = {}  BY <1>1 DEF K!AskCreate, Creating
  <2>6. chan' = chan /\ Cardinality(DOMAIN chan) < Limit
    BY <1>1, ChannelCardinality DEF K!AskCreate, K!CanCreate
  <2>7. Cardinality(DOMAIN chan) \in Nat  BY FS_CardinalityType DEF PlaceInv
  <2> QED  BY <2>4, <2>5, <2>6, <2>7 DEF PlaceInv
<1>2. ASSUME NEW r \in Requests, K!Create(r) PROVE PlaceInv'
  <2>1. r \in Creating /\ Creating' = Creating \ {r} /\ rushed' = rushed
    BY <1>2, Ended DEF K!Create, Creating
  <2>2. CASE req[r].slug \in DOMAIN chan  BY <1>2, <2>1, <2>2 DEF K!Create
  <2>3. CASE req[r].slug \notin DOMAIN chan
    <3>1. DOMAIN chan' = DOMAIN chan \cup {req[r].slug}  BY <1>2, <2>3 DEF K!Create, K!With
    <3>2. /\ IsFiniteSet(DOMAIN chan') /\ Cardinality(DOMAIN chan') = Cardinality(DOMAIN chan) + 1
          /\ Cardinality(DOMAIN chan) \in Nat
      <4>1. IsFiniteSet(DOMAIN chan)  BY DEF PlaceInv
      <4>2. Cardinality(DOMAIN chan \cup {req[r].slug}) = Cardinality(DOMAIN chan) + 1
        BY <2>3, <4>1, FS_AddElement
      <4> QED  BY <3>1, <4>1, <4>2, FS_AddElement, FS_CardinalityType
    <3>3. ~rushed => Cardinality(DOMAIN chan) < Limit /\ Creating' = {}  BY <2>1 DEF PlaceInv
    <3> QED  BY <2>1, <3>2, <3>3 DEF PlaceInv
  <2> QED  BY <2>2, <2>3
<1>3. ASSUME NEW r \in Requests, NEW s \in Slugs,
             K!AskDelete(r, s) \/ K!AskStep(r, s) \/ K!AskConnect(r, s) \/ \E p \in K!Providers : K!AskProvider(r, s, p)
      PROVE PlaceInv'
  <2>1. chan' = chan /\ rushed' = rushed
    BY <1>3 DEF K!AskDelete, K!AskStep, K!AskConnect, K!AskProvider
  <2>2. \E kind, arg : kind # "create" /\ K!Start(r, s, kind, arg)
    BY <1>3 DEF K!AskDelete, K!AskStep, K!AskConnect, K!AskProvider
  <2>3. Creating' = Creating  BY <2>2, Begun
  <2> QED  BY <2>1, <2>3
<1>4. ASSUME NEW r \in Requests, K!Delete(r) PROVE PlaceInv'
  <2>1. DOMAIN chan' \subseteq DOMAIN chan /\ rushed' = rushed  BY <1>4 DEF K!Delete, K!Restrict
  <2> QED  BY <1>4, <2>1, Ended DEF K!Delete
<1>5. ASSUME NEW r \in Requests, K!DoStep(r) PROVE PlaceInv'
  BY <1>5, Ended, CommitKeepsRows DEF K!DoStep
<1>6. ASSUME NEW r \in Requests, K!SetProvider(r) PROVE PlaceInv'
  BY <1>6, Ended, CommitKeepsRows DEF K!SetProvider
<1>7. ASSUME NEW r \in Requests, K!Connect(r) PROVE PlaceInv'
  <2>1. DOMAIN chan' = DOMAIN chan  BY <1>7, CommitKeepsRows DEF K!Connect
  <2> QED  BY <1>7, <2>1, Ended DEF K!Connect
<1>8. ASSUME NEW r \in Requests, K!Fail(r) PROVE PlaceInv'  BY <1>8, Ended DEF K!Fail
<1>9. ASSUME NEW r \in Requests, K!Finish(r) PROVE PlaceInv'
  <2>1. DOMAIN chan' = DOMAIN chan  BY <1>9, CommitKeepsRows DEF K!Finish
  <2> QED  BY <1>9, <2>1, Ended DEF K!Finish
<1>10. ASSUME NEW r \in Requests, NEW f \in flows, K!ComeBack(r, f) PROVE PlaceInv'
  <2>1. Creating' = Creating  BY <1>10, Begun DEF K!ComeBack, Creating
  <2> QED  BY <1>10, <2>1 DEF K!ComeBack
<1>11. ASSUME NEW s \in Slugs,
              \/ K!AddProject(s) \/ K!AskGoogle(s) \/ K!DisconnectGoogle(s) \/ K!OpenSettings(s) \/ K!Patch(s)
              \/ \E on \in SUBSET K!Platforms : K!SaveSettings(s, on)
       PROVE PlaceInv'
  <2>1. DOMAIN chan' = DOMAIN chan /\ req' = req /\ rushed' = rushed
    BY <1>11 DEF K!AddProject, K!AskGoogle, K!DisconnectGoogle, K!OpenSettings, K!Patch, K!SaveSettings
  <2> QED  BY <2>1 DEF Creating
<1>12. ASSUME NEW f \in flows, K!GoogleReturns(f) PROVE PlaceInv'
  BY <1>12 DEF K!GoogleReturns, Creating
<1>13. CASE UNCHANGED K!vars  BY <1>13 DEF K!vars, Creating
<1>14. ASSUME NEW r \in Requests, K!DoStepWithToken(r) PROVE PlaceInv'
  <2>1. DOMAIN chan' = DOMAIN chan /\ rushed' = rushed  BY <1>14 DEF K!DoStepWithToken
  <2> QED  BY <1>14, <2>1, Ended DEF K!DoStepWithToken
<1> QED
  BY <1>1, <1>2, <1>3, <1>4, <1>5, <1>6, <1>7, <1>8, <1>9, <1>10, <1>11, <1>12, <1>13, <1>14 DEF K!ChannelsNext

\* The plan's number of channels is kept for any slugs, limit and number of
\* requests, as long as no two creations are in progress at once: deletions,
\* wizard and settings do not give a place that was not there
\* (check_can_create_channel, then the insertion).
THEOREM ChannelsKeepTheLimit ==
  ASSUME K!ChannelsAssumption
  PROVE  K!ChannelsSpec => []K!LimitKept
<1>1. K!ChannelsInit => PlaceInv
  <2>1. ASSUME K!ChannelsInit PROVE DOMAIN chan = {} /\ Creating = {}
    BY <2>1 DEF K!ChannelsInit, K!Empty, Creating
  <2> QED  BY <2>1, FS_EmptySet DEF PlaceInv, K!ChannelsAssumption
<1>2. PlaceInv /\ [K!ChannelsNext]_(K!vars) => PlaceInv'  BY PlaceStep
<1>3. PlaceInv => K!LimitKept  BY ChannelCardinality DEF PlaceInv, K!LimitKept
<1> QED  BY <1>1, <1>2, <1>3, PTL DEF K!ChannelsSpec

------------------------------------------------------------------------------
(* The rows of the channels, and their settings.                               *)

\* The settings of a channel, and its row, for accounts that were authorised and n
\* profiles made.
GoodConfig(c, accounts, n) ==
  \A p \in K!Providers : c.accounts[p].account \subseteq accounts /\ c.accounts[p].profile <= n

GoodRow(w, accounts, n) ==
  GoodConfig(w.config, accounts, n) /\ (w.composio = {} \/ \E a \in accounts : w.composio = {a})

Connecting == {r \in DOMAIN req : req[r].kind = "connect"}

\* A connection makes one profile at most.
ProfilesCount == profiles + Cardinality(Connecting) <= ops

ChannelMore ==
  /\ DOMAIN req \subseteq Requests /\ rushed \in BOOLEAN /\ ops <= MaxOps /\ ProfilesCount
  /\ \A f \in flows \cup granted : f.profile <= profiles
  /\ \A a \in granted : a.by \in K!Providers
  /\ \A s \in DOMAIN chan : GoodRow(chan[s], granted, profiles)
  /\ \A s \in DOMAIN page : GoodConfig(page[s], granted, profiles)
  /\ \A r \in DOMAIN req : GoodRow(req[r].row, granted, profiles)

\* What was authorised stays so.
LEMMA GoodStays ==
  ASSUME NEW w, NEW accounts, NEW n \in Nat, NEW more, NEW m \in Nat, accounts \subseteq more, n <= m
  PROVE  /\ w \in Configs /\ GoodConfig(w, accounts, n) => GoodConfig(w, more, m)
         /\ w \in ChannelRows /\ GoodRow(w, accounts, n) => GoodRow(w, more, m)
<1>1. ASSUME NEW c \in Configs, GoodConfig(c, accounts, n) PROVE GoodConfig(c, more, m)
  <2>1. \A p \in K!Providers : c.accounts[p].profile \in Nat  BY ConfigFields
  <2> QED  BY <1>1, <2>1 DEF GoodConfig
<1>2. w \in ChannelRows => w.config \in Configs  BY DEF ChannelRows
<1> QED  BY <1>1, <1>2 DEF GoodRow

\* Beginnings and ends of requests.
LEMMA ConnectingIs ==
  ASSUME NEW r
  PROVE  /\ K!End(r) => Connecting' = Connecting \ {r} /\ DOMAIN req' = DOMAIN req \ {r}
         /\ \A s, kind, arg : K!Start(r, s, kind, arg) =>
              /\ DOMAIN req' = DOMAIN req \cup {r} /\ req'[r].row = chan[s]
              /\ \A q \in DOMAIN req : req'[q] = req[q]
              /\ Connecting' = (IF kind = "connect" THEN Connecting \cup {r} ELSE Connecting)
<1>1. ASSUME K!End(r) PROVE Connecting' = Connecting \ {r} /\ DOMAIN req' = DOMAIN req \ {r}
  <2>1. DOMAIN req' = DOMAIN req \ {r} /\ \A q \in DOMAIN req' : req'[q] = req[q]
    BY <1>1 DEF K!End, K!Restrict
  <2> QED  BY <2>1 DEF Connecting
<1>2. ASSUME NEW s, NEW kind, NEW arg, K!Start(r, s, kind, arg)
      PROVE  /\ DOMAIN req' = DOMAIN req \cup {r} /\ req'[r].row = chan[s]
             /\ \A q \in DOMAIN req : req'[q] = req[q]
             /\ Connecting' = (IF kind = "connect" THEN Connecting \cup {r} ELSE Connecting)
  <2>1. /\ DOMAIN req' = DOMAIN req \cup {r} /\ \A q \in DOMAIN req : req'[q] = req[q]
        /\ req'[r] = [kind |-> kind, slug |-> s, row |-> chan[s], arg |-> arg]
    BY <1>2 DEF K!Start, K!With
  <2>2. r \notin DOMAIN req /\ req'[r].row = chan[s] /\ req'[r].kind = kind  BY <1>2, <2>1 DEF K!Start
  <2> QED  BY <2>1, <2>2 DEF Connecting
<1> QED  BY <1>1, <1>2

\* The profiles, while requests begin and end.
LEMMA CountStays ==
  ASSUME K!ChannelsAssumption, ChannelInv, ChannelMore, ops' \in Nat,
         \/ Connecting' \subseteq Connecting /\ profiles' = profiles /\ ops' \in {ops, ops + 1}
         \/ \E r : Connecting' \subseteq Connecting \cup {r} /\ profiles' = profiles /\ ops' = ops + 1
         \/ \E r \in Connecting : Connecting' = Connecting \ {r} /\ profiles' \in {profiles, profiles + 1}
                                  /\ ops' = ops
  PROVE  ProfilesCount'
<1>1. IsFiniteSet(Connecting) /\ Cardinality(Connecting) \in Nat /\ profiles \in Nat /\ ops \in Nat
  <2>1. Connecting \subseteq Requests /\ IsFiniteSet(Requests)
    <3>1. K!IsFiniteSet(Requests) => IsFiniteSet(Requests)  BY DEF K!IsFiniteSet, IsFiniteSet
    <3> QED  BY <3>1 DEF Connecting, ChannelMore, K!ChannelsAssumption
  <2> QED  BY <2>1, FS_Subset, FS_CardinalityType DEF ChannelInv, ChannelTypes
<1>2. profiles + Cardinality(Connecting) <= ops  BY DEF ChannelMore, ProfilesCount
<1>3. CASE Connecting' \subseteq Connecting /\ profiles' = profiles /\ ops' \in {ops, ops + 1}
  <2>1. Cardinality(Connecting') <= Cardinality(Connecting) /\ Cardinality(Connecting') \in Nat
    BY <1>1, <1>3, FS_Subset, FS_CardinalityType
  <2> QED  BY <1>1, <1>2, <1>3, <2>1 DEF ProfilesCount
<1>4. ASSUME NEW r, Connecting' \subseteq Connecting \cup {r}, profiles' = profiles, ops' = ops + 1
      PROVE  ProfilesCount'
  <2>1. /\ IsFiniteSet(Connecting \cup {r})
        /\ Cardinality(Connecting \cup {r}) \in {Cardinality(Connecting), Cardinality(Connecting) + 1}
    <3>1. /\ IsFiniteSet(Connecting \cup {r})
          /\ Cardinality(Connecting \cup {r})
               = IF r \in Connecting THEN Cardinality(Connecting) ELSE Cardinality(Connecting) + 1
      BY <1>1, FS_AddElement
    <3> QED  BY <3>1
  <2>2. /\ Cardinality(Connecting') <= Cardinality(Connecting \cup {r}) /\ Cardinality(Connecting') \in Nat
        /\ Cardinality(Connecting \cup {r}) \in Nat
    BY <1>4, <2>1, FS_Subset, FS_CardinalityType
  <2> QED  BY <1>1, <1>2, <1>4, <2>1, <2>2 DEF ProfilesCount
<1>5. ASSUME NEW r \in Connecting, Connecting' = Connecting \ {r}, profiles' \in {profiles, profiles + 1},
             ops' = ops
      PROVE  ProfilesCount'
  <2>1. Cardinality(Connecting \ {r}) = Cardinality(Connecting) - 1  BY <1>1, FS_RemoveElement
  <2> QED  BY <1>1, <1>2, <1>5, <2>1 DEF ProfilesCount
<1> QED  BY <1>3, <1>4, <1>5

\* What a commit writes is good if the row made is.
LEMMA CommitIsGood ==
  ASSUME NEW r \in DOMAIN req, NEW new, NEW accounts, NEW n, {"config", "composio"} \subseteq DOMAIN new,
         GoodRow(new, accounts, n), \A s \in DOMAIN chan : GoodRow(chan[s], accounts, n), K!Commit(r, new)
  PROVE  DOMAIN chan' = DOMAIN chan /\ \A s \in DOMAIN chan' : GoodRow(chan'[s], accounts, n)
<1> DEFINE s == req[r].slug
           cols == K!Columns(s, req[r].row, new)
<1>1. CASE ~K!Exists(s, req[r].row.id)  BY <1>1 DEF K!Commit
<1>2. CASE K!Exists(s, req[r].row.id)
  <2>1. s \in DOMAIN chan /\ chan' = [chan EXCEPT ![s] = cols]  BY <1>2 DEF K!Exists, K!Commit
  <2>2. /\ cols.config \in {chan[s].config, new.config} /\ cols.composio \in {chan[s].composio, new.composio}
    BY DEF K!Columns
  <2>3. GoodRow(cols, accounts, n)
    <3> HIDE DEF cols
    <3> QED  BY <2>1, <2>2 DEF GoodRow
  <2> HIDE DEF cols
  <2> QED  BY <2>1, <2>3
<1> QED  BY <1>1, <1>2

\* What there was stays good, what is new has to be.
LEMMA MoreMoves ==
  ASSUME ChannelInv, ChannelInv', ChannelMore,
         DOMAIN req' \subseteq Requests, rushed' \in BOOLEAN, ops' <= MaxOps, ProfilesCount',
         granted \subseteq granted', profiles <= profiles',
         \A a \in granted' : a \in granted \/ (a \in flows /\ a.by \in K!Providers),
         \A f \in flows' : f \in flows \/ f.profile <= profiles',
         \A s \in DOMAIN chan' : \/ s \in DOMAIN chan /\ chan'[s] = chan[s]
                                 \/ GoodRow(chan'[s], granted', profiles'),
         \A s \in DOMAIN page' : \/ s \in DOMAIN page /\ page'[s] = page[s]
                                 \/ GoodConfig(page'[s], granted', profiles'),
         \A r \in DOMAIN req' : \/ r \in DOMAIN req /\ req'[r] = req[r]
                                \/ GoodRow(req'[r].row, granted', profiles')
  PROVE  ChannelMore'
<1>0. /\ profiles \in Nat /\ profiles' \in Nat /\ \A f \in flows \cup granted : f.profile \in Nat
      /\ \A s \in DOMAIN chan : chan[s] \in ChannelRows
      /\ \A s \in DOMAIN page : page[s] \in Configs
      /\ \A r \in DOMAIN req : req[r].row \in ChannelRows
  BY DEF ChannelInv, ChannelTypes, WellFormed, Accounts
<1>1. \A f \in flows' \cup granted' : f.profile <= profiles'
  <2>1. \A f \in flows \cup granted : f.profile <= profiles'  BY <1>0 DEF ChannelMore
  <2> QED  BY <2>1
<1>2. \A a \in granted' : a.by \in K!Providers  BY DEF ChannelMore
<1>3. \A s \in DOMAIN chan' : GoodRow(chan'[s], granted', profiles')  BY <1>0, GoodStays DEF ChannelMore
<1>4. \A s \in DOMAIN page' : GoodConfig(page'[s], granted', profiles')  BY <1>0, GoodStays DEF ChannelMore
<1>5. \A r \in DOMAIN req' : GoodRow(req'[r].row, granted', profiles')  BY <1>0, GoodStays DEF ChannelMore
<1> QED  BY <1>1, <1>2, <1>3, <1>4, <1>5 DEF ChannelMore

\* A request begins.
LEMMA AskMore ==
  ASSUME K!ChannelsAssumption, ChannelInv, ChannelInv', ChannelMore, NEW r \in Requests, NEW s \in Slugs,
         \/ \E guided \in BOOLEAN : K!AskCreate(r, s, guided)
         \/ K!AskDelete(r, s) \/ K!AskStep(r, s) \/ K!AskConnect(r, s)
         \/ \E p \in K!Providers : K!AskProvider(r, s, p)
  PROVE  ChannelMore'
<1>0. /\ ops < MaxOps /\ ops' = ops + 1 /\ UNCHANGED <<chan, page, flows, granted, profiles>>
      /\ ops \in Nat /\ MaxOps \in Nat /\ profiles \in Nat
  BY DEF K!AskCreate, K!AskDelete, K!AskStep, K!AskConnect, K!AskProvider, K!Op, ChannelInv, ChannelTypes,
         K!ChannelsAssumption
<1>1. rushed' \in BOOLEAN
  <2>1. rushed' = (rushed \/ \E q \in DOMAIN req : req[q].kind = "create") \/ rushed' = rushed
    BY DEF K!AskCreate, K!AskDelete, K!AskStep, K!AskConnect, K!AskProvider
  <2> QED  BY <2>1 DEF ChannelMore
<1>2. /\ DOMAIN req' = DOMAIN req \cup {r} /\ \A q \in DOMAIN req : req'[q] = req[q]
      /\ GoodRow(req'[r].row, granted, profiles)
      /\ Connecting' \subseteq Connecting \cup {r}
  <2>1. ASSUME NEW guided \in BOOLEAN, K!AskCreate(r, s, guided)
        PROVE  /\ DOMAIN req' = DOMAIN req \cup {r} /\ \A q \in DOMAIN req : req'[q] = req[q]
               /\ GoodRow(req'[r].row, granted, profiles)
               /\ Connecting' \subseteq Connecting \cup {r}
    <3>1. PICK new : /\ new.config = K!Fresh /\ new.composio = {}
                     /\ req' = K!With(req, r, [kind |-> "create", slug |-> s, row |-> new, arg |-> "none"])
      BY <2>1 DEF K!AskCreate
    <3>2. /\ r \notin DOMAIN req /\ DOMAIN req' = DOMAIN req \cup {r} /\ \A q \in DOMAIN req : req'[q] = req[q]
          /\ req'[r].row = new
      BY <2>1, <3>1 DEF K!With, K!AskCreate
    <3>3. GoodRow(new, granted, profiles)
      BY <1>0, <3>1 DEF GoodRow, GoodConfig, K!Fresh, K!Unlinked
    <3> QED  BY <3>2, <3>3 DEF Connecting
  <2>2. ASSUME NEW kind, NEW arg, s \in DOMAIN chan, K!Start(r, s, kind, arg)
        PROVE  /\ DOMAIN req' = DOMAIN req \cup {r} /\ \A q \in DOMAIN req : req'[q] = req[q]
               /\ GoodRow(req'[r].row, granted, profiles)
               /\ Connecting' \subseteq Connecting \cup {r}
    <3>1. /\ DOMAIN req' = DOMAIN req \cup {r} /\ req'[r].row = chan[s]
          /\ \A q \in DOMAIN req : req'[q] = req[q]
          /\ Connecting' = (IF kind = "connect" THEN Connecting \cup {r} ELSE Connecting)
      BY <2>2, ConnectingIs
    <3>2. GoodRow(chan[s], granted, profiles)  BY <2>2 DEF ChannelMore
    <3> QED  BY <3>1, <3>2
  <2> QED  BY <2>1, <2>2 DEF K!AskDelete, K!AskStep, K!AskConnect, K!AskProvider
<1>3. ProfilesCount'  BY <1>0, <1>2, CountStays
<1>4. ops' <= MaxOps  BY <1>0
<1> QED  BY <1>0, <1>1, <1>2, <1>3, <1>4, MoreMoves DEF ChannelMore

\* A request ends without a commit, or creates its channel.
LEMMA EndMore ==
  ASSUME K!ChannelsAssumption, ChannelInv, ChannelInv', ChannelMore, NEW r \in Requests,
         K!Create(r) \/ K!Delete(r) \/ K!Fail(r)
  PROVE  ChannelMore'
<1>0. /\ r \in DOMAIN req /\ K!End(r) /\ UNCHANGED <<flows, granted, profiles, ops, rushed>>
      /\ ops \in Nat /\ profiles \in Nat
  BY DEF K!Create, K!Delete, K!Fail, ChannelInv, ChannelTypes
<1>1. /\ Connecting' = Connecting \ {r} /\ DOMAIN req' = DOMAIN req \ {r}
      /\ \A q \in DOMAIN req' : q \in DOMAIN req /\ req'[q] = req[q]
  BY <1>0, ConnectingIs, RequestEnds
<1>2. ProfilesCount'  BY <1>0, <1>1, CountStays
<1>3. \A s \in DOMAIN chan' : \/ s \in DOMAIN chan /\ chan'[s] = chan[s]
                              \/ GoodRow(chan'[s], granted, profiles)
  <2>1. ASSUME chan' = K!With(chan, req[r].slug, req[r].row)
        PROVE  \A s \in DOMAIN chan' : \/ s \in DOMAIN chan /\ chan'[s] = chan[s]
                                       \/ GoodRow(chan'[s], granted, profiles)
    <3>1. GoodRow(req[r].row, granted, profiles)  BY <1>0 DEF ChannelMore
    <3>2. \A s \in DOMAIN chan' : (s \in DOMAIN chan /\ chan'[s] = chan[s]) \/ chan'[s] = req[r].row
      BY <2>1 DEF K!With
    <3> QED  BY <3>1, <3>2
  <2>2. ASSUME NEW some, chan' = K!Restrict(chan, DOMAIN chan \ some)
        PROVE  \A s \in DOMAIN chan' : s \in DOMAIN chan /\ chan'[s] = chan[s]
    BY <2>2 DEF K!Restrict
  <2>3. chan' = chan \/ chan' = K!With(chan, req[r].slug, req[r].row)
        \/ chan' = K!Restrict(chan, DOMAIN chan \ {req[r].slug})
    BY DEF K!Create, K!Delete, K!Fail
  <2> QED  BY <2>1, <2>2, <2>3
<1>4. \A s \in DOMAIN page' : s \in DOMAIN page /\ page'[s] = page[s]
  <2>1. page' = page \/ page' = K!Restrict(page, DOMAIN page \ {req[r].slug})
    BY DEF K!Create, K!Delete, K!Fail
  <2> QED  BY <2>1 DEF K!Restrict
<1> QED  BY <1>0, <1>1, <1>2, <1>3, <1>4, MoreMoves DEF ChannelMore

\* A request commits.
LEMMA CommitMore ==
  ASSUME K!ChannelsAssumption, ChannelInv, ChannelInv', ChannelMore, NEW r \in Requests,
         K!DoStep(r) \/ K!DoStepWithToken(r) \/ K!SetProvider(r) \/ K!Connect(r) \/ K!Finish(r)
  PROVE  ChannelMore'
<1> DEFINE old == req[r].row
<1>0. /\ r \in DOMAIN req /\ K!End(r) /\ UNCHANGED <<page, granted, ops, rushed>>
      /\ ops \in Nat /\ profiles \in Nat /\ old \in ChannelRows /\ GoodRow(old, granted, profiles)
      /\ old.config \in Configs
  BY DEF K!DoStep, K!DoStepWithToken, K!SetProvider, K!Connect, K!Finish, ChannelInv, ChannelTypes, WellFormed, ChannelRows, ChannelMore
<1>1. /\ Connecting' = Connecting \ {r} /\ DOMAIN req' = DOMAIN req \ {r}
      /\ \A q \in DOMAIN req' : q \in DOMAIN req /\ req'[q] = req[q]
  BY <1>0, ConnectingIs, RequestEnds
<1>2. DOMAIN old = {"id", "step", "active", "youtube", "google", "instagram", "tiktok", "composio", "used", "config"}
      /\ DOMAIN old.config = {"enabled", "provider", "accounts"}
      /\ DOMAIN old.config.accounts = K!Providers
  BY <1>0 DEF ChannelRows, Configs
<1>3. ASSUME NEW new, {"config", "composio"} \subseteq DOMAIN new, GoodRow(new, granted, profiles), K!Commit(r, new)
      PROVE  \A s \in DOMAIN chan' : GoodRow(chan'[s], granted, profiles)
  BY <1>0, <1>3, CommitIsGood DEF ChannelMore
<1>4. ASSUME UNCHANGED <<flows, profiles>>,
             \A s \in DOMAIN chan' : \/ s \in DOMAIN chan /\ chan'[s] = chan[s]
                                     \/ GoodRow(chan'[s], granted, profiles)
      PROVE  ChannelMore'
  <2>1. ProfilesCount'  BY <1>0, <1>1, <1>4, CountStays
  <2> QED  BY <1>0, <1>1, <1>4, <2>1, MoreMoves DEF ChannelMore
<1>5. CASE K!DoStep(r)
  <2>1. PICK new : /\ K!Commit(r, new)
                   /\ new \in {K!Continued(old, req[r].arg), K!Skipped(old, req[r].arg), K!Completed(old)}
    BY <1>5 DEF K!DoStep
  <2>2. DOMAIN new = DOMAIN old /\ new.composio = old.composio
        /\ new.config.accounts = old.config.accounts
    <3>1. CASE new = K!Continued(old, req[r].arg)
      BY <1>2, <3>1 DEF K!Continued
    <3>2. CASE new = K!Completed(old)
      BY <1>2, <3>2 DEF K!Completed
    <3>3. CASE new = K!Skipped(old, req[r].arg)
      <4> DEFINE left == (IF old.config.enabled = {} THEN K!Platforms ELSE old.config.enabled) \ {req[r].arg}
                 config == [old.config EXCEPT !.enabled = left]
                 on == old.tiktok /\ req[r].arg # "tiktok"
                 after == K!After[req[r].arg]
      <4>1. new = [old EXCEPT !.step = after, !.tiktok = on, !.config = config]
        BY <1>2, <3>3 DEF K!Skipped
      <4>2. config.accounts = old.config.accounts  BY <1>2
      <4> HIDE DEF config, on, after
      <4> QED  BY <1>2, <4>1, <4>2
    <3> QED  BY <2>1, <3>1, <3>2, <3>3
  <2>3. GoodRow(new, granted, profiles)  BY <1>0, <2>2 DEF GoodRow, GoodConfig
  <2>4. UNCHANGED <<flows, profiles>>  BY <1>5 DEF K!DoStep
  <2>5. \A s \in DOMAIN chan' : GoodRow(chan'[s], granted, profiles)
    BY <1>2, <1>3, <2>1, <2>2, <2>3
  <2> QED  BY <1>4, <2>4, <2>5
<1>6. CASE K!SetProvider(r)
  <2> DEFINE new == [old EXCEPT !.config.provider = req[r].arg]
  <2>1. K!Commit(r, new) /\ UNCHANGED <<flows, profiles>>  BY <1>6 DEF K!SetProvider
  <2>2. DOMAIN new = DOMAIN old /\ new.composio = old.composio /\ new.config.accounts = old.config.accounts
    BY <1>2
  <2> HIDE DEF new
  <2>3. GoodRow(new, granted, profiles)  BY <1>0, <2>2 DEF GoodRow, GoodConfig
  <2>5. \A s \in DOMAIN chan' : GoodRow(chan'[s], granted, profiles)
    BY <1>2, <1>3, <2>1, <2>2, <2>3
  <2> QED  BY <1>4, <2>1, <2>5
<1>7. CASE K!Connect(r)
  <2> DEFINE known == old.config.accounts.zernio.profile
             n == IF known = 0 THEN profiles + 1 ELSE known
             p == old.config.provider
             flow(m) == flows \cup {[by |-> p, slug |-> req[r].slug, id |-> old.id, profile |-> m]}
  <2>1. r \in Connecting  BY <1>0, <1>7 DEF K!Connect, Connecting
  <2>2. CASE p # "zernio"
    <3>1. flows' = flow(0) /\ UNCHANGED <<chan, profiles>>  BY <1>7, <2>2 DEF K!Connect
    <3>2. ProfilesCount'  BY <1>0, <1>1, <2>1, <3>1, CountStays
    <3>3. \A f \in flows' : f \in flows \/ f.profile <= profiles'  BY <1>0, <3>1
    <3> HIDE DEF old
    <3> QED  BY <1>0, <1>1, <3>1, <3>2, <3>3, MoreMoves DEF ChannelMore
  <2>3. CASE p = "zernio"
    <3> DEFINE new == [old EXCEPT !.config.accounts.zernio.profile = n]
    <3>1. /\ profiles' = (IF known = 0 THEN n ELSE profiles) /\ K!Commit(r, new)
          /\ flows' \in {flow(n), flows}
      BY <1>7, <2>3 DEF K!Connect
    <3>2. known \in Nat /\ known <= profiles
      <4>1. "zernio" \in K!Providers  BY DEF K!Providers
      <4> QED  BY <1>0, <4>1, ConfigFields DEF GoodRow, GoodConfig
    <3>3. n <= profiles' /\ profiles <= profiles' /\ profiles' \in {profiles, profiles + 1} /\ profiles' \in Nat
      BY <1>0, <3>1, <3>2
    <3>4. GoodRow(old, granted, profiles')  BY <1>0, <3>3, GoodStays
    <3>5. /\ DOMAIN new = DOMAIN old /\ new.composio = old.composio
          /\ \A q \in K!Providers : /\ new.config.accounts[q].account = old.config.accounts[q].account
                                   /\ new.config.accounts[q].profile \in {old.config.accounts[q].profile, n}
      <4> DEFINE unit == [old.config.accounts["zernio"] EXCEPT !.profile = n]
                 units == [old.config.accounts EXCEPT !["zernio"] = unit]
                 config == [old.config EXCEPT !.accounts = units]
      <4> HIDE DEF n
      <4>1. new = [old EXCEPT !.config = config]  BY <1>2
      <4>2. "zernio" \in K!Providers /\ old.config.accounts["zernio"] \in [account : SUBSET Accounts, profile : Nat]
        BY <1>0 DEF Configs, K!Providers
      <4>3. unit.account = old.config.accounts["zernio"].account /\ unit.profile = n  BY <4>2
      <4> HIDE DEF unit
      <4>4. \A q \in K!Providers : units[q] = IF q = "zernio" THEN unit ELSE old.config.accounts[q]
        BY <1>2, <4>2
      <4> HIDE DEF units
      <4>5. config.accounts = units  BY <1>2
      <4> HIDE DEF config
      <4>6. DOMAIN new = DOMAIN old /\ new.composio = old.composio /\ new.config = config
        BY <1>2, <4>1
      <4> QED  BY <4>3, <4>4, <4>5, <4>6
    <3> HIDE DEF new
    <3>6. GoodRow(new, granted, profiles')
      <4> HIDE DEF n, known
      <4> QED  BY <3>3, <3>4, <3>5 DEF GoodRow, GoodConfig
    <3>7. \A s \in DOMAIN chan : GoodRow(chan[s], granted, profiles')
      BY <1>0, <3>3, GoodStays DEF ChannelMore, ChannelInv, ChannelTypes
    <3>8. \A s \in DOMAIN chan' : GoodRow(chan'[s], granted', profiles')
      BY <1>0, <1>2, <3>1, <3>5, <3>6, <3>7, CommitIsGood
    <3>9. ProfilesCount'  BY <1>0, <1>1, <2>1, <3>3, CountStays
    <3>10. \A f \in flows' : f \in flows \/ f.profile <= profiles'  BY <3>1, <3>3
    <3> HIDE DEF old
    <3> QED  BY <1>0, <1>1, <3>3, <3>8, <3>9, <3>10, MoreMoves DEF ChannelMore
  <2> QED  BY <2>2, <2>3
<1>8. CASE K!Finish(r)
  <2> DEFINE f == req[r].arg
  <2>1. f.by \in K!Providers /\ K!StoredUnder(f, old) = f.by
    BY <1>0, <1>8, RequestFacts DEF K!Finish, Finishes, K!StoredUnder
  <2>2. PICK a \in granted :
           LET linked == [old EXCEPT !.composio = IF f.by = "composio" THEN {a} ELSE @,
                                     !.config = K!WithAccount(@, f.by, a)]
           IN  \/ K!Commit(r, linked)
               \/ chan' = IF K!Exists(req[r].slug, old.id) THEN [chan EXCEPT ![req[r].slug].composio = {a}] ELSE chan
    BY <1>8, <2>1 DEF K!Finish, K!Found
  <2>3. UNCHANGED <<flows, profiles>>  BY <1>8 DEF K!Finish
  <2> DEFINE config == K!WithAccount(old.config, f.by, a)
             linked == [old EXCEPT !.composio = IF f.by = "composio" THEN {a} ELSE @, !.config = config]
  <2>4. CASE K!Commit(r, linked)
    <3>1. GoodConfig(config, granted, profiles)
      <4> DEFINE unit == [old.config.accounts[f.by] EXCEPT !.account = {a}]
                 units == [old.config.accounts EXCEPT ![f.by] = unit]
      <4>1. config = [old.config EXCEPT !.accounts = units]  BY <1>2 DEF K!WithAccount
      <4>2. old.config.accounts[f.by] \in [account : SUBSET Accounts, profile : Nat]
        BY <1>0, <2>1 DEF Configs
      <4>3. unit.account = {a} /\ unit.profile = old.config.accounts[f.by].profile  BY <4>2
      <4> HIDE DEF unit
      <4>4. \A q \in K!Providers : units[q] = IF q = f.by THEN unit ELSE old.config.accounts[q]
        BY <1>2, <2>1
      <4> HIDE DEF units, config
      <4>5. config.accounts = units  BY <1>2, <4>1
      <4> QED  BY <1>0, <2>1, <4>3, <4>4, <4>5 DEF GoodConfig, GoodRow
    <3> HIDE DEF config
    <3>2. DOMAIN linked = DOMAIN old /\ linked.config = config /\ linked.composio \in {old.composio, {a}}
      BY <1>2
    <3> HIDE DEF linked
    <3>3. GoodRow(linked, granted, profiles)  BY <1>0, <3>1, <3>2 DEF GoodRow
    <3> QED  BY <1>2, <1>3, <1>4, <2>3, <2>4, <3>2, <3>3
  <2>5. CASE chan' = IF K!Exists(req[r].slug, old.id) THEN [chan EXCEPT ![req[r].slug].composio = {a}] ELSE chan
    <3>1. ASSUME NEW s \in DOMAIN chan', NEW x \in ChannelRows, GoodRow(x, granted, profiles),
                 chan'[s] = [x EXCEPT !.composio = {a}]
          PROVE  GoodRow(chan'[s], granted, profiles)
      <4>1. chan'[s].composio = {a} /\ chan'[s].config = x.config  BY <3>1 DEF ChannelRows
      <4> QED  BY <3>1, <4>1 DEF GoodRow
    <3>2. DOMAIN chan' = DOMAIN chan /\ \A s \in DOMAIN chan :
             chan'[s] = chan[s] \/ chan'[s] = [chan[s] EXCEPT !.composio = {a}]
      BY <2>5
    <3>3. \A s \in DOMAIN chan : chan[s] \in ChannelRows /\ GoodRow(chan[s], granted, profiles)
      BY DEF ChannelInv, ChannelTypes, ChannelMore
    <3> QED  BY <1>4, <2>3, <3>1, <3>2, <3>3
  <2> QED  BY <2>2, <2>4, <2>5
<1>9. CASE K!DoStepWithToken(r)
  <2> DEFINE s == req[r].slug
             cols == K!Columns(s, old, K!Continued(old, "youtube"))
  <2>1. UNCHANGED <<flows, profiles>>  BY <1>9 DEF K!DoStepWithToken
  <2>2. CASE ~K!Exists(s, old.id)  BY <1>4, <1>9, <2>1, <2>2 DEF K!DoStepWithToken
  <2>3. CASE K!Exists(s, old.id)
    <3>1. /\ s \in DOMAIN chan /\ chan[s] \in ChannelRows /\ GoodRow(chan[s], granted, profiles)
          /\ chan' = [chan EXCEPT ![s] = [cols EXCEPT !.google = TRUE]]
      BY <1>9, <2>3 DEF K!DoStepWithToken, K!Exists, ChannelInv, ChannelTypes, ChannelMore
    <3>2. K!Continued(old, "youtube").config = old.config /\ K!Continued(old, "youtube").composio = old.composio
      BY <1>2 DEF K!Continued
    <3> DEFINE new == K!Continued(old, "youtube")
    <3>3. {"config", "composio"} \subseteq DOMAIN new  BY <1>2 DEF K!Continued
    <3> HIDE DEF new
    <3>4. cols.config \in {chan[s].config, old.config} /\ cols.composio \in {chan[s].composio, old.composio}
      BY <3>2, <3>3 DEF K!Columns, new
    <3> DEFINE more == [cols EXCEPT !.google = TRUE]
    <3>5. "config" \in DOMAIN cols /\ "composio" \in DOMAIN cols  BY <3>3 DEF K!Columns, new
    <3> HIDE DEF cols
    <3>6. more.config = cols.config /\ more.composio = cols.composio  BY <3>5
    <3> HIDE DEF more
    <3>7. DOMAIN chan' = DOMAIN chan /\ chan'[s] = more /\ \A t \in DOMAIN chan : t # s => chan'[t] = chan[t]
      BY <3>1 DEF more
    <3>8. GoodRow(chan'[s], granted, profiles)  BY <1>0, <3>1, <3>4, <3>6, <3>7 DEF GoodRow
    <3> QED  BY <1>4, <2>1, <3>1, <3>7, <3>8
  <2> QED  BY <2>2, <2>3
<1> QED  BY <1>5, <1>6, <1>7, <1>8, <1>9

\* The flags of a row, the pages and the settings.
LEMMA PageMore ==
  ASSUME K!ChannelsAssumption, ChannelInv, ChannelInv', ChannelMore, NEW s \in Slugs,
         \/ K!AddProject(s) \/ K!Patch(s) \/ K!DisconnectGoogle(s) \/ K!AskGoogle(s) \/ K!OpenSettings(s)
         \/ \E on \in SUBSET K!Platforms : K!SaveSettings(s, on)
  PROVE  ChannelMore'
<1>0. /\ UNCHANGED <<req, granted, profiles, rushed>> /\ ops' \in {ops, ops + 1} /\ ops' <= MaxOps /\ ops' \in Nat
      /\ s \in DOMAIN chan /\ chan[s] \in ChannelRows /\ GoodRow(chan[s], granted, profiles) /\ profiles \in Nat
  <2>1. /\ UNCHANGED <<req, granted, profiles, rushed>> /\ s \in DOMAIN chan
        /\ (ops < MaxOps /\ ops' = ops + 1) \/ ops' = ops
    BY DEF K!AddProject, K!Patch, K!DisconnectGoogle, K!AskGoogle, K!OpenSettings, K!SaveSettings, K!Op
  <2>2. ops \in Nat /\ MaxOps \in Nat /\ ops <= MaxOps /\ profiles \in Nat
    BY DEF ChannelInv, ChannelTypes, ChannelMore, K!ChannelsAssumption
  <2> QED  BY <2>1, <2>2 DEF ChannelInv, ChannelTypes, ChannelMore
<1>1. ProfilesCount'
  <2>1. Connecting' = Connecting  BY <1>0 DEF Connecting
  <2> QED  BY <1>0, <2>1, CountStays
<1>2. ASSUME \A f \in flows' : f \in flows \/ f.profile <= profiles,
             \A t \in DOMAIN chan' : \/ t \in DOMAIN chan /\ chan'[t] = chan[t]
                                     \/ GoodRow(chan'[t], granted, profiles),
             \A t \in DOMAIN page' : \/ t \in DOMAIN page /\ page'[t] = page[t]
                                     \/ GoodConfig(page'[t], granted, profiles)
      PROVE  ChannelMore'
  BY <1>0, <1>1, <1>2, MoreMoves DEF ChannelMore
<1>3. ASSUME NEW w, chan' = [chan EXCEPT ![s] = w], w.config = chan[s].config, w.composio = chan[s].composio
      PROVE  \A t \in DOMAIN chan' : \/ t \in DOMAIN chan /\ chan'[t] = chan[t]
                                     \/ GoodRow(chan'[t], granted, profiles)
  <2>1. GoodRow(w, granted, profiles)  BY <1>0, <1>3 DEF GoodRow
  <2> QED  BY <1>3, <2>1
<1>4. ASSUME K!AddProject(s) \/ K!Patch(s) \/ K!DisconnectGoogle(s) PROVE ChannelMore'
  <2>1. PICK w : /\ w.config = chan[s].config /\ w.composio = chan[s].composio
                   /\ chan' = [chan EXCEPT ![s] = w]
    <3>1. CASE K!AddProject(s)
      <4> DEFINE w == [chan[s] EXCEPT !.used = TRUE]
      <4>1. w.config = chan[s].config /\ w.composio = chan[s].composio  BY <1>0 DEF ChannelRows
      <4>2. chan' = [chan EXCEPT ![s] = w]  BY <3>1 DEF K!AddProject
      <4> QED  BY <4>1, <4>2
    <3>2. CASE K!Patch(s)
      <4>1. PICK b \in BOOLEAN : \/ chan' = [chan EXCEPT ![s].tiktok = b]
                                 \/ chan' = [chan EXCEPT ![s].active = b]
        BY <3>2 DEF K!Patch
      <4> DEFINE x == [chan[s] EXCEPT !.tiktok = b]
                 y == [chan[s] EXCEPT !.active = b]
      <4>2. /\ x.config = chan[s].config /\ x.composio = chan[s].composio
            /\ y.config = chan[s].config /\ y.composio = chan[s].composio
        BY <1>0 DEF ChannelRows
      <4>3. chan' = [chan EXCEPT ![s] = x] \/ chan' = [chan EXCEPT ![s] = y]  BY <4>1
      <4> QED  BY <4>2, <4>3
    <3>3. CASE K!DisconnectGoogle(s)
      <4> DEFINE w == [chan[s] EXCEPT !.google = FALSE]
      <4>1. w.config = chan[s].config /\ w.composio = chan[s].composio  BY <1>0 DEF ChannelRows
      <4>2. chan' = [chan EXCEPT ![s] = w]  BY <3>3 DEF K!DisconnectGoogle
      <4> QED  BY <4>1, <4>2
    <3> QED  BY <1>4, <3>1, <3>2, <3>3
  <2>2. UNCHANGED <<page, flows>>  BY <1>4 DEF K!AddProject, K!Patch, K!DisconnectGoogle
  <2> QED  BY <1>2, <1>3, <2>1, <2>2
<1>5. ASSUME K!AskGoogle(s) PROVE ChannelMore'
  <2> DEFINE f == [by |-> "google", slug |-> s, id |-> chan[s].id, profile |-> 0]
  <2>1. UNCHANGED <<chan, page>> /\ flows' = flows \cup {f} /\ f.profile <= profiles
    BY <1>0, <1>5 DEF K!AskGoogle
  <2> HIDE DEF f
  <2> QED  BY <1>2, <2>1
<1>6. ASSUME K!OpenSettings(s) PROVE ChannelMore'
  <2>1. UNCHANGED <<chan, flows>> /\ page' = K!With(page, s, chan[s].config)  BY <1>6 DEF K!OpenSettings
  <2>2. \A t \in DOMAIN page' : \/ t \in DOMAIN page /\ page'[t] = page[t]
                                \/ page'[t] = chan[s].config
    BY <2>1 DEF K!With
  <2>3. GoodConfig(chan[s].config, granted, profiles)  BY <1>0 DEF GoodRow
  <2> QED  BY <1>2, <2>1, <2>2, <2>3
<1>7. ASSUME NEW on \in SUBSET K!Platforms, K!SaveSettings(s, on) PROVE ChannelMore'
  <2> DEFINE new == K!Saved(page[s], on)
             w == [chan[s] EXCEPT !.config = new]
  <2>1. /\ s \in DOMAIN page /\ UNCHANGED flows
        /\ chan' = [chan EXCEPT ![s] = w] /\ page' = [page EXCEPT ![s] = new]
    BY <1>7 DEF K!SaveSettings
  <2>2. page[s] \in Configs /\ GoodConfig(page[s], granted, profiles)
    BY <2>1 DEF ChannelInv, ChannelTypes, ChannelMore
  <2>3. new.accounts = page[s].accounts  BY <2>2 DEF K!Saved, Configs
  <2>4. GoodConfig(new, granted, profiles)
    <3> HIDE DEF new
    <3> QED  BY <2>2, <2>3 DEF GoodConfig
  <2> HIDE DEF new
  <2>5. w.config = new /\ w.composio = chan[s].composio  BY <1>0 DEF ChannelRows
  <2> HIDE DEF w
  <2>6. GoodRow(w, granted, profiles)  BY <1>0, <2>4, <2>5 DEF GoodRow
  <2>7. /\ \A t \in DOMAIN chan' : (t \in DOMAIN chan /\ chan'[t] = chan[t]) \/ chan'[t] = w
        /\ \A t \in DOMAIN page' : (t \in DOMAIN page /\ page'[t] = page[t]) \/ page'[t] = new
    BY <2>1
  <2> QED  BY <1>2, <2>1, <2>4, <2>6, <2>7
<1> QED  BY <1>4, <1>5, <1>6, <1>7

\* The owner comes back from a page of Google or of a provider.
LEMMA BackMore ==
  ASSUME K!ChannelsAssumption, ChannelInv, ChannelInv', ChannelMore, NEW f \in flows,
         K!GoogleReturns(f) \/ \E r \in Requests : K!ComeBack(r, f)
  PROVE  ChannelMore'
<1>0. /\ UNCHANGED <<page, profiles, ops, rushed>> /\ flows' \subseteq flows
      /\ ops \in Nat /\ profiles \in Nat /\ f \in Accounts
  BY DEF K!GoogleReturns, K!ComeBack, ChannelInv, ChannelTypes
<1>1. ASSUME K!GoogleReturns(f) PROVE ChannelMore'
  <2> DEFINE s == f.slug
             back == [chan[s] EXCEPT !.google = TRUE, !.step = "youtube"]
  <2>1. /\ UNCHANGED <<req, granted>>
        /\ chan' = chan \/ (s \in DOMAIN chan /\ chan' = [chan EXCEPT ![s] = back])
    BY <1>1 DEF K!GoogleReturns, K!Exists
  <2>2. ASSUME s \in DOMAIN chan PROVE GoodRow(back, granted, profiles)
    <3>1. chan[s] \in ChannelRows /\ GoodRow(chan[s], granted, profiles)
      BY <2>2 DEF ChannelInv, ChannelTypes, ChannelMore
    <3>2. back.config = chan[s].config /\ back.composio = chan[s].composio  BY <3>1 DEF ChannelRows
    <3> HIDE DEF back
    <3> QED  BY <3>1, <3>2 DEF GoodRow
  <2> HIDE DEF back
  <2>3. \A t \in DOMAIN chan' : \/ t \in DOMAIN chan /\ chan'[t] = chan[t]
                                \/ GoodRow(chan'[t], granted, profiles)
    BY <2>1, <2>2
  <2>4. Connecting' = Connecting  BY <2>1 DEF Connecting
  <2>5. ProfilesCount'  BY <1>0, <2>4, CountStays
  <2> QED  BY <1>0, <2>1, <2>3, <2>5, MoreMoves DEF ChannelMore
<1>2. ASSUME NEW r \in Requests, K!ComeBack(r, f) PROVE ChannelMore'
  <2>1. /\ UNCHANGED chan /\ f.by # "google" /\ granted' \in {granted, granted \cup {f}}
        /\ req' = req \/ (f.slug \in DOMAIN chan /\ K!Start(r, f.slug, "finish", f))
    BY <1>2 DEF K!ComeBack, K!Exists
  <2>2. f.by \in K!Providers  BY <1>0, <2>1 DEF Accounts
  <2>3. /\ Connecting' = Connecting /\ DOMAIN req' \subseteq DOMAIN req \cup {r}
        /\ \A q \in DOMAIN req' : \/ q \in DOMAIN req /\ req'[q] = req[q]
                                  \/ f.slug \in DOMAIN chan /\ req'[q].row = chan[f.slug]
    <3>1. CASE req' = req  BY <3>1 DEF Connecting
    <3>2. CASE f.slug \in DOMAIN chan /\ K!Start(r, f.slug, "finish", f)
      <4>1. /\ DOMAIN req' = DOMAIN req \cup {r} /\ req'[r].row = chan[f.slug]
            /\ \A q \in DOMAIN req : req'[q] = req[q]
            /\ Connecting' = (IF "finish" = "connect" THEN Connecting \cup {r} ELSE Connecting)
        BY <3>2, ConnectingIs
      <4> QED  BY <3>2, <4>1
    <3> QED  BY <2>1, <3>1, <3>2
  <2>4. \A q \in DOMAIN req' : \/ q \in DOMAIN req /\ req'[q] = req[q]
                               \/ GoodRow(req'[q].row, granted', profiles')
    <3>1. ASSUME f.slug \in DOMAIN chan PROVE GoodRow(chan[f.slug], granted', profiles')
      BY <1>0, <2>1, <3>1, GoodStays DEF ChannelInv, ChannelTypes, ChannelMore
    <3> QED  BY <2>3, <3>1
  <2>5. ProfilesCount'  BY <1>0, <2>3, CountStays
  <2> QED  BY <1>0, <2>1, <2>2, <2>3, <2>4, <2>5, MoreMoves DEF ChannelMore
<1> QED  BY <1>1, <1>2

LEMMA ChannelMoreStep ==
  ASSUME K!ChannelsAssumption, ChannelInv, ChannelMore, K!ChannelsNext \/ UNCHANGED K!vars
  PROVE  ChannelMore'
<1>0. ChannelInv'  BY ChannelStep
<1>1. CASE UNCHANGED K!vars
  <2>1. UNCHANGED <<chan, page, req, flows, granted, profiles, ops, rushed>>  BY <1>1 DEF K!vars
  <2> QED  BY <2>1 DEF ChannelMore, ProfilesCount, Connecting
<1>2. CASE K!ChannelsNext
  BY <1>0, <1>2, AskMore, EndMore, CommitMore, PageMore, BackMore DEF K!ChannelsNext
<1> QED  BY <1>1, <1>2

LEMMA ChannelMoreStart ==
  ASSUME K!ChannelsAssumption, K!ChannelsInit PROVE ChannelInv /\ ChannelMore
<1>1. /\ DOMAIN chan = {} /\ DOMAIN page = {} /\ DOMAIN req = {} /\ DOMAIN wish = {}
      /\ flows = {} /\ granted = {} /\ profiles = 0 /\ ops = 0 /\ overwritten = FALSE /\ rushed = FALSE
      /\ MaxOps \in Nat
  BY DEF K!ChannelsInit, K!Empty, K!ChannelsAssumption
<1>2. Named = {} /\ Profiled = {}  BY <1>1 DEF Named, Profiled
<1>3. ChannelInv
  BY <1>1, <1>2 DEF ChannelInv, ChannelTypes, ChannelIds, ChannelProfiles, OfOneSlug, RequestsKnow,
                    FlowsHaveProfiles, AllHonoured
<1>4. ProfilesCount
  <2>1. Connecting = {}  BY <1>1 DEF Connecting
  <2>2. Cardinality(Connecting) = 0  BY <2>1, FS_EmptySet
  <2> QED  BY <1>1, <2>2 DEF ProfilesCount
<1>5. rushed \in BOOLEAN /\ ops <= MaxOps /\ DOMAIN req \subseteq Requests
  <2>1. rushed \in BOOLEAN  BY DEF K!ChannelsInit
  <2>2. ops <= MaxOps /\ DOMAIN req \subseteq Requests  BY <1>1
  <2> QED  BY <2>1, <2>2
<1>6. flows \cup granted = {} /\ granted = {}  BY <1>1
<1>7. \A x : x \notin DOMAIN chan /\ x \notin DOMAIN page /\ x \notin DOMAIN req  BY <1>1
<1> QED  BY <1>3, <1>4, <1>5, <1>6, <1>7 DEF ChannelMore

LEMMA ChannelTypesHold ==
  ASSUME K!ChannelsAssumption, ChannelInv, ChannelMore PROVE K!TypeOK
<1>0. /\ DOMAIN chan \subseteq Slugs /\ DOMAIN wish = DOMAIN chan /\ DOMAIN page \subseteq Slugs
      /\ profiles \in Nat /\ ops \in Nat /\ overwritten \in BOOLEAN /\ rushed \in BOOLEAN /\ MaxOps \in Nat
      /\ DOMAIN req \subseteq Requests /\ ops <= MaxOps /\ granted \subseteq Accounts
  BY DEF ChannelInv, ChannelTypes, ChannelMore, K!ChannelsAssumption
<1>1. profiles <= ops
  <2>1. Connecting \subseteq Requests /\ IsFiniteSet(Requests)
    <3>1. K!IsFiniteSet(Requests) => IsFiniteSet(Requests)  BY DEF K!IsFiniteSet, IsFiniteSet
    <3> QED  BY <1>0, <3>1 DEF Connecting, K!ChannelsAssumption
  <2>2. Cardinality(Connecting) \in Nat  BY <2>1, FS_Subset, FS_CardinalityType
  <2> QED  BY <1>0, <2>2 DEF ChannelMore, ProfilesCount
<1>2. ASSUME NEW x \in Named PROVE x[1] \in 1 .. MaxOps
  <2>1. x[1] \in 1 .. ops  BY <1>2 DEF ChannelInv, ChannelIds, OfOneSlug
  <2> QED  BY <1>0, <2>1
<1>3. granted \subseteq K!Account
  <2> SUFFICES ASSUME NEW a \in granted PROVE a \in K!Account  OBVIOUS
  <2>1. a \in Accounts /\ a.by \in K!Providers /\ a.profile \in Nat /\ a.profile <= profiles
    BY <1>0 DEF Accounts, ChannelMore
  <2>2. <<a.id, a.slug>> \in Named  BY DEF Named
  <2>3. a.id \in 1 .. MaxOps
    <3> HIDE DEF Named
    <3>1. <<a.id, a.slug>>[1] \in 1 .. MaxOps  BY <1>2, <2>2
    <3> QED  BY <3>1
  <2>4. a.profile \in 0 .. MaxOps  BY <1>0, <1>1, <2>1
  <2> QED  BY <2>1, <2>3, <2>4 DEF Accounts, K!Account
<1>4. ASSUME NEW s \in DOMAIN chan
      PROVE  /\ chan[s].id \in 1 .. MaxOps /\ chan[s].step \in K!Steps
             /\ {chan[s].active, chan[s].youtube, chan[s].google, chan[s].instagram, chan[s].tiktok,
                 chan[s].used} \subseteq BOOLEAN
             /\ K!Cardinality(chan[s].composio) <= 1 /\ chan[s].composio \subseteq K!Account
             /\ chan[s].config.enabled \subseteq K!Platforms /\ chan[s].config.provider \in K!Providers
             /\ \A p \in K!Providers : /\ chan[s].config.accounts[p].account \subseteq K!Account
                                       /\ chan[s].config.accounts[p].profile \in 0 .. profiles
  <2>1. chan[s] \in ChannelRows /\ GoodRow(chan[s], granted, profiles)
    BY DEF ChannelInv, ChannelTypes, ChannelMore
  <2>2. chan[s].id \in 1 .. MaxOps
    <3>1. <<chan[s].id, s>> \in Named  BY DEF Named
    <3>2. <<chan[s].id, s>>[1] \in 1 .. MaxOps
      <4> HIDE DEF Named
      <4> QED  BY <1>2, <3>1
    <3> QED  BY <3>2
  <2>3. /\ chan[s].step \in K!Steps /\ chan[s].config \in Configs
        /\ {chan[s].active, chan[s].youtube, chan[s].google, chan[s].instagram, chan[s].tiktok,
            chan[s].used} \subseteq BOOLEAN
    BY <2>1 DEF ChannelRows
  <2>4. K!Cardinality(chan[s].composio) <= 1 /\ chan[s].composio \subseteq K!Account
    <3>1. K!Cardinality(chan[s].composio) = Cardinality(chan[s].composio)  BY ChannelCardinality
    <3>2. CASE chan[s].composio = {}
      <4>1. Cardinality({}) = 0  BY FS_EmptySet
      <4> QED  BY <3>1, <3>2, <4>1
    <3>3. ASSUME NEW a \in granted, chan[s].composio = {a}
          PROVE  K!Cardinality(chan[s].composio) <= 1 /\ chan[s].composio \subseteq K!Account
      <4>1. Cardinality({a}) = 1  BY FS_Singleton
      <4> QED  BY <1>3, <3>1, <3>3, <4>1
    <3> QED  BY <2>1, <3>2, <3>3 DEF GoodRow
  <2>5. \A p \in K!Providers : /\ chan[s].config.accounts[p].account \subseteq K!Account
                               /\ chan[s].config.accounts[p].profile \in 0 .. profiles
    BY <1>0, <1>3, <2>1, <2>3, ConfigFields DEF GoodRow, GoodConfig
  <2>6. chan[s].config.enabled \subseteq K!Platforms /\ chan[s].config.provider \in K!Providers
    BY <2>3, ConfigFields
  <2> QED  BY <2>2, <2>3, <2>4, <2>5, <2>6
<1>5. profiles \in 0 .. MaxOps /\ ops \in 0 .. MaxOps  BY <1>0, <1>1
<1> HIDE DEF K!Account, K!Steps
<1> QED  BY <1>0, <1>3, <1>4, <1>5 DEF K!TypeOK

------------------------------------------------------------------------------
(* The services.                                                               *)

LEMMA CommentMoreStart ==
  ASSUME CommentAssumption, Init PROVE Inv /\ CommentMore
<1>1. Inv  BY InvInit
<1>2. \A c \in Comments : row[c].attempts = 0  BY DEF Init, Row
<1>3. human = {} /\ lock = NoPass /\ events = 0 /\ MaxAttempts \in Nat  BY DEF Init, CommentAssumption
<1>4. limited \in BOOLEAN /\ capable \in BOOLEAN /\ lapsed \in BOOLEAN  BY Zenon DEF Init
<1>5. RowsCounted /\ PassesCounted
  <2>1. MaxAttempts \in Nat /\ MaxAttempts >= 1 /\ MaxPosts \in Nat /\ MaxPosts >= 1  BY DEF CommentAssumption
  <2>2. \A p \in Passes : pass[p].posts = 0 /\ \A c \in Comments : pass[p].tries[c] = 0
    BY DEF Init, Idle, NoTries
  <2> QED  BY <1>2, <2>1, <2>2 DEF RowsCounted, PassesCounted
<1> QED  BY <1>1, <1>3, <1>4, <1>5 DEF CommentMore

\* The invariant of the component that is checked.
TypesInv ==
  /\ focus \in {"distribution", "comments", "planning", "settings", "models", "plans", "channels"}
  /\ focus = "distribution" => AgentInv /\ AgentMore
  /\ focus = "comments" => Inv /\ CommentMore
  /\ focus = "planning" => PlannerInv
  /\ focus = "settings" => SettingsInv /\ SettingsMore
  /\ focus = "models" => LlmInv /\ LlmMore
  /\ focus = "plans" => SubscriptionTypeOK
  /\ focus = "channels" => ChannelInv /\ ChannelMore

ServicesHypotheses ==
  /\ FiniteAgent /\ CommentAssumption /\ P!PlannerAssumption /\ S!SettingsAssumption
  /\ L!LlmAssumption /\ SubscriptionAssumption /\ K!ChannelsAssumption

LEMMA TypesStart ==
  ASSUME ServicesHypotheses, ServicesInit PROVE TypesInv
<1>1. AgentInv /\ AgentMore  BY AgentInvInit, AgentMoreStart DEF ServicesHypotheses, ServicesInit
<1>2. Inv /\ CommentMore  BY CommentMoreStart DEF ServicesHypotheses, ServicesInit
<1>3. PlannerInv  BY PlannerStart DEF ServicesHypotheses, ServicesInit
<1>4. SettingsInv /\ SettingsMore  BY SettingsStart, SettingsMoreStart DEF ServicesHypotheses, ServicesInit
<1>5. LlmInv /\ LlmMore  BY LlmMoreStart DEF ServicesHypotheses, ServicesInit
<1>6. SubscriptionTypeOK
  BY DEF ServicesHypotheses, ServicesInit, SubscriptionInit, SubscriptionTypeOK, SubscriptionAssumption, Bare,
         Settings, Numbers
<1>7. ChannelInv /\ ChannelMore  BY ChannelMoreStart DEF ServicesHypotheses, ServicesInit
<1> QED  BY <1>1, <1>2, <1>3, <1>4, <1>5, <1>6, <1>7 DEF TypesInv, ServicesInit

\* A step is one of the component that is checked.
LEMMA FocusSteps ==
  ASSUME [ServicesNext]_all
  PROVE  /\ UNCHANGED focus
         /\ focus = "comments" => Next \/ UNCHANGED vars
         /\ focus = "planning" => P!Next \/ UNCHANGED P!vars
         /\ focus = "settings" => S!Next \/ UNCHANGED S!vars
         /\ focus = "models" => L!Next \/ UNCHANGED L!vars
         /\ focus = "plans" => SubscriptionNext \/ UNCHANGED planVars
         /\ focus = "channels" => K!ChannelsNext \/ UNCHANGED K!vars
<1>1. CASE ServicesNext  BY <1>1 DEF ServicesNext
<1>2. CASE UNCHANGED all
  BY <1>2 DEF all, planning, settings, models, channels, P!vars, S!vars, L!vars, K!vars
<1> QED  BY <1>1, <1>2

LEMMA TypesStep ==
  ASSUME ServicesHypotheses, TypesInv, [ServicesNext]_all PROVE TypesInv'
<1> USE DEF ServicesHypotheses
<1>0. focus' = focus  BY FocusSteps
<1>1. CASE focus = "distribution"
  <2>1. AgentInv' /\ AgentMore'  BY <1>1, AgentSteps, AgentInvStep, AgentMoreStep DEF TypesInv
  <2> QED  BY <1>0, <1>1, <2>1 DEF TypesInv
<1>2. CASE focus = "comments"
  <2>1. Inv' /\ CommentMore'  BY <1>2, FocusSteps, CommentTypes DEF TypesInv
  <2> QED  BY <1>0, <1>2, <2>1 DEF TypesInv
<1>3. CASE focus = "planning"
  <2>1. PlannerInv'
    <3>1. P!Next \/ UNCHANGED P!vars  BY <1>3, FocusSteps
    <3>2. [P!Next]_planning  BY <3>1 DEF P!vars, planning
    <3> QED  BY <1>3, <3>2, PlannerStep DEF TypesInv
  <2> QED  BY <1>0, <1>3, <2>1 DEF TypesInv
<1>4. CASE focus = "settings"
  <2>1. SettingsInv' /\ SettingsMore'  BY <1>4, FocusSteps, SettingsStep, SettingsMoreStep DEF TypesInv
  <2> QED  BY <1>0, <1>4, <2>1 DEF TypesInv
<1>5. CASE focus = "models"
  <2>1. LlmInv' /\ LlmMore'  BY <1>5, FocusSteps, LlmStep, LlmMoreStep DEF TypesInv
  <2> QED  BY <1>0, <1>5, <2>1 DEF TypesInv
<1>6. CASE focus = "plans"
  <2>1. SubscriptionTypeOK'  BY <1>6, FocusSteps, SubscriptionTypes DEF TypesInv
  <2> QED  BY <1>0, <1>6, <2>1 DEF TypesInv
<1>7. CASE focus = "channels"
  <2>1. ChannelInv' /\ ChannelMore'  BY <1>7, FocusSteps, ChannelStep, ChannelMoreStep DEF TypesInv
  <2> QED  BY <1>0, <1>7, <2>1 DEF TypesInv
<1> QED  BY <1>1, <1>2, <1>3, <1>4, <1>5, <1>6, <1>7 DEF TypesInv

\* Every service keeps to its states, positions and bounds, for any number of
\* videos, comments, projects, jobs, agents, models, channels, passes and requests:
\* among others a publication has MaxTries copies at most, a comment MAX_LLM_ATTEMPTS
\* failures, an LLM call its retries and continuations, a channel one Composio account
\* and accounts that were authorised, whatever order the requests come in.
THEOREM ServicesKeepTypes ==
  ASSUME ServicesHypotheses PROVE ServicesSpec => []TypeOK
<1>1. ServicesInit => TypesInv  BY TypesStart
<1>2. TypesInv /\ [ServicesNext]_all => TypesInv'  BY TypesStep
<1>3. TypesInv => TypeOK
  <2> SUFFICES ASSUME TypesInv PROVE TypeOK  OBVIOUS
  <2>1. CASE focus = "distribution"  BY <2>1, AgentTypesHold DEF TypesInv, TypeOK, ServicesHypotheses
  <2>2. CASE focus = "comments"  BY <2>2, CommentTypesHold DEF TypesInv, TypeOK, ServicesHypotheses
  <2>3. CASE focus = "planning"  BY <2>3 DEF TypesInv, TypeOK, PlannerInv, PlannerTypes
  <2>4. CASE focus = "settings"  BY <2>4, SettingsTypesHold DEF TypesInv, TypeOK
  <2>5. CASE focus = "models"  BY <2>5, LlmTypesHold DEF TypesInv, TypeOK, ServicesHypotheses
  <2>6. CASE focus = "plans"  BY <2>6 DEF TypesInv, TypeOK
  <2>7. CASE focus = "channels"  BY <2>7, ChannelTypesHold DEF TypesInv, TypeOK, ServicesHypotheses
  <2> QED  BY <2>1, <2>2, <2>3, <2>4, <2>5, <2>6, <2>7 DEF TypesInv
<1> QED  BY <1>1, <1>2, <1>3, PTL DEF ServicesSpec
===============================================================================

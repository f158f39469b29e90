---------------------------- MODULE Services_proofs ----------------------------
(***************************************************************************)
(* The services that share nothing but the tables: the briefs of the       *)
(* creations, the settings of the scheduler, the calls to the models, the  *)
(* channels and their connections, the plans of the videos.  Each is       *)
(* proved for every value of its constants, in the behaviours of           *)
(* MCServices where it is the one looked at.                               *)
(***************************************************************************)
EXTENDS MCServices, FiniteSetTheorems, TLAPS

------------------------------------------------------------------------------
(* The brief of a creation keeps to the owner's plan.                          *)

\* Types of the parts of a brief, for the bounds below.
LEMMA NumbersAreIntegers ==
  ASSUME SubscriptionAssumption
  PROVE  Numbers \subseteq Int /\ Asked \subseteq Int /\ NoNumber \in Int
<1>1. Asked \subseteq Int
  <2>1. Asked \subseteq Nat  BY Zenon DEF SubscriptionAssumption
  <2> QED  BY <2>1
<1>3. NoNumber \in Int  BY DEF NoNumber
<1>2. ASSUME NEW l \in Plans PROVE l.iterations \in Int
  <2>1. l.iterations \in Nat \ {0}  BY Zenon DEF SubscriptionAssumption
  <2> QED  BY <2>1
<1>4. ASSUME NEW n \in Numbers PROVE n \in Int
  <2>1. n \in Asked \/ n = NoNumber \/ \E l \in Plans : n = l.iterations  BY DEF Numbers
  <2> QED  BY <1>1, <1>2, <1>3, <2>1
<1> QED  BY <1>1, <1>3, <1>4

\* The own voice of a channel is moved into the plan.
LEMMA VoiceKeeps ==
  ASSUME SubscriptionAssumption, NEW l \in Plans, NEW c \in Settings, c.engine # Unset
  PROVE  EngineKey(Voice(c, l)) \in l.engines
<1>1. PICK e \in {"azure", "gemini", "edge", "elevenlabs", "edge-tts"} :
        Voice(c, l) = Normal(e) /\ EngineKey(e) \in l.engines
  <2>1. EngineKey(CappedEngine(c, l)) \in l.engines /\ CappedEngine(c, l) # Unset
    BY DEF SubscriptionAssumption, CappedEngine, EngineKey, Unset
  <2>2. CappedEngine(c, l) \in {"azure", "gemini", "edge", "elevenlabs", "edge-tts"}
    BY <2>1 DEF SubscriptionAssumption, EngineKey
  <2> QED  BY <2>1, <2>2 DEF Voice
<1> QED  BY <1>1 DEF Normal, EngineKey, Engines

\* A fallback voice that is left is in the plan.
LEMMA SecoursKeeps ==
  ASSUME SubscriptionAssumption, NEW l \in Plans, NEW c \in Settings, Secours(c, l) # Unset
  PROVE  EngineKey(Secours(c, l)) \in l.engines
<1>1. CappedSecours(c, l) \in Engines \cup {"edge"} /\ Secours(c, l) = Normal(CappedSecours(c, l))
  BY DEF Secours
<1>2. EngineKey(CappedSecours(c, l)) \in l.engines
  BY <1>1 DEF CappedSecours, Engines, Unset
<1> QED  BY <1>1, <1>2 DEF Normal, EngineKey, Engines

\* Without an unlimited plan the iterations are capped, whatever the project asks.
LEMMA IterationsKeep ==
  ASSUME SubscriptionAssumption, NEW l \in Plans, NEW c \in Settings, NEW over \in Numbers, ~l.unlimited
  PROVE  Brief(c, over, l).iterations <= l.iterations
<1> DEFINE critic == Iterations(c, over, l)
           wanted == IF critic \in {NoNumber, 0} THEN ChannelCritic(c, l) ELSE critic
<1>1. l.iterations \in Nat \ {0}  BY DEF SubscriptionAssumption
<1>2. ChannelCritic(c, l) \in Nat /\ ChannelCritic(c, l) <= l.iterations
  <2>1. c.critic \in Nat \/ c.critic = NoNumber
    BY DEF SubscriptionAssumption, Settings
  <2>2. CappedCritic(c, l) \in Nat /\ CappedCritic(c, l) <= l.iterations
    BY <1>1, <2>1 DEF CappedCritic, Least
  <2> QED  BY <2>2 DEF ChannelCritic, NoNumber
<1>3. over \in Int  BY NumbersAreIntegers
<1>4. critic \in Int /\ critic <= l.iterations
  BY <1>1, <1>2, <1>3 DEF Iterations, Least
<1>5. wanted \in Int /\ wanted <= l.iterations  BY <1>2, <1>4
<1>6. Clamp(wanted, 1, 6) <= l.iterations  BY <1>1, <1>5 DEF Clamp, Least
<1> QED  BY <1>6 DEF Brief

\* The duration is capped, but for the shortest one a brief may have.
LEMMA DurationKeeps ==
  ASSUME SubscriptionAssumption, NEW l \in Plans, NEW c \in Settings, NEW over \in Numbers
  PROVE  Brief(c, over, l).duration <= l.duration \/ Brief(c, over, l).duration = 15
<1>1. l.duration \in Nat  BY DEF SubscriptionAssumption
<1>2. c.duration \in Nat \/ c.duration = NoNumber
  BY DEF SubscriptionAssumption, Settings
<1>3. Duration(c, l) \in Int /\ Duration(c, l) <= l.duration
  BY <1>1, <1>2 DEF Duration, Least, NoNumber
<1>4. \/ Clamp(Duration(c, l), 15, 180) <= l.duration
      \/ Clamp(Duration(c, l), 15, 180) = 15
  BY <1>1, <1>3 DEF Clamp, Least
<1> QED  BY <1>4 DEF Brief

\* A brief written from the settings of a channel and a project keeps to the plan.
LEMMA BriefKeeps ==
  ASSUME SubscriptionAssumption, NEW l \in Plans, NEW c \in Settings, NEW over \in Numbers
  PROVE  Keeps(Brief(c, over, l), l, c.engine # Unset)
<1> DEFINE b == Brief(c, over, l)
<1>1. c.engine # Unset => EngineKey(b.engine) \in l.engines  BY VoiceKeeps DEF Brief
<1>2. b.secours # Unset => EngineKey(b.secours) \in l.engines  BY SecoursKeeps DEF Brief
<1>3. ~l.unlimited => b.iterations <= l.iterations  BY IterationsKeep
<1>4. b.duration <= l.duration \/ b.duration = 15  BY DurationKeeps
<1>5. (b.ai => l.ai) /\ (b.motion3d => l.motion3d)  BY DEF Brief, AiOn, Motion3d
<1>6. Application.style # "motion3d" /\ b.style = "motion3d" => l.motion3d
  BY DEF Brief, Style
<1> QED  BY <1>1, <1>2, <1>3, <1>4, <1>5, <1>6 DEF Keeps

\* What the owner writes are settings of a channel.
LEMMA SettingsKept ==
  ASSUME channel \in Settings, EditChannel PROVE channel' \in Settings
<1>1. CASE \E e \in Written, s \in Written \cup {Unset} :
             channel' = [channel EXCEPT !.engine = e, !.secours = s]
  BY <1>1 DEF Settings
<1>2. CASE channel' = [channel EXCEPT !.engine = Unset, !.secours = Unset]
  BY <1>2 DEF Settings
<1>3. CASE \E n \in Asked \cup {NoNumber} : \/ channel' = [channel EXCEPT !.critic = n]
                                           \/ channel' = [channel EXCEPT !.quality = n]
                                           \/ channel' = [channel EXCEPT !.duration = n]
  BY <1>3 DEF Settings
<1>4. CASE \E on \in BOOLEAN : channel' = [channel EXCEPT !.ai = on]
  BY <1>4 DEF Settings
<1>5. CASE \E s \in Styles : channel' = [channel EXCEPT !.style = s]
  BY <1>5 DEF Settings
<1> QED  BY <1>1, <1>2, <1>3, <1>4, <1>5, Zenon DEF EditChannel

\* Each step keeps the numbers and the settings the next brief is made of.
LEMMA SubscriptionTypes ==
  ASSUME SubscriptionAssumption, SubscriptionTypeOK, [SubscriptionNext]_planVars
  PROVE  SubscriptionTypeOK'
<1>0. MaxEdits \in Nat  BY Zenon DEF SubscriptionAssumption
<1> USE DEF SubscriptionTypeOK
<1>1. ASSUME NEW l \in Plans, ChangePlan(l) PROVE SubscriptionTypeOK'
  BY <1>0, <1>1 DEF ChangePlan, Edit
<1>2. CASE EditChannel
  <2>2. channel' \in Settings  BY <1>2, SettingsKept
  <2>3. edits' \in 0 .. MaxEdits
    <3>1. edits < MaxEdits /\ edits' = edits + 1  BY <1>2, Zenon DEF EditChannel, Edit
    <3> QED  BY <1>0, <3>1
  <2>4. UNCHANGED <<plan, override, patch, launch>>  BY <1>2, Zenon DEF EditChannel
  <2> QED  BY <2>2, <2>3, <2>4
<1>3. ASSUME NEW n \in Asked \cup {NoNumber}, AskOverride(n) PROVE SubscriptionTypeOK'
  <2>1. patch' = None \/ patch'.number \in Numbers
    BY <1>3 DEF AskOverride, Numbers, Least, SubscriptionAssumption
  <2> QED  BY <1>0, <1>3, <2>1 DEF AskOverride, Edit
<1>4. CASE WriteOverride  BY <1>4 DEF WriteOverride
<1>5. CASE LoadChannel  BY <1>5 DEF LoadChannel
<1>6. CASE WriteBrief  BY <1>6 DEF WriteBrief
<1>7. CASE UNCHANGED planVars  BY <1>7 DEF planVars
<1> QED  BY <1>1, <1>2, <1>3, <1>4, <1>5, <1>6, <1>7 DEF SubscriptionNext

\* Whatever the plans, the defaults of the application and the order of the
\* changes, a creation's brief keeps to the plan read for it.
THEOREM BriefInPlan ==
  ASSUME SubscriptionAssumption
  PROVE  SubscriptionSpec => []BriefKeepsToPlan
<1> DEFINE Inv == SubscriptionTypeOK /\ BriefKeepsToPlan
<1>1. SubscriptionInit => Inv
  BY DEF SubscriptionInit, SubscriptionTypeOK, SubscriptionAssumption, BriefKeepsToPlan, Bare, Settings, Numbers
<1>2. Inv /\ [SubscriptionNext]_planVars => Inv'
  <2> SUFFICES ASSUME Inv, [SubscriptionNext]_planVars PROVE Inv'  OBVIOUS
  <2>1. SubscriptionTypeOK'  BY SubscriptionTypes
  <2>2. CASE WriteBrief
    <3>1. launch.channel \in Settings /\ launch.override \in Numbers /\ plan \in Plans
      BY <2>2 DEF WriteBrief, SubscriptionTypeOK
    <3>2. Keeps(brief', plan, launch.channel.engine # Unset)
      BY <2>2, <3>1, BriefKeeps DEF WriteBrief
    <3>3. basis'.plan = plan /\ basis'.own = (launch.channel.engine # Unset)
      BY <2>2 DEF WriteBrief
    <3> QED  BY <2>1, <3>2, <3>3 DEF BriefKeepsToPlan
  <2>3. CASE UNCHANGED <<brief, basis>>
    BY <2>1, <2>3 DEF BriefKeepsToPlan, Keeps
  <2> QED
    BY <2>2, <2>3 DEF SubscriptionNext, planVars, ChangePlan, EditChannel, AskOverride, WriteOverride, LoadChannel
<1> QED  BY <1>1, <1>2, PTL DEF SubscriptionSpec

------------------------------------------------------------------------------
(* The settings of the scheduler.                                              *)

\* The requests of the settings, in full.
Asks ==
  [at : {"idle", "switch", "on", "off", "setup", "load", "save", "apply"}, op : {"none", "start", "stop", "put"},
   job : Jobs, fields : SUBSET {"enabled", "cron"}, new : S!Plannings, read : [Jobs -> S!Plannings]]

\* What a request does follows from what was asked.
AsAsked(a) ==
  /\ a.at = "switch" => a.op \in {"start", "stop"}
  /\ a.at \in {"on", "setup"} => a.op = "start"
  /\ a.at = "off" => a.op = "stop"
  /\ a.at \in {"load", "save", "apply"} => a.op = "put"

SettingsTypes ==
  /\ allowed \in BOOLEAN /\ switch \in BOOLEAN /\ running \in BOOLEAN /\ raced \in BOOLEAN
  /\ stored \in [Jobs -> S!Plannings] /\ DOMAIN planned = Jobs
  /\ request \in [Requests -> Asks] /\ \A c \in Requests : AsAsked(request[c])

\* A start overlaps with nothing, an update with no other of its job.
MayOverlap(a, b) ==
  a.at # "idle" /\ b.at # "idle" =>
    a.op # "start" /\ b.op # "start" /\ (a.op = "put" /\ b.op = "put" => a.job # b.job)

Apart == \A c, d \in Requests : c # d => MayOverlap(request[c], request[d])

\* What a start applies is in the database when it does; so is what an update applies.
Current(c) ==
  /\ request[c].at \in {"on", "setup"} => allowed /\ switch
  /\ request[c].at = "setup" => request[c].read = stored
  /\ request[c].at = "apply" => stored[request[c].job] = S!Updated(c)

\* The scheduler runs by right, or a stop is about to shut it down.
RunsByRight == running => allowed /\ (switch \/ \E c \in Requests : request[c].at = "off")

\* Each job is planned as stored, or an update is about to plan it.
PlannedAsStored ==
  \A j \in Jobs :
    IF running
    THEN (\A c \in Requests : request[c].at = "apply" => request[c].job # j) => planned[j] = S!Trigger(stored[j])
    ELSE planned[j] = S!Off

SettingsOrder == Apart /\ (\A c \in Requests : Current(c)) /\ RunsByRight /\ PlannedAsStored

SettingsInv == SettingsTypes /\ (~raced => SettingsOrder)

\* A request at rest is one of the requests.
LEMMA QuietAsks ==
  ASSUME S!SettingsAssumption
  PROVE  S!Quiet \in Asks /\ AsAsked(S!Quiet) /\ S!Quiet.at = "idle"
<1>1. S!AnyJob \in Jobs  BY DEF S!SettingsAssumption, S!AnyJob
<1>2. Default \in [Jobs -> S!Plannings]  BY DEF S!SettingsAssumption
<1> QED  BY <1>1, <1>2 DEF S!Quiet, Asks, AsAsked

\* One request moves, the others are where they were.
LEMMA OneMoves ==
  ASSUME SettingsTypes, NEW c \in Requests, NEW a \in Asks, AsAsked(a), request' = [request EXCEPT ![c] = a]
  PROVE  /\ request' \in [Requests -> Asks] /\ \A d \in Requests : AsAsked(request'[d])
         /\ request'[c] = a /\ \A d \in Requests \ {c} : request'[d] = request[d]
BY DEF SettingsTypes

\* A request at its end or at its next label.
LEMMA GotoMoves ==
  ASSUME SettingsTypes, NEW c \in Requests, NEW label \in {"on", "off", "setup", "save", "apply"},
         AsAsked([request[c] EXCEPT !.at = label]), S!Goto(c, label)
  PROVE  /\ request' \in [Requests -> Asks] /\ \A d \in Requests : AsAsked(request'[d])
         /\ request'[c] = [request[c] EXCEPT !.at = label] /\ \A d \in Requests \ {c} : request'[d] = request[d]
<1>1. [request[c] EXCEPT !.at = label] \in Asks  BY DEF SettingsTypes, Asks
<1>2. request' = [request EXCEPT ![c] = [request[c] EXCEPT !.at = label]]  BY DEF S!Goto
<1> QED  BY <1>1, <1>2, OneMoves

LEMMA DoneMoves ==
  ASSUME S!SettingsAssumption, SettingsTypes, NEW c \in Requests, S!Done(c)
  PROVE  /\ request' \in [Requests -> Asks] /\ \A d \in Requests : AsAsked(request'[d])
         /\ request'[c] = S!Quiet /\ \A d \in Requests \ {c} : request'[d] = request[d]
<1>1. request' = [request EXCEPT ![c] = S!Quiet]  BY DEF S!Done
<1> QED  BY <1>1, QuietAsks, OneMoves

\* What the other requests may rely on when one ends or goes on: nothing they look
\* at has changed.
LEMMA OthersStay ==
  ASSUME SettingsTypes, Apart, NEW c \in Requests, \A d \in Requests \ {c} : request'[d] = request[d],
         \/ request'[c].at = "idle"
         \/ request'[c].op = request[c].op /\ request'[c].job = request[c].job /\ request[c].at # "idle"
  PROVE  Apart'
BY DEF Apart, MayOverlap

LEMMA UpdatedStays ==
  ASSUME NEW d, request'[d] = request[d] PROVE S!Updated(d)' = S!Updated(d)
BY DEF S!Updated

\* A request begins.
LEMMA SettingAskKeeps ==
  ASSUME S!SettingsAssumption, SettingsInv, NEW c \in Requests, NEW op \in {"start", "stop", "put"}, NEW j \in Jobs,
         NEW fields \in SUBSET {"enabled", "cron"}, NEW new \in S!Plannings, NEW at,
         at = IF op = "put" THEN "load" ELSE "switch", S!Ask(c, op, j, fields, new, at)
  PROVE  SettingsInv'
<1> DEFINE a == [S!Quiet EXCEPT !.at = at, !.op = op, !.job = j, !.fields = fields, !.new = new]
<1>1. a \in Asks /\ AsAsked(a) /\ a.at = at /\ a.op = op /\ a.job = j  BY QuietAsks DEF Asks, AsAsked
<1>2. request' = [request EXCEPT ![c] = a] /\ request[c].at = "idle"  BY DEF S!Ask, S!At
<1> HIDE DEF a
<1>3. SettingsTypes /\ UNCHANGED <<allowed, switch, stored, planned, running>>  BY DEF SettingsInv, S!Ask
<1>4. /\ request' \in [Requests -> Asks] /\ \A d \in Requests : AsAsked(request'[d])
      /\ request'[c] = a /\ \A d \in Requests \ {c} : request'[d] = request[d]
  BY <1>1, <1>2, <1>3, OneMoves
<1>5. SettingsTypes'
  <2>1. raced' \in BOOLEAN  BY DEF S!Ask
  <2> QED  BY <1>3, <1>4, <2>1 DEF SettingsTypes
<1>6. ASSUME ~raced' PROVE SettingsOrder'
  <2>1. /\ ~raced
        /\ \A d \in S!Busy : /\ "start" \notin {op, request[d].op}
                             /\ ~({op, request[d].op} = {"put"} /\ request[d].job = j)
    BY <1>6 DEF S!Ask
  <2>2. SettingsOrder  BY <2>1 DEF SettingsInv
  <2>3. \A d \in Requests \ {c} : MayOverlap(a, request[d]) /\ MayOverlap(request[d], a)
    BY <1>1, <2>1 DEF MayOverlap, S!Busy, S!At
  <2>4. Apart'  BY <1>4, <2>2, <2>3 DEF SettingsOrder, Apart
  <2>5. \A d \in Requests : Current(d)'
    <3>1. Current(c)'  BY <1>1, <1>4 DEF Current
    <3>2. ASSUME NEW d \in Requests \ {c} PROVE Current(d)'
      BY <1>3, <1>4, <2>2, UpdatedStays DEF Current, SettingsOrder
    <3> QED  BY <3>1, <3>2
  <2>6. RunsByRight'  BY <1>2, <1>3, <1>4, <2>2 DEF RunsByRight, SettingsOrder
  <2>7. PlannedAsStored'  BY <1>1, <1>2, <1>3, <1>4, <2>2 DEF PlannedAsStored, SettingsOrder
  <2> QED  BY <2>4, <2>5, <2>6, <2>7 DEF SettingsOrder
<1> QED  BY <1>5, <1>6 DEF SettingsInv

\* set_enabled saves the switch.
LEMMA SaveSwitchKeeps ==
  ASSUME S!SettingsAssumption, SettingsInv, NEW c \in Requests, S!SaveSwitch(c)
  PROVE  SettingsInv'
<1>1. SettingsTypes /\ request[c].at = "switch" /\ UNCHANGED <<allowed, stored, planned, running, raced>>
  BY DEF SettingsInv, S!SaveSwitch, S!At
<1>2. request[c].op \in {"start", "stop"} /\ request[c] \in Asks  BY <1>1 DEF SettingsTypes, AsAsked
<1>3. switch' = (request[c].op = "start")  BY DEF S!SaveSwitch
<1>4. /\ request' \in [Requests -> Asks] /\ \A d \in Requests : AsAsked(request'[d])
      /\ \A d \in Requests \ {c} : request'[d] = request[d]
      /\ \/ request[c].op = "stop" /\ request'[c] = [request[c] EXCEPT !.at = "off"]
         \/ request[c].op = "start" /\ allowed /\ request'[c] = [request[c] EXCEPT !.at = "on"]
         \/ request[c].op = "start" /\ ~allowed /\ request'[c] = S!Quiet
  <2>1. CASE request[c].op = "stop"
    <3>1. S!Goto(c, "off")  BY <2>1 DEF S!SaveSwitch
    <3>2. AsAsked([request[c] EXCEPT !.at = "off"])  BY <1>2, <2>1 DEF Asks, AsAsked
    <3> QED  BY <1>1, <2>1, <3>1, <3>2, GotoMoves
  <2>2. CASE request[c].op = "start" /\ allowed
    <3>1. S!Goto(c, "on")  BY <2>2 DEF S!SaveSwitch
    <3>2. AsAsked([request[c] EXCEPT !.at = "on"])  BY <1>2, <2>2 DEF Asks, AsAsked
    <3> QED  BY <1>1, <2>2, <3>1, <3>2, GotoMoves
  <2>3. CASE request[c].op = "start" /\ ~allowed
    <3>1. S!Done(c)  BY <2>3 DEF S!SaveSwitch
    <3> QED  BY <1>1, <2>3, <3>1, DoneMoves
  <2> QED  BY <1>1, <1>2, <2>1, <2>2, <2>3 DEF SettingsTypes
<1>5. SettingsTypes'  BY <1>1, <1>3, <1>4 DEF SettingsTypes
<1>6. ASSUME ~raced PROVE SettingsOrder'
  <2>1. SettingsOrder  BY <1>6 DEF SettingsInv
  <2>2. \/ request'[c].at = "idle" /\ request[c].op = "start" /\ ~allowed
        \/ /\ request'[c].op = request[c].op /\ request'[c].job = request[c].job
           /\ \/ request[c].op = "stop" /\ request'[c].at = "off"
              \/ request[c].op = "start" /\ allowed /\ request'[c].at = "on"
    BY <1>2, <1>4, QuietAsks DEF Asks
  <2>3. Apart'  BY <1>1, <1>4, <2>1, <2>2, OthersStay DEF SettingsOrder
  <2>4. ASSUME NEW d \in Requests \ {c}
        PROVE  request[d].at \notin {"on", "setup"} /\ (request[c].op = "start" => request[d].at = "idle")
    <3>1. MayOverlap(request[c], request[d]) /\ AsAsked(request[d])
      BY <2>1, <1>1 DEF SettingsOrder, Apart, SettingsTypes
    <3> QED  BY <1>1, <3>1 DEF MayOverlap, AsAsked
  <2>5. \A d \in Requests : Current(d)'
    <3>1. Current(c)'  BY <1>1, <1>3, <2>2 DEF Current
    <3>2. ASSUME NEW d \in Requests \ {c} PROVE Current(d)'
      BY <1>1, <1>4, <2>1, <2>4, UpdatedStays DEF Current, SettingsOrder
    <3> QED  BY <3>1, <3>2
  <2>6. RunsByRight'
    <3>1. running => allowed  BY <2>1 DEF SettingsOrder, RunsByRight
    <3> QED  BY <1>1, <1>2, <1>3, <2>2, <3>1 DEF RunsByRight
  <2>7. PlannedAsStored'
    <3>1. \A d \in Requests : request'[d].at = "apply" <=> d # c /\ request[d].at = "apply"
      BY <1>1, <1>4, <2>2
    <3>2. \A d \in Requests : request'[d].at = "apply" => request'[d] = request[d]
      BY <1>4, <3>1
    <3> QED  BY <1>1, <1>4, <2>1, <3>1, <3>2 DEF PlannedAsStored, SettingsOrder
  <2> QED  BY <2>3, <2>5, <2>6, <2>7 DEF SettingsOrder
<1> QED  BY <1>1, <1>5, <1>6 DEF SettingsInv

\* The steps that only take a request further: a start that finds the scheduler
\* running, or reads the plannings; an update that reads them.
LEMMA ReadKeeps ==
  ASSUME S!SettingsAssumption, SettingsInv, NEW c \in Requests, S!Start(c) \/ S!Load(c)
  PROVE  SettingsInv'
<1>1. SettingsTypes /\ request[c] \in Asks /\ AsAsked(request[c])
      /\ UNCHANGED <<allowed, switch, stored, planned, running, raced>>
  BY DEF SettingsInv, SettingsTypes, S!Start, S!Load
<1> DEFINE read(label) == [request[c] EXCEPT !.at = label, !.read = stored]
<1>2. ASSUME NEW label \in {"setup", "save"}, AsAsked(read(label)),
             request' = [request EXCEPT ![c].at = label, ![c].read = stored]
      PROVE  /\ request' \in [Requests -> Asks] /\ \A d \in Requests : AsAsked(request'[d])
             /\ request'[c] = read(label) /\ \A d \in Requests \ {c} : request'[d] = request[d]
  <2>1. read(label) \in Asks  BY <1>1 DEF Asks, SettingsTypes
  <2>2. request' = [request EXCEPT ![c] = read(label)]  BY <1>1, <1>2 DEF SettingsTypes
  <2> HIDE DEF read
  <2> QED  BY <1>1, <1>2, <2>1, <2>2, OneMoves
<1>3. /\ request' \in [Requests -> Asks] /\ \A d \in Requests : AsAsked(request'[d])
      /\ \A d \in Requests \ {c} : request'[d] = request[d]
      /\ \/ request[c].at = "on" /\ request'[c] = S!Quiet
         \/ request[c].at = "on" /\ request'[c] = read("setup")
         \/ request[c].at = "load" /\ request'[c] = read("save")
  <2>1. CASE S!Start(c) /\ running
    <3>1. S!Done(c) /\ request[c].at = "on"  BY <2>1 DEF S!Start, S!At
    <3> QED  BY <1>1, <3>1, DoneMoves
  <2>2. CASE S!Start(c) /\ ~running
    <3>1. request' = [request EXCEPT ![c].at = "setup", ![c].read = stored] /\ request[c].at = "on"
      BY <2>2 DEF S!Start, S!At
    <3>2. AsAsked(read("setup"))  BY <1>1, <3>1 DEF Asks, AsAsked
    <3> QED  BY <1>2, <3>1, <3>2
  <2>3. CASE S!Load(c)
    <3>1. request' = [request EXCEPT ![c].at = "save", ![c].read = stored] /\ request[c].at = "load"
      BY <2>3 DEF S!Load, S!At
    <3>2. AsAsked(read("save"))  BY <1>1, <3>1 DEF Asks, AsAsked
    <3> QED  BY <1>2, <3>1, <3>2
  <2> QED  BY <2>1, <2>2, <2>3
<1>4. SettingsTypes'  BY <1>1, <1>3 DEF SettingsTypes
<1>5. ASSUME ~raced PROVE SettingsOrder'
  <2>1. SettingsOrder  BY <1>5 DEF SettingsInv
  <2>2. \/ request'[c].at = "idle" /\ request[c].at = "on"
        \/ /\ request'[c].op = request[c].op /\ request'[c].job = request[c].job
           /\ \/ request[c].at = "on" /\ request'[c].at = "setup" /\ request'[c].read = stored
              \/ request[c].at = "load" /\ request'[c].at = "save"
    BY <1>1, <1>3, QuietAsks DEF Asks
  <2>3. Apart'  BY <1>1, <1>3, <2>1, <2>2, OthersStay DEF SettingsOrder
  <2>4. Current(c) /\ \A d \in Requests \ {c} : Current(d)  BY <2>1 DEF SettingsOrder
  <2>5. \A d \in Requests : Current(d)'
    <3>1. Current(c)'  BY <1>1, <2>2, <2>4 DEF Current
    <3>2. ASSUME NEW d \in Requests \ {c} PROVE Current(d)'
      BY <1>1, <1>3, <2>4, UpdatedStays DEF Current
    <3> QED  BY <3>1, <3>2
  <2>6. RunsByRight'  BY <1>1, <1>3, <2>1, <2>2 DEF RunsByRight, SettingsOrder
  <2>7. PlannedAsStored'
    <3>1. \A d \in Requests : /\ request'[d].at = "apply" <=> request[d].at = "apply"
                              /\ request'[d].at = "apply" => request'[d] = request[d]
      BY <1>3, <2>2
    <3> QED  BY <1>1, <2>1, <3>1 DEF PlannedAsStored, SettingsOrder
  <2> QED  BY <2>3, <2>5, <2>6, <2>7 DEF SettingsOrder
<1> QED  BY <1>1, <1>4, <1>5 DEF SettingsInv

\* The steps that apply: a start plans what it read, a stop removes every job, an
\* update plans its job.
LEMMA ApplyKeeps ==
  ASSUME S!SettingsAssumption, SettingsInv, NEW c \in Requests, S!Setup(c) \/ S!Stop(c) \/ S!Apply(c)
  PROVE  SettingsInv'
<1>1. SettingsTypes /\ AsAsked(request[c]) /\ S!Done(c) /\ UNCHANGED <<allowed, switch, stored, raced>>
  BY DEF SettingsInv, SettingsTypes, S!Setup, S!Stop, S!Apply
<1>2. /\ request' \in [Requests -> Asks] /\ \A d \in Requests : AsAsked(request'[d])
      /\ request'[c] = S!Quiet /\ \A d \in Requests \ {c} : request'[d] = request[d]
      /\ request'[c].at = "idle"
  BY <1>1, DoneMoves, QuietAsks
<1>3. SettingsTypes'
  <2>1. DOMAIN planned' = Jobs /\ running' \in BOOLEAN
    BY <1>1 DEF S!Setup, S!Stop, S!Apply, SettingsTypes
  <2> QED  BY <1>1, <1>2, <2>1 DEF SettingsTypes
<1>4. ASSUME ~raced PROVE SettingsOrder'
  <2>1. SettingsOrder  BY <1>4 DEF SettingsInv
  <2>2. Apart'  BY <1>1, <1>2, <2>1, OthersStay DEF SettingsOrder
  <2>3. Current(c) /\ \A d \in Requests \ {c} : Current(d)  BY <2>1 DEF SettingsOrder
  <2>4. \A d \in Requests : Current(d)'
    <3>1. Current(c)'  BY <1>2 DEF Current
    <3>2. ASSUME NEW d \in Requests \ {c} PROVE Current(d)'
      BY <1>1, <1>2, <2>3, UpdatedStays DEF Current
    <3> QED  BY <3>1, <3>2
  <2>5. RunsByRight' /\ PlannedAsStored'
    <3>1. CASE S!Setup(c)
      <4>1. allowed /\ switch /\ request[c].read = stored /\ request[c].at = "setup" /\ request[c].op = "start"
        BY <1>1, <2>3, <3>1 DEF S!Setup, S!At, Current, AsAsked
      <4>2. planned' = [j \in Jobs |-> S!Trigger(stored[j])] /\ running'
        BY <3>1, <4>1 DEF S!Setup
      <4> QED  BY <1>1, <4>1, <4>2 DEF RunsByRight, PlannedAsStored
    <3>2. CASE S!Stop(c)
      <4>1. ~running' /\ \A j \in Jobs : planned'[j] = S!Off
        BY <2>1, <3>2 DEF S!Stop, SettingsOrder, PlannedAsStored
      <4> QED  BY <4>1 DEF RunsByRight, PlannedAsStored
    <3>3. CASE S!Apply(c)
      <4>1. request[c].at = "apply" /\ request[c].op = "put" /\ running' = running
        BY <1>1, <3>3 DEF S!Apply, S!At, AsAsked
      <4>2. stored[request[c].job] = S!Updated(c)  BY <2>3, <4>1 DEF Current
      <4>3. \A d \in Requests : request'[d].at \in {"off", "apply"} => request'[d] = request[d] /\ d # c
        BY <1>2
      <4>4. RunsByRight'  BY <1>1, <1>2, <2>1, <4>1 DEF RunsByRight, SettingsOrder
      <4>5. ASSUME NEW j \in Jobs
            PROVE  IF running THEN (\A d \in Requests : request'[d].at = "apply" => request'[d].job # j) =>
                                     planned'[j] = S!Trigger(stored[j])
                   ELSE planned'[j] = S!Off
        <5>1. CASE ~running
          BY <2>1, <3>3, <5>1 DEF S!Apply, SettingsOrder, PlannedAsStored
        <5>2. CASE running /\ j = request[c].job
          <6>1. planned' = [planned EXCEPT ![j] = S!Trigger(stored[j])]  BY <3>3, <4>2, <5>2 DEF S!Apply
          <6> QED  BY <1>1, <5>2, <6>1 DEF SettingsTypes
        <5>3. CASE running /\ j # request[c].job
          <6>1. planned'[j] = planned[j]  BY <1>1, <3>3, <5>3 DEF S!Apply, SettingsTypes
          <6>2. (\A d \in Requests : request'[d].at = "apply" => request'[d].job # j) =>
                  \A d \in Requests : request[d].at = "apply" => request[d].job # j
            BY <1>2, <5>3
          <6> QED  BY <2>1, <5>3, <6>1, <6>2 DEF SettingsOrder, PlannedAsStored
        <5> QED  BY <1>1, <5>1, <5>2, <5>3 DEF SettingsTypes
      <4>6. PlannedAsStored'  BY <1>1, <4>1, <4>5 DEF PlannedAsStored
      <4> QED  BY <4>4, <4>6
    <3> QED  BY <3>1, <3>2, <3>3
  <2> QED  BY <2>2, <2>4, <2>5 DEF SettingsOrder
<1> QED  BY <1>1, <1>3, <1>4 DEF SettingsInv

\* The planning of the job is written.
LEMMA SaveKeeps ==
  ASSUME S!SettingsAssumption, SettingsInv, NEW c \in Requests, S!Save(c)
  PROVE  SettingsInv'
<1>1. /\ SettingsTypes /\ AsAsked(request[c]) /\ request[c] \in Asks /\ request[c].at = "save"
      /\ UNCHANGED <<allowed, switch, planned, running, raced>>
  BY DEF SettingsInv, SettingsTypes, S!Save, S!At
<1>2. stored' = [stored EXCEPT ![request[c].job] = S!Updated(c)] /\ S!Goto(c, "apply")  BY DEF S!Save
<1>3. request[c].op = "put" /\ AsAsked([request[c] EXCEPT !.at = "apply"])
  BY <1>1 DEF AsAsked, Asks
<1>4. /\ request' \in [Requests -> Asks] /\ \A d \in Requests : AsAsked(request'[d])
      /\ request'[c] = [request[c] EXCEPT !.at = "apply"] /\ \A d \in Requests \ {c} : request'[d] = request[d]
  BY <1>1, <1>2, <1>3, GotoMoves
<1>5. S!Updated(c) \in S!Plannings
  <2>1. request[c].new \in S!Plannings /\ request[c].read[request[c].job] \in S!Plannings
    BY <1>1 DEF Asks
  <2> QED  BY <2>1 DEF S!Updated, S!Plannings
<1>6. S!Updated(c)' = S!Updated(c)  BY <1>1, <1>4 DEF S!Updated, Asks
<1>7. request[c].job \in Jobs /\ request'[c].job = request[c].job /\ request'[c].op = request[c].op
      /\ request'[c].at = "apply"
  BY <1>1, <1>4 DEF Asks
<1>8. /\ stored' \in [Jobs -> S!Plannings] /\ stored'[request[c].job] = S!Updated(c)
      /\ \A j \in Jobs \ {request[c].job} : stored'[j] = stored[j]
  <2>1. stored \in [Jobs -> S!Plannings]  BY <1>1 DEF SettingsTypes
  <2> QED  BY <1>2, <1>5, <1>7, <2>1
<1>9. SettingsTypes'  BY <1>1, <1>4, <1>8 DEF SettingsTypes
<1>10. ASSUME ~raced PROVE SettingsOrder'
  <2>1. SettingsOrder  BY <1>10 DEF SettingsInv
  <2>2. Apart'  BY <1>1, <1>4, <1>7, <2>1, OthersStay DEF SettingsOrder
  <2>3. ASSUME NEW d \in Requests \ {c}
        PROVE  request[d].at \notin {"on", "setup"} /\ (request[d].at = "apply" => request[d].job # request[c].job)
    <3>1. MayOverlap(request[c], request[d]) /\ AsAsked(request[d])
      BY <1>1, <2>1 DEF SettingsOrder, Apart, SettingsTypes
    <3> QED  BY <1>1, <1>3, <3>1 DEF MayOverlap, AsAsked
  <2>4. \A d \in Requests : Current(d)'
    <3>1. Current(c)'  BY <1>6, <1>7, <1>8 DEF Current
    <3>2. ASSUME NEW d \in Requests \ {c} PROVE Current(d)'
      <4>1. Current(d) /\ request[d].job \in Jobs  BY <1>1, <2>1 DEF SettingsOrder, SettingsTypes, Asks
      <4>2. S!Updated(d)' = S!Updated(d) /\ request'[d] = request[d]  BY <1>4, UpdatedStays
      <4> QED  BY <1>8, <2>3, <4>1, <4>2 DEF Current
    <3> QED  BY <3>1, <3>2
  <2>5. RunsByRight'  BY <1>1, <1>4, <1>7, <2>1 DEF RunsByRight, SettingsOrder
  <2>6. PlannedAsStored'
    <3>1. ASSUME NEW j \in Jobs, running, \A d \in Requests : request'[d].at = "apply" => request'[d].job # j
          PROVE  planned[j] = S!Trigger(stored'[j])
      <4>1. j # request[c].job  BY <1>7, <3>1
      <4>2. \A d \in Requests : request[d].at = "apply" => request[d].job # j
        BY <1>1, <1>4, <3>1
      <4> QED  BY <1>8, <2>1, <3>1, <4>1, <4>2 DEF SettingsOrder, PlannedAsStored
    <3> QED  BY <1>1, <2>1, <3>1 DEF SettingsOrder, PlannedAsStored
  <2> QED  BY <2>2, <2>4, <2>5, <2>6 DEF SettingsOrder
<1> QED  BY <1>1, <1>9, <1>10 DEF SettingsInv

\* What holds when no request is in progress and the scheduler was set from the database.
LEMMA AtRest ==
  ASSUME S!SettingsAssumption, request' = [c \in Requests |-> S!Quiet], stored' \in [Jobs -> S!Plannings],
         allowed' \in BOOLEAN, switch' \in BOOLEAN, raced' \in BOOLEAN,
         running' = (allowed' /\ switch'),
         planned' = [j \in Jobs |-> IF allowed' /\ switch' THEN S!Trigger(stored'[j]) ELSE S!Off]
  PROVE  SettingsInv'
<1>1. \A c \in Requests : request'[c] = S!Quiet /\ request'[c].at = "idle"  BY QuietAsks
<1>2. SettingsTypes'  BY QuietAsks DEF SettingsTypes
<1>3. Apart'  BY <1>1 DEF Apart, MayOverlap
<1>4. \A c \in Requests : Current(c)'  BY <1>1 DEF Current
<1>5. RunsByRight' /\ PlannedAsStored'  BY DEF RunsByRight, PlannedAsStored
<1> QED  BY <1>2, <1>3, <1>4, <1>5 DEF SettingsInv, SettingsOrder

LEMMA SettingsStep ==
  ASSUME S!SettingsAssumption, SettingsInv, S!Next \/ UNCHANGED S!vars
  PROVE  SettingsInv'
<1>1. S!AnyJob \in Jobs /\ Default[S!AnyJob] \in S!Plannings  BY DEF S!SettingsAssumption, S!AnyJob
<1>2. ASSUME NEW c \in Requests, S!AskStart(c) \/ S!AskStop(c) PROVE SettingsInv'
  BY <1>1, <1>2, SettingAskKeeps DEF S!AskStart, S!AskStop
<1>3. ASSUME NEW c \in Requests, NEW j \in Jobs, S!AskPut(c, j) PROVE SettingsInv'
  <2>1. PICK fields \in SUBSET {"enabled", "cron"}, new \in S!Plannings : S!Ask(c, "put", j, fields, new, "load")
    BY <1>3 DEF S!AskPut
  <2> QED  BY <2>1, SettingAskKeeps
<1>4. CASE S!Restart
  <2>1. stored' \in [Jobs -> S!Plannings] /\ allowed' \in BOOLEAN /\ switch' \in BOOLEAN
    BY <1>4 DEF S!Restart, SettingsInv, SettingsTypes
  <2>2. /\ request' = [c \in Requests |-> S!Quiet] /\ raced' = FALSE /\ running' = (allowed' /\ switch')
        /\ planned' = [j \in Jobs |-> IF allowed' /\ switch' THEN S!Trigger(stored'[j]) ELSE S!Off]
    BY <1>4 DEF S!Restart
  <2> QED  BY <2>1, <2>2, AtRest
<1>5. CASE UNCHANGED S!vars
  BY <1>5 DEF S!vars, SettingsInv, SettingsTypes, SettingsOrder, Apart, Current, S!Updated, RunsByRight, PlannedAsStored
<1> QED
  BY <1>2, <1>3, <1>4, <1>5, SaveSwitchKeeps, ReadKeeps, ApplyKeeps, SaveKeeps DEF S!Next

LEMMA SettingsStart ==
  ASSUME S!SettingsAssumption, S!Init PROVE SettingsInv
<1>1. \A c \in Requests : request[c] = S!Quiet /\ request[c].at = "idle"  BY QuietAsks DEF S!Init
<1>2. SettingsTypes  BY QuietAsks DEF S!Init, SettingsTypes, S!SettingsAssumption
<1>3. Apart  BY <1>1 DEF Apart, MayOverlap
<1>4. \A c \in Requests : Current(c)  BY <1>1 DEF Current
<1>5. RunsByRight /\ PlannedAsStored
  BY DEF S!Init, RunsByRight, PlannedAsStored
<1> QED  BY <1>2, <1>3, <1>4, <1>5 DEF SettingsInv, SettingsOrder

\* Once the requests are over, the scheduler runs exactly the plannings of the
\* database, for any jobs, plannings and requests: updates of different jobs may
\* overlap, with a stop too (set_enabled, update_job).
THEOREM SettingsAreApplied ==
  ASSUME S!SettingsAssumption PROVE ServicesSpec => []SettingsApplied
<1> DEFINE Holds == focus = "settings" => SettingsInv
<1>1. ServicesInit => Holds  BY SettingsStart DEF ServicesInit
<1>2. Holds /\ [ServicesNext]_all => Holds'
  <2> SUFFICES ASSUME Holds, [ServicesNext]_all, focus' = "settings" PROVE SettingsInv'  OBVIOUS
  <2>1. focus = "settings" /\ (S!Next \/ UNCHANGED S!vars)
    <3>1. CASE ServicesNext  BY <3>1 DEF ServicesNext
    <3>2. CASE UNCHANGED all  BY <3>2 DEF all, settings, S!vars
    <3> QED  BY <3>1, <3>2
  <2> QED  BY <2>1, SettingsStep
<1>3. Holds => SettingsApplied
  <2> SUFFICES ASSUME SettingsInv, ~raced, S!Busy = {} PROVE S!SettingsApplied
    BY DEF SettingsApplied, S!SettingsApplied
  <2>1. \A c \in Requests : request[c].at = "idle"  BY DEF S!Busy, S!At
  <2>2. RunsByRight /\ PlannedAsStored  BY DEF SettingsInv, SettingsOrder
  <2> QED  BY <2>1, <2>2 DEF S!SettingsApplied, RunsByRight, PlannedAsStored
<1> HIDE DEF Holds
<1> QED  BY <1>1, <1>2, <1>3, PTL DEF ServicesSpec

------------------------------------------------------------------------------
(* The calls to the models.                                                    *)

\* A preference as it is written: the model is one of the provider's and tier's.
Chosen(p) ==
  p.provider \in L!Providers /\ p.tier \in {"free", "paid"} /\ p.model \in L!Models(p.provider, p.tier)

AnyPref == L!Preferences \cup {L!NoPref}

CallRecords ==
  [at : L!Labels, pref : AnyPref, provider : L!Providers \cup {L!None}, model : L!Claude \cup L!Gemini \cup {L!None},
   vertex : BOOLEAN, tries : Nat, continued : Nat]

LlmTypes ==
  /\ pref \in [Agents -> AnyPref] /\ saving \in AnyPref
  /\ llm \in [Agents -> CallRecords] /\ through \in [Agents -> SUBSET L!KeyNames]

\* The keys that could be used all through a call can be used.
KeysThrough == \A a \in Agents : \A k \in through[a] : L!Usable(k)

\* The labels a call goes through while the key of its preference can be used.
PathOf(provider) ==
  CASE provider = "claude_cli" -> {"cli"}
    [] provider = "anthropic" -> {"has anthropic", "anthropic"}
    [] provider = "gemini" -> {"has gemini", "gemini"}

\* A call of an agent whose owner chose keeps to the path of the choice.
OnPath(a) ==
  LET p == llm[a].pref
  IN  llm[a].at # "idle" /\ p # L!NoPref /\ L!KeyOf(p.provider) \in through[a] =>
        \/ llm[a].at \in PathOf(p.provider)
        \/ llm[a].at = "request" /\ llm[a].provider = p.provider /\ llm[a].model = p.model

LlmInv == LlmTypes /\ KeysThrough /\ \A a \in Agents : OnPath(a)

\* The lists of models and their defaults.
LEMMA DefaultsAreListed ==
  ASSUME L!LlmAssumption, NEW provider \in L!Providers, NEW tier \in {"free", "paid"},
         tier = L!Tier(provider, tier)
  PROVE  L!DefaultOf(provider, tier) \in L!Models(provider, tier)
BY DEF L!LlmAssumption, L!Providers, L!Tier, L!DefaultOf, L!Models

LEMMA NormalIsChosen ==
  ASSUME L!LlmAssumption, NEW p \in L!Proposed
  PROVE  Chosen(L!Normal(p))
<1> DEFINE tier == L!Tier(p.provider, p.tier)
<1>1. p.provider \in L!Providers /\ p.tier \in {"free", "paid"}  BY DEF L!Proposed
<1>2. tier \in {"free", "paid"} /\ tier = L!Tier(p.provider, tier)
  BY <1>1 DEF L!Tier, L!Providers
<1>3. L!DefaultOf(p.provider, tier) \in L!Models(p.provider, tier)  BY <1>1, <1>2, DefaultsAreListed
<1> QED  BY <1>1, <1>2, <1>3 DEF L!Normal, Chosen

LEMMA PreferencesAreChosen ==
  ASSUME L!LlmAssumption, NEW p \in L!Preferences
  PROVE  Chosen(p) /\ p # L!NoPref
<1>1. PICK q \in L!Proposed : p = L!Normal(q)  BY DEF L!Preferences
<1>2. Chosen(p)  BY <1>1, NormalIsChosen
<1>3. p.provider # L!NoPref.provider  BY <1>2 DEF Chosen, L!Providers, L!NoPref, L!None
<1> QED  BY <1>2, <1>3

\* A step of one call: the account and the other calls stay.
LEMMA OneCalls ==
  ASSUME LlmTypes, KeysThrough, \A b \in Agents : OnPath(b),
         UNCHANGED <<admin, cli, held, pref, saving>>,
         NEW a \in Agents, NEW r \in CallRecords, llm' = [llm EXCEPT ![a] = r],
         through' \in [Agents -> SUBSET L!KeyNames], \A b \in Agents \ {a} : through'[b] = through[b],
         \A k \in through'[a] : L!Usable(k),
         r.at # "idle" /\ r.pref # L!NoPref /\ L!KeyOf(r.pref.provider) \in through'[a] =>
           \/ r.at \in PathOf(r.pref.provider)
           \/ r.at = "request" /\ r.provider = r.pref.provider /\ r.model = r.pref.model
  PROVE  LlmInv'
<1>1. llm'[a] = r /\ \A b \in Agents \ {a} : llm'[b] = llm[b]  BY DEF LlmTypes
<1>2. LlmTypes'  BY DEF LlmTypes
<1>3. KeysThrough'  BY DEF KeysThrough, L!Usable, L!Key
<1>4. \A b \in Agents : OnPath(b)'
  <2>1. OnPath(a)'  BY <1>1 DEF OnPath
  <2>2. ASSUME NEW b \in Agents \ {a} PROVE OnPath(b)'
    <3>1. OnPath(b) /\ llm'[b] = llm[b] /\ through'[b] = through[b]  BY <1>1
    <3> QED  BY <3>1 DEF OnPath
  <2> QED  BY <2>1, <2>2
<1> QED  BY <1>2, <1>3, <1>4 DEF LlmInv

\* The same, with what was known when the call began.
LEMMA CallGoesOn ==
  ASSUME LlmInv, UNCHANGED <<admin, cli, held, pref, saving, through>>,
         NEW a \in Agents, NEW r \in CallRecords, llm' = [llm EXCEPT ![a] = r],
         r.at # "idle" /\ r.pref # L!NoPref /\ L!KeyOf(r.pref.provider) \in through[a] =>
           \/ r.at \in PathOf(r.pref.provider)
           \/ r.at = "request" /\ r.provider = r.pref.provider /\ r.model = r.pref.model
  PROVE  LlmInv'
<1>1. /\ LlmTypes /\ KeysThrough /\ \A b \in Agents : OnPath(b)
      /\ through' \in [Agents -> SUBSET L!KeyNames]
      /\ \A k \in through'[a] : L!Usable(k)
  BY DEF LlmInv, LlmTypes, KeysThrough
<1>2. r.at # "idle" /\ r.pref # L!NoPref /\ L!KeyOf(r.pref.provider) \in through'[a] =>
           \/ r.at \in PathOf(r.pref.provider)
           \/ r.at = "request" /\ r.provider = r.pref.provider /\ r.model = r.pref.model
  OBVIOUS
<1> QED  BY <1>1, <1>2, OneCalls

\* Where a call is while the key of its preference can be used.
LEMMA OnItsPath ==
  ASSUME L!LlmAssumption, LlmInv, NEW a \in Agents, llm[a].at \notin {"idle", "request"},
         llm[a].pref # L!NoPref, L!KeyOf(llm[a].pref.provider) \in through[a]
  PROVE  /\ Chosen(llm[a].pref) /\ L!Usable(L!KeyOf(llm[a].pref.provider))
         /\ llm[a].at \in PathOf(llm[a].pref.provider)
<1>1. llm[a].pref \in AnyPref /\ OnPath(a)  BY DEF LlmInv, LlmTypes, CallRecords
<1>2. llm[a].pref \in L!Preferences  BY <1>1 DEF AnyPref
<1>3. Chosen(llm[a].pref)  BY <1>2, PreferencesAreChosen
<1>4. L!Usable(L!KeyOf(llm[a].pref.provider))  BY DEF LlmInv, KeysThrough
<1> QED  BY <1>1, <1>3, <1>4 DEF OnPath

\* The models a call may end with are on the lists.
LEMMA ModelsAreListed ==
  ASSUME L!LlmAssumption, NEW p \in AnyPref
  PROVE  /\ p.tier \in {"free", "paid"}
         /\ L!CliModel(p) \in L!Claude /\ DefaultModel["config"] \in L!Claude /\ DefaultModel["cli"] \in L!Claude
         /\ \A tier \in {"free", "paid"} : L!GeminiModel(p, tier) \in L!Gemini
<1>1. p = L!NoPref \/ Chosen(p)  BY PreferencesAreChosen DEF AnyPref
<1>2. p.tier \in {"free", "paid"}  BY <1>1 DEF L!NoPref, Chosen
<1>3. \A tier \in {"free", "paid"} : L!Models("gemini", tier) \subseteq L!Gemini
  BY DEF L!Models, L!Gemini
<1>4. \A tier \in {"free", "paid"} : L!DefaultOf("gemini", tier) \in L!Models("gemini", tier)
  BY DEF L!LlmAssumption, L!DefaultOf, L!Models
<1>5. \A tier \in {"free", "paid"} : L!GeminiModel(p, tier) \in L!Gemini
  BY <1>3, <1>4 DEF L!GeminiModel
<1> QED  BY <1>2, <1>5 DEF L!LlmAssumption, L!CliModel, L!Claude

\* The end of a resolution.
LEMMA DecidedKeeps ==
  ASSUME L!LlmAssumption, LlmInv, UNCHANGED <<admin, cli, held, pref, saving, through>>, NEW a \in Agents,
         NEW provider \in L!Providers, NEW model \in L!Claude \cup L!Gemini, NEW vertex \in BOOLEAN,
         L!Decided(a, provider, model, vertex),
         llm[a].pref # L!NoPref /\ L!KeyOf(llm[a].pref.provider) \in through[a] =>
           provider = llm[a].pref.provider /\ model = llm[a].pref.model
  PROVE  LlmInv'
<1> DEFINE r == [llm[a] EXCEPT !.at = "request", !.provider = provider, !.model = model, !.vertex = vertex]
<1>1. llm \in [Agents -> CallRecords]  BY DEF LlmInv, LlmTypes
<1>2. r \in CallRecords /\ r.at = "request" /\ r.provider = provider /\ r.model = model /\ r.pref = llm[a].pref
  BY <1>1 DEF CallRecords, L!Labels
<1>3. llm' = [llm EXCEPT ![a] = r]  BY <1>1 DEF L!Decided
<1> HIDE DEF r
<1> QED  BY <1>2, <1>3, CallGoesOn

LEMMA GotoKeeps ==
  ASSUME L!LlmAssumption, LlmInv, UNCHANGED <<admin, cli, held, pref, saving, through>>, NEW a \in Agents,
         NEW label \in L!Labels \ {"idle", "request"}, L!Goto(a, label),
         llm[a].pref # L!NoPref /\ L!KeyOf(llm[a].pref.provider) \in through[a] =>
           label \in PathOf(llm[a].pref.provider)
  PROVE  LlmInv'
<1> DEFINE r == [llm[a] EXCEPT !.at = label]
<1>1. llm \in [Agents -> CallRecords]  BY DEF LlmInv, LlmTypes
<1>2. r \in CallRecords /\ r.at = label /\ r.pref = llm[a].pref
  BY <1>1 DEF CallRecords
<1>3. llm' = [llm EXCEPT ![a] = r]  BY <1>1 DEF L!Goto
<1> HIDE DEF r
<1> QED  BY <1>2, <1>3, CallGoesOn

LEMMA RestKeeps ==
  ASSUME L!LlmAssumption, LlmInv, UNCHANGED <<admin, cli, held, pref, saving, through>>, NEW a \in Agents,
         llm' = [llm EXCEPT ![a] = L!Rest]
  PROVE  LlmInv'
<1>1. L!Rest \in CallRecords /\ L!Rest.at = "idle"
  BY DEF L!Rest, CallRecords, L!Labels, AnyPref
<1> QED  BY <1>1, CallGoesOn

\* The resolution reads a key: the one that is needed is there.
LEMMA ResolutionKeeps ==
  ASSUME L!LlmAssumption, LlmInv, NEW a \in Agents,
         \/ L!TryCli(a) \/ L!HasAnthropic(a) \/ L!TryAnthropic(a) \/ L!HasGemini(a) \/ L!TryGemini(a)
         \/ L!TryDefault(a)
  PROVE  LlmInv'
<1> DEFINE p == llm[a].pref
           Needed == p # L!NoPref /\ L!KeyOf(p.provider) \in through[a]
<1>1. p \in AnyPref  BY DEF LlmInv, LlmTypes, CallRecords
<1>2. UNCHANGED <<admin, cli, held, pref, saving, through>>
  BY DEF L!TryCli, L!HasAnthropic, L!TryAnthropic, L!HasGemini, L!TryGemini, L!TryDefault, L!Account
<1>3. L!Pref(a) = p  BY DEF L!Pref
<1>4. llm[a].at \notin {"idle", "request"}
  BY DEF L!TryCli, L!HasAnthropic, L!TryAnthropic, L!HasGemini, L!TryGemini, L!TryDefault, L!At
<1>5. /\ Needed => Chosen(p) /\ L!Usable(L!KeyOf(p.provider)) /\ llm[a].at \in PathOf(p.provider)
      /\ Needed => L!Key(L!KeyOf(p.provider))
  BY <1>4, OnItsPath DEF L!Usable
<1> HIDE DEF p
<1>6. Needed => p.provider \in L!Providers /\ p.model \in L!Models(p.provider, p.tier)  BY <1>5 DEF Chosen
<1>7. CASE L!TryCli(a)
  <2>1. Needed => p.provider = "claude_cli"
    BY <1>5, <1>6, <1>7 DEF L!TryCli, L!At, PathOf, L!Providers
  <2>2. CASE L!Usable("claude_subscription")
    <3>1. L!Decided(a, "claude_cli", L!CliModel(p), FALSE)  BY <1>3, <1>7, <2>2 DEF L!TryCli
    <3>2. Needed => L!CliModel(p) = p.model  BY <1>6, <2>1 DEF L!CliModel, L!Models
    <3> QED  BY <1>1, <1>2, <2>1, <3>1, <3>2, ModelsAreListed, DecidedKeeps DEF L!Providers, p
  <2>3. CASE ~L!Usable("claude_subscription")
    <3>1. ~Needed  BY <1>5, <2>1, <2>3 DEF L!KeyOf
    <3>2. L!Goto(a, L!AfterCli(p))  BY <1>3, <1>7, <2>3 DEF L!TryCli
    <3>3. L!AfterCli(p) \in L!Labels \ {"idle", "request"}  BY DEF L!AfterCli, L!Labels
    <3> QED  BY <1>2, <3>1, <3>2, <3>3, GotoKeeps DEF p
  <2> QED  BY <2>2, <2>3
<1>8. CASE L!HasAnthropic(a)
  <2>1. Needed => p.provider = "anthropic"
    BY <1>5, <1>6, <1>8 DEF L!HasAnthropic, L!At, PathOf, L!Providers
  <2>2. PICK label \in L!Labels \ {"idle", "request"} :
          L!Goto(a, label) /\ (L!Key("anthropic") => label = "anthropic")
    BY <1>8 DEF L!HasAnthropic, L!AfterAnthropic, L!Labels
  <2>3. Needed => label \in PathOf(p.provider)  BY <1>5, <2>1, <2>2 DEF L!KeyOf, PathOf
  <2> QED  BY <1>2, <2>2, <2>3, GotoKeeps DEF p
<1>9. CASE L!TryAnthropic(a)
  <2>1. Needed => p.provider = "anthropic"
    BY <1>5, <1>6, <1>9 DEF L!TryAnthropic, L!At, PathOf, L!Providers
  <2>2. CASE L!Key("anthropic")
    <3> DEFINE m == IF L!Requested(p) \in L!Claude THEN L!Requested(p) ELSE DefaultModel["config"]
    <3>1. L!Decided(a, "anthropic", m, FALSE)  BY <1>3, <1>9, <2>2 DEF L!TryAnthropic
    <3>2. Needed => m = p.model  BY <1>6, <2>1 DEF L!Requested, L!Models, L!Claude
    <3>3. m \in L!Claude  BY <1>1, ModelsAreListed
    <3> HIDE DEF m
    <3> QED  BY <1>2, <2>1, <3>1, <3>2, <3>3, DecidedKeeps DEF L!Providers, p
  <2>3. CASE ~L!Key("anthropic")
    <3>1. ~Needed  BY <1>5, <2>1, <2>3 DEF L!KeyOf
    <3>2. L!Goto(a, L!AfterAnthropic(p))  BY <1>3, <1>9, <2>3 DEF L!TryAnthropic
    <3>3. L!AfterAnthropic(p) \in L!Labels \ {"idle", "request"}  BY DEF L!AfterAnthropic, L!Labels
    <3> QED  BY <1>2, <3>1, <3>2, <3>3, GotoKeeps DEF p
  <2> QED  BY <2>2, <2>3
<1>10. CASE L!HasGemini(a)
  <2>1. Needed => p.provider = "gemini"
    BY <1>5, <1>6, <1>10 DEF L!HasGemini, L!At, PathOf, L!Providers
  <2>2. PICK label \in L!Labels \ {"idle", "request"} :
          L!Goto(a, label) /\ (L!Key("gemini") => label = "gemini")
    BY <1>10 DEF L!HasGemini, L!Labels
  <2>3. Needed => label \in PathOf(p.provider)  BY <1>5, <2>1, <2>2 DEF L!KeyOf, PathOf
  <2> QED  BY <1>2, <2>2, <2>3, GotoKeeps DEF p
<1>11. CASE L!TryGemini(a)
  <2>1. Needed => p.provider = "gemini"
    BY <1>5, <1>6, <1>11 DEF L!TryGemini, L!At, PathOf, L!Providers
  <2>2. CASE L!Key("gemini")
    <3> DEFINE m == L!GeminiModel(p, p.tier)
    <3>1. L!Decided(a, "gemini", m, FALSE)  BY <1>3, <1>11, <2>2 DEF L!TryGemini
    <3>2. Needed => m = p.model  BY <1>6, <2>1 DEF L!GeminiModel
    <3>3. m \in L!Gemini  BY <1>1, ModelsAreListed
    <3> HIDE DEF m
    <3> QED  BY <1>2, <2>1, <3>1, <3>2, <3>3, DecidedKeeps DEF L!Providers, p
  <2>3. CASE ~L!Key("gemini")
    <3>1. ~Needed  BY <1>5, <2>1, <2>3 DEF L!KeyOf
    <3>2. L!Goto(a, "vertex")  BY <1>11, <2>3 DEF L!TryGemini
    <3>3. "vertex" \in L!Labels \ {"idle", "request"}  BY DEF L!Labels
    <3> QED  BY <1>2, <3>1, <3>2, <3>3, GotoKeeps DEF p
  <2> QED  BY <2>2, <2>3
<1>12. CASE L!TryDefault(a)
  <2>1. llm[a].at \in {"vertex", "any gemini", "any anthropic", "any cli"}  BY <1>12 DEF L!TryDefault, L!At
  <2>2. ~Needed  BY <1>5, <1>6, <2>1 DEF PathOf, L!Providers
  <2>3. CASE \E label \in {"any gemini", "any anthropic", "any cli"} : L!Goto(a, label)
    <3>1. \A label \in {"any gemini", "any anthropic", "any cli"} : label \in L!Labels \ {"idle", "request"}
      BY DEF L!Labels
    <3> QED  BY <1>2, <2>2, <2>3, <3>1, GotoKeeps DEF p
  <2>4. CASE \E v \in BOOLEAN : L!Decided(a, "gemini", L!GeminiModel(p, "free"), v)
    <3>1. L!GeminiModel(p, "free") \in L!Gemini  BY <1>1, ModelsAreListed
    <3> QED  BY <1>2, <2>2, <2>4, <3>1, DecidedKeeps DEF L!Providers, p
  <2>5. CASE L!Decided(a, "anthropic", DefaultModel["config"], FALSE)
    BY <1>1, <1>2, <2>2, <2>5, ModelsAreListed, DecidedKeeps DEF L!Providers, p
  <2>6. CASE L!Decided(a, "claude_cli", DefaultModel["cli"], FALSE)
    BY <1>1, <1>2, <2>2, <2>6, ModelsAreListed, DecidedKeeps DEF L!Providers, p
  <2>7. CASE llm' = [llm EXCEPT ![a] = L!Rest]  BY <1>2, <2>7, RestKeeps
  <2> QED  BY <1>3, <1>12, <2>3, <2>4, <2>5, <2>6, <2>7 DEF L!TryDefault
<1> QED  BY <1>7, <1>8, <1>9, <1>10, <1>11, <1>12

\* A call begins: the preference and the keys are looked at together.
LEMMA ModelCallKeeps ==
  ASSUME L!LlmAssumption, LlmInv, NEW a \in Agents, L!Call(a) PROVE LlmInv'
<1> DEFINE p == pref[a]
           r == [L!Rest EXCEPT !.pref = p, !.at = IF p.provider = "claude_cli" THEN "cli" ELSE L!AfterCli(p)]
<1>1. p \in AnyPref /\ LlmTypes /\ KeysThrough /\ \A b \in Agents : OnPath(b)  BY DEF LlmInv, LlmTypes
<1>2. llm' = [llm EXCEPT ![a] = r] /\ UNCHANGED <<admin, cli, held, pref, saving>>
      /\ through' = [through EXCEPT ![a] = {k \in L!KeyNames : L!Usable(k)}]
  BY DEF L!Call, L!Account
<1>3. r \in CallRecords /\ r.pref = p
      /\ r.at = IF p.provider = "claude_cli" THEN "cli" ELSE L!AfterCli(p)
  BY <1>1 DEF L!Rest, CallRecords, L!Labels, L!AfterCli, AnyPref
<1>4. p # L!NoPref => r.at \in PathOf(p.provider)
  <2> SUFFICES ASSUME p # L!NoPref PROVE r.at \in PathOf(p.provider)  OBVIOUS
  <2>1. Chosen(p)  BY <1>1, PreferencesAreChosen DEF AnyPref
  <2>2. CASE p.provider = "claude_cli"  BY <1>3, <2>2 DEF PathOf
  <2>3. CASE p.provider = "anthropic"
    BY <1>3, <2>3 DEF PathOf, L!AfterCli, L!WantsAnthropic
  <2>4. CASE p.provider = "gemini"
    <3>1. p.model \in L!Gemini  BY <2>1, <2>4 DEF Chosen, L!Models, L!Gemini
    <3>2. ~L!WantsAnthropic(p)  BY <2>4, <3>1 DEF L!WantsAnthropic, L!Requested, L!LlmAssumption
    <3> QED  BY <1>3, <2>4, <3>2 DEF PathOf, L!AfterCli
  <2> QED  BY <2>1, <2>2, <2>3, <2>4 DEF Chosen, L!Providers
<1>5. /\ through' \in [Agents -> SUBSET L!KeyNames] /\ \A b \in Agents \ {a} : through'[b] = through[b]
      /\ \A k \in through'[a] : L!Usable(k)
  BY <1>1, <1>2 DEF LlmTypes
<1> HIDE DEF r, p
<1> QED  BY <1>1, <1>2, <1>3, <1>4, <1>5, OneCalls

\* A request is answered, tried again or continued with what was decided.
LEMMA RequestKeeps ==
  ASSUME L!LlmAssumption, LlmInv, NEW a \in Agents, L!Request(a) PROVE LlmInv'
<1>1. llm \in [Agents -> CallRecords] /\ llm[a] \in CallRecords /\ llm[a].at = "request" /\ OnPath(a)
      /\ UNCHANGED <<admin, cli, held, pref, saving, through>>
  BY DEF LlmInv, LlmTypes, L!Request, L!At, L!Account
<1>2. ASSUME NEW tries \in Nat, NEW continued \in Nat,
             llm' = [llm EXCEPT ![a] = [llm[a] EXCEPT !.tries = tries, !.continued = continued]]
      PROVE LlmInv'
  <2> DEFINE r == [llm[a] EXCEPT !.tries = tries, !.continued = continued]
  <2>1. /\ r \in CallRecords /\ r.at = "request" /\ r.pref = llm[a].pref /\ r.provider = llm[a].provider
        /\ r.model = llm[a].model
    BY <1>1 DEF CallRecords
  <2>2. llm[a].at \notin UNION {PathOf(v) : v \in L!Providers}
    BY <1>1 DEF PathOf, L!Providers
  <2>3. llm[a].pref # L!NoPref => llm[a].pref.provider \in L!Providers
    BY <1>1, PreferencesAreChosen DEF CallRecords, AnyPref, Chosen
  <2>4. r.pref # L!NoPref /\ L!KeyOf(r.pref.provider) \in through[a] =>
          r.provider = r.pref.provider /\ r.model = r.pref.model
    BY <1>1, <2>1, <2>2, <2>3 DEF OnPath
  <2>5. llm' = [llm EXCEPT ![a] = r]  BY <1>2
  <2> HIDE DEF r
  <2> QED  BY <1>1, <2>1, <2>4, <2>5, CallGoesOn
<1>3. CASE L!Ends(a)  BY <1>1, <1>3, RestKeeps DEF L!Ends
<1>4. CASE L!Retried(a)
  <2>1. llm[a].tries + 1 \in Nat /\ llm[a].continued \in Nat  BY <1>1 DEF CallRecords
  <2>2. llm' = [llm EXCEPT ![a] = [llm[a] EXCEPT !.tries = llm[a].tries + 1, !.continued = llm[a].continued]]
    BY <1>1, <1>4 DEF L!Retried, CallRecords
  <2> QED  BY <1>2, <2>1, <2>2
<1>5. CASE L!Continued(a)
  <2>1. llm[a].continued + 1 \in Nat  BY <1>1 DEF CallRecords
  <2>2. llm' = [llm EXCEPT ![a] = [llm[a] EXCEPT !.tries = 0, !.continued = llm[a].continued + 1]]
    BY <1>1, <1>5 DEF L!Continued, CallRecords
  <2> QED  BY <1>2, <2>1, <2>2
<1> QED  BY <1>3, <1>4, <1>5 DEF L!Request

\* The owner changes his keys and preferences under the calls.
LEMMA AccountKeeps ==
  ASSUME L!LlmAssumption, LlmInv,
         \/ \E k \in L!KeyNames : L!SaveKey(k) \/ L!DeleteKey(k)
         \/ \E p \in L!Proposed : L!TestPreference(p)
         \/ \E named \in SUBSET Agents : L!SavePreference(named)
  PROVE  LlmInv'
<1>0. LlmTypes /\ KeysThrough /\ \A b \in Agents : OnPath(b)  BY DEF LlmInv
<1>1. llm' = llm /\ admin' = admin /\ cli' = cli
  BY DEF L!SaveKey, L!DeleteKey, L!TestPreference, L!SavePreference
<1> DEFINE KeysKept == /\ through' \in [Agents -> SUBSET L!KeyNames]
                       /\ \A b \in Agents : through'[b] \subseteq through[b] /\ \A k \in through'[b] : L!Usable(k)'
           PrefsTyped == pref' \in [Agents -> AnyPref] /\ saving' \in AnyPref
<1>2. KeysKept
  <2>1. ASSUME NEW k \in L!KeyNames, L!DeleteKey(k) PROVE KeysKept
    BY <1>0, <1>1, <2>1 DEF L!DeleteKey, L!Usable, L!Key, LlmTypes, KeysThrough
  <2>2. ASSUME UNCHANGED through, held \subseteq held' PROVE KeysKept
    BY <1>0, <1>1, <2>2 DEF L!Usable, L!Key, LlmTypes, KeysThrough
  <2> QED  BY <2>1, <2>2 DEF L!SaveKey, L!TestPreference, L!SavePreference
<1>3. PrefsTyped
  <2>1. ASSUME NEW p \in L!Proposed, L!TestPreference(p) PROVE PrefsTyped
    BY <1>0, <2>1 DEF L!TestPreference, LlmTypes, AnyPref, L!Preferences
  <2>2. ASSUME NEW named \in SUBSET Agents, L!SavePreference(named) PROVE PrefsTyped
    BY <1>0, <2>2 DEF L!SavePreference, LlmTypes, AnyPref
  <2> QED  BY <1>0, <2>1, <2>2 DEF L!SaveKey, L!DeleteKey, LlmTypes
<1>4. LlmTypes' /\ KeysThrough'  BY <1>0, <1>1, <1>2, <1>3 DEF LlmTypes, KeysThrough
<1>5. \A b \in Agents : OnPath(b)'  BY <1>0, <1>1, <1>2 DEF OnPath
<1> QED  BY <1>4, <1>5 DEF LlmInv

LEMMA LlmStep ==
  ASSUME L!LlmAssumption, LlmInv, L!Next \/ UNCHANGED L!vars PROVE LlmInv'
<1>1. CASE UNCHANGED L!vars
  BY <1>1 DEF L!vars, LlmInv, LlmTypes, KeysThrough, L!Usable, L!Key, OnPath
<1> QED  BY <1>1, ModelCallKeeps, RequestKeeps, AccountKeeps, ResolutionKeeps DEF L!Next

\* The provider and the model the owner chose are used whenever their key can be
\* used all through the resolution, for any agents, lists of models and order of
\* his changes (resolve_llm_call reads the keys one by one): the key is on file
\* and, for a Claude subscription, the command is on the machine of the agents.
THEOREM ChoiceIsHonoured ==
  ASSUME L!LlmAssumption PROVE ServicesSpec => []PreferenceIsHonoured
<1> DEFINE Holds == focus = "models" => LlmInv
<1>1. ServicesInit => Holds
  <2>1. ASSUME L!Init PROVE LlmInv
    <3>1. L!Rest \in CallRecords /\ L!Rest.at = "idle" /\ L!NoPref \in AnyPref
      BY DEF L!Rest, CallRecords, L!Labels, AnyPref
    <3>2. llm \in [Agents -> CallRecords] /\ \A a \in Agents : llm[a].at = "idle"  BY <2>1, <3>1 DEF L!Init
    <3> QED  BY <2>1, <3>1, <3>2 DEF L!Init, LlmInv, LlmTypes, KeysThrough, OnPath
  <2> QED  BY <2>1 DEF ServicesInit
<1>2. Holds /\ [ServicesNext]_all => Holds'
  <2> SUFFICES ASSUME Holds, [ServicesNext]_all, focus' = "models" PROVE LlmInv'  OBVIOUS
  <2>1. focus = "models" /\ (L!Next \/ UNCHANGED L!vars)
    <3>1. CASE ServicesNext  BY <3>1 DEF ServicesNext
    <3>2. CASE UNCHANGED all  BY <3>2 DEF all, models, L!vars
    <3> QED  BY <3>1, <3>2
  <2> QED  BY <2>1, LlmStep
<1>3. Holds => PreferenceIsHonoured
  <2> SUFFICES ASSUME LlmInv, NEW a \in Agents, llm[a].at = "request", llm[a].pref # L!NoPref,
                      L!KeyOf(llm[a].pref.provider) \in through[a]
               PROVE  llm[a].provider = llm[a].pref.provider /\ llm[a].model = llm[a].pref.model
    BY DEF PreferenceIsHonoured, L!PreferenceIsHonoured, L!At, L!Pref
  <2>1. OnPath(a) /\ llm[a].pref \in L!Preferences  BY DEF LlmInv, LlmTypes, CallRecords, AnyPref
  <2>2. llm[a].pref.provider \in L!Providers  BY <2>1, PreferencesAreChosen DEF Chosen
  <2>3. "request" \notin PathOf(llm[a].pref.provider)  BY <2>2 DEF PathOf, L!Providers
  <2> QED  BY <2>1, <2>3 DEF OnPath
<1> HIDE DEF Holds
<1> QED  BY <1>1, <1>2, <1>3, PTL DEF ServicesSpec

------------------------------------------------------------------------------
(* The connections of the channels.                                            *)

Accounts == [by : K!Providers \cup {"google"}, slug : Slugs, id : Nat, profile : Nat]

Configs ==
  [enabled : SUBSET K!Platforms, provider : K!Providers,
   accounts : [K!Providers -> [account : SUBSET Accounts, profile : Nat]]]

ChannelRows ==
  [id : Nat, step : K!Steps, active : BOOLEAN, youtube : BOOLEAN, google : BOOLEAN, instagram : BOOLEAN,
   tiktok : BOOLEAN, composio : SUBSET Accounts, used : BOOLEAN, config : Configs]

Wanted == [provider : K!Providers, linked : SUBSET K!Providers, google : BOOLEAN]

\* A request in progress.
WellFormed(q) ==
  /\ q.slug \in Slugs /\ q.row \in ChannelRows
  /\ q.kind \in {"continue", "skip"} => q.arg \in K!Platforms
  /\ q.kind = "provider" => q.arg \in K!Providers

ChannelTypes ==
  /\ DOMAIN chan \subseteq Slugs /\ DOMAIN wish = DOMAIN chan /\ DOMAIN page \subseteq Slugs
  /\ \A s \in DOMAIN chan : chan[s] \in ChannelRows /\ wish[s] \in Wanted
  /\ \A s \in DOMAIN page : page[s] \in Configs
  /\ \A r \in DOMAIN req : WellFormed(req[r])
  /\ flows \subseteq Accounts /\ granted \subseteq Accounts
  /\ profiles \in Nat /\ ops \in Nat /\ overwritten \in BOOLEAN

\* The profile of a channel at Zernio.
Zernio(config) == config.accounts["zernio"].profile

\* The identifiers in the rows, in the requests and in the flows, with their slugs; and
\* the profiles made at Zernio, with theirs.
Named ==
  {<<chan[s].id, s>> : s \in DOMAIN chan} \cup {<<req[r].row.id, req[r].slug>> : r \in DOMAIN req}
  \cup {<<f.id, f.slug>> : f \in flows \cup granted}

Profiled ==
  {<<Zernio(chan[s].config), s>> : s \in DOMAIN chan} \cup {<<Zernio(page[s]), s>> : s \in DOMAIN page}
  \cup {<<Zernio(req[r].row.config), req[r].slug>> : r \in DOMAIN req}
  \cup {<<f.profile, f.slug>> : f \in {g \in flows \cup granted : g.by = "zernio"}}

\* A number is of one slug, and was given.
OfOneSlug(pairs, n) ==
  \A x \in pairs : x[1] # 0 => x[1] \in 1 .. n /\ \A y \in pairs : x[1] = y[1] => x[2] = y[2]

\* The row a creation is about to insert is new.
InsertsNew(r) ==
  /\ req[r].row.config = K!Fresh /\ req[r].row.composio = {} /\ ~req[r].row.google
  /\ \A s \in DOMAIN chan : chan[s].id # req[r].row.id
  /\ \A q \in DOMAIN req \ {r} : req[q].row.id # req[r].row.id
  /\ \A f \in flows : f.id # req[r].row.id

\* A connection being finished is of the channel its flow was opened for, whose
\* profile it has read.
Finishes(r) ==
  LET f == req[r].arg
  IN  /\ f.by \in K!Providers /\ f.slug = req[r].slug /\ f.id = req[r].row.id
      /\ ~overwritten /\ f.by = "zernio" => Zernio(req[r].row.config) # 0

\* A flow opened at Zernio is of a channel that has a profile there.
FlowsHaveProfiles ==
  ~overwritten => \A f \in flows : f.by = "zernio" /\ K!Exists(f.slug, f.id) => Zernio(chan[f.slug].config) # 0

\* A Composio account that a request has read is not forgotten since.
Remembers(r) ==
  K!Exists(req[r].slug, req[r].row.id) /\ req[r].row.composio # {} => chan[req[r].slug].composio # {}

\* What was asked of the channel is what its row says.
Honoured(s) ==
  /\ chan[s].config.provider = wish[s].provider /\ chan[s].google = wish[s].google
  /\ \A p \in K!Providers : /\ p \in wish[s].linked => K!Linked(chan[s], p) # {}
                            /\ \A a \in K!Linked(chan[s], p) : a.by = p /\ a.slug = s

ChannelIds == OfOneSlug(Named, ops) /\ \A x \in Named : x[1] # 0

ChannelProfiles ==
  /\ OfOneSlug(Profiled, profiles)
  /\ \A f \in flows \cup granted : f.by = "zernio" => f.profile # 0

RequestsKnow ==
  \A r \in DOMAIN req : /\ req[r].kind = "create" => InsertsNew(r)
                        /\ req[r].kind # "create" => Remembers(r)
                        /\ req[r].kind = "finish" => Finishes(r)
AllHonoured == ~overwritten => \A s \in DOMAIN chan : Honoured(s)

ChannelInv ==
  ChannelTypes /\ ChannelIds /\ ChannelProfiles /\ RequestsKnow /\ FlowsHaveProfiles /\ AllHonoured

\* Numbers that are given again, or one that is new.
LEMMA SlugsKept ==
  ASSUME NEW X, NEW Y, NEW n \in Nat, NEW s, NEW m \in {n, n + 1}, \A x \in X : x[1] \in Nat, OfOneSlug(X, n),
         Y \subseteq X \cup (IF m = n + 1 THEN {<<n + 1, s>>} ELSE {})
  PROVE  OfOneSlug(Y, m)
<1> SUFFICES ASSUME NEW x \in Y, x[1] # 0
             PROVE  x[1] \in 1 .. m /\ \A y \in Y : x[1] = y[1] => x[2] = y[2]
  BY DEF OfOneSlug
<1>1. ASSUME NEW y \in X, y[1] # 0 PROVE y[1] \in 1 .. n  BY <1>1 DEF OfOneSlug
<1>2. CASE x \in X
  <2>1. x[1] \in 1 .. n /\ x[1] # n + 1  BY <1>1, <1>2
  <2>2. \A y \in X : x[1] = y[1] => x[2] = y[2]  BY <1>2 DEF OfOneSlug
  <2> QED  BY <2>1, <2>2
<1>3. CASE x \notin X
  <2>1. x = <<n + 1, s>> /\ m = n + 1  BY <1>3
  <2>2. \A y \in X : y[1] # n + 1  BY <1>1
  <2> QED  BY <2>1, <2>2
<1> QED  BY <1>2, <1>3

LEMMA NumbersAreNat ==
  ASSUME ChannelTypes
  PROVE  /\ \A x \in Named : x[1] \in Nat /\ x[2] \in Slugs
         /\ \A x \in Profiled : x[1] \in Nat /\ x[2] \in Slugs
<1>1. \A c \in Configs : Zernio(c) \in Nat
  <2>1. "zernio" \in K!Providers  BY DEF K!Providers
  <2> QED  BY <2>1 DEF Configs, Zernio
<1>2. \A w \in ChannelRows : w.id \in Nat /\ w.config \in Configs  BY DEF ChannelRows
<1>3. \A f \in Accounts : f.id \in Nat /\ f.profile \in Nat /\ f.slug \in Slugs  BY DEF Accounts
<1> QED  BY <1>1, <1>2, <1>3 DEF ChannelTypes, WellFormed, Named, Profiled

\* A request that reads the row of its channel.
Reads(q) ==
  /\ WellFormed(req'[q])
  /\ req'[q].slug \in DOMAIN chan /\ req'[q].row = chan[req'[q].slug] /\ req'[q].kind # "create"
  /\ req'[q].kind = "finish" =>
       /\ req'[q].arg \in flows /\ req'[q].arg.by \in K!Providers
       /\ req'[q].arg.slug = req'[q].slug /\ req'[q].arg.id = req'[q].row.id

\* The rows stay: requests begin, or end without effect; pages and flows are opened.
LEMMA RowsStay ==
  ASSUME ChannelInv, UNCHANGED <<chan, wish, profiles, overwritten>>, ops' \in {ops, ops + 1},
         \A s \in DOMAIN page' : \/ s \in DOMAIN page /\ page'[s] = page[s]
                                 \/ s \in DOMAIN chan /\ page'[s] = chan[s].config,
         \A f \in flows' : \/ f \in flows
                           \/ /\ f \in Accounts /\ f.by = "google" /\ f.slug \in DOMAIN chan
                              /\ f.id = chan[f.slug].id,
         granted' \subseteq granted \cup flows,
         \A q \in DOMAIN req' : \/ q \in DOMAIN req /\ req'[q] = req[q]
                                \/ Reads(q)
  PROVE  ChannelInv'
<1>0. ChannelTypes  BY DEF ChannelInv
<1>1. ChannelTypes'
  <2>1. DOMAIN page' \subseteq Slugs /\ \A s \in DOMAIN page' : page'[s] \in Configs
    BY <1>0 DEF ChannelTypes, ChannelRows
  <2>2. \A r \in DOMAIN req' : WellFormed(req'[r])
    BY <1>0 DEF ChannelTypes, Reads
  <2>3. flows' \subseteq Accounts /\ granted' \subseteq Accounts /\ ops' \in Nat
    BY <1>0 DEF ChannelTypes
  <2> QED  BY <1>0, <2>1, <2>2, <2>3 DEF ChannelTypes
<1>2. ChannelIds'
  <2>1. Named' \subseteq Named  BY DEF Named, Reads
  <2>2. OfOneSlug(Named', ops')
    <3>1. \A x \in Named : x[1] \in Nat  BY <1>0, NumbersAreNat
    <3>2. OfOneSlug(Named, ops) /\ ops \in Nat  BY <1>0 DEF ChannelInv, ChannelIds, ChannelTypes
    <3> HIDE DEF Named
    <3> QED  BY <2>1, <3>1, <3>2, SlugsKept
  <2> QED  BY <2>1, <2>2 DEF ChannelInv, ChannelIds
<1>3. ChannelProfiles'
  <2>1. Profiled' \subseteq Profiled
    <3>1. {g \in flows' \cup granted' : g.by = "zernio"} \subseteq {g \in flows \cup granted : g.by = "zernio"}
      OBVIOUS
    <3> QED  BY <3>1 DEF Profiled, Reads
  <2>2. \A f \in flows' \cup granted' : f.by = "zernio" => f.profile # 0
    BY DEF ChannelInv, ChannelProfiles
  <2> QED  BY <2>1, <2>2 DEF ChannelInv, ChannelProfiles, OfOneSlug
<1>4. RequestsKnow'
  <2> SUFFICES ASSUME NEW q \in DOMAIN req'
               PROVE  /\ req'[q].kind = "create" => InsertsNew(q)'
                      /\ req'[q].kind # "create" => Remembers(q)'
                      /\ req'[q].kind = "finish" => Finishes(q)'
    BY DEF RequestsKnow
  <2>1. CASE q \in DOMAIN req /\ req'[q] = req[q]
    <3>1. /\ req[q].kind = "create" => InsertsNew(q)
          /\ req[q].kind # "create" => Remembers(q)
          /\ req[q].kind = "finish" => Finishes(q)
      BY <2>1 DEF ChannelInv, RequestsKnow
    <3>2. ASSUME req[q].kind = "create" PROVE InsertsNew(q)'
      BY <2>1, <3>1, <3>2 DEF InsertsNew, Reads
    <3>3. ASSUME req[q].kind # "create" PROVE Remembers(q)'
      BY <2>1, <3>1, <3>3 DEF Remembers, K!Exists
    <3>4. ASSUME req[q].kind = "finish" PROVE Finishes(q)'
      BY <2>1, <3>1, <3>4 DEF Finishes
    <3> QED  BY <2>1, <3>2, <3>3, <3>4
  <2>2. CASE Reads(q)
    <3>1. Remembers(q)'  BY <2>2 DEF Reads, Remembers
    <3>2. ASSUME req'[q].kind = "finish" PROVE Finishes(q)'
      <4>1. req'[q].arg \in flows /\ K!Exists(req'[q].arg.slug, req'[q].arg.id)
        BY <2>2, <3>2 DEF Reads, K!Exists
      <4> QED  BY <2>2, <3>2, <4>1 DEF Reads, Finishes, ChannelInv, FlowsHaveProfiles
    <3> QED  BY <2>2, <3>1, <3>2 DEF Reads
  <2> QED  BY <2>1, <2>2
<1>5. FlowsHaveProfiles'  BY DEF ChannelInv, FlowsHaveProfiles, K!Exists
<1>6. AllHonoured'  BY DEF ChannelInv, AllHonoured, Honoured, K!Linked
<1> QED  BY <1>1, <1>2, <1>3, <1>4, <1>5, <1>6 DEF ChannelInv

\* A profile known for a slug, or the one just made for the channel of slug s.
Given(s) == Profiled \cup (IF profiles' = profiles + 1 THEN {<<profiles + 1, s>>} ELSE {})

\* A flow opened for the channel of slug s.
OpenedFor(f, s) ==
  /\ f \in Accounts /\ f.slug = s /\ <<f.id, s>> \in Named
  /\ \A q \in DOMAIN req' : req'[q].kind = "create" => req'[q].row.id # f.id
  /\ f.by = "zernio" => /\ f.profile # 0 /\ <<f.profile, s>> \in Given(s)
                        /\ K!Exists(s, f.id) /\ ~overwritten' => Zernio(chan'[s].config) # 0

\* What a step may do to the row of slug s.
RowMove(s) ==
  /\ chan'[s] \in ChannelRows /\ wish'[s] \in Wanted /\ chan'[s].id = chan[s].id
  /\ chan[s].composio # {} => chan'[s].composio # {}
  /\ <<Zernio(chan'[s].config), s>> \in Given(s)
  /\ ~overwritten' => /\ Zernio(chan[s].config) # 0 => Zernio(chan'[s].config) # 0
                      /\ Honoured(s)'

\* One row moves; no request begins.
LEMMA RowMoves ==
  ASSUME ChannelInv, NEW s \in Slugs,
         DOMAIN chan' = DOMAIN chan, DOMAIN wish' = DOMAIN chan, s \in DOMAIN chan => RowMove(s),
         \A t \in DOMAIN chan : t # s => chan'[t] = chan[t] /\ wish'[t] = wish[t],
         \A t \in DOMAIN page' : /\ t \in DOMAIN page
                                 /\ \/ page'[t] = page[t]
                                    \/ page'[t] \in Configs /\ <<Zernio(page'[t]), t>> \in Profiled,
         \A q \in DOMAIN req' : q \in DOMAIN req /\ req'[q] = req[q],
         \A f \in flows' : f \in flows \/ OpenedFor(f, s),
         UNCHANGED granted, profiles' \in {profiles, profiles + 1}, ops' \in {ops, ops + 1},
         overwritten' \in BOOLEAN, overwritten => overwritten'
  PROVE  ChannelInv'
<1>0. ChannelTypes  BY DEF ChannelInv
<1>1. ChannelTypes'
  <2>1. \A t \in DOMAIN chan' : chan'[t] \in ChannelRows /\ wish'[t] \in Wanted
    BY <1>0 DEF ChannelTypes, RowMove
  <2>2. DOMAIN page' \subseteq Slugs /\ \A t \in DOMAIN page' : page'[t] \in Configs
    BY <1>0 DEF ChannelTypes
  <2>3. \A q \in DOMAIN req' : WellFormed(req'[q])
    BY <1>0 DEF ChannelTypes
  <2>4. flows' \subseteq Accounts /\ granted' \subseteq Accounts  BY <1>0 DEF ChannelTypes, OpenedFor
  <2>5. profiles' \in Nat /\ ops' \in Nat  BY <1>0 DEF ChannelTypes
  <2> QED  BY <1>0, <2>1, <2>2, <2>3, <2>4, <2>5 DEF ChannelTypes
<1>2. ChannelIds'
  <2>1. Named' \subseteq Named
    <3>1. \A t \in DOMAIN chan : chan'[t].id = chan[t].id  BY DEF RowMove
    <3>2. \A t \in DOMAIN chan' : <<chan'[t].id, t>> \in Named  BY <3>1 DEF Named
    <3>3. \A q \in DOMAIN req' : <<req'[q].row.id, req'[q].slug>> \in Named  BY DEF Named
    <3>4. \A f \in flows' \cup granted' : <<f.id, f.slug>> \in Named
      <4>1. \A f \in flows \cup granted : <<f.id, f.slug>> \in Named  BY DEF Named
      <4> QED  BY <4>1 DEF OpenedFor
    <3>5. \A x \in Named' : \/ \E t \in DOMAIN chan' : x = <<chan'[t].id, t>>
                            \/ \E q \in DOMAIN req' : x = <<req'[q].row.id, req'[q].slug>>
                            \/ \E f \in flows' \cup granted' : x = <<f.id, f.slug>>
      BY DEF Named
    <3> HIDE DEF Named
    <3> QED  BY <3>2, <3>3, <3>4, <3>5
  <2>2. OfOneSlug(Named', ops')
    <3>1. \A x \in Named : x[1] \in Nat  BY <1>0, NumbersAreNat
    <3>2. OfOneSlug(Named, ops) /\ ops \in Nat  BY <1>0 DEF ChannelInv, ChannelIds, ChannelTypes
    <3> HIDE DEF Named
    <3> QED  BY <2>1, <3>1, <3>2, SlugsKept
  <2> QED  BY <2>1, <2>2 DEF ChannelInv, ChannelIds
<1>3. ChannelProfiles'
  <2>1. Profiled' \subseteq Given(s)
    <3>1. \A t \in DOMAIN chan' : <<Zernio(chan'[t].config), t>> \in Given(s)
      BY DEF RowMove, Given, Profiled
    <3>2. \A t \in DOMAIN page' : <<Zernio(page'[t]), t>> \in Given(s)
      BY DEF Given, Profiled
    <3>3. \A q \in DOMAIN req' : <<Zernio(req'[q].row.config), req'[q].slug>> \in Given(s)
      BY DEF Given, Profiled
    <3>4. \A f \in flows' \cup granted' : f.by = "zernio" => <<f.profile, f.slug>> \in Given(s)
      BY DEF Given, Profiled, OpenedFor
    <3> HIDE DEF Given
    <3> QED  BY <3>1, <3>2, <3>3, <3>4 DEF Profiled
  <2>2. \A f \in flows' \cup granted' : f.by = "zernio" => f.profile # 0
    BY DEF ChannelInv, ChannelProfiles, OpenedFor
  <2>3. OfOneSlug(Profiled', profiles')
    <3>1. \A x \in Profiled : x[1] \in Nat  BY <1>0, NumbersAreNat
    <3>2. OfOneSlug(Profiled, profiles) /\ profiles \in Nat
      BY <1>0 DEF ChannelInv, ChannelProfiles, ChannelTypes
    <3>3. Profiled' \subseteq Profiled \cup (IF profiles' = profiles + 1 THEN {<<profiles + 1, s>>} ELSE {})
      BY <2>1 DEF Given
    <3> HIDE DEF Profiled
    <3> QED  BY <3>1, <3>2, <3>3, SlugsKept
  <2> QED  BY <2>2, <2>3 DEF ChannelProfiles
<1>4. RequestsKnow'
  <2> SUFFICES ASSUME NEW q \in DOMAIN req'
               PROVE  /\ req'[q].kind = "create" => InsertsNew(q)'
                      /\ req'[q].kind # "create" => Remembers(q)'
                      /\ req'[q].kind = "finish" => Finishes(q)'
    BY DEF RequestsKnow
  <2>1. q \in DOMAIN req /\ req'[q] = req[q]  OBVIOUS
  <2>2. /\ req[q].kind = "create" => InsertsNew(q)
        /\ req[q].kind # "create" => Remembers(q)
        /\ req[q].kind = "finish" => Finishes(q)
    BY <2>1 DEF ChannelInv, RequestsKnow
  <2>3. \A t \in DOMAIN chan : /\ chan'[t].id = chan[t].id
                               /\ chan[t].composio # {} => chan'[t].composio # {}
    BY DEF RowMove
  <2>4. ASSUME req[q].kind = "create" PROVE InsertsNew(q)'
    <3>1. \A f \in flows' : f.id # req[q].row.id
      BY <2>1, <2>2, <2>4 DEF InsertsNew, OpenedFor
    <3> QED  BY <2>1, <2>2, <2>3, <2>4, <3>1 DEF InsertsNew
  <2>5. ASSUME req[q].kind # "create" PROVE Remembers(q)'
    BY <2>1, <2>2, <2>3, <2>5 DEF Remembers, K!Exists
  <2>6. ASSUME req[q].kind = "finish" PROVE Finishes(q)'
    BY <2>1, <2>2, <2>6 DEF Finishes
  <2> QED  BY <2>1, <2>4, <2>5, <2>6
<1>5. FlowsHaveProfiles'
  <2> SUFFICES ASSUME ~overwritten', NEW f \in flows', f.by = "zernio", K!Exists(f.slug, f.id)'
               PROVE  Zernio(chan'[f.slug].config) # 0
    BY DEF FlowsHaveProfiles
  <2>1. K!Exists(f.slug, f.id)  BY DEF K!Exists, RowMove
  <2>2. CASE f \in flows  BY <2>1, <2>2 DEF ChannelInv, FlowsHaveProfiles, K!Exists, RowMove
  <2>3. CASE OpenedFor(f, s)  BY <2>1, <2>3 DEF OpenedFor
  <2> QED  BY <2>2, <2>3
<1>6. AllHonoured'
  <2> SUFFICES ASSUME ~overwritten', NEW t \in DOMAIN chan' PROVE Honoured(t)'
    BY DEF AllHonoured
  <2>1. CASE t = s  BY <2>1 DEF RowMove
  <2>2. CASE t # s  BY <2>2 DEF ChannelInv, AllHonoured, Honoured, K!Linked
  <2> QED  BY <2>1, <2>2
<1> QED  BY <1>1, <1>2, <1>3, <1>4, <1>5, <1>6 DEF ChannelInv

\* The columns a commit writes, of those the properties look at.
WritesBack(before, old, new, after) ==
  /\ after \in ChannelRows /\ after.id = before.id
  /\ after.google = (IF new.google = old.google THEN before.google ELSE new.google)
  /\ after.composio = (IF new.composio = old.composio THEN before.composio ELSE new.composio)
  /\ after.config = (IF new.config = old.config THEN before.config ELSE new.config)

\* What the commit of a request does to the row of its channel.
LEMMA ColumnsWriteBack ==
  ASSUME NEW s \in DOMAIN chan, chan[s] \in ChannelRows, NEW old \in ChannelRows, NEW new \in ChannelRows,
         chan[s].id = old.id, new.id = old.id
  PROVE  WritesBack(chan[s], old, new, K!Columns(s, old, new))
<1> DEFINE before == chan[s]
           cols == [c \in DOMAIN new |-> IF new[c] = old[c] THEN before[c] ELSE new[c]]
<1>1. DOMAIN new = {"id", "step", "active", "youtube", "google", "instagram", "tiktok", "composio", "used", "config"}
  BY DEF ChannelRows
<1>2. cols \in ChannelRows
  <2>1. cols = [id |-> IF new.id = old.id THEN before.id ELSE new.id,
                step |-> IF new.step = old.step THEN before.step ELSE new.step,
                active |-> IF new.active = old.active THEN before.active ELSE new.active,
                youtube |-> IF new.youtube = old.youtube THEN before.youtube ELSE new.youtube,
                google |-> IF new.google = old.google THEN before.google ELSE new.google,
                instagram |-> IF new.instagram = old.instagram THEN before.instagram ELSE new.instagram,
                tiktok |-> IF new.tiktok = old.tiktok THEN before.tiktok ELSE new.tiktok,
                composio |-> IF new.composio = old.composio THEN before.composio ELSE new.composio,
                used |-> IF new.used = old.used THEN before.used ELSE new.used,
                config |-> IF new.config = old.config THEN before.config ELSE new.config]
    BY <1>1
  <2> HIDE DEF cols
  <2> QED  BY <2>1 DEF ChannelRows
<1>3. K!Columns(s, old, new) = cols  BY DEF K!Columns
<1>4. /\ cols.id = IF new.id = old.id THEN before.id ELSE new.id
      /\ cols.google = IF new.google = old.google THEN before.google ELSE new.google
      /\ cols.composio = IF new.composio = old.composio THEN before.composio ELSE new.composio
      /\ cols.config = IF new.config = old.config THEN before.config ELSE new.config
  BY <1>1
<1> HIDE DEF cols
<1> QED  BY <1>2, <1>3, <1>4 DEF WritesBack

LEMMA CommitEffect ==
  ASSUME ChannelTypes, NEW r \in DOMAIN req, NEW new \in ChannelRows, new.id = req[r].row.id, K!Commit(r, new)
  PROVE  /\ overwritten' \in BOOLEAN /\ (overwritten => overwritten') /\ DOMAIN chan' = DOMAIN chan
         /\ \A t \in DOMAIN chan : t # req[r].slug => chan'[t] = chan[t]
         /\ ~K!Exists(req[r].slug, req[r].row.id) => chan' = chan
         /\ K!Exists(req[r].slug, req[r].row.id) =>
              /\ WritesBack(chan[req[r].slug], req[r].row, new, chan'[req[r].slug])
              /\ req[r].kind \in {"skip", "provider", "connect", "finish"} /\ ~overwritten' =>
                   chan[req[r].slug].config = req[r].row.config
<1> DEFINE s == req[r].slug
           old == req[r].row
           before == chan[s]
<1>1. CASE ~K!Exists(s, old.id)  BY <1>1 DEF K!Commit, ChannelTypes
<1>2. CASE K!Exists(s, old.id)
  <2>1. s \in DOMAIN chan /\ before \in ChannelRows /\ old \in ChannelRows /\ before.id = old.id
    BY <1>2 DEF K!Exists, ChannelTypes, WellFormed
  <2>2. /\ chan' = [chan EXCEPT ![s] = K!Columns(s, old, new)]
        /\ overwritten' = (overwritten \/ /\ req[r].kind \in {"skip", "provider", "connect", "finish"}
                                          /\ before.config # old.config)
    BY <1>2 DEF K!Commit
  <2>3. WritesBack(before, old, new, K!Columns(s, old, new))  BY <2>1, ColumnsWriteBack
  <2>4. chan'[s] = K!Columns(s, old, new) /\ DOMAIN chan' = DOMAIN chan
        /\ \A t \in DOMAIN chan : t # s => chan'[t] = chan[t]
    BY <2>1, <2>2
  <2>5. overwritten' \in BOOLEAN /\ (overwritten => overwritten')  BY <2>2 DEF ChannelTypes
  <2> QED  BY <1>2, <2>1, <2>2, <2>3, <2>4, <2>5
<1> QED  BY <1>1, <1>2

\* The request that ends is no longer there; the others are.
LEMMA RequestEnds ==
  ASSUME NEW r, K!End(r)
  PROVE  \A q \in DOMAIN req' : q \in DOMAIN req /\ q # r /\ req'[q] = req[q]
BY DEF K!End, K!Restrict

\* A request that begins reads the row of its channel.
LEMMA RequestStarts ==
  ASSUME NEW r, NEW s \in DOMAIN chan, NEW kind, NEW arg, K!Start(r, s, kind, arg),
         kind \notin {"create", "finish"}, s \in Slugs, chan[s] \in ChannelRows,
         kind \in {"continue", "skip"} => arg \in K!Platforms, kind = "provider" => arg \in K!Providers
  PROVE  \A q \in DOMAIN req' : (q \in DOMAIN req /\ req'[q] = req[q]) \/ Reads(q)
<1>1. req' = [y \in DOMAIN req \cup {r} |->
                IF y = r THEN [kind |-> kind, slug |-> s, row |-> chan[s], arg |-> arg] ELSE req[y]]
  BY DEF K!Start, K!With
<1>2. \A q \in DOMAIN req : q # r => req'[q] = req[q]  BY <1>1
<1>3. Reads(r)
  <2>1. req'[r] = [kind |-> kind, slug |-> s, row |-> chan[s], arg |-> arg]  BY <1>1
  <2> QED  BY <2>1 DEF Reads, WellFormed
<1>4. DOMAIN req' = DOMAIN req \cup {r}  BY <1>1
<1> QED  BY <1>2, <1>3, <1>4

LEMMA ConfigFields ==
  ASSUME NEW c \in Configs
  PROVE  /\ c.enabled \subseteq K!Platforms /\ c.provider \in K!Providers /\ Zernio(c) \in Nat
         /\ \A p \in K!Providers : c.accounts[p].account \subseteq Accounts /\ c.accounts[p].profile \in Nat
<1>1. "zernio" \in K!Providers  BY DEF K!Providers
<1> QED  BY <1>1 DEF Configs, Zernio

LEMMA Unoverwritten ==
  ASSUME ChannelInv, NEW s \in DOMAIN chan
  PROVE  /\ s \in Slugs /\ chan[s] \in ChannelRows /\ wish[s] \in Wanted /\ chan[s].config \in Configs
         /\ ~overwritten => Honoured(s)
         /\ <<Zernio(chan[s].config), s>> \in Profiled
BY DEF ChannelInv, ChannelTypes, ChannelRows, AllHonoured, Profiled

\* A step that leaves the connections of the row alone.
LEMMA RowKeeps ==
  ASSUME ChannelInv, NEW s \in DOMAIN chan, chan'[s] \in ChannelRows, wish'[s] = wish[s],
         chan'[s].id = chan[s].id, chan'[s].google = chan[s].google, chan'[s].composio = chan[s].composio,
         <<Zernio(chan'[s].config), s>> \in Profiled, overwritten => overwritten',
         ~overwritten' => /\ chan'[s].config.provider = chan[s].config.provider
                         /\ chan'[s].config.accounts = chan[s].config.accounts
  PROVE  RowMove(s)
<1>1. ASSUME ~overwritten' PROVE Honoured(s)'
  <2>1. Honoured(s) /\ \A p \in K!Providers : K!Linked(chan'[s], p) = K!Linked(chan[s], p)
    BY <1>1, Unoverwritten DEF K!Linked
  <2>2. /\ chan'[s].config.provider = wish'[s].provider /\ chan'[s].google = wish'[s].google
        /\ \A p \in K!Providers : /\ p \in wish'[s].linked => K!Linked(chan'[s], p) # {}
                                 /\ \A a \in K!Linked(chan'[s], p) : a.by = p /\ a.slug = s
    BY <1>1, <2>1 DEF Honoured
  <2> QED  BY <2>2 DEF Honoured, K!Linked
<1>2. <<Zernio(chan'[s].config), s>> \in Given(s)  BY DEF Given
<1> QED  BY <1>1, <1>2, Unoverwritten DEF RowMove, Zernio

\* A project is added, a flag of the channel is changed.
LEMMA FlagsKeep ==
  ASSUME ChannelInv, NEW s \in Slugs, K!AddProject(s) \/ K!Patch(s)
  PROVE  ChannelInv'
<1>1. s \in DOMAIN chan /\ chan[s] \in ChannelRows  BY Unoverwritten DEF K!AddProject, K!Patch
<1>2. \/ chan' = [chan EXCEPT ![s].used = TRUE]
      \/ \E b \in BOOLEAN : chan' = [chan EXCEPT ![s].tiktok = b] \/ chan' = [chan EXCEPT ![s].active = b]
  BY DEF K!AddProject, K!Patch
<1>3. UNCHANGED <<page, req, flows, granted, profiles, wish, overwritten>> /\ ops' = ops + 1
  BY DEF K!AddProject, K!Patch, K!Op
<1>4. /\ DOMAIN chan' = DOMAIN chan /\ \A t \in DOMAIN chan : t # s => chan'[t] = chan[t]
      /\ chan'[s] \in ChannelRows /\ chan'[s].id = chan[s].id /\ chan'[s].google = chan[s].google
      /\ chan'[s].composio = chan[s].composio /\ chan'[s].config = chan[s].config
  BY <1>1, <1>2 DEF ChannelRows
<1>5. RowMove(s)  BY <1>1, <1>3, <1>4, RowKeeps, Unoverwritten
<1>6. overwritten' \in BOOLEAN /\ overwritten' = overwritten /\ wish' = wish /\ granted' = granted
  BY <1>3 DEF ChannelInv, ChannelTypes
<1>7. /\ \A t \in DOMAIN page' : t \in DOMAIN page /\ page'[t] = page[t]
      /\ \A q \in DOMAIN req' : q \in DOMAIN req /\ req'[q] = req[q]
      /\ \A f \in flows' : f \in flows
  BY <1>3
<1>8. profiles' \in {profiles, profiles + 1} /\ ops' \in {ops, ops + 1}  BY <1>3
<1>9. DOMAIN wish' = DOMAIN chan /\ \A t \in DOMAIN chan : t # s => chan'[t] = chan[t] /\ wish'[t] = wish[t]
  BY <1>4, <1>6 DEF ChannelInv, ChannelTypes
<1> QED  BY <1>4, <1>5, <1>6, <1>7, <1>8, <1>9, RowMoves

\* The channel of a Google account.
GoogleWritten(s, on) ==
  /\ DOMAIN chan' = DOMAIN chan /\ \A t \in DOMAIN chan : t # s => chan'[t] = chan[t]
  /\ chan'[s] \in ChannelRows /\ chan'[s].id = chan[s].id /\ chan'[s].google = on
  /\ chan'[s].composio = chan[s].composio /\ chan'[s].config = chan[s].config
  /\ wish' = [wish EXCEPT ![s].google = on]

LEMMA GoogleKeeps ==
  ASSUME ChannelInv, NEW s \in Slugs, NEW on \in BOOLEAN, s \in DOMAIN chan, GoogleWritten(s, on),
         \A q \in DOMAIN req' : q \in DOMAIN req /\ req'[q] = req[q],
         flows' \subseteq flows, ops' \in {ops, ops + 1}, UNCHANGED <<page, granted, profiles, overwritten>>
  PROVE  ChannelInv'
<1>1. s \in DOMAIN wish /\ chan[s] \in ChannelRows /\ wish[s] \in Wanted
  BY Unoverwritten DEF ChannelInv, ChannelTypes
<1>2. /\ DOMAIN chan' = DOMAIN chan /\ \A t \in DOMAIN chan : t # s => chan'[t] = chan[t]
      /\ chan'[s] \in ChannelRows /\ chan'[s].id = chan[s].id /\ chan'[s].google = on
      /\ chan'[s].composio = chan[s].composio /\ chan'[s].config = chan[s].config
      /\ wish' = [wish EXCEPT ![s].google = on]
  BY DEF GoogleWritten
<1>3. /\ DOMAIN wish' = DOMAIN wish /\ \A t \in DOMAIN wish : t # s => wish'[t] = wish[t]
      /\ wish'[s] \in Wanted /\ wish'[s].google = on
      /\ wish'[s].provider = wish[s].provider /\ wish'[s].linked = wish[s].linked
  BY <1>1, <1>2 DEF Wanted
<1>4. ASSUME ~overwritten PROVE Honoured(s)'
  <2>1. Honoured(s) /\ \A p \in K!Providers : K!Linked(chan'[s], p) = K!Linked(chan[s], p)
    BY <1>2, <1>4, Unoverwritten DEF K!Linked
  <2>2. /\ chan'[s].config.provider = wish'[s].provider /\ chan'[s].google = wish'[s].google
        /\ \A p \in K!Providers : /\ p \in wish'[s].linked => K!Linked(chan'[s], p) # {}
                                 /\ \A a \in K!Linked(chan'[s], p) : a.by = p /\ a.slug = s
    BY <1>2, <1>3, <2>1 DEF Honoured
  <2> QED  BY <2>2 DEF Honoured, K!Linked
<1>5. RowMove(s)
  <2>1. <<Zernio(chan'[s].config), s>> \in Given(s)  BY <1>2, Unoverwritten DEF Given
  <2> QED  BY <1>2, <1>3, <1>4, <2>1 DEF RowMove
<1>6. overwritten' \in BOOLEAN /\ DOMAIN wish = DOMAIN chan  BY DEF ChannelInv, ChannelTypes
<1> QED  BY <1>2, <1>3, <1>5, <1>6, RowMoves

LEMMA GoogleSteps ==
  ASSUME ChannelInv, (\E f \in flows : K!GoogleReturns(f)) \/ \E s \in Slugs : K!DisconnectGoogle(s)
  PROVE  ChannelInv'
<1>1. ASSUME NEW f \in flows, K!GoogleReturns(f) PROVE ChannelInv'
  <2>1. CASE K!Exists(f.slug, f.id)
    <3>1. f.slug \in DOMAIN chan /\ f.slug \in Slugs  BY <2>1 DEF K!Exists, ChannelInv, ChannelTypes
    <3>2. /\ chan' = [chan EXCEPT ![f.slug].google = TRUE, ![f.slug].step = "youtube"]
          /\ wish' = [wish EXCEPT ![f.slug].google = TRUE] /\ flows' \subseteq flows
          /\ UNCHANGED <<page, req, granted, profiles, overwritten, ops>>
      BY <1>1, <2>1 DEF K!GoogleReturns
    <3>3. GoogleWritten(f.slug, TRUE)
      <4>1. chan[f.slug] \in ChannelRows  BY <3>1, Unoverwritten
      <4> QED  BY <3>1, <3>2, <4>1 DEF GoogleWritten, ChannelRows, K!Steps
    <3> QED  BY <3>1, <3>2, <3>3, GoogleKeeps
  <2>2. CASE ~K!Exists(f.slug, f.id)  BY <1>1, <2>2, RowsStay DEF K!GoogleReturns
  <2> QED  BY <2>1, <2>2
<1>2. ASSUME NEW s \in Slugs, K!DisconnectGoogle(s) PROVE ChannelInv'
  <2>1. /\ s \in DOMAIN chan /\ chan' = [chan EXCEPT ![s].google = FALSE]
        /\ wish' = [wish EXCEPT ![s].google = FALSE] /\ ops' = ops + 1
        /\ UNCHANGED <<page, req, flows, granted, profiles, overwritten>>
    BY <1>2 DEF K!DisconnectGoogle, K!Op
  <2>2. GoogleWritten(s, FALSE)
    <3>1. chan[s] \in ChannelRows  BY <2>1, Unoverwritten
    <3> QED  BY <2>1, <3>1 DEF GoogleWritten, ChannelRows
  <2> QED  BY <2>1, <2>2, GoogleKeeps
<1> QED  BY <1>1, <1>2

\* The settings page writes the settings it holds, with the platforms ticked.
LEMMA SaveSettingsKeeps ==
  ASSUME ChannelInv, NEW s \in Slugs, NEW on \in SUBSET K!Platforms, K!SaveSettings(s, on)
  PROVE  ChannelInv'
<1> DEFINE new == K!Saved(page[s], on)
<1>1. /\ s \in DOMAIN chan /\ s \in DOMAIN page /\ page[s] \in Configs /\ chan[s] \in ChannelRows
      /\ <<Zernio(page[s]), s>> \in Profiled
  BY Unoverwritten DEF K!SaveSettings, ChannelInv, ChannelTypes, Profiled
<1>2. /\ chan' = [chan EXCEPT ![s].config = new] /\ page' = [page EXCEPT ![s] = new]
      /\ overwritten' = (overwritten \/ page[s] # chan[s].config) /\ ops' = ops + 1
      /\ UNCHANGED <<req, flows, granted, profiles, wish>>
  BY DEF K!SaveSettings, K!Op
<1>3. /\ new \in Configs /\ new.accounts = page[s].accounts /\ new.provider = page[s].provider
  BY <1>1 DEF K!Saved, Configs
<1>4. Zernio(new) = Zernio(page[s])  BY <1>3 DEF Zernio
<1> HIDE DEF new
<1>5. /\ DOMAIN chan' = DOMAIN chan /\ \A t \in DOMAIN chan : t # s => chan'[t] = chan[t]
      /\ chan'[s] \in ChannelRows /\ chan'[s].id = chan[s].id /\ chan'[s].google = chan[s].google
      /\ chan'[s].composio = chan[s].composio /\ chan'[s].config = new
  BY <1>1, <1>2, <1>3 DEF ChannelRows
<1>6. RowMove(s)  BY <1>1, <1>2, <1>3, <1>4, <1>5, RowKeeps
<1>7. /\ overwritten' \in BOOLEAN /\ (overwritten => overwritten') /\ wish' = wish /\ granted' = granted
      /\ profiles' \in {profiles, profiles + 1} /\ ops' \in {ops, ops + 1}
  BY <1>2 DEF ChannelInv, ChannelTypes
<1>8. \A t \in DOMAIN page' : /\ t \in DOMAIN page
                              /\ \/ page'[t] = page[t]
                                 \/ page'[t] \in Configs /\ <<Zernio(page'[t]), t>> \in Profiled
  BY <1>1, <1>2, <1>3, <1>4
<1>9. /\ \A q \in DOMAIN req' : q \in DOMAIN req /\ req'[q] = req[q]
      /\ \A f \in flows' : f \in flows
  BY <1>2
<1>10. DOMAIN wish' = DOMAIN chan /\ \A t \in DOMAIN chan : t # s => chan'[t] = chan[t] /\ wish'[t] = wish[t]
  BY <1>5, <1>7 DEF ChannelInv, ChannelTypes
<1> QED  BY <1>5, <1>6, <1>7, <1>8, <1>9, <1>10, RowMoves

LEMMA RequestFacts ==
  ASSUME ChannelInv, NEW r \in DOMAIN req
  PROVE  /\ WellFormed(req[r]) /\ req[r].row.config \in Configs
         /\ <<Zernio(req[r].row.config), req[r].slug>> \in Profiled
         /\ <<req[r].row.id, req[r].slug>> \in Named
         /\ req[r].kind # "create" => Remembers(r)
         /\ req[r].kind = "finish" => Finishes(r)
BY DEF ChannelInv, ChannelTypes, WellFormed, ChannelRows, RequestsKnow, Profiled, Named

\* A request ends, and writes back the row it has made.
LEMMA CommitKeeps ==
  ASSUME ChannelInv, NEW r \in DOMAIN req, NEW s \in Slugs, s = req[r].slug,
         NEW new \in ChannelRows, new.id = req[r].row.id,
         K!Commit(r, new), K!End(r), DOMAIN wish' = DOMAIN wish,
         \A t \in DOMAIN wish : t # s => wish'[t] = wish[t],
         ~K!Exists(s, req[r].row.id) => wish' = wish,
         K!Exists(s, req[r].row.id) => RowMove(s),
         \A f \in flows' : f \in flows \/ OpenedFor(f, s),
         profiles' \in {profiles, profiles + 1}, UNCHANGED <<page, granted, ops>>
  PROVE  ChannelInv'
<1>1. ChannelTypes  BY DEF ChannelInv
<1>2. /\ overwritten' \in BOOLEAN /\ (overwritten => overwritten') /\ DOMAIN chan' = DOMAIN chan
      /\ \A t \in DOMAIN chan : t # s => chan'[t] = chan[t]
      /\ ~K!Exists(s, req[r].row.id) => chan' = chan
  BY <1>1, CommitEffect
<1>3. /\ DOMAIN wish' = DOMAIN chan
      /\ \A t \in DOMAIN chan : t # s => chan'[t] = chan[t] /\ wish'[t] = wish[t]
  BY <1>1, <1>2 DEF ChannelTypes
<1>4. ASSUME s \in DOMAIN chan PROVE RowMove(s)
  <2>1. CASE K!Exists(s, req[r].row.id)  BY <2>1
  <2>2. CASE ~K!Exists(s, req[r].row.id)
    <3>1. chan' = chan /\ wish' = wish  BY <1>2, <2>2
    <3> QED  BY <1>2, <1>4, <3>1, RowKeeps, Unoverwritten
  <2> QED  BY <2>1, <2>2
<1>5. \A q \in DOMAIN req' : q \in DOMAIN req /\ req'[q] = req[q]  BY RequestEnds
<1>6. /\ \A t \in DOMAIN page' : t \in DOMAIN page /\ page'[t] = page[t]
      /\ granted' = granted /\ ops' \in {ops, ops + 1}
  OBVIOUS
<1> QED  BY <1>1, <1>2, <1>3, <1>4, <1>5, <1>6, RowMoves

\* A step of the wizard: continue, skip, complete.
LEMMA DoStepKeeps ==
  ASSUME ChannelInv, NEW r, NEW s \in Slugs, s = req[r].slug, K!DoStep(r) PROVE ChannelInv'
<1> DEFINE old == req[r].row
<1>0. r \in DOMAIN req /\ K!End(r) /\ UNCHANGED <<page, flows, granted, profiles, ops, wish>>
  BY DEF K!DoStep
<1>1. WellFormed(req[r]) /\ old \in ChannelRows /\ old.config \in Configs /\ <<Zernio(old.config), s>> \in Profiled
  BY <1>0, RequestFacts DEF WellFormed
<1>2. PICK new : /\ K!Commit(r, new)
                 /\ \/ req[r].kind = "continue" /\ new = K!Continued(old, req[r].arg)
                    \/ req[r].kind = "skip" /\ new = K!Skipped(old, req[r].arg)
                    \/ req[r].kind = "complete" /\ new = K!Completed(old)
  BY DEF K!DoStep
<1>3. /\ new \in ChannelRows /\ new.id = old.id /\ new.google = old.google /\ new.composio = old.composio
      /\ req[r].kind # "skip" => new.config = old.config
      /\ new.config.provider = old.config.provider /\ new.config.accounts = old.config.accounts
  <2>1. CASE req[r].kind = "continue" /\ new = K!Continued(old, req[r].arg)
    <3>1. req[r].arg \in K!Platforms  BY <1>1, <2>1 DEF WellFormed
    <3>2. K!After[req[r].arg] \in K!Steps  BY <3>1 DEF K!After, K!Platforms, K!Steps
    <3> QED  BY <1>1, <2>1, <3>2 DEF K!Continued, ChannelRows
  <2>2. CASE req[r].kind = "skip" /\ new = K!Skipped(old, req[r].arg)
    <3>1. req[r].arg \in K!Platforms  BY <1>1, <2>2 DEF WellFormed
    <3>2. K!After[req[r].arg] \in K!Steps  BY <3>1 DEF K!After, K!Platforms, K!Steps
    <3> DEFINE left == (IF old.config.enabled = {} THEN K!Platforms ELSE old.config.enabled) \ {req[r].arg}
               config == [old.config EXCEPT !.enabled = left]
    <3>3. left \subseteq K!Platforms  BY <1>1, ConfigFields
    <3>4. config \in Configs /\ config.provider = old.config.provider /\ config.accounts = old.config.accounts
      <4> HIDE DEF left
      <4> QED  BY <1>1, <3>3 DEF Configs
    <3>5. /\ new = [old EXCEPT !.step = K!After[req[r].arg], !.tiktok = @ /\ req[r].arg # "tiktok", !.config = config]
      <4> HIDE DEF left
      <4>1. new = [old EXCEPT !.step = K!After[req[r].arg], !.tiktok = @ /\ req[r].arg # "tiktok",
                              !.config.enabled = left]
        BY <1>1, <2>2 DEF K!Skipped, left, ChannelRows, Configs
      <4> QED  BY <1>1, <4>1 DEF ChannelRows
    <3> HIDE DEF config
    <3> QED  BY <1>1, <2>2, <3>2, <3>4, <3>5 DEF ChannelRows
  <2>3. CASE req[r].kind = "complete" /\ new = K!Completed(old)
    BY <1>1, <2>3 DEF K!Completed, ChannelRows, K!Steps
  <2> QED  BY <1>2, <2>1, <2>2, <2>3
<1>4. ASSUME K!Exists(s, old.id) PROVE RowMove(s)
  <2>1. s \in DOMAIN chan /\ wish' = wish  BY <1>0, <1>4 DEF K!Exists
  <2>2. /\ overwritten => overwritten'
        /\ WritesBack(chan[s], old, new, chan'[s])
        /\ req[r].kind = "skip" /\ ~overwritten' => chan[s].config = old.config
    BY <1>0, <1>2, <1>3, <1>4, CommitEffect DEF ChannelInv
  <2>3. /\ chan'[s] \in ChannelRows /\ chan'[s].id = chan[s].id /\ chan'[s].google = chan[s].google
        /\ chan'[s].composio = chan[s].composio
        /\ chan'[s].config = chan[s].config \/ (req[r].kind = "skip" /\ chan'[s].config = new.config)
    BY <1>3, <2>2 DEF WritesBack
  <2>4. <<Zernio(chan'[s].config), s>> \in Profiled
    BY <1>1, <1>3, <2>1, <2>3, Unoverwritten DEF Zernio
  <2>5. ~overwritten' => /\ chan'[s].config.provider = chan[s].config.provider
                        /\ chan'[s].config.accounts = chan[s].config.accounts
    BY <1>3, <2>2, <2>3
  <2> HIDE DEF old
  <2> QED  BY <2>1, <2>2, <2>3, <2>4, <2>5, RowKeeps
<1> QED  BY <1>0, <1>2, <1>3, <1>4, CommitKeeps

\* The step of YouTube with a token: the channel has a Google account again.
LEMMA DoStepWithTokenKeeps ==
  ASSUME ChannelInv, NEW r, NEW s \in Slugs, s = req[r].slug, K!DoStepWithToken(r) PROVE ChannelInv'
<1> DEFINE old == req[r].row
           new == K!Continued(old, "youtube")
           cols == K!Columns(s, old, new)
<1>0. /\ r \in DOMAIN req /\ K!End(r) /\ UNCHANGED <<page, flows, granted, profiles, ops, overwritten>>
      /\ \A q \in DOMAIN req' : q \in DOMAIN req /\ req'[q] = req[q]
  BY RequestEnds DEF K!DoStepWithToken
<1>1. CASE ~K!Exists(s, old.id)
  <2>1. UNCHANGED <<chan, wish>>  BY <1>1 DEF K!DoStepWithToken
  <2> QED  BY <1>0, <2>1, RowsStay
<1>2. CASE K!Exists(s, old.id)
  <2>1. /\ s \in DOMAIN chan /\ s \in DOMAIN wish /\ DOMAIN wish = DOMAIN chan
        /\ chan[s] \in ChannelRows /\ wish[s] \in Wanted /\ chan[s].id = old.id
    BY <1>2, Unoverwritten DEF K!Exists, ChannelInv, ChannelTypes
  <2>2. old \in ChannelRows  BY <1>0, RequestFacts DEF WellFormed
  <2>3. new \in ChannelRows /\ new.id = old.id /\ new.composio = old.composio /\ new.config = old.config
    BY <2>2 DEF K!Continued, ChannelRows, K!After, K!Steps
  <2>4. chan' = [chan EXCEPT ![s] = [cols EXCEPT !.google = TRUE]] /\ wish' = [wish EXCEPT ![s].google = TRUE]
    BY <1>2 DEF K!DoStepWithToken
  <2> HIDE DEF new, cols
  <2>5. cols \in ChannelRows /\ cols.id = chan[s].id /\ cols.composio = chan[s].composio /\ cols.config = chan[s].config
    BY <2>1, <2>2, <2>3, ColumnsWriteBack DEF WritesBack, cols
  <2>6. /\ DOMAIN chan' = DOMAIN chan /\ \A t \in DOMAIN chan : t # s => chan'[t] = chan[t]
        /\ chan'[s] \in ChannelRows /\ chan'[s].id = chan[s].id /\ chan'[s].google = TRUE
        /\ chan'[s].composio = chan[s].composio /\ chan'[s].config = chan[s].config
    BY <2>1, <2>4, <2>5 DEF ChannelRows
  <2>7. GoogleWritten(s, TRUE)  BY <2>1, <2>4, <2>6 DEF GoogleWritten
  <2> QED  BY <1>0, <2>1, <2>7, GoogleKeeps
<1> QED  BY <1>1, <1>2

\* The provider chosen is written, and is the one wanted.
LEMMA SetProviderKeeps ==
  ASSUME ChannelInv, NEW r, NEW s \in Slugs, s = req[r].slug, K!SetProvider(r) PROVE ChannelInv'
<1> DEFINE old == req[r].row
           p == req[r].arg
           config == [old.config EXCEPT !.provider = p]
           new == [old EXCEPT !.config.provider = p]
<1>0. /\ r \in DOMAIN req /\ K!End(r) /\ K!Commit(r, new) /\ req[r].kind = "provider"
      /\ UNCHANGED <<page, flows, granted, profiles, ops>>
      /\ K!Wishes(r, [wish[s] EXCEPT !.provider = p])
  BY DEF K!SetProvider
<1>1. /\ WellFormed(req[r]) /\ old \in ChannelRows /\ old.config \in Configs /\ <<Zernio(old.config), s>> \in Profiled
      /\ p \in K!Providers
  BY <1>0, RequestFacts DEF WellFormed
<1>2. config \in Configs /\ config.provider = p /\ config.accounts = old.config.accounts
  BY <1>1 DEF Configs
<1>3. /\ new \in ChannelRows /\ new.id = old.id /\ new.google = old.google /\ new.composio = old.composio
      /\ new.config = config
  BY <1>1, <1>2 DEF ChannelRows
<1> HIDE DEF new, config
<1>4. /\ DOMAIN wish' = DOMAIN wish /\ \A t \in DOMAIN wish : t # s => wish'[t] = wish[t]
      /\ ~K!Exists(s, old.id) => wish' = wish
  BY <1>0 DEF K!Wishes
<1>5. ASSUME K!Exists(s, old.id) PROVE RowMove(s)
  <2>1. s \in DOMAIN chan /\ s \in DOMAIN wish /\ wish[s] \in Wanted
    BY <1>5, Unoverwritten DEF K!Exists, ChannelInv, ChannelTypes
  <2>2. /\ overwritten => overwritten'
        /\ WritesBack(chan[s], old, new, chan'[s])
        /\ ~overwritten' => chan[s].config = old.config
    BY <1>0, <1>3, <1>5, CommitEffect DEF ChannelInv
  <2>3. /\ chan'[s] \in ChannelRows /\ chan'[s].id = chan[s].id /\ chan'[s].google = chan[s].google
        /\ chan'[s].composio = chan[s].composio
        /\ chan'[s].config \in {chan[s].config, config}
        /\ ~overwritten' => chan'[s].config = config
    BY <1>3, <2>2 DEF WritesBack
  <2>4. <<Zernio(chan'[s].config), s>> \in Given(s)
    BY <1>1, <1>2, <2>1, <2>3, Unoverwritten DEF Zernio, Given
  <2>5. /\ wish'[s] = [wish[s] EXCEPT !.provider = p] /\ wish'[s] \in Wanted /\ wish'[s].provider = p
        /\ wish'[s].google = wish[s].google /\ wish'[s].linked = wish[s].linked
    BY <1>0, <1>1, <1>5, <2>1 DEF K!Wishes, Wanted
  <2>6. ASSUME ~overwritten' PROVE Honoured(s)'
    <3>1. Honoured(s) /\ \A v \in K!Providers : K!Linked(chan'[s], v) = K!Linked(chan[s], v)
      BY <1>2, <2>1, <2>2, <2>3, <2>6, Unoverwritten DEF K!Linked
    <3>2. /\ chan'[s].config.provider = wish'[s].provider /\ chan'[s].google = wish'[s].google
          /\ \A v \in K!Providers : /\ v \in wish'[s].linked => K!Linked(chan'[s], v) # {}
                                   /\ \A a \in K!Linked(chan'[s], v) : a.by = v /\ a.slug = s
      BY <1>2, <2>3, <2>5, <2>6, <3>1 DEF Honoured
    <3> QED  BY <3>2 DEF Honoured, K!Linked
  <2>7. ~overwritten' => Zernio(chan'[s].config) = Zernio(chan[s].config)
    BY <1>2, <2>2, <2>3 DEF Zernio
  <2> HIDE DEF old, p
  <2> QED  BY <2>2, <2>3, <2>4, <2>5, <2>6, <2>7 DEF RowMove
<1> QED  BY <1>0, <1>3, <1>4, <1>5, CommitKeeps

\* A flow is opened at the provider read, with the profile of the channel at Zernio,
\* made now if it had none.
LEMMA ConnectKeeps ==
  ASSUME ChannelInv, NEW r, NEW s \in Slugs, s = req[r].slug, K!Connect(r) PROVE ChannelInv'
<1> DEFINE old == req[r].row
           p == old.config.provider
           known == Zernio(old.config)
           flow(m) == [by |-> p, slug |-> s, id |-> old.id, profile |-> m]
           n == IF known = 0 THEN profiles + 1 ELSE known
           accounts == [old.config.accounts EXCEPT !["zernio"] = [@ EXCEPT !.profile = n]]
           config == [old.config EXCEPT !.accounts = accounts]
           new == [old EXCEPT !.config.accounts.zernio.profile = n]
<1>0. /\ r \in DOMAIN req /\ K!End(r) /\ req[r].kind = "connect" /\ UNCHANGED <<page, granted, ops, wish>>
      /\ \/ /\ p = "zernio" /\ K!Commit(r, new)
            /\ profiles' = IF known = 0 THEN n ELSE profiles
            /\ flows' = IF K!Exists(s, old.id) \/ n = known THEN flows \cup {flow(n)} ELSE flows
         \/ p # "zernio" /\ flows' = flows \cup {flow(0)} /\ UNCHANGED <<chan, overwritten, profiles>>
  BY DEF K!Connect, Zernio
<1>1. /\ old \in ChannelRows /\ old.config \in Configs /\ <<known, s>> \in Profiled
      /\ <<old.id, s>> \in Named /\ p \in K!Providers /\ known \in Nat /\ old.id \in Nat /\ profiles \in Nat
  BY <1>0, RequestFacts, ConfigFields DEF WellFormed, ChannelRows, ChannelInv, ChannelTypes
<1>2. \A q \in DOMAIN req' : req'[q].kind = "create" => req'[q].row.id # old.id
  <2>1. \A q \in DOMAIN req' : q \in DOMAIN req /\ q # r /\ req'[q] = req[q]  BY <1>0, RequestEnds
  <2> QED  BY <1>0, <2>1 DEF ChannelInv, RequestsKnow, InsertsNew
<1>3. \A q \in DOMAIN req' : q \in DOMAIN req /\ req'[q] = req[q]  BY <1>0, RequestEnds
<1>4. CASE p # "zernio"
  <2>1. /\ flows' = flows \cup {flow(0)} /\ chan' = chan /\ overwritten' = overwritten /\ profiles' = profiles
        /\ wish' = wish /\ page' = page /\ granted' = granted /\ ops' = ops
    BY <1>0, <1>4
  <2>2. OpenedFor(flow(0), s)  BY <1>1, <1>2, <1>4 DEF OpenedFor, Accounts
  <2>3. s \in DOMAIN chan => RowMove(s)  BY <2>1, RowKeeps, Unoverwritten
  <2>4. DOMAIN wish' = DOMAIN chan /\ overwritten' \in BOOLEAN  BY <2>1 DEF ChannelInv, ChannelTypes
  <2>5. \A f \in flows' : f \in flows \/ OpenedFor(f, s)  BY <2>1, <2>2
  <2> HIDE DEF flow, old
  <2> QED  BY <1>3, <2>1, <2>3, <2>4, <2>5, RowMoves
<1>5. CASE p = "zernio"
  <2>1. n \in Nat /\ n # 0 /\ <<n, s>> \in Given(s) /\ profiles' \in {profiles, profiles + 1}
    BY <1>0, <1>1, <1>5 DEF Given
  <2>2. /\ config \in Configs /\ Zernio(config) = n /\ config.provider = old.config.provider
        /\ \A v \in K!Providers : config.accounts[v].account = old.config.accounts[v].account
    <3> HIDE DEF n
    <3>1. "zernio" \in K!Providers /\ old.config.accounts \in [K!Providers -> [account : SUBSET Accounts, profile : Nat]]
      BY <1>1 DEF K!Providers, Configs
    <3>2. /\ accounts \in [K!Providers -> [account : SUBSET Accounts, profile : Nat]]
          /\ accounts["zernio"].profile = n
          /\ \A v \in K!Providers : accounts[v].account = old.config.accounts[v].account
      BY <2>1, <3>1
    <3> HIDE DEF accounts
    <3> QED  BY <1>1, <3>2 DEF Configs, Zernio
  <2>3. /\ new \in ChannelRows /\ new.id = old.id /\ new.google = old.google /\ new.composio = old.composio
        /\ new.config = config
    <3> HIDE DEF n
    <3>1. new = [old EXCEPT !.config = config]  BY <1>1 DEF ChannelRows, Configs
    <3> HIDE DEF new, config
    <3> QED  BY <1>1, <2>2, <3>1 DEF ChannelRows
  <2>4. K!Commit(r, new)  BY <1>0, <1>5
  <2> HIDE DEF new, config
  <2>5. ASSUME K!Exists(s, old.id)
        PROVE  RowMove(s) /\ (~overwritten' => Zernio(chan'[s].config) # 0)
    <3>1. s \in DOMAIN chan /\ wish' = wish  BY <1>0, <2>5 DEF K!Exists
    <3>2. /\ overwritten => overwritten'
          /\ WritesBack(chan[s], old, new, chan'[s])
          /\ ~overwritten' => chan[s].config = old.config
      BY <1>0, <2>3, <2>4, <2>5, CommitEffect DEF ChannelInv
    <3>3. /\ chan'[s] \in ChannelRows /\ chan'[s].id = chan[s].id /\ chan'[s].google = chan[s].google
          /\ chan'[s].composio = chan[s].composio
          /\ chan'[s].config \in {chan[s].config, config}
          /\ ~overwritten' => chan'[s].config = config
      BY <2>3, <3>2 DEF WritesBack
    <3>4. <<Zernio(chan'[s].config), s>> \in Given(s)
      BY <2>1, <2>2, <3>1, <3>3, Unoverwritten DEF Given
    <3>5. ASSUME ~overwritten' PROVE Honoured(s)'
      <4>1. Honoured(s) /\ \A v \in K!Providers : K!Linked(chan'[s], v) = K!Linked(chan[s], v)
        BY <2>2, <3>1, <3>2, <3>3, <3>5, Unoverwritten DEF K!Linked
      <4>2. /\ chan'[s].config.provider = wish'[s].provider /\ chan'[s].google = wish'[s].google
            /\ \A v \in K!Providers : /\ v \in wish'[s].linked => K!Linked(chan'[s], v) # {}
                                     /\ \A a \in K!Linked(chan'[s], v) : a.by = v /\ a.slug = s
        BY <2>2, <3>1, <3>2, <3>3, <3>5, <4>1 DEF Honoured
      <4> QED  BY <4>2 DEF Honoured, K!Linked
    <3>6. ~overwritten' => Zernio(chan'[s].config) # 0  BY <2>1, <2>2, <3>3
    <3>7. wish'[s] \in Wanted  BY <3>1, Unoverwritten
    <3> HIDE DEF old, n
    <3> QED  BY <3>2, <3>3, <3>4, <3>5, <3>6, <3>7 DEF RowMove
  <2>6. \A f \in flows' : f \in flows \/ OpenedFor(f, s)
    <3>1. OpenedFor(flow(n), s)
      <4> HIDE DEF n
      <4> QED  BY <1>1, <1>2, <2>1, <2>5 DEF OpenedFor, Accounts
    <3> HIDE DEF n, flow
    <3> QED  BY <1>0, <1>5, <3>1
  <2>7. wish' = wish /\ page' = page /\ granted' = granted /\ ops' = ops  BY <1>0
  <2> HIDE DEF n, flow
  <2> QED  BY <1>0, <2>1, <2>3, <2>4, <2>5, <2>6, <2>7, CommitKeeps
<1> QED  BY <1>4, <1>5

\* The account that a finished connection finds is of the channel's slug.
LEMMA FoundIsOwn ==
  ASSUME ChannelInv, NEW r \in DOMAIN req, req[r].kind = "finish", ~overwritten,
         NEW a \in K!Found(req[r].arg, Zernio(req[r].row.config))
  PROVE  a.slug = req[r].slug
<1> DEFINE f == req[r].arg
           known == Zernio(req[r].row.config)
<1>1. /\ f.by \in K!Providers /\ f.slug = req[r].slug /\ f.id = req[r].row.id /\ (f.by = "zernio" => known # 0)
      /\ <<known, req[r].slug>> \in Profiled /\ <<req[r].row.id, req[r].slug>> \in Named
  BY RequestFacts DEF Finishes
<1>2. a \in granted /\ a.by = f.by  BY DEF K!Found
<1>3. CASE f.by = "composio"  BY <1>1, <1>3 DEF K!Found
<1>4. CASE f.by = "postforme"
  <2>1. a.id = req[r].row.id  BY <1>1, <1>4 DEF K!Found
  <2>2. <<a.id, a.slug>> \in Named  BY <1>2 DEF Named
  <2>3. \A x, y \in Named : x[1] = y[1] => x[2] = y[2]  BY DEF ChannelInv, ChannelIds, OfOneSlug
  <2> HIDE DEF Named
  <2> QED  BY <1>1, <2>1, <2>2, <2>3
<1>5. CASE f.by = "zernio"
  <2>1. a = f \/ a.profile = known  BY <1>1, <1>5 DEF K!Found
  <2>2. a.profile # 0 /\ <<a.profile, a.slug>> \in Profiled
    BY <1>2, <1>5 DEF Profiled, ChannelInv, ChannelProfiles
  <2>3. \A x, y \in Profiled : x[1] # 0 /\ x[1] = y[1] => x[2] = y[2]
    BY DEF ChannelInv, ChannelProfiles, OfOneSlug
  <2> HIDE DEF Profiled
  <2> QED  BY <1>1, <2>1, <2>2, <2>3
<1> QED  BY <1>1, <1>3, <1>4, <1>5 DEF K!Providers

\* The connection is finished: an account of the provider of the flow is written.
LEMMA FinishKeeps ==
  ASSUME ChannelInv, NEW r, NEW s \in Slugs, s = req[r].slug, K!Finish(r) PROVE ChannelInv'
<1> DEFINE old == req[r].row
           f == req[r].arg
           p == f.by
<1>0. r \in DOMAIN req /\ K!End(r) /\ req[r].kind = "finish" /\ UNCHANGED <<page, flows, granted, profiles, ops>>
  BY DEF K!Finish
<1>1. /\ old \in ChannelRows /\ old.config \in Configs /\ <<Zernio(old.config), s>> \in Profiled
      /\ p \in K!Providers /\ Remembers(r)
  BY <1>0, RequestFacts DEF WellFormed, Finishes
<1>2. PICK a \in K!Found(f, Zernio(old.config)) :
        /\ \/ K!Commit(r, [old EXCEPT !.composio = IF p = "composio" THEN {a} ELSE @,
                                     !.config = K!WithAccount(@, p, a)])
           \/ /\ p = "composio" /\ UNCHANGED overwritten
              /\ chan' = IF K!Exists(s, old.id) THEN [chan EXCEPT ![s].composio = {a}] ELSE chan
        /\ K!Wishes(r, [wish[s] EXCEPT !.linked = @ \cup {p}])
  BY DEF K!Finish, K!StoredUnder, Zernio
<1>3. a \in Accounts /\ a.by = p /\ (~overwritten => a.slug = s)
  BY <1>0, FoundIsOwn DEF K!Found, ChannelInv, ChannelTypes
<1>4. /\ DOMAIN wish' = DOMAIN wish /\ \A t \in DOMAIN wish : t # s => wish'[t] = wish[t]
      /\ ~K!Exists(s, old.id) => wish' = wish
  BY <1>2 DEF K!Wishes
<1>5. ASSUME K!Exists(s, old.id)
      PROVE  /\ s \in DOMAIN chan /\ wish[s] \in Wanted
             /\ wish'[s] \in Wanted /\ wish'[s].provider = wish[s].provider /\ wish'[s].google = wish[s].google
             /\ wish'[s].linked = wish[s].linked \cup {p}
  <2>1. s \in DOMAIN chan /\ s \in DOMAIN wish /\ wish[s] \in Wanted
    BY <1>5, Unoverwritten DEF K!Exists, ChannelInv, ChannelTypes
  <2>2. wish'[s] = [wish[s] EXCEPT !.linked = @ \cup {p}]  BY <1>2, <1>5, <2>1 DEF K!Wishes
  <2> QED  BY <1>1, <2>1, <2>2 DEF Wanted
\* What is to be shown of the row, once the accounts to which it publishes are known.
<1>6. ASSUME K!Exists(s, old.id), chan'[s] \in ChannelRows, chan'[s].id = chan[s].id,
             chan'[s].google = chan[s].google, chan[s].composio # {} => chan'[s].composio # {},
             <<Zernio(chan'[s].config), s>> \in Profiled, overwritten => overwritten',
             ~overwritten' => /\ Zernio(chan'[s].config) = Zernio(chan[s].config)
                             /\ chan'[s].config.provider = chan[s].config.provider
                             /\ K!Linked(chan'[s], p) \in {{a}, K!Linked(chan[s], p)} \ {{}}
                             /\ \A v \in K!Providers \ {p} : K!Linked(chan'[s], v) = K!Linked(chan[s], v)
      PROVE  RowMove(s)
  <2>1. ASSUME ~overwritten' PROVE Honoured(s)'
    <3>1. Honoured(s)  BY <1>5, <1>6, <2>1, Unoverwritten
    <3>2. \A v \in K!Providers : /\ v \in wish'[s].linked => K!Linked(chan'[s], v) # {}
                                /\ \A b \in K!Linked(chan'[s], v) : b.by = v /\ b.slug = s
      <4> TAKE v \in K!Providers
      <4>1. CASE v = p  BY <1>3, <1>6, <2>1, <3>1, <4>1 DEF Honoured
      <4>2. CASE v # p  BY <1>5, <1>6, <2>1, <3>1, <4>2 DEF Honoured
      <4> QED  BY <4>1, <4>2
    <3>3. chan'[s].config.provider = wish'[s].provider /\ chan'[s].google = wish'[s].google
      BY <1>5, <1>6, <2>1, <3>1 DEF Honoured
    <3> QED  BY <3>2, <3>3 DEF Honoured, K!Linked
  <2>2. <<Zernio(chan'[s].config), s>> \in Given(s)  BY <1>6 DEF Given
  <2> QED  BY <1>5, <1>6, <2>1, <2>2 DEF RowMove
<1>7. CASE K!Commit(r, [old EXCEPT !.composio = IF p = "composio" THEN {a} ELSE @,
                                   !.config = K!WithAccount(@, p, a)])
  <2> DEFINE config == K!WithAccount(old.config, p, a)
             composio == IF p = "composio" THEN {a} ELSE old.composio
             new == [old EXCEPT !.composio = IF p = "composio" THEN {a} ELSE @, !.config = K!WithAccount(@, p, a)]
  <2>1. /\ config \in Configs /\ Zernio(config) = Zernio(old.config) /\ config.provider = old.config.provider
        /\ config.accounts[p].account = {a}
        /\ \A v \in K!Providers \ {p} : config.accounts[v].account = old.config.accounts[v].account
    <3> DEFINE accounts == [old.config.accounts EXCEPT ![p] = [@ EXCEPT !.account = {a}]]
    <3>1. "zernio" \in K!Providers /\ old.config.accounts \in [K!Providers -> [account : SUBSET Accounts, profile : Nat]]
      BY <1>1 DEF K!Providers, Configs
    <3>2. /\ accounts \in [K!Providers -> [account : SUBSET Accounts, profile : Nat]]
          /\ accounts["zernio"].profile = old.config.accounts["zernio"].profile
          /\ accounts[p].account = {a}
          /\ \A v \in K!Providers \ {p} : accounts[v].account = old.config.accounts[v].account
      BY <1>1, <1>3, <3>1
    <3>3. config = [old.config EXCEPT !.accounts = accounts]  BY <1>1 DEF K!WithAccount, Configs
    <3> HIDE DEF accounts, config
    <3> QED  BY <1>1, <3>2, <3>3 DEF Configs, Zernio
  <2>2. /\ new \in ChannelRows /\ new.id = old.id /\ new.google = old.google /\ new.composio = composio
        /\ new.config = config
    <3>1. composio \subseteq Accounts  BY <1>1, <1>3 DEF ChannelRows
    <3>2. new = [old EXCEPT !.composio = composio, !.config = config]  BY <1>1 DEF ChannelRows
    <3> HIDE DEF new, composio, config
    <3> QED  BY <1>1, <2>1, <3>1, <3>2 DEF ChannelRows
  <2>3. K!Commit(r, new)  BY <1>7
  <2> HIDE DEF new, config
  <2>4. ASSUME K!Exists(s, old.id) PROVE RowMove(s)
    <3>1. s \in DOMAIN chan  BY <2>4 DEF K!Exists
    <3>2. /\ overwritten => overwritten'
          /\ WritesBack(chan[s], old, new, chan'[s])
          /\ ~overwritten' => chan[s].config = old.config
      BY <1>0, <2>2, <2>3, <2>4, CommitEffect DEF ChannelInv
    <3>3. /\ chan'[s] \in ChannelRows /\ chan'[s].id = chan[s].id /\ chan'[s].google = chan[s].google
          /\ chan'[s].composio = (IF composio = old.composio THEN chan[s].composio ELSE composio)
          /\ chan'[s].config \in {chan[s].config, config}
          /\ ~overwritten' => chan'[s].config = config
      BY <2>2, <3>2 DEF WritesBack
    <3>4. <<Zernio(chan'[s].config), s>> \in Profiled
      BY <1>1, <2>1, <3>1, <3>3, Unoverwritten
    <3>5. chan[s].composio # {} => chan'[s].composio # {}  BY <3>3
    <3>6. ASSUME ~overwritten'
          PROVE  /\ K!Linked(chan'[s], p) \in {{a}, K!Linked(chan[s], p)} \ {{}}
                 /\ \A v \in K!Providers \ {p} : K!Linked(chan'[s], v) = K!Linked(chan[s], v)
      <4>1. chan[s].config = old.config /\ chan'[s].config = config  BY <3>2, <3>3, <3>6
      <4>2. CASE p = "composio"
        <5>1. chan'[s].composio = {a} \/ (chan'[s].composio = chan[s].composio /\ old.composio # {})
          BY <3>3, <4>2
        <5>2. old.composio # {} => chan[s].composio # {}  BY <1>1, <2>4 DEF Remembers
        <5> QED  BY <2>1, <4>1, <4>2, <5>1, <5>2 DEF K!Linked
      <4>3. CASE p # "composio"
        <5>1. chan'[s].composio = chan[s].composio  BY <3>3, <4>3
        <5> QED  BY <2>1, <4>1, <4>3, <5>1 DEF K!Linked
      <4> QED  BY <4>2, <4>3
    <3>7. ~overwritten' => /\ Zernio(chan'[s].config) = Zernio(chan[s].config)
                          /\ chan'[s].config.provider = chan[s].config.provider
      BY <2>1, <3>2, <3>3
    <3> HIDE DEF old, composio, f, p
    <3> QED  BY <2>4, <3>2, <3>3, <3>4, <3>5, <3>6, <3>7, <1>6
  <2>5. \A g \in flows' : g \in flows \/ OpenedFor(g, s)  BY <1>0
  <2>6. profiles' \in {profiles, profiles + 1}  BY <1>0
  <2> QED  BY <1>0, <1>4, <2>2, <2>3, <2>4, <2>5, <2>6, CommitKeeps
<1>8. CASE /\ p = "composio" /\ UNCHANGED overwritten
           /\ chan' = IF K!Exists(s, old.id) THEN [chan EXCEPT ![s].composio = {a}] ELSE chan
  <2>1. CASE K!Exists(s, old.id)
    <3>1. s \in DOMAIN chan /\ chan[s] \in ChannelRows  BY <1>5, <2>1, Unoverwritten
    <3>2. /\ DOMAIN chan' = DOMAIN chan /\ \A t \in DOMAIN chan : t # s => chan'[t] = chan[t]
          /\ chan'[s] \in ChannelRows /\ chan'[s].id = chan[s].id /\ chan'[s].google = chan[s].google
          /\ chan'[s].composio = {a} /\ chan'[s].config = chan[s].config
      BY <1>3, <1>8, <2>1, <3>1 DEF ChannelRows
    <3>3. /\ K!Linked(chan'[s], p) \in {{a}, K!Linked(chan[s], p)} \ {{}}
          /\ \A v \in K!Providers \ {p} : K!Linked(chan'[s], v) = K!Linked(chan[s], v)
      BY <1>8, <3>2 DEF K!Linked
    <3>4. RowMove(s)  BY <1>6, <1>8, <2>1, <3>1, <3>2, <3>3, Unoverwritten
    <3>5. /\ DOMAIN wish' = DOMAIN chan
          /\ \A t \in DOMAIN chan : t # s => chan'[t] = chan[t] /\ wish'[t] = wish[t]
      BY <1>4, <3>2 DEF ChannelInv, ChannelTypes
    <3>6. \A q \in DOMAIN req' : q \in DOMAIN req /\ req'[q] = req[q]  BY <1>0, RequestEnds
    <3>7. overwritten' \in BOOLEAN /\ overwritten' = overwritten  BY <1>8 DEF ChannelInv, ChannelTypes
    <3> QED  BY <1>0, <3>2, <3>4, <3>5, <3>6, <3>7, RowMoves
  <2>2. CASE ~K!Exists(s, old.id)
    <3>1. chan' = chan /\ wish' = wish /\ overwritten' = overwritten  BY <1>4, <1>8, <2>2
    <3>2. \A q \in DOMAIN req' : q \in DOMAIN req /\ req'[q] = req[q]  BY <1>0, RequestEnds
    <3> QED  BY <1>0, <3>1, <3>2, RowsStay
  <2> QED  BY <2>1, <2>2
<1> QED  BY <1>2, <1>7, <1>8

LEMMA FreshSettings ==
  ASSUME K!ChannelsAssumption
  PROVE  /\ K!Fresh \in Configs /\ Zernio(K!Fresh) = 0
         /\ K!Fresh.provider \in K!Providers
         /\ \A p \in K!Providers : K!Fresh.accounts[p].account = {}
<1>1. "zernio" \in K!Providers  BY DEF K!Providers
<1>2. K!Unlinked \in [account : SUBSET Accounts, profile : Nat] /\ K!Unlinked.account = {} /\ K!Unlinked.profile = 0
  BY DEF K!Unlinked
<1>3. [p \in K!Providers |-> K!Unlinked] \in [K!Providers -> [account : SUBSET Accounts, profile : Nat]]
  BY <1>2
<1> QED  BY <1>1, <1>2, <1>3 DEF K!ChannelsAssumption, K!Fresh, Configs, Zernio

\* A creation has looked at the quota and the slug: its row has a number of its own.
LEMMA AskCreateKeeps ==
  ASSUME K!ChannelsAssumption, ChannelInv, NEW r, NEW s \in Slugs, NEW guided \in BOOLEAN, K!AskCreate(r, s, guided)
  PROVE  ChannelInv'
<1>1. PICK new : /\ new \in ChannelRows /\ new.id = ops + 1 /\ new.config = K!Fresh /\ new.composio = {} /\ ~new.google
                 /\ req' = K!With(req, r, [kind |-> "create", slug |-> s, row |-> new, arg |-> "none"])
  <2>1. PICK tiktok, youtube \in BOOLEAN :
          LET new == [id |-> ops + 1, step |-> IF guided THEN "brand" ELSE "complete", active |-> ~guided,
                      youtube |-> youtube, google |-> FALSE, instagram |-> FALSE, tiktok |-> tiktok,
                      composio |-> {}, used |-> FALSE, config |-> K!Fresh]
          IN  req' = K!With(req, r, [kind |-> "create", slug |-> s, row |-> new, arg |-> "none"])
    BY DEF K!AskCreate
  <2> DEFINE new == [id |-> ops + 1, step |-> IF guided THEN "brand" ELSE "complete", active |-> ~guided,
                     youtube |-> youtube, google |-> FALSE, instagram |-> FALSE, tiktok |-> tiktok,
                     composio |-> {}, used |-> FALSE, config |-> K!Fresh]
  <2>2. ops + 1 \in Nat /\ (IF guided THEN "brand" ELSE "complete") \in K!Steps
    BY DEF K!Steps, ChannelInv, ChannelTypes
  <2>3. new \in ChannelRows  BY <2>2, FreshSettings DEF ChannelRows
  <2>4. new.id = ops + 1 /\ new.config = K!Fresh /\ new.composio = {} /\ ~new.google  OBVIOUS
  <2>5. req' = K!With(req, r, [kind |-> "create", slug |-> s, row |-> new, arg |-> "none"])  BY <2>1
  <2> HIDE DEF new
  <2> QED  BY <2>3, <2>4, <2>5
<1>2. /\ DOMAIN req' = DOMAIN req \cup {r} /\ r \notin DOMAIN req
      /\ req'[r] = [kind |-> "create", slug |-> s, row |-> new, arg |-> "none"]
      /\ \A q \in DOMAIN req : req'[q] = req[q]
  BY <1>1 DEF K!With, K!AskCreate
<1>3. ops' = ops + 1 /\ UNCHANGED <<chan, page, flows, granted, profiles, wish, overwritten>>
  BY DEF K!AskCreate, K!Op
<1>4. ChannelTypes /\ ops \in Nat  BY DEF ChannelInv, ChannelTypes
<1>5. ChannelTypes'
  <2>1. \A q \in DOMAIN req' : WellFormed(req'[q])  BY <1>1, <1>2, <1>4 DEF ChannelTypes, WellFormed
  <2> QED  BY <1>3, <1>4, <2>1 DEF ChannelTypes
<1>6. ChannelIds'
  <2>1. Named' \subseteq Named \cup {<<ops + 1, s>>}  BY <1>1, <1>2, <1>3 DEF Named
  <2>2. OfOneSlug(Named', ops')
    <3>1. \A x \in Named : x[1] \in Nat  BY <1>4, NumbersAreNat
    <3>2. OfOneSlug(Named, ops)  BY DEF ChannelInv, ChannelIds
    <3> HIDE DEF Named
    <3> QED  BY <1>3, <1>4, <2>1, <3>1, <3>2, SlugsKept
  <2> QED  BY <1>4, <2>1, <2>2 DEF ChannelInv, ChannelIds
<1>7. ChannelProfiles'
  <2>1. Profiled' \subseteq Profiled \cup {<<0, s>>}
    BY <1>1, <1>2, <1>3, FreshSettings DEF Profiled
  <2>2. OfOneSlug(Profiled, profiles)  BY DEF ChannelInv, ChannelProfiles
  <2>3. OfOneSlug(Profiled', profiles')
    <3> HIDE DEF Profiled
    <3> QED  BY <1>3, <2>1, <2>2 DEF OfOneSlug
  <2> QED  BY <1>3, <2>3 DEF ChannelInv, ChannelProfiles
<1>8. \A i, t : <<i, t>> \in Named => i # ops + 1
  <2>1. \A x \in Named : x[1] \in 1 .. ops  BY DEF ChannelInv, ChannelIds, OfOneSlug
  <2> HIDE DEF Named
  <2> QED  BY <1>4, <2>1
<1>9. RequestsKnow'
  <2>1. InsertsNew(r)'
    <3>1. \A t \in DOMAIN chan : chan[t].id # ops + 1
      <4>1. \A t \in DOMAIN chan : <<chan[t].id, t>> \in Named  BY DEF Named
      <4> HIDE DEF Named
      <4> QED  BY <1>8, <4>1
    <3>2. \A q \in DOMAIN req : req[q].row.id # ops + 1
      <4>1. \A q \in DOMAIN req : <<req[q].row.id, req[q].slug>> \in Named  BY DEF Named
      <4> HIDE DEF Named
      <4> QED  BY <1>8, <4>1
    <3>3. \A f \in flows : f.id # ops + 1
      <4>1. \A f \in flows : <<f.id, f.slug>> \in Named  BY DEF Named
      <4> HIDE DEF Named
      <4> QED  BY <1>8, <4>1
    <3> QED  BY <1>1, <1>2, <1>3, <3>1, <3>2, <3>3 DEF InsertsNew
  <2>2. ASSUME NEW q \in DOMAIN req, req[q].kind = "create" PROVE InsertsNew(q)'
    <3>1. InsertsNew(q)  BY <2>2 DEF ChannelInv, RequestsKnow
    <3>2. req[q].row.id # ops + 1
      <4>1. <<req[q].row.id, req[q].slug>> \in Named  BY DEF Named
      <4> HIDE DEF Named
      <4> QED  BY <1>8, <4>1
    <3> QED  BY <1>1, <1>2, <1>3, <2>2, <3>1, <3>2 DEF InsertsNew
  <2>3. ASSUME NEW q \in DOMAIN req, req[q].kind # "create" PROVE Remembers(q)'
    BY <1>2, <1>3, <2>3 DEF ChannelInv, RequestsKnow, Remembers, K!Exists
  <2>4. ASSUME NEW q \in DOMAIN req, req[q].kind = "finish" PROVE Finishes(q)'
    BY <1>2, <1>3, <2>4 DEF ChannelInv, RequestsKnow, Finishes
  <2> QED  BY <1>2, <2>1, <2>2, <2>3, <2>4 DEF RequestsKnow
<1>10. FlowsHaveProfiles'  BY <1>3 DEF ChannelInv, FlowsHaveProfiles, K!Exists
<1>11. AllHonoured'  BY <1>3 DEF ChannelInv, AllHonoured, Honoured, K!Linked
<1> QED  BY <1>5, <1>6, <1>7, <1>9, <1>10, <1>11 DEF ChannelInv

\* The row is inserted, unless its slug was taken in between.
LEMMA CreateKeeps ==
  ASSUME K!ChannelsAssumption, ChannelInv, NEW r, NEW s \in Slugs, s = req[r].slug, K!Create(r) PROVE ChannelInv'
<1>0. /\ r \in DOMAIN req /\ req[r].kind = "create"
      /\ UNCHANGED <<page, flows, granted, profiles, ops, overwritten>>
      /\ \A q \in DOMAIN req' : q \in DOMAIN req /\ q # r /\ req'[q] = req[q]
  BY RequestEnds DEF K!Create
<1>1. CASE s \in DOMAIN chan
  <2>1. UNCHANGED <<chan, wish>>  BY <1>1 DEF K!Create
  <2> QED  BY <1>0, <2>1, RowsStay
<1>2. CASE s \notin DOMAIN chan
  <2> DEFINE new == req[r].row
             wanted0 == [provider |-> K!Fresh.provider, linked |-> {}, google |-> FALSE]
  <2>1. InsertsNew(r) /\ new \in ChannelRows
    BY <1>0, RequestFacts DEF ChannelInv, RequestsKnow, WellFormed
  <2>2. chan' = K!With(chan, s, new) /\ wish' = K!With(wish, s, wanted0)
    BY <1>2 DEF K!Create, K!Fresh
  <2>3. ChannelTypes  BY DEF ChannelInv
  <2>4. /\ DOMAIN chan' = DOMAIN chan \cup {s} /\ DOMAIN wish' = DOMAIN chan \cup {s}
        /\ chan'[s] = new /\ wish'[s] = wanted0
        /\ \A t \in DOMAIN chan : chan'[t] = chan[t] /\ wish'[t] = wish[t]
    BY <1>2, <2>2, <2>3 DEF K!With, ChannelTypes
  <2>5. ChannelTypes'
    <3>1. wanted0 \in Wanted  BY FreshSettings DEF Wanted
    <3>2. \A t \in DOMAIN chan' : chan'[t] \in ChannelRows /\ wish'[t] \in Wanted
      BY <2>1, <2>3, <2>4, <3>1 DEF ChannelTypes
    <3>3. \A q \in DOMAIN req' : WellFormed(req'[q])  BY <1>0, <2>3 DEF ChannelTypes
    <3>4. DOMAIN chan' \subseteq Slugs /\ DOMAIN wish' = DOMAIN chan'  BY <2>3, <2>4 DEF ChannelTypes
    <3> QED  BY <1>0, <2>3, <3>2, <3>3, <3>4 DEF ChannelTypes
  <2>6. Named' \subseteq Named /\ Profiled' \subseteq Profiled
    <3>1. /\ \A t \in DOMAIN chan' : <<chan'[t].id, t>> \in Named
          /\ \A q \in DOMAIN req' : <<req'[q].row.id, req'[q].slug>> \in Named
      BY <1>0, <2>4 DEF Named
    <3>2. /\ \A t \in DOMAIN chan' : <<Zernio(chan'[t].config), t>> \in Profiled
          /\ \A q \in DOMAIN req' : <<Zernio(req'[q].row.config), req'[q].slug>> \in Profiled
      BY <1>0, <2>4 DEF Profiled
    <3>3. Named' \subseteq Named
      <4>1. \A x \in Named' : \/ \E t \in DOMAIN chan' : x = <<chan'[t].id, t>>
                              \/ \E q \in DOMAIN req' : x = <<req'[q].row.id, req'[q].slug>>
                              \/ x \in {<<f.id, f.slug>> : f \in flows \cup granted}
        BY <1>0 DEF Named
      <4>2. {<<f.id, f.slug>> : f \in flows \cup granted} \subseteq Named  BY DEF Named
      <4> HIDE DEF Named
      <4> QED  BY <3>1, <4>1, <4>2
    <3>4. Profiled' \subseteq Profiled
      <4> DEFINE rest == {<<Zernio(page[t]), t>> : t \in DOMAIN page}
                         \cup {<<f.profile, f.slug>> : f \in {g \in flows \cup granted : g.by = "zernio"}}
      <4>1. \A x \in Profiled' : \/ \E t \in DOMAIN chan' : x = <<Zernio(chan'[t].config), t>>
                                 \/ \E q \in DOMAIN req' : x = <<Zernio(req'[q].row.config), req'[q].slug>>
                                 \/ x \in rest
        BY <1>0 DEF Profiled
      <4>2. rest \subseteq Profiled  BY DEF Profiled
      <4> HIDE DEF Profiled, rest
      <4> QED  BY <3>2, <4>1, <4>2
    <3> QED  BY <3>3, <3>4
  <2>7. ChannelIds' /\ ChannelProfiles'
    BY <1>0, <2>6 DEF ChannelInv, ChannelIds, ChannelProfiles, OfOneSlug
  <2>8. RequestsKnow'
    <3> SUFFICES ASSUME NEW q \in DOMAIN req'
                 PROVE  /\ req'[q].kind = "create" => InsertsNew(q)'
                        /\ req'[q].kind # "create" => Remembers(q)'
                        /\ req'[q].kind = "finish" => Finishes(q)'
      BY DEF RequestsKnow
    <3>1. /\ q \in DOMAIN req /\ q # r /\ req'[q] = req[q]
          /\ req[q].kind = "create" => InsertsNew(q)
          /\ req[q].kind # "create" => Remembers(q)
          /\ req[q].kind = "finish" => Finishes(q)
      BY <1>0 DEF ChannelInv, RequestsKnow
    <3>2. req[q].row.id # new.id  BY <2>1, <3>1 DEF InsertsNew
    <3>3. ASSUME req[q].kind = "create" PROVE InsertsNew(q)'
      BY <1>0, <2>4, <3>1, <3>2, <3>3 DEF InsertsNew
    <3>4. ASSUME req[q].kind # "create" PROVE Remembers(q)'
      BY <2>4, <3>1, <3>2, <3>4 DEF Remembers, K!Exists
    <3>5. ASSUME req[q].kind = "finish" PROVE Finishes(q)'
      BY <1>0, <3>1, <3>5 DEF Finishes
    <3> QED  BY <3>1, <3>3, <3>4, <3>5
  <2>9. FlowsHaveProfiles'
    <3> SUFFICES ASSUME ~overwritten, NEW f \in flows, f.by = "zernio", K!Exists(f.slug, f.id)'
                 PROVE  Zernio(chan'[f.slug].config) # 0
      BY <1>0 DEF FlowsHaveProfiles
    <3>1. f.id # new.id  BY <2>1 DEF InsertsNew
    <3> QED  BY <2>4, <3>1 DEF ChannelInv, FlowsHaveProfiles, K!Exists
  <2>10. AllHonoured'
    <3> SUFFICES ASSUME ~overwritten, NEW t \in DOMAIN chan' PROVE Honoured(t)'
      BY <1>0 DEF AllHonoured
    <3>1. CASE t = s
      <4>1. new.config = K!Fresh /\ new.composio = {} /\ new.google = FALSE
        BY <2>1 DEF InsertsNew, ChannelRows
      <4>2. \A p \in K!Providers : K!Linked(chan'[s], p) = {}
        BY <2>4, <4>1, FreshSettings DEF K!Linked
      <4>3. /\ chan'[s].config.provider = wish'[s].provider /\ chan'[s].google = wish'[s].google
            /\ wish'[s].linked = {}
        <5>1. wanted0.provider = K!Fresh.provider /\ wanted0.google = FALSE /\ wanted0.linked = {}  OBVIOUS
        <5> HIDE DEF wanted0, new
        <5> QED  BY <2>4, <4>1, <5>1
      <4> QED  BY <3>1, <4>2, <4>3 DEF Honoured, K!Linked
    <3>2. CASE t # s
      <4>1. Honoured(t) /\ chan'[t] = chan[t] /\ wish'[t] = wish[t]
        BY <2>4, <3>2 DEF ChannelInv, AllHonoured
      <4> QED  BY <4>1 DEF Honoured, K!Linked
    <3> QED  BY <3>1, <3>2
  <2> QED  BY <2>5, <2>7, <2>8, <2>9, <2>10 DEF ChannelInv
<1> QED  BY <1>1, <1>2

\* The row goes, with what was asked of it and the page that shows it.
LEMMA DeleteKeeps ==
  ASSUME ChannelInv, NEW r, NEW s \in Slugs, s = req[r].slug, K!Delete(r) PROVE ChannelInv'
<1>0. /\ UNCHANGED <<flows, granted, profiles, ops, overwritten>>
      /\ \A q \in DOMAIN req' : q \in DOMAIN req /\ req'[q] = req[q]
  BY RequestEnds DEF K!Delete
<1>1. CASE UNCHANGED <<chan, wish, page>>  BY <1>0, <1>1, RowsStay
<1>2. CASE ~UNCHANGED <<chan, wish, page>>
  <2>1. ChannelTypes  BY DEF ChannelInv
  <2>2. /\ chan' = K!Restrict(chan, DOMAIN chan \ {s}) /\ wish' = K!Restrict(wish, DOMAIN wish \ {s})
        /\ page' = K!Restrict(page, DOMAIN page \ {s})
    BY <1>2 DEF K!Delete
  <2>3. /\ DOMAIN chan' = DOMAIN chan \ {s} /\ \A t \in DOMAIN chan' : chan'[t] = chan[t]
        /\ DOMAIN wish' = DOMAIN wish \ {s} /\ \A t \in DOMAIN wish' : wish'[t] = wish[t]
        /\ DOMAIN page' = DOMAIN page \ {s} /\ \A t \in DOMAIN page' : page'[t] = page[t]
    BY <2>2 DEF K!Restrict
  <2>4. ChannelTypes'  BY <1>0, <2>1, <2>3 DEF ChannelTypes
  <2>5. Named' \subseteq Named /\ Profiled' \subseteq Profiled
    BY <1>0, <2>3 DEF Named, Profiled
  <2>6. ChannelIds' /\ ChannelProfiles'
    BY <1>0, <2>5 DEF ChannelInv, ChannelIds, ChannelProfiles, OfOneSlug
  <2>7. RequestsKnow'
    BY <1>0, <2>3 DEF ChannelInv, RequestsKnow, InsertsNew, Remembers, Finishes, K!Exists
  <2>8. FlowsHaveProfiles'  BY <1>0, <2>3 DEF ChannelInv, FlowsHaveProfiles, K!Exists
  <2>9. AllHonoured'
    BY <1>0, <2>1, <2>3 DEF ChannelInv, AllHonoured, Honoured, K!Linked, ChannelTypes
  <2> QED  BY <2>4, <2>6, <2>7, <2>8, <2>9 DEF ChannelInv
<1> QED  BY <1>1, <1>2

\* Requests begin: a deletion, a step of the wizard, a choice of provider, a connection.
LEMMA AsksKeep ==
  ASSUME ChannelInv, NEW r, NEW s \in Slugs,
         \/ K!AskDelete(r, s) \/ K!AskStep(r, s) \/ K!AskConnect(r, s)
         \/ \E p \in K!Providers : K!AskProvider(r, s, p)
  PROVE  ChannelInv'
<1>1. /\ s \in DOMAIN chan /\ ops' = ops + 1
      /\ UNCHANGED <<chan, page, flows, granted, profiles, wish, overwritten>>
  BY DEF K!AskDelete, K!AskStep, K!AskConnect, K!AskProvider, K!Op
<1>2. PICK kind, arg :
        /\ K!Start(r, s, kind, arg) /\ kind \notin {"create", "finish"}
        /\ kind \in {"continue", "skip"} => arg \in K!Platforms
        /\ kind = "provider" => arg \in K!Providers
  BY DEF K!AskDelete, K!AskStep, K!AskConnect, K!AskProvider
<1>3. \A q \in DOMAIN req' : (q \in DOMAIN req /\ req'[q] = req[q]) \/ Reads(q)
  BY <1>1, <1>2, RequestStarts, Unoverwritten
<1> QED  BY <1>1, <1>3, RowsStay

\* The owner comes back from the page of the provider.
LEMMA ComeBackKeeps ==
  ASSUME ChannelInv, NEW r, NEW f \in flows, K!ComeBack(r, f) PROVE ChannelInv'
<1>1. /\ f.by \in K!Providers /\ flows' \subseteq flows /\ granted' \subseteq granted \cup flows
      /\ UNCHANGED <<chan, page, profiles, ops, wish, overwritten>>
  BY DEF K!ComeBack, ChannelInv, ChannelTypes, Accounts
<1>2. \A q \in DOMAIN req' : (q \in DOMAIN req /\ req'[q] = req[q]) \/ Reads(q)
  <2>1. CASE K!Exists(f.slug, f.id)
    <3>1. f.slug \in DOMAIN chan /\ chan[f.slug].id = f.id /\ K!Start(r, f.slug, "finish", f)
      BY <2>1 DEF K!Exists, K!ComeBack
    <3>2. f.slug \in Slugs /\ chan[f.slug] \in ChannelRows  BY <3>1, Unoverwritten
    <3>3. \A q \in DOMAIN req : q # r => req'[q] = req[q]  BY <3>1 DEF K!Start, K!With
    <3>4. req'[r] = [kind |-> "finish", slug |-> f.slug, row |-> chan[f.slug], arg |-> f]
      BY <3>1 DEF K!Start, K!With
    <3>5. Reads(r)  BY <1>1, <3>1, <3>2, <3>4 DEF Reads, WellFormed
    <3>6. DOMAIN req' = DOMAIN req \cup {r}  BY <3>1 DEF K!Start, K!With
    <3> QED  BY <3>3, <3>5, <3>6
  <2>2. CASE ~K!Exists(f.slug, f.id)  BY <2>2 DEF K!ComeBack
  <2> QED  BY <2>1, <2>2
<1> QED  BY <1>1, <1>2, RowsStay

LEMMA ChannelStep ==
  ASSUME K!ChannelsAssumption, ChannelInv, K!ChannelsNext \/ UNCHANGED K!vars PROVE ChannelInv'
<1>1. ASSUME NEW r, K!Create(r) \/ K!Delete(r) \/ K!DoStep(r) \/ K!DoStepWithToken(r)
                        \/ K!SetProvider(r) \/ K!Connect(r) \/ K!Finish(r)
      PROVE  ChannelInv'
  <2>1. r \in DOMAIN req
    BY <1>1 DEF K!Create, K!Delete, K!DoStep, K!DoStepWithToken, K!SetProvider, K!Connect, K!Finish
  <2>2. PICK s \in Slugs : s = req[r].slug  BY <2>1, RequestFacts DEF WellFormed
  <2> QED  BY <1>1, <2>2, CreateKeeps, DeleteKeeps, DoStepKeeps, DoStepWithTokenKeeps, SetProviderKeeps, ConnectKeeps, FinishKeeps
<1>2. ASSUME NEW r, K!Fail(r) PROVE ChannelInv'
  <2>1. \A q \in DOMAIN req' : q \in DOMAIN req /\ req'[q] = req[q]  BY <1>2, RequestEnds DEF K!Fail
  <2>2. UNCHANGED <<chan, page, flows, granted, profiles, ops, wish, overwritten>>  BY <1>2 DEF K!Fail
  <2> QED  BY <2>1, <2>2, RowsStay
<1>3. ASSUME NEW s \in Slugs, K!AskGoogle(s) PROVE ChannelInv'
  <2> DEFINE f == [by |-> "google", slug |-> s, id |-> chan[s].id, profile |-> 0]
  <2>1. /\ s \in DOMAIN chan /\ ops' = ops + 1 /\ flows' = flows \cup {f}
        /\ UNCHANGED <<chan, page, req, granted, profiles, wish, overwritten>>
    BY <1>3 DEF K!AskGoogle, K!Op
  <2>2. f \in Accounts /\ f.by = "google" /\ f.slug = s /\ f.id = chan[s].id
    BY <2>1, Unoverwritten DEF Accounts, ChannelRows
  <2> HIDE DEF f
  <2> QED  BY <2>1, <2>2, RowsStay
<1>4. ASSUME NEW s \in Slugs, K!OpenSettings(s) PROVE ChannelInv'
  <2>1. /\ s \in DOMAIN chan /\ UNCHANGED <<chan, req, flows, granted, profiles, ops, wish, overwritten>>
        /\ page' = K!With(page, s, chan[s].config)
    BY <1>4 DEF K!OpenSettings
  <2>2. \A t \in DOMAIN page' : \/ t \in DOMAIN page /\ page'[t] = page[t]
                                \/ t \in DOMAIN chan /\ page'[t] = chan[t].config
    BY <2>1 DEF K!With
  <2> QED  BY <2>1, <2>2, RowsStay
<1>5. ASSUME UNCHANGED K!vars PROVE ChannelInv'
  <2>1. UNCHANGED <<chan, page, req, flows, granted, profiles, ops, wish, overwritten>>  BY <1>5 DEF K!vars
  <2> QED  BY <2>1, RowsStay
<1>6. ASSUME NEW s \in Slugs, K!AddProject(s) \/ K!Patch(s) \/ K!DisconnectGoogle(s)
                              \/ \E on \in SUBSET K!Platforms : K!SaveSettings(s, on)
      PROVE  ChannelInv'
  BY <1>6, FlagsKeep, GoogleSteps, SaveSettingsKeeps
<1>7. ASSUME NEW r, NEW s \in Slugs,
             \/ \E guided \in BOOLEAN : K!AskCreate(r, s, guided)
             \/ K!AskDelete(r, s) \/ K!AskStep(r, s) \/ K!AskConnect(r, s)
             \/ \E p \in K!Providers : K!AskProvider(r, s, p)
      PROVE  ChannelInv'
  BY <1>7, AskCreateKeeps, AsksKeep
<1> QED  BY <1>1, <1>2, <1>3, <1>4, <1>5, <1>6, <1>7, ComeBackKeeps, GoogleSteps DEF K!ChannelsNext

\* No request undoes another's, for any slugs, number of requests and of numbers
\* given, however the requests and the returns of the OAuth pages interleave: the
\* provider, the Google account and the TikTok accounts of a channel are those the
\* owner chose and connected (channels.py, tiktok_providers.py).
THEOREM ConnectionsAreKept ==
  ASSUME K!ChannelsAssumption PROVE ServicesSpec => []ConnectionsKept
<1> DEFINE Holds == focus = "channels" => ChannelInv
<1>1. ServicesInit => Holds
  <2>1. ASSUME K!ChannelsInit PROVE ChannelInv
    <3>1. /\ DOMAIN chan = {} /\ DOMAIN page = {} /\ DOMAIN req = {} /\ DOMAIN wish = {}
          /\ flows = {} /\ granted = {} /\ profiles = 0 /\ ops = 0 /\ overwritten = FALSE
      BY <2>1 DEF K!ChannelsInit, K!Empty
    <3>2. Named = {} /\ Profiled = {}  BY <3>1 DEF Named, Profiled
    <3> QED
      BY <3>1, <3>2 DEF ChannelInv, ChannelTypes, ChannelIds, ChannelProfiles, OfOneSlug, RequestsKnow,
                        FlowsHaveProfiles, AllHonoured
  <2> QED  BY <2>1 DEF ServicesInit
<1>2. Holds /\ [ServicesNext]_all => Holds'
  <2> SUFFICES ASSUME Holds, [ServicesNext]_all, focus' = "channels" PROVE ChannelInv'  OBVIOUS
  <2>1. focus = "channels" /\ (K!ChannelsNext \/ UNCHANGED K!vars)
    <3>1. CASE ServicesNext  BY <3>1 DEF ServicesNext
    <3>2. CASE UNCHANGED all  BY <3>2 DEF all, channels, K!vars
    <3> QED  BY <3>1, <3>2
  <2> QED  BY <2>1, ChannelStep
<1>3. Holds => ConnectionsKept
  BY DEF ConnectionsKept, K!ConnectionsKept, ChannelInv, AllHonoured, Honoured
<1> HIDE DEF Holds
<1> QED  BY <1>1, <1>2, <1>3, PTL DEF ServicesSpec

------------------------------------------------------------------------------
(* The plans of the videos.                                                    *)

------------------------------------------------------------------------------
(* Folds.                                                                      *)

\* A set of numbers that holds 0 and each successor holds all the numbers.
LEMMA AllNumbers ==
  ASSUME NEW T, 0 \in T, \A n \in Nat : n \in T => n + 1 \in T
  PROVE  Nat \subseteq T
<1> DEFINE left == Nat \ T
<1>1. ASSUME left # {} PROVE FALSE
  <2>1. PICK x \in left : \A y \in left : ~(<<y, x>> \in OpToRel(<, Nat))
    <3>1. left \subseteq Nat  OBVIOUS
    <3> HIDE DEF left
    <3> QED  BY <1>1, <3>1, WFMin, NatLessThanWellFounded
  <2>2. x \in Nat /\ x # 0 /\ x \notin T  OBVIOUS
  <2>3. x - 1 \in Nat /\ (x - 1) + 1 = x /\ x - 1 < x  BY <2>2
  <2>4. x - 1 \notin left  BY <2>1, <2>3 DEF OpToRel
  <2>5. x - 1 \in T  BY <2>3, <2>4
  <2> QED  BY <2>2, <2>3, <2>5
<1> QED  BY <1>1

LEMMA LargestOf ==
  ASSUME NEW n \in Nat, NEW s \in SUBSET (1 .. n), s # {}
  PROVE  P!Max(s) \in s /\ \A y \in s : y <= P!Max(s)
<1> DEFINE T == {m \in Nat : \A u \in SUBSET (1 .. m) : u # {} => \E x \in u : \A y \in u : x >= y}
<1>1. 0 \in T
  <2>1. 1 .. 0 = {}  OBVIOUS
  <2> QED  BY <2>1
<1>2. ASSUME NEW m \in Nat, m \in T PROVE m + 1 \in T
  <2> SUFFICES ASSUME NEW u \in SUBSET (1 .. (m + 1)), u # {} PROVE \E x \in u : \A y \in u : x >= y
    OBVIOUS
  <2>1. CASE m + 1 \in u  BY <2>1
  <2>2. CASE m + 1 \notin u
    <3>1. u \in SUBSET (1 .. m)  BY <2>2
    <3> QED  BY <1>2, <3>1
  <2> QED  BY <2>1, <2>2
<1> HIDE DEF T
<1>3. n \in T  BY <1>1, <1>2, AllNumbers
<1>4. \E x \in s : \A y \in s : x >= y  BY <1>3 DEF T
<1>5. P!Max(s) \in s /\ \A y \in s : P!Max(s) >= y  BY <1>4 DEF P!Max
<1> QED  BY <1>5

\* What a fold from the left reaches after each element.
Reached(n, base, G, f) ==
  \A s \in SUBSET (1 .. n) : f[s] = IF s = {} THEN base ELSE G[<<P!Max(s), f[s \ {P!Max(s)}]>>]

LEMMA FoldExists ==
  ASSUME NEW n \in Nat, NEW A, NEW base \in A, NEW G \in [(1 .. n) \X A -> A]
  PROVE  \E f \in [SUBSET (1 .. n) -> A] : Reached(n, base, G, f)
<1> DEFINE Exists(m) == \E f \in [SUBSET (1 .. m) -> A] : Reached(m, base, G, f)
           T == {m \in Nat : m <= n => Exists(m)}
<1>1. 0 \in T
  <2>1. [s \in SUBSET (1 .. 0) |-> base] \in [SUBSET (1 .. 0) -> A]  OBVIOUS
  <2>2. Reached(0, base, G, [s \in SUBSET (1 .. 0) |-> base])  BY DEF Reached
  <2> QED  BY <2>1, <2>2
<1>2. ASSUME NEW m \in Nat, m \in T PROVE m + 1 \in T
  <2> SUFFICES ASSUME m + 1 <= n PROVE Exists(m + 1)
    <3> HIDE DEF Exists
    <3> QED  OBVIOUS
  <2>0. Exists(m)
    <3> HIDE DEF Exists
    <3> QED  BY <1>2
  <2>1. PICK f \in [SUBSET (1 .. m) -> A] : Reached(m, base, G, f)
    BY <2>0
  <2> DEFINE h == [s \in SUBSET (1 .. (m + 1)) |->
                     IF m + 1 \in s THEN G[<<m + 1, f[s \ {m + 1}]>>] ELSE f[s]]
  <2>2. ASSUME NEW s \in SUBSET (1 .. (m + 1)), m + 1 \in s
        PROVE  /\ s \ {m + 1} \in SUBSET (1 .. m) /\ P!Max(s) = m + 1 /\ f[s \ {m + 1}] \in A
               /\ G[<<m + 1, f[s \ {m + 1}]>>] \in A
    <3>1. s \ {m + 1} \in SUBSET (1 .. m)  OBVIOUS
    <3>2. P!Max(s) \in s /\ m + 1 <= P!Max(s)
      <4>1. m + 1 \in Nat /\ s # {}  BY <2>2
      <4> HIDE DEF h
      <4> QED  BY <2>2, <4>1, LargestOf
    <3>3. P!Max(s) = m + 1
      <4>1. P!Max(s) \in 1 .. (m + 1)  BY <3>2
      <4> QED  BY <3>2, <4>1
    <3>4. f[s \ {m + 1}] \in A  BY <3>1
    <3>5. <<m + 1, f[s \ {m + 1}]>> \in (1 .. n) \X A  BY <3>4
    <3> QED  BY <3>1, <3>3, <3>4, <3>5
  <2>3. ASSUME NEW s \in SUBSET (1 .. (m + 1)), m + 1 \notin s
        PROVE  s \in SUBSET (1 .. m)
    BY <2>3
  <2>4. h \in [SUBSET (1 .. (m + 1)) -> A]  BY <2>2, <2>3
  <2>5. Reached(m + 1, base, G, h)
    <3> SUFFICES ASSUME NEW s \in SUBSET (1 .. (m + 1))
                 PROVE  h[s] = IF s = {} THEN base ELSE G[<<P!Max(s), h[s \ {P!Max(s)}]>>]
      BY DEF Reached
    <3>1. CASE m + 1 \in s
      <4>1. m + 1 \notin s \ {m + 1} /\ s \ {m + 1} \in SUBSET (1 .. (m + 1))  OBVIOUS
      <4>2. h[s \ {m + 1}] = f[s \ {m + 1}]  BY <4>1
      <4>3. h[s] = G[<<m + 1, f[s \ {m + 1}]>>]  BY <3>1
      <4> QED  BY <2>2, <3>1, <4>2, <4>3
    <3>2. CASE m + 1 \notin s
      <4>1. s \in SUBSET (1 .. m)  BY <2>3, <3>2
      <4>2. f[s] = IF s = {} THEN base ELSE G[<<P!Max(s), f[s \ {P!Max(s)}]>>]
        BY <2>1, <4>1 DEF Reached
      <4>3. h[s] = f[s]  BY <3>2
      <4>4. \A u : u = s \ {P!Max(s)} => h[u] = f[u]
        BY <3>2
      <4> QED  BY <4>2, <4>3, <4>4
    <3> QED  BY <3>1, <3>2
  <2> HIDE DEF h
  <2> QED  BY <2>4, <2>5
<1> HIDE DEF T
<1>3. n \in T  BY <1>1, <1>2, AllNumbers
<1>4. Exists(n)
  <2> HIDE DEF Exists
  <2> QED  BY <1>3 DEF T
<1> QED  BY <1>4

LEMMA Largest ==
  ASSUME NEW n \in Nat, NEW m \in 0 .. (n - 1)
  PROVE  /\ 1 .. (m + 1) \in SUBSET (1 .. n) /\ 1 .. (m + 1) # {}
         /\ P!Max(1 .. (m + 1)) = m + 1 /\ (1 .. (m + 1)) \ {m + 1} = 1 .. m
<1>1. m + 1 \in 1 .. (m + 1) /\ 1 .. (m + 1) \in SUBSET (1 .. n)  OBVIOUS
<1>2. P!Max(1 .. (m + 1)) \in 1 .. (m + 1) /\ m + 1 <= P!Max(1 .. (m + 1))
  BY <1>1, LargestOf
<1> QED  BY <1>1, <1>2

------------------------------------------------------------------------------
(* The subjects and the formats that the planner chooses.                      *)

\* A step of Keep, at the topic x; of Distinct, at the subject x; of Among, at the
\* element x; of AssignFormats, at the topic x.
KeepStep(topics, used, x, kept) ==
  IF P!TooSimilar(topics[x].subject, used \cup {kept[k].subject : k \in DOMAIN kept})
  THEN kept ELSE Append(kept, topics[x])

DistinctStep(subjects, used, x, kept) ==
  IF P!TooSimilar(subjects[x], used \cup P!ToSet(kept)) THEN kept ELSE Append(kept, subjects[x])

AmongStep(list, wanted, x, acc) ==
  IF list[x] \in wanted THEN Append(acc, list[x]) ELSE acc

ChosenFormat(topics, x, acc) ==
  P!ChooseFormat(topics[x].format, P!Available(acc.recent), Len(acc.topics))

AssignStep(topics, x, acc) ==
  [topics |-> Append(acc.topics, [topics[x] EXCEPT !.format = ChosenFormat(topics, x, acc)]),
   recent |-> <<ChosenFormat(topics, x, acc)>> \o acc.recent]

Start(past) == [topics |-> <<>>, recent |-> past]

\* The lists that each of them goes through, one for each element.
LEMMA KeepRuns ==
  ASSUME NEW topics \in Seq(P!Topics), NEW used
  PROVE  \E r : /\ r[0] = <<>> /\ P!Keep(topics, used) = r[Len(topics)]
                /\ \A m \in 0 .. (Len(topics) - 1) : r[m + 1] = KeepStep(topics, used, m + 1, r[m])
<1> DEFINE n == Len(topics)
           A == Seq(P!Topics)
           G == [z \in (1 .. n) \X A |-> KeepStep(topics, used, z[1], z[2])]
           H(h) == [s \in SUBSET DOMAIN topics |-> IF s = {} THEN <<>>
                      ELSE KeepStep(topics, used, P!Max(s), h[s \ {P!Max(s)}])]
           f == CHOOSE h : h = H(h)
<1>1. n \in Nat /\ DOMAIN topics = 1 .. n /\ <<>> \in A /\ \A x \in 1 .. n : topics[x] \in P!Topics  OBVIOUS
<1>2. G \in [(1 .. n) \X A -> A]
  <2> SUFFICES ASSUME NEW x \in 1 .. n, NEW acc \in A PROVE KeepStep(topics, used, x, acc) \in A
    OBVIOUS
  <2> QED  BY <1>1 DEF KeepStep
<1>3. f = H(f)
  <2> HIDE DEF G, A
  <2>1. PICK g \in [SUBSET (1 .. n) -> A] : Reached(n, <<>>, G, g)
    BY <1>1, <1>2, FoldExists
  <2>2. ASSUME NEW s \in SUBSET (1 .. n), s # {}
        PROVE  G[<<P!Max(s), g[s \ {P!Max(s)}]>>] = KeepStep(topics, used, P!Max(s), g[s \ {P!Max(s)}])
    <3>1. P!Max(s) \in 1 .. n /\ s \ {P!Max(s)} \in SUBSET (1 .. n)  BY <1>1, <2>2, LargestOf
    <3>2. <<P!Max(s), g[s \ {P!Max(s)}]>> \in (1 .. n) \X A  BY <3>1
    <3> QED  BY <3>2 DEF G
  <2>3. \A s \in SUBSET (1 .. n) :
          g[s] = IF s = {} THEN <<>> ELSE KeepStep(topics, used, P!Max(s), g[s \ {P!Max(s)}])
    BY <2>1, <2>2 DEF Reached
  <2>4. g = H(g)  BY <1>1, <2>3
  <2> QED  BY <2>4
<1>4. P!Keep(topics, used) = f[DOMAIN topics]
  BY DEF P!Keep, P!FoldLeft, P!MapThenFoldSet, KeepStep
<1> HIDE DEF f
<1>5. f[{}] = <<>>  BY <1>3
<1>6. ASSUME NEW m \in 0 .. (n - 1) PROVE f[1 .. (m + 1)] = KeepStep(topics, used, m + 1, f[1 .. m])
  <2>1. \A s \in SUBSET (1 .. n) : s # {} => f[s] = KeepStep(topics, used, P!Max(s), f[s \ {P!Max(s)}])
    BY <1>1, <1>3
  <2>2. /\ 1 .. (m + 1) \in SUBSET (1 .. n) /\ 1 .. (m + 1) # {}
        /\ P!Max(1 .. (m + 1)) = m + 1 /\ (1 .. (m + 1)) \ {m + 1} = 1 .. m
    <3> HIDE DEF n
    <3> QED  BY <1>1, Largest
  <2>3. f[1 .. (m + 1)] = KeepStep(topics, used, P!Max(1 .. (m + 1)), f[(1 .. (m + 1)) \ {P!Max(1 .. (m + 1))}])
    BY <2>1, <2>2
  <2> QED  BY <2>2, <2>3
<1> DEFINE r == [m \in 0 .. n |-> f[1 .. m]]
<1>7. r[0] = <<>>  BY <1>1, <1>5
<1>8. P!Keep(topics, used) = r[n]  BY <1>1, <1>4
<1>9. \A m \in 0 .. (n - 1) : r[m + 1] = KeepStep(topics, used, m + 1, r[m])  BY <1>1, <1>6
<1> HIDE DEF r
<1> QED  BY <1>7, <1>8, <1>9

LEMMA DistinctRuns ==
  ASSUME NEW subjects \in Seq(Subjects), NEW used
  PROVE  \E r : /\ r[0] = <<>> /\ P!Distinct(subjects, used) = r[Len(subjects)]
                /\ \A m \in 0 .. (Len(subjects) - 1) : r[m + 1] = DistinctStep(subjects, used, m + 1, r[m])
<1> DEFINE n == Len(subjects)
           A == Seq(Subjects)
           G == [z \in (1 .. n) \X A |-> DistinctStep(subjects, used, z[1], z[2])]
           H(h) == [s \in SUBSET DOMAIN subjects |-> IF s = {} THEN <<>>
                      ELSE DistinctStep(subjects, used, P!Max(s), h[s \ {P!Max(s)}])]
           f == CHOOSE h : h = H(h)
<1>1. n \in Nat /\ DOMAIN subjects = 1 .. n /\ <<>> \in A /\ \A x \in 1 .. n : subjects[x] \in Subjects  OBVIOUS
<1>2. G \in [(1 .. n) \X A -> A]
  <2> SUFFICES ASSUME NEW x \in 1 .. n, NEW acc \in A PROVE DistinctStep(subjects, used, x, acc) \in A
    OBVIOUS
  <2> QED  BY <1>1 DEF DistinctStep
<1>3. f = H(f)
  <2> HIDE DEF G, A
  <2>1. PICK g \in [SUBSET (1 .. n) -> A] : Reached(n, <<>>, G, g)
    BY <1>1, <1>2, FoldExists
  <2>2. ASSUME NEW s \in SUBSET (1 .. n), s # {}
        PROVE  G[<<P!Max(s), g[s \ {P!Max(s)}]>>] = DistinctStep(subjects, used, P!Max(s), g[s \ {P!Max(s)}])
    <3>1. P!Max(s) \in 1 .. n /\ s \ {P!Max(s)} \in SUBSET (1 .. n)  BY <1>1, <2>2, LargestOf
    <3>2. <<P!Max(s), g[s \ {P!Max(s)}]>> \in (1 .. n) \X A  BY <3>1
    <3> QED  BY <3>2 DEF G
  <2>3. \A s \in SUBSET (1 .. n) :
          g[s] = IF s = {} THEN <<>> ELSE DistinctStep(subjects, used, P!Max(s), g[s \ {P!Max(s)}])
    BY <2>1, <2>2 DEF Reached
  <2>4. g = H(g)  BY <1>1, <2>3
  <2> QED  BY <2>4
<1>4. P!Distinct(subjects, used) = f[DOMAIN subjects]
  BY DEF P!Distinct, P!FoldLeft, P!MapThenFoldSet, DistinctStep
<1> HIDE DEF f
<1>5. f[{}] = <<>>  BY <1>3
<1>6. ASSUME NEW m \in 0 .. (n - 1) PROVE f[1 .. (m + 1)] = DistinctStep(subjects, used, m + 1, f[1 .. m])
  <2>1. \A s \in SUBSET (1 .. n) : s # {} => f[s] = DistinctStep(subjects, used, P!Max(s), f[s \ {P!Max(s)}])
    BY <1>1, <1>3
  <2>2. /\ 1 .. (m + 1) \in SUBSET (1 .. n) /\ 1 .. (m + 1) # {}
        /\ P!Max(1 .. (m + 1)) = m + 1 /\ (1 .. (m + 1)) \ {m + 1} = 1 .. m
    <3> HIDE DEF n
    <3> QED  BY <1>1, Largest
  <2>3. f[1 .. (m + 1)] = DistinctStep(subjects, used, P!Max(1 .. (m + 1)), f[(1 .. (m + 1)) \ {P!Max(1 .. (m + 1))}])
    BY <2>1, <2>2
  <2> QED  BY <2>2, <2>3
<1> DEFINE r == [m \in 0 .. n |-> f[1 .. m]]
<1>7. r[0] = <<>>  BY <1>1, <1>5
<1>8. P!Distinct(subjects, used) = r[n]  BY <1>1, <1>4
<1>9. \A m \in 0 .. (n - 1) : r[m + 1] = DistinctStep(subjects, used, m + 1, r[m])  BY <1>1, <1>6
<1> HIDE DEF r
<1> QED  BY <1>7, <1>8, <1>9

LEMMA AmongRuns ==
  ASSUME NEW T, NEW list \in Seq(T), NEW wanted
  PROVE  \E r : /\ r[0] = <<>> /\ P!Among(list, wanted) = r[Len(list)]
                /\ \A m \in 0 .. (Len(list) - 1) : r[m + 1] = AmongStep(list, wanted, m + 1, r[m])
<1> DEFINE n == Len(list)
           A == Seq(T)
           G == [z \in (1 .. n) \X A |-> AmongStep(list, wanted, z[1], z[2])]
           H(h) == [s \in SUBSET DOMAIN list |-> IF s = {} THEN <<>>
                      ELSE AmongStep(list, wanted, P!Max(s), h[s \ {P!Max(s)}])]
           f == CHOOSE h : h = H(h)
<1>1. n \in Nat /\ DOMAIN list = 1 .. n /\ <<>> \in A /\ \A x \in 1 .. n : list[x] \in T  OBVIOUS
<1>2. G \in [(1 .. n) \X A -> A]
  <2> SUFFICES ASSUME NEW x \in 1 .. n, NEW acc \in A PROVE AmongStep(list, wanted, x, acc) \in A
    OBVIOUS
  <2> QED  BY <1>1 DEF AmongStep
<1>3. f = H(f)
  <2> HIDE DEF G, A
  <2>1. PICK g \in [SUBSET (1 .. n) -> A] : Reached(n, <<>>, G, g)
    BY <1>1, <1>2, FoldExists
  <2>2. ASSUME NEW s \in SUBSET (1 .. n), s # {}
        PROVE  G[<<P!Max(s), g[s \ {P!Max(s)}]>>] = AmongStep(list, wanted, P!Max(s), g[s \ {P!Max(s)}])
    <3>1. P!Max(s) \in 1 .. n /\ s \ {P!Max(s)} \in SUBSET (1 .. n)  BY <1>1, <2>2, LargestOf
    <3>2. <<P!Max(s), g[s \ {P!Max(s)}]>> \in (1 .. n) \X A  BY <3>1
    <3> QED  BY <3>2 DEF G
  <2>3. \A s \in SUBSET (1 .. n) :
          g[s] = IF s = {} THEN <<>> ELSE AmongStep(list, wanted, P!Max(s), g[s \ {P!Max(s)}])
    BY <2>1, <2>2 DEF Reached
  <2>4. g = H(g)  BY <1>1, <2>3
  <2> QED  BY <2>4
<1>4. P!Among(list, wanted) = f[DOMAIN list]
  BY DEF P!Among, P!FoldLeft, P!MapThenFoldSet, AmongStep
<1> HIDE DEF f
<1>5. f[{}] = <<>>  BY <1>3
<1>6. ASSUME NEW m \in 0 .. (n - 1) PROVE f[1 .. (m + 1)] = AmongStep(list, wanted, m + 1, f[1 .. m])
  <2>1. \A s \in SUBSET (1 .. n) : s # {} => f[s] = AmongStep(list, wanted, P!Max(s), f[s \ {P!Max(s)}])
    BY <1>1, <1>3
  <2>2. /\ 1 .. (m + 1) \in SUBSET (1 .. n) /\ 1 .. (m + 1) # {}
        /\ P!Max(1 .. (m + 1)) = m + 1 /\ (1 .. (m + 1)) \ {m + 1} = 1 .. m
    <3> HIDE DEF n
    <3> QED  BY <1>1, Largest
  <2>3. f[1 .. (m + 1)] = AmongStep(list, wanted, P!Max(1 .. (m + 1)), f[(1 .. (m + 1)) \ {P!Max(1 .. (m + 1))}])
    BY <2>1, <2>2
  <2> QED  BY <2>2, <2>3
<1> DEFINE r == [m \in 0 .. n |-> f[1 .. m]]
<1>7. r[0] = <<>>  BY <1>1, <1>5
<1>8. P!Among(list, wanted) = r[n]  BY <1>1, <1>4
<1>9. \A m \in 0 .. (n - 1) : r[m + 1] = AmongStep(list, wanted, m + 1, r[m])  BY <1>1, <1>6
<1> HIDE DEF r
<1> QED  BY <1>7, <1>8, <1>9

LEMMA AppendFacts ==
  ASSUME NEW T, NEW s \in Seq(T), NEW x \in T
  PROVE  /\ Append(s, x) \in Seq(T) /\ Len(s) \in Nat /\ Len(Append(s, x)) = Len(s) + 1
         /\ DOMAIN s = 1 .. Len(s) /\ DOMAIN Append(s, x) = 1 .. (Len(s) + 1)
         /\ \A k \in 1 .. Len(s) : Append(s, x)[k] = s[k]
         /\ Append(s, x)[Len(s) + 1] = x
OBVIOUS

LEMMA AmongFacts ==
  ASSUME NEW T, NEW list \in Seq(T), NEW wanted
  PROVE  /\ P!Among(list, wanted) \in Seq(T)
         /\ \A k \in DOMAIN P!Among(list, wanted) : P!Among(list, wanted)[k] \in wanted
         /\ \A k \in DOMAIN list : list[k] \in wanted => P!Among(list, wanted) # <<>>
<1>1. PICK r : /\ r[0] = <<>> /\ P!Among(list, wanted) = r[Len(list)]
               /\ \A m \in 0 .. (Len(list) - 1) : r[m + 1] = AmongStep(list, wanted, m + 1, r[m])
  BY AmongRuns
<1> DEFINE Fact(m) == /\ r[m] \in Seq(T)
                      /\ \A k \in DOMAIN r[m] : r[m][k] \in wanted
                      /\ \A k \in 1 .. m : list[k] \in wanted => r[m] # <<>>
           Good == {m \in Nat : m <= Len(list) => Fact(m)}
<1>2. 0 \in Good
  <2>1. r[0] \in Seq(T) /\ DOMAIN r[0] = {} /\ 1 .. 0 = {}  BY <1>1
  <2> QED  BY <2>1
<1>3. ASSUME NEW m \in Nat, m \in Good PROVE m + 1 \in Good
  <2> SUFFICES ASSUME m + 1 <= Len(list) PROVE Fact(m + 1)
    <3> HIDE DEF Fact
    <3> QED  OBVIOUS
  <2>1. r[m + 1] = AmongStep(list, wanted, m + 1, r[m]) /\ list[m + 1] \in T
    BY <1>1
  <2>2. Fact(m)  BY <1>3
  <2>3. CASE list[m + 1] \in wanted
    <3>1. r[m + 1] = Append(r[m], list[m + 1])  BY <2>1, <2>3 DEF AmongStep
    <3>2. r[m] \in Seq(T) /\ \A k \in DOMAIN r[m] : r[m][k] \in wanted  BY <2>2
    <3>3. r[m + 1] # <<>> /\ r[m + 1] \in Seq(T)
      <4> HIDE DEF Fact, Good
      <4>1. list[m + 1] \in T /\ r[m] \in Seq(T)  BY <2>1, <3>2
      <4>2. \A q \in Seq(T), x \in T : Append(q, x) \in Seq(T) /\ Append(q, x) # <<>>  OBVIOUS
      <4> QED  BY <3>1, <4>1, <4>2
    <3>4. \A k \in DOMAIN r[m + 1] : r[m + 1][k] \in wanted
      <4> HIDE DEF Fact, Good
      <4>1. list[m + 1] \in T /\ r[m] \in Seq(T)  BY <2>1, <3>2
      <4>2. /\ Len(r[m]) \in Nat /\ DOMAIN r[m] = 1 .. Len(r[m]) /\ DOMAIN r[m + 1] = 1 .. (Len(r[m]) + 1)
            /\ \A k \in 1 .. Len(r[m]) : r[m + 1][k] = r[m][k]
            /\ r[m + 1][Len(r[m]) + 1] = list[m + 1]
        BY <3>1, <4>1, AppendFacts
      <4>3. \A k \in DOMAIN r[m + 1] : k \in DOMAIN r[m] \/ k = Len(r[m]) + 1  BY <4>2
      <4> QED  BY <2>3, <3>2, <4>2, <4>3
    <3> QED  BY <3>3, <3>4
  <2>4. CASE list[m + 1] \notin wanted
    <3>1. r[m + 1] = r[m]  BY <2>1, <2>4 DEF AmongStep
    <3> QED  BY <2>2, <2>4, <3>1
  <2> QED  BY <2>3, <2>4
<1> HIDE DEF Good
<1>4. Len(list) \in Good /\ Len(list) \in Nat /\ DOMAIN list = 1 .. Len(list)  BY <1>2, <1>3, AllNumbers
<1> QED  BY <1>1, <1>4 DEF Good

LEMMA AvailableFacts ==
  ASSUME P!PlannerAssumption, Bank # <<>>, NEW recent \in Seq(P!Formats)
  PROVE  /\ P!Available(recent) \in Seq(P!Formats) /\ P!Available(recent) # <<>>
         /\ Len(Bank) > WindowK =>
              \A k \in DOMAIN P!Available(recent), l \in DOMAIN recent :
                l <= WindowK => P!Available(recent)[k] # recent[l]
<1> DEFINE blocked == {recent[k] : k \in {l \in DOMAIN recent : l <= WindowK}}
           free == P!Among(Bank, P!Formats \ blocked)
           old == P!Among(recent, P!Formats)
<1>1. /\ WindowK \in Nat /\ Bank \in Seq(P!Formats) /\ Len(Bank) \in Nat /\ DOMAIN Bank = 1 .. Len(Bank)
      /\ \A k, l \in DOMAIN Bank : Bank[k] = Bank[l] => k = l
  BY DEF P!PlannerAssumption
<1>2. /\ free \in Seq(P!Formats) /\ \A k \in DOMAIN free : free[k] \in P!Formats \ blocked
      /\ \A k \in DOMAIN Bank : Bank[k] \notin blocked => free # <<>>
  <2>1. \A k \in DOMAIN Bank : Bank[k] \in P!Formats  BY DEF P!Formats
  <2> HIDE DEF blocked
  <2> QED  BY <1>1, <2>1, AmongFacts
<1>3. old \in Seq(P!Formats)
  BY AmongFacts
<1>4. P!Available(recent) = IF free # <<>> THEN free ELSE IF old # <<>> THEN <<old[Len(old)]>> ELSE <<Bank[1]>>
  BY DEF P!Available
<1>5. ASSUME Len(Bank) > WindowK PROVE free # <<>>
  <2> SUFFICES ASSUME \A k \in DOMAIN Bank : Bank[k] \in blocked PROVE FALSE
    BY <1>2
  <2> DEFINE window == {l \in DOMAIN recent : l <= WindowK}
  <2>1. window \subseteq 1 .. WindowK  BY <1>1
  <2>2. IsFiniteSet(1 .. WindowK) /\ Cardinality(1 .. WindowK) = WindowK
    <3>1. WindowK \in Nat  BY <1>1
    <3>2. 1 \in Int /\ WindowK \in Int /\ (IF 1 > WindowK THEN 0 ELSE WindowK - 1 + 1) = WindowK  BY <3>1
    <3> QED  BY <3>2, FS_Interval, Zenon
  <2>3. IsFiniteSet(window) /\ Cardinality(window) <= WindowK  BY <2>1, <2>2, FS_Subset
  <2> DEFINE at == [k \in 1 .. Len(Bank) |-> CHOOSE l \in window : recent[l] = Bank[k]]
  <2>4. ASSUME NEW k \in 1 .. Len(Bank) PROVE at[k] \in window /\ recent[at[k]] = Bank[k]
    BY <1>1
  <2>5. at \in Injection(1 .. Len(Bank), window)
    <3>1. at \in [1 .. Len(Bank) -> window]  BY <2>4
    <3>2. \A a, b \in 1 .. Len(Bank) : at[a] = at[b] => a = b  BY <1>1, <2>4
    <3> HIDE DEF at, window
    <3> QED  BY <3>1, <3>2 DEF Injection, IsInjective
  <2> HIDE DEF at, window
  <2>6. IsFiniteSet(1 .. Len(Bank)) /\ Cardinality(1 .. Len(Bank)) = Len(Bank)  BY <1>1, FS_Interval
  <2>7. Cardinality(1 .. Len(Bank)) <= Cardinality(window)  BY <2>3, <2>5, FS_Injection
  <2>8. Cardinality(window) \in Nat  BY <2>3, FS_CardinalityType
  <2> QED  BY <1>1, <1>5, <2>3, <2>6, <2>7, <2>8
<1> HIDE DEF free, old
<1>6. P!Available(recent) \in Seq(P!Formats) /\ P!Available(recent) # <<>>
  <2>1. Bank[1] \in P!Formats  BY <1>1
  <2>2. CASE free # <<>>  BY <1>2, <1>4, <2>2
  <2>3. CASE free = <<>> /\ old # <<>>
    <3>1. old[Len(old)] \in P!Formats  BY <1>3, <2>3
    <3> QED  BY <1>4, <2>3, <3>1
  <2>4. CASE free = <<>> /\ old = <<>>  BY <1>4, <2>1, <2>4
  <2> QED  BY <2>2, <2>3, <2>4
<1>7. ASSUME Len(Bank) > WindowK, NEW k \in DOMAIN P!Available(recent), NEW l \in DOMAIN recent, l <= WindowK
      PROVE  P!Available(recent)[k] # recent[l]
  BY <1>2, <1>4, <1>5, <1>7
<1> QED  BY <1>6, <1>7

LEMMA ChosenFacts ==
  ASSUME P!PlannerAssumption, Bank # <<>>, NEW recent \in Seq(P!Formats), NEW wanted, NEW done \in Nat
  PROVE  /\ P!ChooseFormat(wanted, P!Available(recent), done) \in P!Formats
         /\ Len(Bank) > WindowK => \A l \in DOMAIN recent :
              l <= WindowK => P!ChooseFormat(wanted, P!Available(recent), done) # recent[l]
<1> DEFINE available == P!Available(recent)
<1>1. /\ available \in Seq(P!Formats) /\ available # <<>>
      /\ Len(Bank) > WindowK => \A k \in DOMAIN available, l \in DOMAIN recent :
                                  l <= WindowK => available[k] # recent[l]
  BY AvailableFacts
<1> HIDE DEF available
<1>2. \E k \in DOMAIN available : P!ChooseFormat(wanted, available, done) = available[k]
  <2>1. CASE wanted \in P!ToSet(available)  BY <2>1 DEF P!ToSet, P!ChooseFormat
  <2>2. CASE wanted \notin P!ToSet(available)
    <3>1. Len(available) \in Nat \ {0} /\ DOMAIN available = 1 .. Len(available)  BY <1>1
    <3>2. done % Len(available) \in 0 .. (Len(available) - 1)  BY <3>1
    <3>3. (done % Len(available)) + 1 \in DOMAIN available  BY <3>1, <3>2
    <3> QED  BY <2>2, <3>3 DEF P!ChooseFormat
  <2> QED  BY <2>1, <2>2
<1> QED  BY <1>1, <1>2 DEF available

LEMMA AssignRuns ==
  ASSUME P!PlannerAssumption, Bank # <<>>, NEW topics \in Seq(P!Topics), NEW past \in Seq(P!Formats)
  PROVE  \E r : /\ r[0] = Start(past) /\ P!AssignFormats(topics, past) = r[Len(topics)].topics
                /\ \A m \in 0 .. (Len(topics) - 1) : r[m + 1] = AssignStep(topics, m + 1, r[m])
<1> DEFINE n == Len(topics)
           A == [topics : Seq(P!Topics), recent : Seq(P!Formats)]
           G == [z \in (1 .. n) \X A |-> AssignStep(topics, z[1], z[2])]
           H(h) == [s \in SUBSET DOMAIN topics |-> IF s = {} THEN Start(past)
                      ELSE AssignStep(topics, P!Max(s), h[s \ {P!Max(s)}])]
           f == CHOOSE h : h = H(h)
<1>1. n \in Nat /\ DOMAIN topics = 1 .. n /\ Start(past) \in A /\ \A x \in 1 .. n : topics[x] \in P!Topics  BY DEF Start
<1>2. G \in [(1 .. n) \X A -> A]
  <2> SUFFICES ASSUME NEW x \in 1 .. n, NEW acc \in A PROVE AssignStep(topics, x, acc) \in A
    OBVIOUS
  <2> QED
    <3>1. acc.recent \in Seq(P!Formats) /\ Len(acc.topics) \in Nat  OBVIOUS
  <3>2. ChosenFormat(topics, x, acc) \in P!Formats  BY <3>1, ChosenFacts DEF ChosenFormat
  <3>3. [topics[x] EXCEPT !.format = ChosenFormat(topics, x, acc)] \in P!Topics  BY <1>1, <3>2 DEF P!Topics
  <3>4. <<ChosenFormat(topics, x, acc)>> \o acc.recent \in Seq(P!Formats)  BY <3>1, <3>2
  <3>5. Append(acc.topics, [topics[x] EXCEPT !.format = ChosenFormat(topics, x, acc)]) \in Seq(P!Topics)  BY <3>3
  <3> QED  BY <3>4, <3>5 DEF AssignStep
<1>3. f = H(f)
  <2> HIDE DEF G, A
  <2>1. PICK g \in [SUBSET (1 .. n) -> A] : Reached(n, Start(past), G, g)
    BY <1>1, <1>2, FoldExists
  <2>2. ASSUME NEW s \in SUBSET (1 .. n), s # {}
        PROVE  G[<<P!Max(s), g[s \ {P!Max(s)}]>>] = AssignStep(topics, P!Max(s), g[s \ {P!Max(s)}])
    <3>1. P!Max(s) \in 1 .. n /\ s \ {P!Max(s)} \in SUBSET (1 .. n)  BY <1>1, <2>2, LargestOf
    <3>2. <<P!Max(s), g[s \ {P!Max(s)}]>> \in (1 .. n) \X A  BY <3>1
    <3> QED  BY <3>2 DEF G
  <2>3. \A s \in SUBSET (1 .. n) :
          g[s] = IF s = {} THEN Start(past) ELSE AssignStep(topics, P!Max(s), g[s \ {P!Max(s)}])
    BY <2>1, <2>2 DEF Reached
  <2>4. g = H(g)  BY <1>1, <2>3
  <2> QED  BY <2>4
<1>4. P!AssignFormats(topics, past) = f[DOMAIN topics].topics
  BY DEF P!AssignFormats, P!FoldLeft, P!MapThenFoldSet, AssignStep, ChosenFormat, Start
<1> HIDE DEF f
<1>5. f[{}] = Start(past)  BY <1>3
<1>6. ASSUME NEW m \in 0 .. (n - 1) PROVE f[1 .. (m + 1)] = AssignStep(topics, m + 1, f[1 .. m])
  <2>1. \A s \in SUBSET (1 .. n) : s # {} => f[s] = AssignStep(topics, P!Max(s), f[s \ {P!Max(s)}])
    BY <1>1, <1>3
  <2>2. /\ 1 .. (m + 1) \in SUBSET (1 .. n) /\ 1 .. (m + 1) # {}
        /\ P!Max(1 .. (m + 1)) = m + 1 /\ (1 .. (m + 1)) \ {m + 1} = 1 .. m
    <3> HIDE DEF n
    <3> QED  BY <1>1, Largest
  <2>3. f[1 .. (m + 1)] = AssignStep(topics, P!Max(1 .. (m + 1)), f[(1 .. (m + 1)) \ {P!Max(1 .. (m + 1))}])
    BY <2>1, <2>2
  <2> QED  BY <2>2, <2>3
<1> DEFINE r == [m \in 0 .. n |-> f[1 .. m]]
<1>7. r[0] = Start(past)  BY <1>1, <1>5
<1>8. P!AssignFormats(topics, past) = r[n].topics  BY <1>1, <1>4
<1>9. \A m \in 0 .. (n - 1) : r[m + 1] = AssignStep(topics, m + 1, r[m])  BY <1>1, <1>6
<1> HIDE DEF r
<1> QED  BY <1>7, <1>8, <1>9

\* A list of topics none of which is like a used subject or like one before it.
Unlike(topics, used) ==
  \A k \in DOMAIN topics :
    /\ \A other \in used : <<other, topics[k].subject>> \notin Similar
    /\ \A l \in DOMAIN topics : l < k => <<topics[l].subject, topics[k].subject>> \notin Similar

LEMMA KeepFacts ==
  ASSUME P!PlannerAssumption, NEW topics \in Seq(P!Topics), NEW used
  PROVE  /\ P!Keep(topics, used) \in Seq(P!Topics) /\ Len(P!Keep(topics, used)) <= Len(topics)
         /\ Unlike(P!Keep(topics, used), used)
<1>1. PICK r : /\ r[0] = <<>> /\ P!Keep(topics, used) = r[Len(topics)]
               /\ \A m \in 0 .. (Len(topics) - 1) : r[m + 1] = KeepStep(topics, used, m + 1, r[m])
  BY KeepRuns
<1> DEFINE Fact(m) == r[m] \in Seq(P!Topics) /\ Len(r[m]) <= m /\ Unlike(r[m], used)
           Good == {m \in Nat : m <= Len(topics) => Fact(m)}
<1>2. 0 \in Good
  <2>1. r[0] \in Seq(P!Topics) /\ DOMAIN r[0] = {} /\ Len(r[0]) = 0  BY <1>1
  <2> QED  BY <2>1 DEF Unlike
<1>3. ASSUME NEW m \in Nat, m \in Good PROVE m + 1 \in Good
  <2> SUFFICES ASSUME m + 1 <= Len(topics) PROVE Fact(m + 1)
    <3> HIDE DEF Fact
    <3> QED  OBVIOUS
  <2> DEFINE kept == r[m]
             x == topics[m + 1]
  <2>1. r[m + 1] = KeepStep(topics, used, m + 1, kept) /\ x \in P!Topics
    BY <1>1
  <2>2. kept \in Seq(P!Topics) /\ Len(kept) <= m /\ Unlike(kept, used)  BY <1>3
  <2> HIDE DEF kept, x, Fact, Good
  <2>3. CASE P!TooSimilar(x.subject, used \cup {kept[k].subject : k \in DOMAIN kept})
    <3>1. r[m + 1] = kept  BY <2>1, <2>3 DEF KeepStep, x
    <3> QED  BY <2>2, <3>1 DEF Fact
  <2>4. CASE ~P!TooSimilar(x.subject, used \cup {kept[k].subject : k \in DOMAIN kept})
    <3>1. r[m + 1] = Append(kept, x)  BY <2>1, <2>4 DEF KeepStep, x
    <3>2. /\ \A other \in used : <<other, x.subject>> \notin Similar
          /\ \A l \in DOMAIN kept : <<kept[l].subject, x.subject>> \notin Similar
      <4>1. \A y, z : <<y, z>> \in Similar => <<z, y>> \in Similar
        BY Zenon DEF P!PlannerAssumption
      <4> QED  BY <2>4, <4>1 DEF P!TooSimilar
    <3>3. /\ r[m + 1] \in Seq(P!Topics) /\ Len(r[m + 1]) = Len(kept) + 1
          /\ DOMAIN r[m + 1] = 1 .. (Len(kept) + 1) /\ DOMAIN kept = 1 .. Len(kept)
          /\ \A k \in 1 .. Len(kept) : r[m + 1][k] = kept[k]
          /\ r[m + 1][Len(kept) + 1] = x
      <4> HIDE DEF Fact
      <4>1. x \in P!Topics /\ kept \in Seq(P!Topics)  BY <2>1, <2>2
      <4>2. /\ Append(kept, x) \in Seq(P!Topics) /\ Len(Append(kept, x)) = Len(kept) + 1
            /\ DOMAIN kept = 1 .. Len(kept) /\ DOMAIN Append(kept, x) = 1 .. (Len(kept) + 1)
            /\ \A k \in 1 .. Len(kept) : Append(kept, x)[k] = kept[k]
            /\ Append(kept, x)[Len(kept) + 1] = x
        BY <4>1, AppendFacts
      <4> QED  BY <3>1, <4>2
    <3>4. Unlike(r[m + 1], used)
      <4> SUFFICES ASSUME NEW k \in 1 .. (Len(kept) + 1)
                   PROVE  /\ \A other \in used : <<other, r[m + 1][k].subject>> \notin Similar
                          /\ \A l \in 1 .. (Len(kept) + 1) :
                               l < k => <<r[m + 1][l].subject, r[m + 1][k].subject>> \notin Similar
        BY <3>3 DEF Unlike
      <4>1. CASE k \in 1 .. Len(kept)
        <5>1. \A l \in 1 .. (Len(kept) + 1) : l < k => l \in 1 .. Len(kept)  BY <4>1
        <5> QED  BY <2>2, <3>3, <4>1, <5>1 DEF Unlike
      <4>2. CASE k = Len(kept) + 1
        <5>1. \A l \in 1 .. (Len(kept) + 1) : l < k => l \in 1 .. Len(kept)  BY <2>2, <4>2
        <5> QED  BY <3>2, <3>3, <4>2, <5>1
      <4> QED  BY <2>2, <4>1, <4>2
    <3>5. Len(r[m + 1]) <= m + 1  BY <2>2, <3>3
    <3> QED  BY <3>3, <3>4, <3>5 DEF Fact
  <2> QED  BY <2>3, <2>4
<1> HIDE DEF Good
<1>4. Len(topics) \in Good /\ Len(topics) \in Nat  BY <1>2, <1>3, AllNumbers
<1> QED  BY <1>1, <1>4 DEF Good

LEMMA DistinctFacts ==
  ASSUME P!PlannerAssumption, NEW subjects \in Seq(Subjects), NEW used
  PROVE  /\ P!Distinct(subjects, used) \in Seq(Subjects)
         /\ \A k \in DOMAIN P!Distinct(subjects, used) :
              /\ \A other \in used : <<other, P!Distinct(subjects, used)[k]>> \notin Similar
              /\ \A l \in DOMAIN P!Distinct(subjects, used) :
                   l < k => <<P!Distinct(subjects, used)[l], P!Distinct(subjects, used)[k]>> \notin Similar
<1>1. PICK r : /\ r[0] = <<>> /\ P!Distinct(subjects, used) = r[Len(subjects)]
               /\ \A m \in 0 .. (Len(subjects) - 1) : r[m + 1] = DistinctStep(subjects, used, m + 1, r[m])
  BY DistinctRuns
<1> DEFINE Fact(m) == /\ r[m] \in Seq(Subjects)
                      /\ \A k \in DOMAIN r[m] :
                           /\ \A other \in used : <<other, r[m][k]>> \notin Similar
                           /\ \A l \in DOMAIN r[m] : l < k => <<r[m][l], r[m][k]>> \notin Similar
           Good == {m \in Nat : m <= Len(subjects) => Fact(m)}
<1>2. 0 \in Good
  <2>1. r[0] \in Seq(Subjects) /\ DOMAIN r[0] = {}  BY <1>1
  <2> QED  BY <2>1
<1>3. ASSUME NEW m \in Nat, m \in Good PROVE m + 1 \in Good
  <2> SUFFICES ASSUME m + 1 <= Len(subjects) PROVE Fact(m + 1)
    <3> HIDE DEF Fact
    <3> QED  OBVIOUS
  <2> DEFINE kept == r[m]
             x == subjects[m + 1]
  <2>1. r[m + 1] = DistinctStep(subjects, used, m + 1, kept) /\ x \in Subjects
    BY <1>1
  <2>2. /\ kept \in Seq(Subjects)
        /\ \A k \in DOMAIN kept :
             /\ \A other \in used : <<other, kept[k]>> \notin Similar
             /\ \A l \in DOMAIN kept : l < k => <<kept[l], kept[k]>> \notin Similar
    BY <1>3
  <2> HIDE DEF kept, x, Good
  <2>3. CASE P!TooSimilar(x, used \cup P!ToSet(kept))
    <3>1. r[m + 1] = kept  BY <2>1, <2>3 DEF DistinctStep, x
    <3> QED  BY <2>2, <3>1
  <2>4. CASE ~P!TooSimilar(x, used \cup P!ToSet(kept))
    <3>1. r[m + 1] = Append(kept, x)  BY <2>1, <2>4 DEF DistinctStep, x
    <3>2. /\ \A other \in used : <<other, x>> \notin Similar
          /\ \A l \in DOMAIN kept : <<kept[l], x>> \notin Similar
      <4>1. \A y, z : <<y, z>> \in Similar => <<z, y>> \in Similar
        BY Zenon DEF P!PlannerAssumption
      <4> QED  BY <2>4, <4>1 DEF P!TooSimilar, P!ToSet
    <3>3. /\ r[m + 1] \in Seq(Subjects)
          /\ DOMAIN r[m + 1] = 1 .. (Len(kept) + 1) /\ DOMAIN kept = 1 .. Len(kept)
          /\ \A k \in 1 .. Len(kept) : r[m + 1][k] = kept[k]
          /\ r[m + 1][Len(kept) + 1] = x
      <4> HIDE DEF Fact
      <4>1. x \in Subjects /\ kept \in Seq(Subjects)  BY <2>1, <2>2
      <4>2. /\ Append(kept, x) \in Seq(Subjects) /\ Len(Append(kept, x)) = Len(kept) + 1
            /\ DOMAIN kept = 1 .. Len(kept) /\ DOMAIN Append(kept, x) = 1 .. (Len(kept) + 1)
            /\ \A k \in 1 .. Len(kept) : Append(kept, x)[k] = kept[k]
            /\ Append(kept, x)[Len(kept) + 1] = x
        BY <4>1, AppendFacts
      <4> QED  BY <3>1, <4>2
    <3>4. \A k \in 1 .. (Len(kept) + 1) :
            /\ \A other \in used : <<other, r[m + 1][k]>> \notin Similar
            /\ \A l \in 1 .. (Len(kept) + 1) : l < k => <<r[m + 1][l], r[m + 1][k]>> \notin Similar
      <4> SUFFICES ASSUME NEW k \in 1 .. (Len(kept) + 1)
                   PROVE  /\ \A other \in used : <<other, r[m + 1][k]>> \notin Similar
                          /\ \A l \in 1 .. (Len(kept) + 1) : l < k => <<r[m + 1][l], r[m + 1][k]>> \notin Similar
        OBVIOUS
      <4> HIDE DEF Fact
      <4>1. CASE k \in 1 .. Len(kept)
        <5>1. \A l \in 1 .. (Len(kept) + 1) : l < k => l \in 1 .. Len(kept)  BY <4>1
        <5> QED  BY <2>2, <3>3, <4>1, <5>1
      <4>2. CASE k = Len(kept) + 1
        <5>1. \A l \in 1 .. (Len(kept) + 1) : l < k => l \in 1 .. Len(kept)  BY <2>2, <4>2
        <5> QED  BY <3>2, <3>3, <4>2, <5>1
      <4> QED  BY <2>2, <4>1, <4>2
    <3> QED  BY <3>3, <3>4
  <2> QED  BY <2>3, <2>4
<1> HIDE DEF Good
<1>4. Len(subjects) \in Good /\ Len(subjects) \in Nat  BY <1>2, <1>3, AllNumbers
<1> QED  BY <1>1, <1>4 DEF Good

LEMMA AssignFacts ==
  ASSUME P!PlannerAssumption, Bank # <<>>, NEW topics \in Seq(P!Topics), NEW past \in Seq(P!Formats)
  PROVE  LET given == P!AssignFormats(topics, past)
         IN /\ given \in Seq(P!Topics) /\ Len(given) = Len(topics)
            /\ \A k \in DOMAIN given : given[k].subject = topics[k].subject /\ given[k].format \in P!Formats
            /\ Len(Bank) > WindowK => \A k \in DOMAIN given :
                 /\ \A l \in DOMAIN given : l < k /\ k - l <= WindowK => given[k].format # given[l].format
                 /\ \A h \in DOMAIN past : k - 1 + h <= WindowK => given[k].format # past[h]
<1>1. PICK r : /\ r[0] = Start(past) /\ P!AssignFormats(topics, past) = r[Len(topics)].topics
               /\ \A m \in 0 .. (Len(topics) - 1) : r[m + 1] = AssignStep(topics, m + 1, r[m])
  BY AssignRuns
<1> DEFINE Rotated(given) ==
             Len(Bank) > WindowK => \A k \in DOMAIN given :
               /\ \A l \in DOMAIN given : l < k /\ k - l <= WindowK => given[k].format # given[l].format
               /\ \A h \in DOMAIN past : k - 1 + h <= WindowK => given[k].format # past[h]
           Fact(m) == /\ r[m].topics \in Seq(P!Topics) /\ Len(r[m].topics) = m
                      /\ \A k \in 1 .. m : /\ r[m].topics[k].subject = topics[k].subject
                                           /\ r[m].topics[k].format \in P!Formats
                      /\ r[m].recent \in Seq(P!Formats) /\ Len(r[m].recent) = m + Len(past)
                      /\ \A k \in 1 .. m : r[m].recent[m + 1 - k] = r[m].topics[k].format
                      /\ \A h \in DOMAIN past : r[m].recent[m + h] = past[h]
                      /\ Rotated(r[m].topics)
           Good == {m \in Nat : m <= Len(topics) => Fact(m)}
<1>0. Len(past) \in Nat /\ DOMAIN past = 1 .. Len(past) /\ Len(topics) \in Nat  OBVIOUS
<1>2. 0 \in Good
  <2>1. r[0].topics = <<>> /\ r[0].recent = past  BY <1>1 DEF Start
  <2>2. r[0].topics \in Seq(P!Topics) /\ Len(r[0].topics) = 0 /\ DOMAIN r[0].topics = {} /\ 1 .. 0 = {}  BY <2>1
  <2>3. \A h \in DOMAIN past : 0 + h = h  BY <1>0
  <2>4. Rotated(r[0].topics)  BY <2>2
  <2> HIDE DEF Rotated
  <2>5. Fact(0)  BY <1>0, <2>1, <2>2, <2>3, <2>4
  <2> HIDE DEF Fact
  <2> QED  BY <2>5
<1>3. ASSUME NEW m \in Nat, m \in Good PROVE m + 1 \in Good
  <2> SUFFICES ASSUME m + 1 <= Len(topics) PROVE Fact(m + 1)
    <3> HIDE DEF Fact
    <3> QED  OBVIOUS
  <2> DEFINE acc == r[m]
             given == r[m].topics
             recent == r[m].recent
             format == ChosenFormat(topics, m + 1, acc)
             x == [topics[m + 1] EXCEPT !.format = format]
  <2>1. r[m + 1] = AssignStep(topics, m + 1, acc) /\ topics[m + 1] \in P!Topics
    BY <1>0, <1>1
  <2>2. /\ given \in Seq(P!Topics) /\ Len(given) = m /\ DOMAIN given = 1 .. m
        /\ \A k \in 1 .. m : given[k].subject = topics[k].subject /\ given[k].format \in P!Formats
        /\ recent \in Seq(P!Formats) /\ Len(recent) = m + Len(past) /\ DOMAIN recent = 1 .. (m + Len(past))
        /\ \A k \in 1 .. m : recent[m + 1 - k] = given[k].format
        /\ \A h \in DOMAIN past : recent[m + h] = past[h]
        /\ Rotated(given)
    <3>1. Fact(m)
      <4> HIDE DEF Fact
      <4> QED  BY <1>3
    <3>2. DOMAIN given = 1 .. Len(given) /\ DOMAIN recent = 1 .. Len(recent)  BY <3>1
    <3> QED  BY <3>1, <3>2
  <2>3. /\ format \in P!Formats
        /\ Len(Bank) > WindowK => \A l \in DOMAIN recent : l <= WindowK => format # recent[l]
    <3> HIDE DEF Fact, Good, given, Rotated
    <3>1. recent \in Seq(P!Formats) /\ Len(acc.topics) \in Nat  BY <2>2 DEF given
    <3> QED  BY <3>1, ChosenFacts DEF ChosenFormat
  <2> HIDE DEF Good, acc, format
  <2>4. x \in P!Topics /\ x.subject = topics[m + 1].subject /\ x.format = format
    <3> HIDE DEF Fact
    <3> QED  BY <2>1, <2>3 DEF P!Topics
  <2>5. r[m + 1].topics = Append(given, x) /\ r[m + 1].recent = <<format>> \o recent
    BY <2>1 DEF AssignStep, acc, format
  <2> HIDE DEF x, given, recent, Fact
  <2>6. /\ r[m + 1].topics \in Seq(P!Topics) /\ Len(r[m + 1].topics) = m + 1
        /\ DOMAIN r[m + 1].topics = 1 .. (m + 1)
        /\ \A k \in 1 .. m : r[m + 1].topics[k] = given[k]
        /\ r[m + 1].topics[m + 1] = x
    <3> HIDE DEF Rotated
    <3> QED  BY <2>2, <2>4, <2>5
  <2>7. /\ r[m + 1].recent \in Seq(P!Formats) /\ Len(r[m + 1].recent) = m + 1 + Len(past)
        /\ r[m + 1].recent[1] = format
        /\ \A k \in 1 .. (m + Len(past)) : r[m + 1].recent[k + 1] = recent[k]
    <3> HIDE DEF Rotated
    <3> QED  BY <1>0, <2>2, <2>3, <2>5
  <2>8. \A k \in 1 .. (m + 1) : /\ r[m + 1].topics[k].subject = topics[k].subject
                                /\ r[m + 1].topics[k].format \in P!Formats
    <3> HIDE DEF Rotated
    <3>1. \A k \in 1 .. (m + 1) : k \in 1 .. m \/ k = m + 1  OBVIOUS
    <3> QED  BY <2>2, <2>3, <2>4, <2>6, <3>1
  <2>9. \A k \in 1 .. (m + 1) : r[m + 1].recent[m + 1 + 1 - k] = r[m + 1].topics[k].format
    <3> HIDE DEF Rotated
    <3> SUFFICES ASSUME NEW k \in 1 .. (m + 1) PROVE r[m + 1].recent[m + 1 + 1 - k] = r[m + 1].topics[k].format
      OBVIOUS
    <3>1. CASE k = m + 1  BY <2>4, <2>6, <2>7, <3>1
    <3>2. CASE k \in 1 .. m
      <4>1. m + 1 - k \in 1 .. (m + Len(past)) /\ m + 1 + 1 - k = (m + 1 - k) + 1  BY <1>0, <3>2
      <4>2. r[m + 1].recent[m + 1 + 1 - k] = recent[m + 1 - k]  BY <2>7, <4>1
      <4>3. recent[m + 1 - k] = given[k].format  BY <2>2, <3>2
      <4> QED  BY <2>6, <3>2, <4>2, <4>3
    <3> QED  BY <3>1, <3>2
  <2>10. \A h \in DOMAIN past : r[m + 1].recent[m + 1 + h] = past[h]
    <3> HIDE DEF Rotated
    <3> SUFFICES ASSUME NEW h \in DOMAIN past PROVE r[m + 1].recent[m + 1 + h] = past[h]
      OBVIOUS
    <3>1. m + h \in 1 .. (m + Len(past)) /\ m + 1 + h = (m + h) + 1  BY <1>0
    <3> QED  BY <2>2, <2>7, <3>1
  <2>11. Rotated(r[m + 1].topics)
    <3> SUFFICES ASSUME Len(Bank) > WindowK, NEW k \in 1 .. (m + 1)
                 PROVE  /\ \A l \in 1 .. (m + 1) : l < k /\ k - l <= WindowK =>
                             r[m + 1].topics[k].format # r[m + 1].topics[l].format
                        /\ \A h \in DOMAIN past : k - 1 + h <= WindowK => r[m + 1].topics[k].format # past[h]
      BY <2>6
    <3>1. CASE k \in 1 .. m
      <4>1. \A l \in 1 .. (m + 1) : l < k => l \in 1 .. m  BY <3>1
      <4>2. /\ \A l \in 1 .. m : l < k /\ k - l <= WindowK => given[k].format # given[l].format
            /\ \A h \in DOMAIN past : k - 1 + h <= WindowK => given[k].format # past[h]
        BY <2>2, <3>1
      <4> HIDE DEF Rotated
      <4> QED  BY <2>6, <3>1, <4>1, <4>2
    <3>2. CASE k = m + 1
      <4>1. r[m + 1].topics[k].format = format  BY <2>4, <2>6, <3>2
      <4>2. \A l \in DOMAIN recent : l <= WindowK => format # recent[l]  BY <2>3
      <4>3. ASSUME NEW l \in 1 .. (m + 1), l < k, k - l <= WindowK
            PROVE  format # r[m + 1].topics[l].format
        <5>1. l \in 1 .. m /\ m + 1 - l \in 1 .. (m + Len(past)) /\ m + 1 - l <= WindowK
          BY <1>0, <3>2, <4>3
        <5> HIDE DEF Rotated
        <5> QED  BY <2>2, <2>6, <4>2, <5>1
      <4>4. ASSUME NEW h \in DOMAIN past, k - 1 + h <= WindowK PROVE format # past[h]
        <5>1. m + h \in 1 .. (m + Len(past)) /\ m + h <= WindowK  BY <1>0, <3>2, <4>4
        <5> HIDE DEF Rotated
        <5> QED  BY <2>2, <4>2, <5>1
      <4> QED  BY <4>1, <4>3, <4>4
    <3> QED  BY <3>1, <3>2
  <2> HIDE DEF Rotated
  <2> QED  BY <2>6, <2>7, <2>8, <2>9, <2>10, <2>11 DEF Fact
<1> HIDE DEF Good, Rotated
<1>4. Len(topics) \in Good /\ Len(topics) \in Nat  BY <1>2, <1>3, AllNumbers
<1>5. Fact(Len(topics))
  <2> HIDE DEF Fact
  <2> QED  BY <1>4 DEF Good
<1>6. DOMAIN r[Len(topics)].topics = 1 .. Len(topics)  BY <1>5
<1> QED  BY <1>1, <1>5, <1>6 DEF Rotated

LEMMA PCardinality ==
  ASSUME NEW set
  PROVE  P!Cardinality(set) = Cardinality(set)
  BY DEF P!Cardinality, Cardinality, P!IsFiniteSet, IsFiniteSet

LEMMA Numbered ==
  ASSUME NEW n \in Nat
  PROVE  IsFiniteSet(1 .. n) /\ Cardinality(1 .. n) = n
<1>1. 1 \in Int /\ n \in Int /\ (IF 1 > n THEN 0 ELSE n - 1 + 1) = n  OBVIOUS
<1> QED  BY <1>1, FS_Interval, Zenon

\* Rows of the database, in the order of their days.
Dated(n) ==
  /\ DOMAIN projects = 1 .. n
  /\ \A i \in 1 .. n : projects[i].day \in Nat

\* Among rows there is a first one.
LEMMA FirstRow ==
  ASSUME NEW n \in Nat, Dated(n), NEW flip \in BOOLEAN, NEW s \in SUBSET (1 .. n), s # {}
  PROVE  \E x \in s : \A y \in s \ {x} : P!Newer(flip, x, y)
<1> DEFINE First(u) == \E x \in u : \A y \in u \ {x} : P!Newer(flip, x, y)
           Good == {m \in Nat : m <= n => \A u \in SUBSET (1 .. m) : u # {} => First(u)}
<1>1. 0 \in Good
  <2>1. 1 .. 0 = {}  OBVIOUS
  <2> HIDE DEF First
  <2> QED  BY <2>1
<1>2. ASSUME NEW m \in Nat, m \in Good PROVE m + 1 \in Good
  <2> SUFFICES ASSUME m + 1 <= n, NEW u \in SUBSET (1 .. (m + 1)), u # {} PROVE First(u)
    <3> HIDE DEF First
    <3> QED  OBVIOUS
  <2>0. \A w \in SUBSET (1 .. m) : w # {} => First(w)
    <3> HIDE DEF First
    <3> QED  BY <1>2
  <2>1. CASE m + 1 \notin u
    <3>1. u \in SUBSET (1 .. m)  BY <2>1
    <3> HIDE DEF First
    <3> QED  BY <2>0, <3>1
  <2>2. CASE u = {m + 1}  BY <2>2
  <2>3. CASE m + 1 \in u /\ u \ {m + 1} # {}
    <3>1. u \ {m + 1} \in SUBSET (1 .. m)  OBVIOUS
    <3>2. First(u \ {m + 1})
      <4> HIDE DEF First
      <4> QED  BY <2>0, <2>3, <3>1
    <3>3. PICK x \in u \ {m + 1} : \A y \in (u \ {m + 1}) \ {x} : P!Newer(flip, x, y)
      BY <3>2
    <3>4. x \in 1 .. m /\ m + 1 \in 1 .. n /\ x \in 1 .. n  OBVIOUS
    <3>5. projects[x].day \in Nat /\ projects[m + 1].day \in Nat /\ \A y \in u : y \in 1 .. n /\ projects[y].day \in Nat
      BY <3>4 DEF Dated
    <3>6. CASE P!Newer(flip, x, m + 1)  BY <3>3, <3>6
    <3>7. CASE ~P!Newer(flip, x, m + 1)
      <4>1. P!Newer(flip, m + 1, x)  BY <3>4, <3>5, <3>7 DEF P!Newer
      <4>2. ASSUME NEW y \in u \ {m + 1} PROVE P!Newer(flip, m + 1, y)
        <5>1. CASE y = x  BY <4>1, <5>1
        <5>2. CASE y # x
          <6>1. P!Newer(flip, x, y)  BY <3>3, <5>2
          <6> QED  BY <3>4, <3>5, <4>1, <6>1 DEF P!Newer
        <5> QED  BY <5>1, <5>2
      <4> QED  BY <2>3, <4>2
    <3> QED  BY <3>6, <3>7
  <2> QED  BY <2>1, <2>2, <2>3
<1> HIDE DEF Good
<1>3. n \in Good  BY <1>1, <1>2, AllNumbers
<1>4. \A u \in SUBSET (1 .. n) : u # {} => First(u)
  <2> HIDE DEF First
  <2> QED  BY <1>3 DEF Good
<1> QED  BY <1>4

\* Rows can be put in order.
Ordered(flip, s, o) == \A k, l \in DOMAIN o : k < l => P!Newer(flip, o[k], o[l])

LEMMA RowsInOrder ==
  ASSUME NEW n \in Nat, Dated(n), NEW flip \in BOOLEAN, NEW s \in SUBSET (1 .. n)
  PROVE  \E o \in [1 .. Cardinality(s) -> s] : Ordered(flip, s, o)
<1> DEFINE Sorts(c, u) == \E o \in [1 .. c -> u] : Ordered(flip, u, o)
           Good == {c \in Nat : \A u \in SUBSET (1 .. n) : Cardinality(u) = c => Sorts(c, u)}
<1>0. ASSUME NEW u \in SUBSET (1 .. n) PROVE IsFiniteSet(u) /\ Cardinality(u) \in Nat
  <2>1. IsFiniteSet(1 .. n)  BY FS_Interval
  <2>2. IsFiniteSet(u)  BY <2>1, FS_Subset
  <2> QED  BY <2>2, FS_CardinalityType
<1>1. 0 \in Good
  <2> SUFFICES ASSUME NEW u \in SUBSET (1 .. n) PROVE Sorts(0, u)
    <3> HIDE DEF Sorts
    <3> QED  OBVIOUS
  <2>1. 1 .. 0 = {}  OBVIOUS
  <2>2. <<>> \in [1 .. 0 -> u] /\ DOMAIN <<>> = {}  BY <2>1
  <2> QED  BY <2>2 DEF Ordered
<1>2. ASSUME NEW c \in Nat, c \in Good PROVE c + 1 \in Good
  <2> SUFFICES ASSUME NEW u \in SUBSET (1 .. n), Cardinality(u) = c + 1 PROVE Sorts(c + 1, u)
    <3> HIDE DEF Sorts
    <3> QED  OBVIOUS
  <2>1. u # {}
    <3>1. Cardinality({}) = 0  BY FS_EmptySet
    <3> QED  BY <3>1
  <2>2. PICK x \in u : \A y \in u \ {x} : P!Newer(flip, x, y)
    BY <2>1, FirstRow
  <2>3. Cardinality(u \ {x}) = c
    <3>1. Cardinality(u \ {x}) = IF x \in u THEN Cardinality(u) - 1 ELSE Cardinality(u)
      BY <1>0, FS_RemoveElement
    <3> QED  BY <3>1
  <2>4. Sorts(c, u \ {x})
    <3> HIDE DEF Sorts
    <3>1. u \ {x} \in SUBSET (1 .. n)  OBVIOUS
    <3> QED  BY <1>2, <2>3, <3>1
  <2>5. PICK o \in [1 .. c -> u \ {x}] : Ordered(flip, u \ {x}, o)
    BY <2>4
  <2> DEFINE p == [k \in 1 .. (c + 1) |-> IF k = 1 THEN x ELSE o[k - 1]]
  <2>6. ASSUME NEW k \in 1 .. (c + 1), k # 1 PROVE k - 1 \in 1 .. c /\ p[k] = o[k - 1] /\ o[k - 1] \in u \ {x}
    BY <2>6
  <2>7. p \in [1 .. (c + 1) -> u]  BY <2>6
  <2>8. Ordered(flip, u, p)
    <3> SUFFICES ASSUME NEW k \in 1 .. (c + 1), NEW l \in 1 .. (c + 1), k < l PROVE P!Newer(flip, p[k], p[l])
      BY DEF Ordered
    <3>1. l # 1  OBVIOUS
    <3>2. p[l] = o[l - 1] /\ o[l - 1] \in u \ {x} /\ l - 1 \in 1 .. c  BY <2>6, <3>1
    <3>3. CASE k = 1
      <4>1. p[k] = x  BY <3>3
      <4> HIDE DEF p
      <4> QED  BY <2>2, <3>2, <4>1
    <3>4. CASE k # 1
      <4>1. k - 1 \in 1 .. c /\ p[k] = o[k - 1] /\ k - 1 < l - 1  BY <2>6, <3>4
      <4> HIDE DEF p
      <4> QED  BY <2>5, <3>2, <4>1 DEF Ordered
    <3> QED  BY <3>3, <3>4
  <2> QED  BY <2>7, <2>8
<1> HIDE DEF Good
<1>3. Cardinality(s) \in Good  BY <1>0, <1>1, <1>2, AllNumbers
<1>4. Sorts(Cardinality(s), s)
  <2> HIDE DEF Sorts
  <2> QED  BY <1>3 DEF Good
<1> QED  BY <1>4

\* The long videos that come after a row, by their days.
Later(i) == {l \in P!Rows \ {i} : projects[l].long /\ projects[l].day >= projects[i].day}

\* A long video is read at its place: those before it came later.
LEMMA HistoryFacts ==
  ASSUME NEW n \in Nat, Dated(n), NEW flip \in BOOLEAN,
         \A i \in 1 .. n : projects[i].long \in BOOLEAN /\ projects[i].format \in P!Formats \cup {NoFormat}
  PROVE  /\ P!FormatHistory(flip) \in Seq(P!Formats)
         /\ \A i \in P!Read(flip) : projects[i].long /\ projects[i].format # NoFormat =>
              \E h \in DOMAIN P!FormatHistory(flip) :
                P!FormatHistory(flip)[h] = projects[i].format /\ h - 1 <= Cardinality(Later(i))
<1> DEFINE rows == {i \in P!Read(flip) : projects[i].long /\ projects[i].format # NoFormat}
           c == Cardinality(rows)
           o == CHOOSE q \in [1 .. c -> rows] : \A k, l \in DOMAIN q : k < l => P!Newer(flip, q[k], q[l])
<1>1. rows \in SUBSET (1 .. n) /\ \A i \in rows : projects[i].format \in P!Formats /\ projects[i].long
  BY DEF P!Read, P!Rows, Dated
<1>2. IsFiniteSet(rows) /\ c \in Nat
  <2>1. IsFiniteSet(1 .. n)  BY FS_Interval
  <2>2. IsFiniteSet(rows)  BY <1>1, <2>1, FS_Subset
  <2> QED  BY <2>2, FS_CardinalityType
<1>3. o \in [1 .. c -> rows] /\ \A k, l \in 1 .. c : k < l => P!Newer(flip, o[k], o[l])
  <2> HIDE DEF rows
  <2>1. \E q \in [1 .. c -> rows] : \A k, l \in DOMAIN q : k < l => P!Newer(flip, q[k], q[l])
    BY <1>1, RowsInOrder DEF Ordered
  <2> QED  BY <2>1
<1>4. P!FormatHistory(flip) = [k \in DOMAIN o |-> projects[o[k]].format]
  <2>1. P!Cardinality(rows) = c  BY PCardinality
  <2> DEFINE sorts(d) == CHOOSE q \in [1 .. d -> rows] : \A k, l \in DOMAIN q : k < l => P!Newer(flip, q[k], q[l])
  <2>2. P!FormatHistory(flip) = [k \in DOMAIN sorts(P!Cardinality(rows)) |-> projects[sorts(P!Cardinality(rows))[k]].format]
    BY DEF P!FormatHistory
  <2>3. sorts(P!Cardinality(rows)) = o  BY <2>1
  <2> HIDE DEF o, sorts
  <2> QED  BY <2>2, <2>3
<1> HIDE DEF o, rows
<1>5. P!FormatHistory(flip) \in [1 .. c -> P!Formats]
  BY <1>1, <1>3, <1>4
<1>6. P!FormatHistory(flip) \in Seq(P!Formats)
  BY <1>2, <1>5
<1>7. o \in Injection(1 .. c, rows)
  <2>1. \A k, l \in 1 .. c : k < l => o[k] # o[l]
    <3> SUFFICES ASSUME NEW k \in 1 .. c, NEW l \in 1 .. c, k < l, o[k] = o[l] PROVE FALSE
      OBVIOUS
    <3>1. P!Newer(flip, o[k], o[k]) /\ o[k] \in 1 .. n /\ projects[o[k]].day \in Nat  BY <1>1, <1>3 DEF Dated
    <3> QED  BY <3>1 DEF P!Newer
  <2>2. \A k, l \in 1 .. c : o[k] = o[l] => k = l
    <3> SUFFICES ASSUME NEW k \in 1 .. c, NEW l \in 1 .. c, o[k] = o[l], k # l PROVE FALSE
      OBVIOUS
    <3>1. k < l \/ l < k  BY <1>2
    <3> QED  BY <2>1, <3>1
  <2> QED  BY <1>3, <2>2 DEF Injection, IsInjective
<1>8. o \in Surjection(1 .. c, rows)
  <2>1. Cardinality(1 .. c) = c  BY <1>2, Numbered
  <2> QED  BY <1>2, <1>7, <2>1, FS_Injection DEF c
<1>9. ASSUME NEW i \in rows
      PROVE  \E h \in 1 .. c : P!FormatHistory(flip)[h] = projects[i].format /\ h - 1 <= Cardinality(Later(i))
  <2>1. PICK h \in 1 .. c : o[h] = i  BY <1>8, <1>9 DEF Surjection
  <2>2. P!FormatHistory(flip)[h] = projects[i].format  BY <1>3, <1>4, <2>1
  <2> DEFINE before == [k \in 1 .. (h - 1) |-> o[k]]
  <2>3. ASSUME NEW k \in 1 .. (h - 1) PROVE o[k] \in Later(i)
    <3>1. k \in 1 .. c /\ k < h  BY <1>2
    <3>2. P!Newer(flip, o[k], i) /\ o[k] \in rows /\ i \in 1 .. n  BY <1>1, <1>3, <2>1, <3>1
    <3>3. o[k] \in 1 .. n /\ projects[o[k]].day \in Nat /\ projects[i].day \in Nat /\ projects[o[k]].long
      BY <1>1, <3>2 DEF Dated
    <3>4. o[k] # i /\ projects[o[k]].day >= projects[i].day  BY <3>2, <3>3 DEF P!Newer
    <3> QED  BY <3>3, <3>4 DEF Later, P!Rows, Dated
  <2>4. before \in Injection(1 .. (h - 1), Later(i))
    <3>1. \A k, l \in 1 .. (h - 1) : before[k] = before[l] => k = l
      <4> SUFFICES ASSUME NEW k \in 1 .. (h - 1), NEW l \in 1 .. (h - 1), o[k] = o[l] PROVE k = l
        OBVIOUS
      <4>1. k \in 1 .. c /\ l \in 1 .. c  BY <1>2
      <4> QED  BY <1>7, <4>1 DEF Injection, IsInjective
    <3>2. before \in [1 .. (h - 1) -> Later(i)]  BY <2>3
    <3> HIDE DEF before
    <3> QED  BY <3>1, <3>2 DEF Injection, IsInjective
  <2>5. IsFiniteSet(Later(i))
    <3>1. Later(i) \in SUBSET (1 .. n)  BY DEF Later, P!Rows, Dated
    <3>2. IsFiniteSet(1 .. n)  BY FS_Interval
    <3> QED  BY <3>1, <3>2, FS_Subset
  <2> HIDE DEF before
  <2>6. Cardinality(1 .. (h - 1)) <= Cardinality(Later(i))  BY <2>4, <2>5, FS_Injection
  <2>7. Cardinality(1 .. (h - 1)) = h - 1
    <3>1. h - 1 \in Nat  BY <1>2
    <3> QED  BY <3>1, Numbered
  <2> QED  BY <2>2, <2>6, <2>7
<1>10. DOMAIN P!FormatHistory(flip) = 1 .. c  BY <1>5
<1> QED  BY <1>6, <1>9, <1>10 DEF rows

LEMMA SubjectsListed ==
  ASSUME NEW set, IsFiniteSet(set)
  PROVE  P!SetToSeq(set) \in Seq(set) /\ P!ToSet(P!SetToSeq(set)) = set
<1> DEFINE F == [1 .. P!Cardinality(set) -> set]
<1>1. Cardinality(set) \in Nat /\ ExistsBijection(1 .. Cardinality(set), set)
  BY FS_CardinalityType
<1>2. P!Cardinality(set) = Cardinality(set)  BY PCardinality
<1>3. PICK b \in Bijection(1 .. Cardinality(set), set) : TRUE  BY <1>1 DEF ExistsBijection
<1>4. b \in F /\ P!IsInjective(b)
  BY <1>2, <1>3 DEF Bijection, Injection, Surjection, IsInjective, P!IsInjective
<1>5. P!SetToSeq(set) = CHOOSE g \in F : P!IsInjective(g)
  BY DEF P!SetToSeq
<1>6. P!SetToSeq(set) \in F /\ P!IsInjective(P!SetToSeq(set))
  BY <1>4, <1>5
<1> DEFINE g == P!SetToSeq(set)
<1>7. g \in Injection(1 .. Cardinality(set), set)
  BY <1>2, <1>6 DEF Injection, IsInjective, P!IsInjective
<1> HIDE DEF g
<1>8. g \in Surjection(1 .. Cardinality(set), set)
  <2>1. Cardinality(1 .. Cardinality(set)) = Cardinality(set)  BY <1>1, Numbered
  <2> QED  BY <1>7, <2>1, FS_Injection
<1>9. g \in [1 .. Cardinality(set) -> set] /\ \A x \in set : \E k \in 1 .. Cardinality(set) : g[k] = x
  BY <1>7, <1>8 DEF Injection, Surjection
<1>10. g \in Seq(set)  BY <1>1, <1>9
<1>11. P!ToSet(g) = set  BY <1>9 DEF P!ToSet
<1> QED  BY <1>10, <1>11 DEF g

\* A pass in the states its code can be in.
PlannerStates == [at : {"idle", "history", "llm", "rotate", "persist"}, history : Seq(Subjects),
                  longs : Seq(P!Topics), shorts : Seq(P!Topics)]

PlannerTypes == P!PlannerTypeOK /\ planner \in [Planners -> PlannerStates]

\* The rows are in the order of their days, and a long video has a format of the
\* bank, if there is one.
RowsInTime ==
  /\ \A i \in P!Rows : projects[i].day <= today
  /\ \A i, j \in P!Rows : i < j => projects[i].day <= projects[j].day
  /\ Bank # <<>> => \A i \in P!Rows : projects[i].long => projects[i].format \in P!Formats

FormatsGiven ==
  Bank # <<>> => \A p \in Planners : P!At(p, "persist") =>
    \A k \in DOMAIN planner[p].longs : planner[p].longs[k].format \in P!Formats

\* The subjects a reading did not leave out.
Seen(i) == ~projects[i].missed

\* The plan of a pass is like nothing that was seen, nor like itself.
FreshPlan(p) ==
  /\ \A k \in DOMAIN planner[p].longs : planner[p].longs[k].subject # Filler =>
       /\ \A i \in P!Rows : Seen(i) => <<projects[i].subject, planner[p].longs[k].subject>> \notin Similar
       /\ \A l \in DOMAIN planner[p].longs :
            l < k => <<planner[p].longs[l].subject, planner[p].longs[k].subject>> \notin Similar
  /\ today \in LlmDays => \A k \in DOMAIN planner[p].shorts :
       /\ \A i \in P!Rows : Seen(i) => <<projects[i].subject, planner[p].shorts[k].subject>> \notin Similar
       /\ \A l \in DOMAIN planner[p].longs : <<planner[p].longs[l].subject, planner[p].shorts[k].subject>> \notin Similar
       /\ \A l \in DOMAIN planner[p].shorts :
            l < k => <<planner[p].shorts[l].subject, planner[p].shorts[k].subject>> \notin Similar

\* Each long video of the plan has another format than the WindowK before it, in
\* the plan or among the rows that were seen.
RotatedPlan(p) ==
  Len(Bank) > WindowK => \A k \in DOMAIN planner[p].longs :
    /\ \A l \in DOMAIN planner[p].longs :
         l < k /\ k - l <= WindowK => planner[p].longs[k].format # planner[p].longs[l].format
    /\ \A i \in P!Rows : projects[i].long /\ Seen(i) /\ k - 1 + Cardinality(Later(i)) < WindowK =>
         planner[p].longs[k].format # projects[i].format

PassKnows(p) ==
  /\ P!At(p, "llm") => \A i \in P!Rows : Seen(i) => projects[i].subject \in P!ToSet(planner[p].history)
  /\ P!At(p, "rotate") \/ P!At(p, "persist") => FreshPlan(p)
  /\ P!At(p, "persist") => RotatedPlan(p)

\* While passes do not cross, there is one at most, and it knows what it needs.
PassAlone ==
  ~crossed => /\ \A p, q \in Planners : ~P!At(p, "idle") /\ ~P!At(q, "idle") => p = q
              /\ \A p \in Planners : PassKnows(p)

PlannerInv == PlannerTypes /\ RowsInTime /\ FormatsGiven /\ PassAlone /\ P!FreshSubjects /\ P!FormatsRotate

RowType == [subject : Subjects, format : P!Formats \cup {NoFormat}, long : BOOLEAN, day : Nat,
            status : P!Statuses, byAgent : BOOLEAN, missed : BOOLEAN]

\* The long videos that FormatsRotate counts.
Between(i, j) ==
  {l \in P!Rows \ {i, j} : /\ projects[l].long
                           /\ projects[l].day >= projects[i].day
                           /\ projects[l].day < projects[j].day \/ l < j}

\* FormatsRotate counts as the proofs do.
Rotation ==
  ~crossed /\ Len(Bank) > WindowK => \A i, j \in P!Rows :
    /\ i < j /\ projects[i].long /\ projects[j].long /\ Seen(i)
    /\ Cardinality(Between(i, j)) < WindowK
    => projects[i].format # projects[j].format

LEMMA RotationIs == (P!FormatsRotate <=> Rotation) /\ (P!FormatsRotate' <=> Rotation')
<1>1. P!FormatsRotate <=> Rotation
  <2>1. \A i, j : P!Cardinality(Between(i, j)) = Cardinality(Between(i, j))  BY PCardinality
  <2>2. P!FormatsRotate <=>
      (~crossed /\ Len(Bank) > WindowK => \A i, j \in P!Rows :
         /\ i < j /\ projects[i].long /\ projects[j].long /\ Seen(i)
         /\ P!Cardinality(Between(i, j)) < WindowK
         => projects[i].format # projects[j].format)
    BY DEF P!FormatsRotate, Between, Seen
  <2> QED  BY <2>1, <2>2, Zenon DEF Rotation
<1>2. P!FormatsRotate' <=> Rotation'
  <2>1. \A i, j : P!Cardinality(Between(i, j)') = Cardinality(Between(i, j)')  BY PCardinality
  <2>2. P!FormatsRotate' <=>
      (~crossed' /\ Len(Bank) > WindowK => \A i, j \in P!Rows' :
         /\ i < j /\ projects'[i].long /\ projects'[j].long /\ Seen(i)'
         /\ P!Cardinality(Between(i, j)') < WindowK
         => projects'[i].format # projects'[j].format)
    BY DEF P!FormatsRotate, Between, Seen
  <2> QED  BY <2>1, <2>2, Zenon DEF Rotation
<1> QED  BY <1>1, <1>2

LEMMA RowTypes ==
  ASSUME PlannerTypes
  PROVE  /\ projects \in Seq(RowType) /\ Len(projects) \in Nat /\ P!Rows = 1 .. Len(projects)
         /\ Dated(Len(projects))
         /\ \A i \in P!Rows : projects[i] \in RowType
<1>1. projects \in Seq(RowType)  BY DEF PlannerTypes, P!PlannerTypeOK, RowType
<1>2. Len(projects) \in Nat /\ DOMAIN projects = 1 .. Len(projects) /\ \A i \in 1 .. Len(projects) : projects[i] \in RowType
  BY <1>1
<1>3. \A x \in RowType : x.day \in Nat  BY DEF RowType
<1> QED  BY <1>1, <1>2, <1>3 DEF P!Rows, Dated

\* Steps that change no row but its status, and what was seen of it.
RowsKept ==
  /\ projects' \in Seq(RowType) /\ DOMAIN projects' = DOMAIN projects
  /\ \A i \in P!Rows :
       /\ projects'[i].subject = projects[i].subject /\ projects'[i].format = projects[i].format
       /\ projects'[i].long = projects[i].long /\ projects'[i].day = projects[i].day
       /\ projects'[i].byAgent = projects[i].byAgent
       /\ ~projects'[i].missed => ~projects[i].missed

LEMMA KeptStays ==
  ASSUME PlannerInv, RowsKept, today <= today', today \in Nat, today' \in Nat, crossed => crossed'
  PROVE  /\ RowsInTime' /\ P!FreshSubjects' /\ P!FormatsRotate'
         /\ \A i \in P!Rows : Later(i)' = Later(i)
<1>1. \A i \in P!Rows : projects[i].day \in Nat
  BY RowTypes DEF PlannerInv, RowType
<1>2. P!Rows' = P!Rows  BY DEF RowsKept, P!Rows
<1>3. RowsInTime'  BY <1>1, <1>2 DEF PlannerInv, RowsInTime, RowsKept
<1>4. P!FreshSubjects'
  <2> SUFFICES ASSUME ~crossed', NEW i \in P!Rows, NEW j \in P!Rows,
                      i < j, projects'[j].byAgent, ~projects'[i].missed, projects'[j].subject # Filler,
                      projects'[j].long \/ projects'[j].day \in LlmDays
               PROVE  <<projects'[i].subject, projects'[j].subject>> \notin Similar
    BY <1>2 DEF P!FreshSubjects
  <2>1. /\ ~crossed /\ projects[j].byAgent /\ ~projects[i].missed /\ projects[j].subject # Filler
        /\ projects[j].long \/ projects[j].day \in LlmDays
    BY DEF RowsKept
  <2>2. <<projects[i].subject, projects[j].subject>> \notin Similar
    BY <2>1 DEF PlannerInv, P!FreshSubjects
  <2> QED  BY <2>2 DEF RowsKept
<1>5. \A i \in P!Rows : Later(i)' = Later(i)
  BY <1>2 DEF Later, RowsKept
<1>6. \A i, j \in P!Rows : Between(i, j)' = Between(i, j)
  BY <1>2 DEF Between, RowsKept
<1>7. P!FormatsRotate'
  <2> SUFFICES ASSUME ~crossed', Len(Bank) > WindowK, NEW i \in P!Rows, NEW j \in P!Rows,
                      i < j, projects'[i].long, projects'[j].long, ~projects'[i].missed,
                      Cardinality(Between(i, j)') < WindowK
               PROVE  projects'[i].format # projects'[j].format
    BY <1>2, RotationIs DEF Rotation, Seen
  <2>1. ~crossed /\ projects[i].long /\ projects[j].long /\ Seen(i) /\ Cardinality(Between(i, j)) < WindowK
    BY <1>6 DEF RowsKept, Seen
  <2>2. projects[i].format # projects[j].format
    BY <2>1, RotationIs DEF PlannerInv, Rotation
  <2> QED  BY <2>2 DEF RowsKept
<1> QED  BY <1>3, <1>4, <1>5, <1>7

\* What a pass knows stays so while the others read, and the status of projects changes.
LEMMA KnowledgeStays ==
  ASSUME PlannerInv, RowsKept, today' = today, NEW p \in Planners, planner'[p] = planner[p], PassKnows(p),
         \A i \in P!Rows : Later(i)' = Later(i)
  PROVE  PassKnows(p)'
<1>1. P!Rows' = P!Rows  BY DEF RowsKept, P!Rows
<1>2. \A i \in P!Rows : /\ projects'[i].subject = projects[i].subject /\ projects'[i].format = projects[i].format
                        /\ projects'[i].long = projects[i].long
                        /\ ~projects'[i].missed => ~projects[i].missed
  BY DEF RowsKept
<1>3. \A l : P!At(p, l)' <=> P!At(p, l)  BY DEF P!At
<1> DEFINE x == planner[p]
<1>4. ASSUME FreshPlan(p) PROVE FreshPlan(p)'
  <2>1. ASSUME NEW k \in DOMAIN x.longs, x.longs[k].subject # Filler
        PROVE  /\ \A i \in P!Rows' : ~projects'[i].missed => <<projects'[i].subject, x.longs[k].subject>> \notin Similar
               /\ \A l \in DOMAIN x.longs : l < k => <<x.longs[l].subject, x.longs[k].subject>> \notin Similar
    BY <1>1, <1>2, <1>4, <2>1 DEF FreshPlan, Seen
  <2>2. ASSUME today \in LlmDays, NEW k \in DOMAIN x.shorts
        PROVE  /\ \A i \in P!Rows' : ~projects'[i].missed => <<projects'[i].subject, x.shorts[k].subject>> \notin Similar
               /\ \A l \in DOMAIN x.longs : <<x.longs[l].subject, x.shorts[k].subject>> \notin Similar
               /\ \A l \in DOMAIN x.shorts : l < k => <<x.shorts[l].subject, x.shorts[k].subject>> \notin Similar
    BY <1>1, <1>2, <1>4, <2>2 DEF FreshPlan, Seen
  <2>3. planner'[p] = x  OBVIOUS
  <2> HIDE DEF x
  <2> QED  BY <2>1, <2>2, <2>3 DEF FreshPlan, Seen
<1>5. ASSUME RotatedPlan(p) PROVE RotatedPlan(p)'
  <2>1. ASSUME Len(Bank) > WindowK, NEW k \in DOMAIN x.longs
        PROVE  /\ \A l \in DOMAIN x.longs : l < k /\ k - l <= WindowK => x.longs[k].format # x.longs[l].format
               /\ \A i \in P!Rows' : projects'[i].long /\ ~projects'[i].missed /\ k - 1 + Cardinality(Later(i)') < WindowK =>
                    x.longs[k].format # projects'[i].format
    BY <1>1, <1>2, <1>5, <2>1 DEF RotatedPlan, Seen
  <2>3. planner'[p] = x  OBVIOUS
  <2> HIDE DEF x
  <2> QED  BY <2>1, <2>3 DEF RotatedPlan, Seen
<1>6. ASSUME P!At(p, "llm") PROVE \A i \in P!Rows' : ~projects'[i].missed => projects'[i].subject \in P!ToSet(planner'[p].history)
  BY <1>1, <1>2, <1>6 DEF PassKnows, Seen
<1> QED  BY <1>3, <1>4, <1>5, <1>6 DEF PassKnows, Seen

\* A pass moves to another state of its own.
PlannerBase(t, h, c, rows) ==
  /\ t \in 1 .. MaxDay /\ h \in 0 .. MaxByHand /\ c \in BOOLEAN /\ rows \in Seq(RowType)

LEMMA TypesAre ==
  /\ PlannerTypes <=>
       /\ PlannerBase(today, handmade, crossed, projects) /\ planner \in [Planners -> PlannerStates]
       /\ \A q \in Planners : Len(planner[q].longs) <= PlanLong /\ Len(planner[q].shorts) <= PlanShort
  /\ PlannerTypes' <=>
       /\ PlannerBase(today', handmade', crossed', projects') /\ planner' \in [Planners -> PlannerStates]
       /\ \A q \in Planners : Len(planner'[q].longs) <= PlanLong /\ Len(planner'[q].shorts) <= PlanShort
<1>1. \A x \in PlannerStates : /\ x.at \in {"idle", "history", "llm", "rotate", "persist"}
                               /\ x.longs \in Seq(P!Topics) /\ x.shorts \in Seq(P!Topics)
  BY DEF PlannerStates
<1>2. \A f \in [Planners -> PlannerStates], q \in Planners : f[q] \in PlannerStates  OBVIOUS
<1> HIDE DEF PlannerStates
<1> QED  BY <1>1, <1>2, Zenon DEF PlannerTypes, P!PlannerTypeOK, PlannerBase, RowType

LEMMA PassMoves ==
  ASSUME PlannerTypes, NEW p \in Planners, NEW x \in PlannerStates, planner' = [planner EXCEPT ![p] = x],
         Len(x.longs) <= PlanLong, Len(x.shorts) <= PlanShort,
         today' \in 1 .. MaxDay, handmade' \in 0 .. MaxByHand, crossed' \in BOOLEAN, projects' \in Seq(RowType)
  PROVE  /\ PlannerTypes' /\ planner'[p] = x
         /\ \A q \in Planners \ {p} : planner'[q] = planner[q]
<1>1. /\ planner \in [Planners -> PlannerStates]
      /\ \A q \in Planners : Len(planner[q].longs) <= PlanLong /\ Len(planner[q].shorts) <= PlanShort
  BY TypesAre
<1>2. planner' \in [Planners -> PlannerStates] /\ planner'[p] = x /\ \A q \in Planners \ {p} : planner'[q] = planner[q]
  BY <1>1
<1>3. \A q \in Planners : Len(planner'[q].longs) <= PlanLong /\ Len(planner'[q].shorts) <= PlanShort
  BY <1>1, <1>2
<1> QED  BY <1>2, <1>3, TypesAre DEF PlannerBase

\* A pass that is the only one goes on.
LEMMA OneGoesOn ==
  ASSUME PlannerInv, RowsKept, today' = today, crossed' = crossed, NEW p \in Planners, ~P!At(p, "idle"),
         \A q \in Planners \ {p} : planner'[q] = planner[q],
         ~crossed => PassKnows(p)',
         \A i \in P!Rows : Later(i)' = Later(i)
  PROVE  PassAlone'
<1>1. ASSUME NEW q \in Planners \ {p}, NEW l PROVE P!At(q, l)' <=> P!At(q, l)  BY DEF P!At
<1>2. ASSUME ~crossed, NEW q \in Planners \ {p} PROVE P!At(q, "idle") /\ PassKnows(q)
  BY <1>2 DEF PlannerInv, PassAlone
<1>3. ASSUME ~crossed, NEW q \in Planners \ {p} PROVE P!At(q, "idle")' /\ PassKnows(q)'
  BY <1>1, <1>2, <1>3, KnowledgeStays
<1> QED  BY <1>3 DEF PassAlone

LEMMA FormatsStay ==
  ASSUME PlannerInv, NEW p \in Planners, \A q \in Planners \ {p} : planner'[q] = planner[q],
         Bank # <<>> /\ P!At(p, "persist")' => \A k \in DOMAIN planner'[p].longs : planner'[p].longs[k].format \in P!Formats
  PROVE  FormatsGiven'
<1>1. \A q \in Planners \ {p} : P!At(q, "persist")' <=> P!At(q, "persist")  BY DEF P!At
<1> QED  BY <1>1 DEF PlannerInv, FormatsGiven

LEMMA RestIs == P!Rest \in PlannerStates /\ P!Rest.at = "idle" /\ Len(P!Rest.longs) = 0 /\ Len(P!Rest.shorts) = 0
<1>1. <<>> \in Seq(Subjects) /\ <<>> \in Seq(P!Topics)  OBVIOUS
<1> QED  BY <1>1 DEF P!Rest, PlannerStates

LEMMA PlannerBounds ==
  ASSUME P!PlannerAssumption
  PROVE  /\ {WindowK, PlanLong, PlanShort, MaxDay, MaxProjects, MaxByHand} \subseteq Nat /\ MaxDay > 0
         /\ Filler \in Subjects /\ Evergreen \in Seq(Subjects) /\ Bank \in Seq(P!Formats)
         /\ NoFormat \notin P!Formats
BY DEF P!PlannerAssumption

LEMMA BeginKeeps ==
  ASSUME P!PlannerAssumption, PlannerInv, NEW p \in Planners, P!Begin(p)
  PROVE  PlannerInv'
<1> DEFINE x == [P!Rest EXCEPT !.at = "history"]
<1>1. x \in PlannerStates /\ x.at = "history" /\ Len(x.longs) = 0 /\ Len(x.shorts) = 0
  BY RestIs DEF PlannerStates
<1>2. today' = today /\ projects' = projects /\ planner' = [planner EXCEPT ![p] = x]
  BY DEF P!Begin
<1>3. /\ today \in 1 .. MaxDay /\ handmade \in 0 .. MaxByHand /\ crossed \in BOOLEAN
  BY DEF PlannerInv, PlannerTypes, P!PlannerTypeOK
<1>4. handmade' \in 0 .. MaxByHand /\ crossed' \in BOOLEAN
  BY <1>3, PlannerBounds DEF P!Begin, P!ByHand
<1>5. projects \in Seq(RowType) /\ PlannerTypes  BY RowTypes DEF PlannerInv
<1>6. /\ PlannerTypes' /\ planner'[p] = x /\ \A q \in Planners \ {p} : planner'[q] = planner[q]
  <2>1. 0 <= PlanLong /\ 0 <= PlanShort  BY PlannerBounds
  <2>2. /\ Len(x.longs) <= PlanLong /\ Len(x.shorts) <= PlanShort
        /\ today' \in 1 .. MaxDay /\ projects' \in Seq(RowType)
    BY <1>1, <1>2, <1>3, <1>5, <2>1
  <2> HIDE DEF x
  <2> QED  BY <1>1, <1>2, <1>4, <1>5, <2>2, PassMoves
<1>7. RowsKept  BY <1>2, <1>5 DEF RowsKept
<1>8. crossed => crossed'  BY DEF P!Begin
<1>9. /\ RowsInTime' /\ P!FreshSubjects' /\ P!FormatsRotate'
      /\ \A i \in P!Rows : Later(i)' = Later(i)
  BY <1>2, <1>3, <1>7, <1>8, KeptStays
<1>10. FormatsGiven'
  BY <1>1, <1>6, FormatsStay DEF P!At
<1>11. PassAlone'
  <2> SUFFICES ASSUME ~crossed' PROVE /\ \A q, r \in Planners : ~P!At(q, "idle")' /\ ~P!At(r, "idle")' => q = r
                                      /\ \A q \in Planners : PassKnows(q)'
    BY DEF PassAlone
  <2>1. ~crossed /\ \A q \in Planners : P!At(q, "idle")  BY <1>4 DEF P!Begin
  <2>2. \A q \in Planners \ {p} : P!At(q, "idle")'  BY <1>6, <2>1 DEF P!At
  <2>3. PassKnows(p)'  BY <1>1, <1>6 DEF PassKnows, P!At
  <2>4. \A q \in Planners \ {p} : PassKnows(q)'  BY <2>2 DEF PassKnows, P!At
  <2> QED  BY <2>2, <2>3, <2>4
<1> QED  BY <1>6, <1>9, <1>10, <1>11 DEF PlannerInv

\* A reading marks the rows it leaves out.
LEMMA MarkedKeeps ==
  ASSUME PlannerTypes, NEW flip \in BOOLEAN, P!Marked(flip)
  PROVE  RowsKept /\ \A i \in P!Rows : Seen(i)' => i \in P!Read(flip)
<1>1. projects \in Seq(RowType) /\ Len(projects) \in Nat /\ P!Rows = 1 .. Len(projects)
      /\ \A i \in P!Rows : projects[i] \in RowType
  BY RowTypes
<1>2. ASSUME NEW i \in P!Rows, NEW x \in RowType
      PROVE  /\ [x EXCEPT !.missed = TRUE] \in RowType /\ [x EXCEPT !.missed = TRUE].missed
             /\ [x EXCEPT !.missed = TRUE].subject = x.subject /\ [x EXCEPT !.missed = TRUE].format = x.format
             /\ [x EXCEPT !.missed = TRUE].long = x.long /\ [x EXCEPT !.missed = TRUE].day = x.day
             /\ [x EXCEPT !.missed = TRUE].byAgent = x.byAgent
  BY DEF RowType
<1>3. DOMAIN projects' = P!Rows /\ \A i \in P!Rows : projects'[i] \in RowType
  BY <1>1, <1>2 DEF P!Marked
<1>4. projects' \in Seq(RowType)
  <2>1. projects' \in [1 .. Len(projects) -> RowType]  BY <1>1, <1>3 DEF P!Marked
  <2> QED  BY <1>1, <2>1
<1>5. ASSUME NEW i \in P!Rows
      PROVE  /\ projects'[i].subject = projects[i].subject /\ projects'[i].format = projects[i].format
             /\ projects'[i].long = projects[i].long /\ projects'[i].day = projects[i].day
             /\ projects'[i].byAgent = projects[i].byAgent
             /\ ~projects'[i].missed => ~projects[i].missed /\ i \in P!Read(flip)
  <2>1. CASE i \in P!Read(flip)
    <3>1. projects'[i] = projects[i]  BY <2>1 DEF P!Marked
    <3> QED  BY <2>1, <3>1
  <2>2. CASE i \notin P!Read(flip)
    <3>1. projects'[i] = [projects[i] EXCEPT !.missed = TRUE]  BY <2>2 DEF P!Marked
    <3> QED  BY <1>1, <1>2, <3>1
  <2> QED  BY <2>1, <2>2
<1> QED  BY <1>3, <1>4, <1>5 DEF RowsKept, P!Rows, Seen

\* What a step of a pass that leaves the rows to the others has to show.
LEMMA StepKeeps ==
  ASSUME PlannerInv, NEW p \in Planners, NEW x \in PlannerStates, ~P!At(p, "idle"), RowsKept,
         planner' = [planner EXCEPT ![p] = x], Len(x.longs) <= PlanLong, Len(x.shorts) <= PlanShort,
         today' = today, handmade' = handmade, crossed' = crossed,
         x.at = "persist" /\ Bank # <<>> => \A k \in DOMAIN x.longs : x.longs[k].format \in P!Formats,
         planner'[p] = x /\ ~crossed /\ (\A i \in P!Rows : Later(i)' = Later(i)) => PassKnows(p)'
  PROVE  PlannerInv'
<1>1. today \in 1 .. MaxDay /\ today \in Nat /\ handmade \in 0 .. MaxByHand /\ crossed \in BOOLEAN /\ PlannerTypes
  BY DEF PlannerInv, PlannerTypes, P!PlannerTypeOK
<1>2. /\ PlannerTypes' /\ planner'[p] = x /\ \A q \in Planners \ {p} : planner'[q] = planner[q]
  BY <1>1, PassMoves DEF RowsKept
<1>3. /\ RowsInTime' /\ P!FreshSubjects' /\ P!FormatsRotate'
      /\ \A i \in P!Rows : Later(i)' = Later(i)
  BY <1>1, KeptStays
<1>4. FormatsGiven'
  BY <1>2, FormatsStay DEF P!At
<1>5. PassAlone'
  BY <1>2, <1>3, OneGoesOn
<1> QED  BY <1>2, <1>3, <1>4, <1>5 DEF PlannerInv

\* The evergreen subjects, and the fallback ones after them.
LEMMA PlanIsFresh ==
  ASSUME P!PlannerAssumption, NEW used
  PROVE  LET heuristic == P!HeuristicPlan(used)
         IN /\ heuristic.longs \in Seq(P!Topics) /\ Len(heuristic.longs) = PlanLong
            /\ heuristic.shorts \in Seq(P!Topics) /\ Len(heuristic.shorts) = PlanShort
            /\ \A k \in DOMAIN heuristic.longs : heuristic.longs[k].subject # Filler =>
                 /\ \A other \in used : <<other, heuristic.longs[k].subject>> \notin Similar
                 /\ \A l \in DOMAIN heuristic.longs :
                      l < k => <<heuristic.longs[l].subject, heuristic.longs[k].subject>> \notin Similar
<1> DEFINE fresh == P!Distinct(Evergreen, used)
           pick == P!PickEvergreen(PlanLong, used)
           heuristic == P!HeuristicPlan(used)
<1>1. PlanLong \in Nat /\ PlanShort \in Nat /\ Filler \in Subjects /\ Evergreen \in Seq(Subjects)
  BY PlannerBounds
<1>2. /\ fresh \in Seq(Subjects)
      /\ \A k \in DOMAIN fresh :
           /\ \A other \in used : <<other, fresh[k]>> \notin Similar
           /\ \A l \in DOMAIN fresh : l < k => <<fresh[l], fresh[k]>> \notin Similar
  BY <1>1, DistinctFacts
<1>3. pick = [k \in 1 .. PlanLong |-> IF k <= Len(fresh) THEN fresh[k] ELSE Filler]
  BY DEF P!PickEvergreen
<1> HIDE DEF fresh, pick
<1>4. Len(fresh) \in Nat /\ DOMAIN fresh = 1 .. Len(fresh)  BY <1>2
<1>5. ASSUME NEW k \in 1 .. PlanLong PROVE pick[k] \in Subjects /\ (pick[k] # Filler => k \in DOMAIN fresh /\ pick[k] = fresh[k])
  BY <1>1, <1>2, <1>3, <1>4
<1>6. heuristic.longs = [k \in 1 .. PlanLong |-> P!Topic(pick[k])]
  BY DEF P!HeuristicPlan, pick
<1>7. heuristic.shorts = [k \in 1 .. PlanShort |-> IF PlanLong = 0 THEN P!Topic(Filler) ELSE heuristic.longs[((k - 1) % PlanLong) + 1]]
  BY DEF P!HeuristicPlan
<1> HIDE DEF heuristic
<1>8. ASSUME NEW s \in Subjects PROVE P!Topic(s) \in P!Topics /\ P!Topic(s).subject = s
  BY DEF P!Topic, P!Topics
<1>9. heuristic.longs \in [1 .. PlanLong -> P!Topics] /\ \A k \in 1 .. PlanLong : heuristic.longs[k].subject = pick[k]
  BY <1>5, <1>6, <1>8
<1>10. heuristic.shorts \in [1 .. PlanShort -> P!Topics]
  <2> SUFFICES ASSUME NEW k \in 1 .. PlanShort, PlanLong # 0 PROVE heuristic.longs[((k - 1) % PlanLong) + 1] \in P!Topics
    BY <1>1, <1>7, <1>8
  <2>1. ((k - 1) % PlanLong) + 1 \in 1 .. PlanLong
    <3>1. k - 1 \in Int /\ PlanLong \in Nat \ {0}  BY <1>1
    <3>2. (k - 1) % PlanLong \in 0 .. (PlanLong - 1)  BY <3>1
    <3> QED  BY <3>1, <3>2
  <2> QED  BY <1>9, <2>1
<1>11. /\ heuristic.longs \in Seq(P!Topics) /\ Len(heuristic.longs) = PlanLong /\ DOMAIN heuristic.longs = 1 .. PlanLong
       /\ heuristic.shorts \in Seq(P!Topics) /\ Len(heuristic.shorts) = PlanShort
  BY <1>1, <1>9, <1>10
<1>12. ASSUME NEW k \in 1 .. PlanLong, heuristic.longs[k].subject # Filler
       PROVE  /\ \A other \in used : <<other, heuristic.longs[k].subject>> \notin Similar
              /\ \A l \in 1 .. PlanLong : l < k => <<heuristic.longs[l].subject, heuristic.longs[k].subject>> \notin Similar
  <2>1. k \in DOMAIN fresh /\ heuristic.longs[k].subject = fresh[k]  BY <1>5, <1>9, <1>12
  <2>2. \A l \in 1 .. PlanLong : l < k => l \in DOMAIN fresh /\ heuristic.longs[l].subject = fresh[l]
    BY <1>3, <1>4, <1>9, <2>1
  <2> QED  BY <1>2, <2>1, <2>2
<1> QED  BY <1>11, <1>12 DEF heuristic

LEMMA ReadHistoryKeeps ==
  ASSUME P!PlannerAssumption, PlannerInv, NEW p \in Planners, P!ReadHistory(p)
  PROVE  PlannerInv'
<1>0. PICK flip \in BOOLEAN :
        LET made == P!HeuristicPlan(P!ReadSubjects(flip))
        IN /\ P!Marked(flip)
           /\ planner' = [planner EXCEPT ![p] =
                IF today \in LlmDays THEN [@ EXCEPT !.at = "llm", !.history = P!SetToSeq(P!ReadSubjects(flip))]
                ELSE [@ EXCEPT !.at = "rotate", !.longs = made.longs, !.shorts = made.shorts]]
  BY DEF P!ReadHistory
<1> DEFINE heuristic == P!HeuristicPlan(P!ReadSubjects(flip))
           asking == [planner[p] EXCEPT !.at = "llm", !.history = P!SetToSeq(P!ReadSubjects(flip))]
           chosen == [planner[p] EXCEPT !.at = "rotate", !.longs = heuristic.longs, !.shorts = heuristic.shorts]
           x == IF today \in LlmDays THEN asking ELSE chosen
<1>1. PlannerTypes /\ planner \in [Planners -> PlannerStates] /\ planner[p] \in PlannerStates
  BY DEF PlannerInv, PlannerTypes
<1>2. Len(planner[p].longs) <= PlanLong /\ Len(planner[p].shorts) <= PlanShort
  BY <1>1, TypesAre
<1>3. P!ReadSubjects(flip) \subseteq Subjects /\ IsFiniteSet(P!ReadSubjects(flip))
  <2>1. /\ \A i \in P!Rows : projects[i] \in RowType
        /\ P!Rows = 1 .. Len(projects) /\ Len(projects) \in Nat
    BY <1>1, RowTypes
  <2>2. P!ReadSubjects(flip) \subseteq Subjects
    <3>1. P!Read(flip) \subseteq P!Rows  BY DEF P!Read
    <3>2. \A i \in P!Read(flip) : projects[i].subject \in Subjects  BY <2>1, <3>1 DEF RowType
    <3> QED  BY <3>2 DEF P!ReadSubjects
  <2>3. IsFiniteSet(P!Read(flip))
    <3>1. P!Read(flip) \in SUBSET (1 .. Len(projects))  BY <2>1 DEF P!Read
    <3>2. IsFiniteSet(1 .. Len(projects))  BY <2>1, Numbered
    <3> QED  BY <3>1, <3>2, FS_Subset
  <2>4. [i \in P!Read(flip) |-> projects[i].subject] \in Surjection(P!Read(flip), P!ReadSubjects(flip))
    BY DEF Surjection, P!ReadSubjects
  <2>5. IsFiniteSet(P!ReadSubjects(flip))  BY <2>3, <2>4, FS_Surjection
  <2> QED  BY <2>2, <2>5
<1>4. P!SetToSeq(P!ReadSubjects(flip)) \in Seq(Subjects) /\ P!ToSet(P!SetToSeq(P!ReadSubjects(flip))) = P!ReadSubjects(flip)
  <2>1. P!SetToSeq(P!ReadSubjects(flip)) \in Seq(P!ReadSubjects(flip))  BY <1>3, SubjectsListed
  <2>2. P!SetToSeq(P!ReadSubjects(flip)) \in Seq(Subjects)
    BY <1>3, <2>1
  <2> QED  BY <1>3, <2>2, SubjectsListed
<1>5. /\ heuristic.longs \in Seq(P!Topics) /\ Len(heuristic.longs) = PlanLong
      /\ heuristic.shorts \in Seq(P!Topics) /\ Len(heuristic.shorts) = PlanShort
      /\ \A k \in DOMAIN heuristic.longs : heuristic.longs[k].subject # Filler =>
           /\ \A other \in P!ReadSubjects(flip) : <<other, heuristic.longs[k].subject>> \notin Similar
           /\ \A l \in DOMAIN heuristic.longs :
                l < k => <<heuristic.longs[l].subject, heuristic.longs[k].subject>> \notin Similar
  BY PlanIsFresh
<1> HIDE DEF heuristic
<1>6. PlanLong \in Nat /\ PlanShort \in Nat  BY PlannerBounds
<1>7. /\ asking \in PlannerStates /\ asking.at = "llm" /\ asking.history = P!SetToSeq(P!ReadSubjects(flip))
      /\ asking.longs = planner[p].longs /\ asking.shorts = planner[p].shorts
      /\ chosen \in PlannerStates /\ chosen.at = "rotate" /\ chosen.longs = heuristic.longs /\ chosen.shorts = heuristic.shorts
  BY <1>1, <1>4, <1>5 DEF PlannerStates
<1> HIDE DEF asking, chosen
<1>8. x \in PlannerStates /\ Len(x.longs) <= PlanLong /\ Len(x.shorts) <= PlanShort /\ x.at # "persist"
  BY <1>2, <1>5, <1>6, <1>7
<1>9. /\ planner' = [planner EXCEPT ![p] = x] /\ ~P!At(p, "idle") /\ P!Marked(flip)
      /\ today' = today /\ handmade' = handmade /\ crossed' = crossed
  BY <1>0, <1>1 DEF P!ReadHistory, P!At, heuristic, asking, chosen
<1>10. RowsKept /\ \A i \in P!Rows : Seen(i)' => i \in P!Read(flip)  BY <1>1, <1>9, MarkedKeeps
<1>11. ASSUME planner'[p] = x PROVE PassKnows(p)'
  <2>1. P!Rows' = P!Rows /\ \A i \in P!Rows : projects'[i].subject = projects[i].subject
    BY <1>10 DEF RowsKept, P!Rows
  <2>2. \A i \in P!Rows' : Seen(i)' => projects'[i].subject \in P!ReadSubjects(flip)
    BY <1>10, <2>1 DEF P!ReadSubjects
  <2>3. CASE today \in LlmDays
    <3>1. planner'[p] = asking  BY <1>11, <2>3
    <3> QED  BY <1>4, <1>7, <2>2, <3>1 DEF PassKnows, P!At
  <2>4. CASE today \notin LlmDays
    <3>1. planner'[p] = chosen  BY <1>11, <2>4
    <3>2. FreshPlan(p)'
      <4>1. planner'[p].longs = heuristic.longs  BY <1>7, <3>1
      <4>2. \A k \in DOMAIN heuristic.longs : heuristic.longs[k].subject # Filler =>
              /\ \A i \in P!Rows' : Seen(i)' => <<projects'[i].subject, heuristic.longs[k].subject>> \notin Similar
              /\ \A l \in DOMAIN heuristic.longs : l < k => <<heuristic.longs[l].subject, heuristic.longs[k].subject>> \notin Similar
        BY <1>5, <2>2
      <4> QED  BY <1>9, <2>4, <4>1, <4>2 DEF FreshPlan
    <3> QED  BY <1>7, <3>1, <3>2 DEF PassKnows, P!At
  <2> QED  BY <2>3, <2>4
<1> HIDE DEF x
<1> QED  BY <1>8, <1>9, <1>10, <1>11, StepKeeps

LEMMA NoAnswerKeeps ==
  ASSUME P!PlannerAssumption, PlannerInv, NEW p \in Planners, P!NoAnswer(p)
  PROVE  PlannerInv'
<1>1. /\ planner' = [planner EXCEPT ![p] = P!Rest] /\ ~P!At(p, "idle")
      /\ today' = today /\ projects' = projects /\ handmade' = handmade /\ crossed' = crossed
  BY DEF P!NoAnswer, P!At
<1>2. RowsKept
  BY <1>1, RowTypes DEF RowsKept, PlannerInv
<1>3. planner'[p] = P!Rest => PassKnows(p)'
  BY RestIs DEF PassKnows, P!At
<1>4. Len(P!Rest.longs) <= PlanLong /\ Len(P!Rest.shorts) <= PlanShort  BY RestIs, PlannerBounds
<1> QED  BY <1>1, <1>2, <1>3, <1>4, RestIs, StepKeeps

LEMMA AnswerKeeps ==
  ASSUME P!PlannerAssumption, PlannerInv, NEW p \in Planners, P!Answer(p)
  PROVE  PlannerInv'
<1>1. PICK ln \in 0 .. PlanLong, sn \in 0 .. PlanShort :
        \E longs \in [1 .. ln -> P!Topics], shorts \in [1 .. sn -> [subject : Subjects, format : {NoFormat}]] :
         LET used == P!ToSet(planner[p].history)
             keptLongs == P!Keep(P!Complete(longs), used)
             keptShorts == P!Keep(shorts, used \cup {keptLongs[k].subject : k \in DOMAIN keptLongs})
         IN planner' = [planner EXCEPT ![p] = [@ EXCEPT !.at = "rotate", !.history = <<>>,
                                                        !.longs = keptLongs, !.shorts = keptShorts]]
  BY DEF P!Answer
<1>2. PICK longs \in [1 .. ln -> P!Topics], shorts \in [1 .. sn -> [subject : Subjects, format : {NoFormat}]] :
         LET used == P!ToSet(planner[p].history)
             keptLongs == P!Keep(P!Complete(longs), used)
             keptShorts == P!Keep(shorts, used \cup {keptLongs[k].subject : k \in DOMAIN keptLongs})
         IN planner' = [planner EXCEPT ![p] = [@ EXCEPT !.at = "rotate", !.history = <<>>,
                                                        !.longs = keptLongs, !.shorts = keptShorts]]
  BY <1>1
<1> DEFINE used == P!ToSet(planner[p].history)
           keptLongs == P!Keep(P!Complete(longs), used)
           all2 == used \cup {keptLongs[k].subject : k \in DOMAIN keptLongs}
           keptShorts == P!Keep(shorts, all2)
           x == [planner[p] EXCEPT !.at = "rotate", !.history = <<>>, !.longs = keptLongs, !.shorts = keptShorts]
<1>3. planner' = [planner EXCEPT ![p] = x]  BY <1>2
<1>4. PlannerTypes /\ planner \in [Planners -> PlannerStates] /\ planner[p] \in PlannerStates
  BY DEF PlannerInv, PlannerTypes
<1>5. PlanLong \in Nat /\ PlanShort \in Nat /\ Filler \in Subjects  BY PlannerBounds
<1>6. P!Complete(longs) \in Seq(P!Topics) /\ Len(P!Complete(longs)) = PlanLong
  <2>1. P!Topic(Filler) \in P!Topics  BY <1>5 DEF P!Topic, P!Topics
  <2>2. Len(longs) = ln /\ ln \in Nat  OBVIOUS
  <2>3. P!Complete(longs) \in [1 .. PlanLong -> P!Topics]
    BY <1>5, <2>1, <2>2 DEF P!Complete
  <2> QED  BY <1>5, <2>3
<1>7. shorts \in Seq(P!Topics) /\ Len(shorts) = sn
  <2>1. shorts \in [1 .. sn -> P!Topics] /\ sn \in Nat  BY DEF P!Topics
  <2> QED  BY <2>1
<1>8. keptLongs \in Seq(P!Topics) /\ Len(keptLongs) <= PlanLong /\ Unlike(keptLongs, used)
  BY <1>6, KeepFacts
<1>9. keptShorts \in Seq(P!Topics) /\ Len(keptShorts) <= sn /\ Unlike(keptShorts, all2)
  BY <1>7, KeepFacts
<1> HIDE DEF keptLongs, keptShorts
<1>10. Len(keptShorts) <= PlanShort
  <2>1. Len(keptShorts) \in Nat  BY <1>9
  <2> QED  BY <1>5, <1>9, <2>1
<1>11. /\ x \in PlannerStates /\ x.at = "rotate" /\ x.longs = keptLongs /\ x.shorts = keptShorts
  <2>1. <<>> \in Seq(Subjects)  OBVIOUS
  <2> QED  BY <1>4, <1>8, <1>9, <2>1 DEF PlannerStates
<1> HIDE DEF x
<1>12. /\ P!At(p, "llm") /\ ~P!At(p, "idle")
       /\ today' = today /\ projects' = projects /\ handmade' = handmade /\ crossed' = crossed
  BY DEF P!Answer, P!At
<1>13. RowsKept  BY <1>4, <1>12, RowTypes DEF RowsKept
<1>14. ASSUME planner'[p] = x, ~crossed PROVE PassKnows(p)'
  <2>1. \A i \in P!Rows : Seen(i) => projects[i].subject \in used
    BY <1>12, <1>14 DEF PlannerInv, PassAlone, PassKnows
  <2>2. P!Rows' = P!Rows /\ \A i \in P!Rows : (Seen(i)' <=> Seen(i)) /\ projects'[i] = projects[i]
    BY <1>12 DEF P!Rows, Seen
  <2>3. planner'[p].longs = keptLongs /\ planner'[p].shorts = keptShorts /\ planner'[p].at = "rotate"
    BY <1>11, <1>14
  <2>4. \A k \in DOMAIN keptLongs :
          /\ \A i \in P!Rows' : Seen(i)' => <<projects'[i].subject, keptLongs[k].subject>> \notin Similar
          /\ \A l \in DOMAIN keptLongs : l < k => <<keptLongs[l].subject, keptLongs[k].subject>> \notin Similar
    BY <1>8, <2>1, <2>2 DEF Unlike
  <2>5. \A k \in DOMAIN keptShorts :
          /\ \A i \in P!Rows' : Seen(i)' => <<projects'[i].subject, keptShorts[k].subject>> \notin Similar
          /\ \A l \in DOMAIN keptLongs : <<keptLongs[l].subject, keptShorts[k].subject>> \notin Similar
          /\ \A l \in DOMAIN keptShorts : l < k => <<keptShorts[l].subject, keptShorts[k].subject>> \notin Similar
    <3>1. \A i \in P!Rows' : Seen(i)' => projects'[i].subject \in all2  BY <2>1, <2>2
    <3>2. \A l \in DOMAIN keptLongs : keptLongs[l].subject \in all2  OBVIOUS
    <3> HIDE DEF all2
    <3> QED  BY <1>9, <3>1, <3>2 DEF Unlike
  <2>6. FreshPlan(p)'  BY <2>3, <2>4, <2>5 DEF FreshPlan
  <2> QED  BY <2>3, <2>6 DEF PassKnows, P!At
<1> QED  BY <1>3, <1>8, <1>10, <1>11, <1>12, <1>13, <1>14, StepKeeps

\* Sets of rows are finite.
LEMMA RowSets ==
  ASSUME PlannerTypes, NEW set \in SUBSET P!Rows
  PROVE  IsFiniteSet(set) /\ Cardinality(set) \in Nat /\ Cardinality(set) <= Len(projects)
<1>1. P!Rows = 1 .. Len(projects) /\ Len(projects) \in Nat  BY RowTypes
<1>2. IsFiniteSet(P!Rows) /\ Cardinality(P!Rows) = Len(projects)  BY <1>1, Numbered
<1>3. IsFiniteSet(set) /\ Cardinality(set) <= Cardinality(P!Rows)  BY <1>2, FS_Subset
<1> QED  BY <1>2, <1>3, FS_CardinalityType

LEMMA RotateKeeps ==
  ASSUME P!PlannerAssumption, PlannerInv, NEW p \in Planners, P!Rotate(p)
  PROVE  PlannerInv'
<1>1. PICK flip \in BOOLEAN :
        /\ P!Marked(flip)
        /\ planner' = [planner EXCEPT ![p].at = "persist", ![p].longs = P!AssignFormats(@, P!FormatHistory(flip))]
  BY DEF P!Rotate
<1> DEFINE topics == planner[p].longs
           past == P!FormatHistory(flip)
           given == P!AssignFormats(topics, past)
           x == [planner[p] EXCEPT !.at = "persist", !.longs = given]
<1>2. PlannerTypes /\ planner \in [Planners -> PlannerStates] /\ planner[p] \in PlannerStates
  BY DEF PlannerInv, PlannerTypes
<1>3. topics \in Seq(P!Topics) /\ Len(topics) <= PlanLong /\ Len(planner[p].shorts) <= PlanShort
  <2>1. planner[p].longs \in Seq(P!Topics)  BY <1>2 DEF PlannerStates
  <2> QED  BY <1>2, <2>1, TypesAre
<1>4. planner' = [planner EXCEPT ![p] = x]
  <2> HIDE DEF given
  <2>1. planner[p] = [planner[p] EXCEPT !.longs = planner[p].longs]  BY <1>2 DEF PlannerStates
  <2> QED  BY <1>1, <1>2 DEF given, PlannerStates
<1>5. /\ P!Rows = 1 .. Len(projects) /\ Len(projects) \in Nat /\ Dated(Len(projects))
      /\ \A i \in P!Rows : projects[i] \in RowType
  BY <1>2, RowTypes
<1>6. ASSUME Bank # <<>>
      PROVE  /\ past \in Seq(P!Formats)
             /\ \A i \in P!Read(flip) : projects[i].long /\ projects[i].format # NoFormat =>
                  \E h \in DOMAIN past : past[h] = projects[i].format /\ h - 1 <= Cardinality(Later(i))
  <2>1. \A i \in 1 .. Len(projects) : projects[i].long \in BOOLEAN /\ projects[i].format \in P!Formats \cup {NoFormat}
    BY <1>5 DEF RowType
  <2> QED  BY <1>5, <2>1, HistoryFacts
<1> HIDE DEF past
<1>7. ASSUME Bank # <<>>
      PROVE  /\ given \in Seq(P!Topics) /\ Len(given) = Len(topics)
             /\ \A k \in DOMAIN given : given[k].subject = topics[k].subject /\ given[k].format \in P!Formats
             /\ Len(Bank) > WindowK => \A k \in DOMAIN given :
                  /\ \A l \in DOMAIN given : l < k /\ k - l <= WindowK => given[k].format # given[l].format
                  /\ \A h \in DOMAIN past : k - 1 + h <= WindowK => given[k].format # past[h]
  BY <1>3, <1>6, <1>7, AssignFacts
<1>8. Bank = <<>> => given = topics  BY DEF P!AssignFormats
<1>9. given \in Seq(P!Topics) /\ Len(given) = Len(topics) /\ \A k \in DOMAIN given : given[k].subject = topics[k].subject
  BY <1>3, <1>7, <1>8
<1> HIDE DEF given
<1>10. x \in PlannerStates /\ x.at = "persist" /\ x.longs = given /\ x.shorts = planner[p].shorts
  BY <1>2, <1>9 DEF PlannerStates
<1> HIDE DEF x
<1>11. /\ P!At(p, "rotate") /\ ~P!At(p, "idle")
       /\ today' = today /\ handmade' = handmade /\ crossed' = crossed
  BY DEF P!Rotate, P!At
<1>12. RowsKept /\ \A i \in P!Rows : Seen(i)' => i \in P!Read(flip)  BY <1>1, <1>2, MarkedKeeps
<1>13. P!Rows' = P!Rows /\ \A i \in P!Rows : /\ projects'[i].subject = projects[i].subject
                                             /\ projects'[i].format = projects[i].format
                                             /\ projects'[i].long = projects[i].long
                                             /\ Seen(i)' => Seen(i)
  BY <1>12 DEF RowsKept, P!Rows, Seen
<1>14. ASSUME planner'[p] = x, ~crossed, \A i \in P!Rows : Later(i)' = Later(i) PROVE PassKnows(p)'
  <2>1. planner'[p].longs = given /\ planner'[p].shorts = planner[p].shorts /\ planner'[p].at = "persist"
    BY <1>10, <1>14
  <2>2. FreshPlan(p)'
    <3>1. FreshPlan(p)  BY <1>11, <1>14 DEF PlannerInv, PassAlone, PassKnows
    <3>2. DOMAIN given = DOMAIN topics  BY <1>3, <1>9
    <3>3. ASSUME NEW k \in DOMAIN given, given[k].subject # Filler
          PROVE  /\ \A i \in P!Rows' : Seen(i)' => <<projects'[i].subject, given[k].subject>> \notin Similar
                 /\ \A l \in DOMAIN given : l < k => <<given[l].subject, given[k].subject>> \notin Similar
      BY <1>9, <1>13, <3>1, <3>2, <3>3 DEF FreshPlan
    <3>4. ASSUME today \in LlmDays, NEW k \in DOMAIN planner[p].shorts
          PROVE  LET shorts == planner[p].shorts
                 IN /\ \A i \in P!Rows' : Seen(i)' => <<projects'[i].subject, shorts[k].subject>> \notin Similar
                    /\ \A l \in DOMAIN given : <<given[l].subject, shorts[k].subject>> \notin Similar
                    /\ \A l \in DOMAIN shorts : l < k => <<shorts[l].subject, shorts[k].subject>> \notin Similar
      BY <1>9, <1>13, <3>1, <3>2, <3>4 DEF FreshPlan
    <3> QED  BY <1>11, <2>1, <3>3, <3>4 DEF FreshPlan
  <2>3. RotatedPlan(p)'
    <3> SUFFICES ASSUME Len(Bank) > WindowK
                 PROVE  \A k \in DOMAIN given :
                   /\ \A l \in DOMAIN given : l < k /\ k - l <= WindowK => given[k].format # given[l].format
                   /\ \A i \in P!Rows : projects[i].long /\ Seen(i)' /\ k - 1 + Cardinality(Later(i)) < WindowK =>
                        given[k].format # projects[i].format
      BY <1>13, <1>14, <2>1 DEF RotatedPlan
    <3>1. Bank # <<>> /\ WindowK \in Nat /\ NoFormat \notin P!Formats
      <4>1. WindowK \in Nat /\ NoFormat \notin P!Formats  BY PlannerBounds
      <4> QED  BY <4>1
    <3>2. ASSUME NEW k \in DOMAIN given, NEW i \in P!Rows,
                 projects[i].long, Seen(i)', k - 1 + Cardinality(Later(i)) < WindowK
          PROVE  given[k].format # projects[i].format
      <4>1. i \in P!Read(flip) /\ projects[i].format \in P!Formats
        BY <1>12, <3>1, <3>2 DEF PlannerInv, RowsInTime
      <4>2. PICK h \in DOMAIN past : past[h] = projects[i].format /\ h - 1 <= Cardinality(Later(i))
        BY <1>6, <3>1, <3>2, <4>1
      <4>3. Later(i) \in SUBSET P!Rows  BY DEF Later
      <4>4. Cardinality(Later(i)) \in Nat  BY <1>2, <4>3, RowSets
      <4>5. h \in Nat /\ k \in Nat  BY <1>6, <1>9, <3>1
      <4>6. k - 1 + h <= WindowK  BY <3>1, <3>2, <4>2, <4>4, <4>5
      <4> QED  BY <1>7, <3>1, <4>2, <4>6
    <3> QED  BY <1>7, <3>1, <3>2
  <2> QED  BY <2>1, <2>2, <2>3 DEF PassKnows, P!At
<1>15. x.at = "persist" /\ Bank # <<>> => \A k \in DOMAIN x.longs : x.longs[k].format \in P!Formats
  BY <1>7, <1>10
<1>16. Len(x.longs) <= PlanLong /\ Len(x.shorts) <= PlanShort  BY <1>3, <1>9, <1>10
<1> QED  BY <1>4, <1>10, <1>11, <1>12, <1>14, <1>15, <1>16, StepKeeps

LEMMA ChangeStatusKeeps ==
  ASSUME P!PlannerAssumption, PlannerInv, NEW i \in P!Rows, NEW status \in P!Statuses, P!ChangeStatus(i, status)
  PROVE  PlannerInv'
<1>1. /\ projects' = [projects EXCEPT ![i].status = status] /\ P!ByHand
      /\ today' = today /\ planner' = planner /\ crossed' = crossed
  BY DEF P!ChangeStatus
<1>2. /\ projects \in Seq(RowType) /\ P!Rows = 1 .. Len(projects) /\ Len(projects) \in Nat
      /\ \A j \in P!Rows : projects[j] \in RowType
  BY RowTypes DEF PlannerInv
<1>3. ASSUME NEW x \in RowType
      PROVE  /\ [x EXCEPT !.status = status] \in RowType /\ [x EXCEPT !.status = status].missed = x.missed
             /\ [x EXCEPT !.status = status].subject = x.subject /\ [x EXCEPT !.status = status].format = x.format
             /\ [x EXCEPT !.status = status].long = x.long /\ [x EXCEPT !.status = status].day = x.day
             /\ [x EXCEPT !.status = status].byAgent = x.byAgent
  BY DEF RowType
<1>4. projects'[i] = [projects[i] EXCEPT !.status = status] /\ \A j \in P!Rows \ {i} : projects'[j] = projects[j]
  BY <1>1, <1>2
<1>5. RowsKept
  <2>1. projects' \in Seq(RowType) /\ DOMAIN projects' = DOMAIN projects
    BY <1>1, <1>2, <1>3
  <2>2. \A j \in P!Rows : /\ projects'[j].subject = projects[j].subject /\ projects'[j].format = projects[j].format
                          /\ projects'[j].long = projects[j].long /\ projects'[j].day = projects[j].day
                          /\ projects'[j].byAgent = projects[j].byAgent /\ projects'[j].missed = projects[j].missed
    <3> DEFINE x == projects[i]
    <3>1. x \in RowType  BY <1>2
    <3>2. \A j \in P!Rows \ {i} : projects'[j] = projects[j]  BY <1>4
    <3>3. /\ projects'[i].subject = x.subject /\ projects'[i].format = x.format
          /\ projects'[i].long = x.long /\ projects'[i].day = x.day
          /\ projects'[i].byAgent = x.byAgent /\ projects'[i].missed = x.missed
      <4> HIDE DEF x
      <4>1. projects'[i] = [x EXCEPT !.status = status]  BY <1>4 DEF x
      <4> QED  BY <1>3, <3>1, <4>1, Zenon
    <3> QED  BY <3>2, <3>3
  <2> QED  BY <2>1, <2>2 DEF RowsKept
<1>6. today \in 1 .. MaxDay /\ today \in Nat /\ handmade' \in 0 .. MaxByHand
  <2>1. today \in 1 .. MaxDay /\ handmade \in 0 .. MaxByHand  BY DEF PlannerInv, PlannerTypes, P!PlannerTypeOK
  <2> QED  BY <1>1, <2>1, PlannerBounds DEF P!ByHand
<1>7. PlannerTypes'
  BY <1>1, <1>5, <1>6, TypesAre DEF PlannerInv, PlannerBase, RowsKept
<1>8. /\ RowsInTime' /\ P!FreshSubjects' /\ P!FormatsRotate'
      /\ \A j \in P!Rows : Later(j)' = Later(j)
  BY <1>1, <1>5, <1>6, KeptStays
<1>9. FormatsGiven'
  BY <1>1 DEF PlannerInv, FormatsGiven, P!At
<1>10. PassAlone'
  <2>1. ASSUME ~crossed, NEW q \in Planners PROVE PassKnows(q)'
    <3>1. PassKnows(q)  BY <2>1 DEF PlannerInv, PassAlone
    <3> QED  BY <1>1, <1>5, <1>8, <3>1, KnowledgeStays
  <2> QED  BY <1>1, <2>1 DEF PlannerInv, PassAlone, P!At
<1> QED  BY <1>7, <1>8, <1>9, <1>10 DEF PlannerInv

LEMMA NextDayKeeps ==
  ASSUME P!PlannerAssumption, PlannerInv, P!NextDay
  PROVE  PlannerInv'
<1>1. /\ today < MaxDay /\ today' = today + 1 /\ \A q \in Planners : P!At(q, "idle")
      /\ projects' = projects /\ planner' = planner /\ handmade' = handmade /\ crossed' = crossed
  BY DEF P!NextDay
<1>2. today \in 1 .. MaxDay  BY DEF PlannerInv, PlannerTypes, P!PlannerTypeOK
<1>3. today' \in 1 .. MaxDay /\ today \in Nat /\ today' \in Nat /\ today <= today'
  BY <1>1, <1>2, PlannerBounds
<1>4. RowsKept  BY <1>1, RowTypes DEF RowsKept, PlannerInv
<1>5. PlannerTypes'
  BY <1>1, <1>3, TypesAre DEF PlannerInv, PlannerBase
<1>6. RowsInTime' /\ P!FreshSubjects' /\ P!FormatsRotate'
  BY <1>1, <1>3, <1>4, KeptStays
<1>7. FormatsGiven'
  BY <1>1 DEF PlannerInv, FormatsGiven, P!At
<1>8. PassAlone'
  BY <1>1 DEF PassAlone, PassKnows, P!At
<1> QED  BY <1>5, <1>6, <1>7, <1>8 DEF PlannerInv

LEMMA MoreIsMore ==
  ASSUME NEW n \in Nat, NEW whole \in SUBSET (1 .. n), NEW part \in SUBSET whole
  PROVE  /\ IsFiniteSet(whole) /\ IsFiniteSet(part)
         /\ Cardinality(whole) \in Nat /\ Cardinality(part) \in Nat
         /\ Cardinality(part) <= Cardinality(whole)
<1>1. IsFiniteSet(1 .. n)  BY Numbered
<1>2. IsFiniteSet(whole)  BY <1>1, FS_Subset
<1>3. IsFiniteSet(part) /\ Cardinality(part) <= Cardinality(whole)  BY <1>2, FS_Subset
<1> QED  BY <1>2, <1>3, FS_CardinalityType

LEMMA Stretch ==
  ASSUME NEW a \in Nat, NEW c \in Nat
  PROVE  IsFiniteSet((a + 1) .. (a + c)) /\ Cardinality((a + 1) .. (a + c)) = c
<1> DEFINE lo == a + 1
           hi == a + c
<1>1. lo \in Int /\ hi \in Int /\ (lo > hi => c = 0) /\ hi - lo + 1 = c  OBVIOUS
<1> HIDE DEF lo, hi
<1>2. IsFiniteSet(lo .. hi) /\ Cardinality(lo .. hi) = IF lo > hi THEN 0 ELSE hi - lo + 1
  BY <1>1, FS_Interval
<1>3. Cardinality(lo .. hi) = c  BY <1>1, <1>2
<1> QED  BY <1>2, <1>3 DEF lo, hi

\* New rows of the day go after the others.
Added(new) ==
  /\ new \in Seq(RowType) /\ projects' = projects \o new /\ today' = today
  /\ \A k \in DOMAIN new : new[k].day = today

LEMMA AddedRows ==
  ASSUME PlannerTypes, NEW new, Added(new)
  PROVE  LET n == Len(projects)
         IN /\ n \in Nat /\ Len(new) \in Nat /\ DOMAIN new = 1 .. Len(new) /\ P!Rows = 1 .. n
            /\ projects' \in Seq(RowType) /\ P!Rows' = 1 .. (n + Len(new))
            /\ \A i \in 1 .. n : projects'[i] = projects[i] /\ projects[i] \in RowType
            /\ \A k \in 1 .. Len(new) : projects'[n + k] = new[k] /\ new[k] \in RowType
            /\ \A i \in P!Rows' \ P!Rows : i - n \in 1 .. Len(new) /\ i = n + (i - n)
<1> DEFINE n == Len(projects)
<1>1. /\ projects \in Seq(RowType) /\ n \in Nat /\ P!Rows = 1 .. n
      /\ \A i \in 1 .. n : projects[i] \in RowType
  BY RowTypes
<1>2. new \in Seq(RowType) /\ projects' = projects \o new  BY DEF Added
<1> HIDE DEF n
<1>3. /\ Len(new) \in Nat /\ DOMAIN new = 1 .. Len(new)
      /\ \A k \in 1 .. Len(new) : new[k] \in RowType
  BY <1>2
<1>4. /\ projects' \in Seq(RowType) /\ DOMAIN projects' = 1 .. (n + Len(new))
      /\ \A i \in 1 .. n : projects'[i] = projects[i]
      /\ \A k \in 1 .. Len(new) : projects'[n + k] = new[k]
  BY <1>1, <1>2 DEF n
<1>5. \A i \in (1 .. (n + Len(new))) \ (1 .. n) : i - n \in 1 .. Len(new) /\ i = n + (i - n)
  BY <1>1, <1>3
<1> QED  BY <1>1, <1>3, <1>4, <1>5 DEF P!Rows, n

LEMMA AddedInTime ==
  ASSUME PlannerInv, NEW new, Added(new),
         Bank # <<>> => \A k \in DOMAIN new : new[k].long => new[k].format \in P!Formats
  PROVE  RowsInTime'
<1> DEFINE n == Len(projects)
<1>1. PlannerTypes /\ RowsInTime /\ today' = today /\ today \in Nat
  BY DEF PlannerInv, Added, PlannerTypes, P!PlannerTypeOK
<1>2. /\ n \in Nat /\ P!Rows = 1 .. n /\ P!Rows' = 1 .. (n + Len(new)) /\ DOMAIN new = 1 .. Len(new)
      /\ \A i \in 1 .. n : projects'[i] = projects[i] /\ projects[i] \in RowType
      /\ \A k \in 1 .. Len(new) : projects'[n + k] = new[k]
      /\ \A i \in P!Rows' \ P!Rows : i - n \in 1 .. Len(new) /\ i = n + (i - n)
  BY <1>1, AddedRows
<1> HIDE DEF n
<1>3. \A i \in P!Rows : projects[i].day \in Nat /\ projects[i].day <= today
  BY <1>1, <1>2 DEF RowsInTime, RowType
<1>4. ASSUME NEW i \in P!Rows' \ P!Rows
      PROVE  projects'[i].day = today /\ (Bank # <<>> /\ projects'[i].long => projects'[i].format \in P!Formats)
  <2>1. i - n \in DOMAIN new /\ projects'[i] = new[i - n]  BY <1>2
  <2> QED  BY <2>1 DEF Added
<1>5. \A i \in P!Rows' : projects'[i].day \in Nat /\ projects'[i].day <= today
  BY <1>1, <1>2, <1>3, <1>4
<1>6. ASSUME NEW i \in P!Rows', NEW j \in P!Rows', i < j PROVE projects'[i].day <= projects'[j].day
  <2>1. CASE j \in P!Rows
    <3>1. i \in P!Rows  BY <1>2, <1>6, <2>1
    <3> QED  BY <1>1, <1>2, <1>6, <2>1, <3>1 DEF RowsInTime
  <2>2. CASE j \notin P!Rows
    BY <1>4, <1>5, <2>2
  <2> QED  BY <2>1, <2>2
<1>7. Bank # <<>> => \A i \in P!Rows' : projects'[i].long => projects'[i].format \in P!Formats
  BY <1>1, <1>2, <1>4 DEF RowsInTime
<1> QED  BY <1>1, <1>5, <1>6, <1>7 DEF RowsInTime

\* Of two rows there were already, nothing changes.
LEMMA OldRowsStay ==
  ASSUME PlannerInv, NEW new, Added(new), ~crossed, NEW i \in P!Rows, NEW j \in P!Rows, i < j
  PROVE  /\ projects'[j].byAgent /\ ~projects'[i].missed /\ projects'[j].subject # Filler
            /\ (projects'[j].long \/ projects'[j].day \in LlmDays)
            => <<projects'[i].subject, projects'[j].subject>> \notin Similar
         /\ Len(Bank) > WindowK /\ projects'[i].long /\ projects'[j].long /\ ~projects'[i].missed
            /\ Cardinality(Between(i, j)') < WindowK /\ WindowK \in Nat
            => projects'[i].format # projects'[j].format
<1> DEFINE n == Len(projects)
<1>1. PlannerTypes  BY DEF PlannerInv
<1>2. /\ n \in Nat /\ P!Rows = 1 .. n /\ P!Rows' = 1 .. (n + Len(new)) /\ Len(new) \in Nat
      /\ \A r \in 1 .. n : projects'[r] = projects[r]
  BY <1>1, AddedRows
<1> HIDE DEF n
<1>3. projects'[i] = projects[i] /\ projects'[j] = projects[j]  BY <1>2
<1>4. projects[j].byAgent /\ ~projects[i].missed /\ projects[j].subject # Filler
      /\ (projects[j].long \/ projects[j].day \in LlmDays)
      => <<projects[i].subject, projects[j].subject>> \notin Similar
  BY DEF PlannerInv, P!FreshSubjects
<1>5. ASSUME Len(Bank) > WindowK, projects[i].long, projects[j].long, ~projects[i].missed,
             Cardinality(Between(i, j)') < WindowK, WindowK \in Nat
      PROVE  projects[i].format # projects[j].format
  <2>1. Between(i, j) \in SUBSET (Between(i, j)') /\ Between(i, j)' \in SUBSET (1 .. (n + Len(new)))
    <3>1. ASSUME NEW l \in Between(i, j) PROVE l \in Between(i, j)'
      <4>1. l \in P!Rows  BY DEF Between
      <4>2. projects'[l] = projects[l] /\ l \in P!Rows'  BY <1>2, <4>1
      <4> QED  BY <1>3, <4>2 DEF Between
    <3> QED  BY <1>2, <3>1 DEF Between
  <2>2. /\ Cardinality(Between(i, j)) \in Nat /\ Cardinality(Between(i, j)') \in Nat
        /\ Cardinality(Between(i, j)) <= Cardinality(Between(i, j)')
    <3>1. n + Len(new) \in Nat  BY <1>2
    <3> QED  BY <2>1, <3>1, MoreIsMore
  <2>3. Cardinality(Between(i, j)) < WindowK  BY <1>5, <2>2
  <2> QED  BY <1>5, <2>3, RotationIs DEF PlannerInv, Rotation, Seen
<1> QED  BY <1>3, <1>4, <1>5

\* A row that comes later in the plan, or after the rows before it.
LEMMA PlanCounts ==
  ASSUME PlannerInv, NEW new, Added(new), NEW n, n = Len(projects), NEW k \in Nat, k \in DOMAIN new,
         \A l \in 1 .. k : new[l].long
  PROVE  /\ \A i \in P!Rows : k - 1 + Cardinality(Later(i)) <= Cardinality(Between(i, n + k)')
         /\ \A l \in 1 .. (k - 1) : k - l - 1 <= Cardinality(Between(n + l, n + k)')
         /\ \A i \in P!Rows' : Cardinality(Between(i, n + k)') \in Nat
<1>1. PlannerTypes /\ RowsInTime /\ today \in Nat  BY DEF PlannerInv, PlannerTypes, P!PlannerTypeOK
<1>2. /\ n \in Nat /\ P!Rows = 1 .. n /\ P!Rows' = 1 .. (n + Len(new)) /\ Len(new) \in Nat /\ DOMAIN new = 1 .. Len(new)
      /\ \A r \in 1 .. n : projects'[r] = projects[r] /\ projects[r] \in RowType
      /\ \A r \in 1 .. Len(new) : projects'[n + r] = new[r]
  BY <1>1, AddedRows
<1> DEFINE m == n + Len(new)
<1>3. k \in Nat /\ k <= Len(new) /\ k >= 1 /\ m \in Nat  BY <1>2
<1>4. ASSUME NEW l \in 1 .. (k - 1) PROVE n + l \in P!Rows' /\ projects'[n + l].long /\ projects'[n + l].day = today
  <2>1. l \in 1 .. Len(new) /\ l \in 1 .. k /\ n + l \in 1 .. m  BY <1>2, <1>3
  <2> QED  BY <1>2, <2>1 DEF Added
<1>9. ASSUME NEW i, NEW l \in P!Rows', l # i, l # n + k, projects'[l].long, projects'[l].day >= projects'[i].day, l < n + k
      PROVE  l \in Between(i, n + k)'
  BY <1>9 DEF Between
<1>5. \A i : Between(i, n + k)' \in SUBSET (1 .. m)  BY <1>2 DEF Between
<1>6. \A i \in P!Rows' : Cardinality(Between(i, n + k)') \in Nat
  BY <1>3, <1>5, MoreIsMore
<1>7. ASSUME NEW i \in P!Rows PROVE k - 1 + Cardinality(Later(i)) <= Cardinality(Between(i, n + k)')
  <2> DEFINE plan1 == (n + 1) .. (n + (k - 1))
             wanted == Later(i) \cup plan1
  <2>1. projects'[i] = projects[i] /\ projects[i].day \in Nat /\ projects[i].day <= today
    BY <1>1, <1>2 DEF RowsInTime, RowType
  <2>2. ASSUME NEW l \in Later(i) PROVE l \in Between(i, n + k)' /\ l \in 1 .. n
    <3>1. l \in P!Rows /\ l # i /\ projects[l].long /\ projects[l].day >= projects[i].day  BY DEF Later
    <3>2. l \in P!Rows' /\ l < n + k /\ projects'[l] = projects[l]  BY <1>2, <1>3, <3>1
    <3>3. l # n + k /\ l \in 1 .. n  BY <1>2, <1>3, <3>1
    <3> QED  BY <1>9, <2>1, <3>1, <3>2, <3>3
  <2>3. ASSUME NEW l \in plan1 PROVE l \in Between(i, n + k)' /\ l \notin 1 .. n
    <3>1. l - n \in 1 .. (k - 1) /\ l = n + (l - n)  BY <1>2, <1>3
    <3>2. l \in P!Rows' /\ projects'[l].long /\ projects'[l].day = today  BY <1>4, <3>1
    <3>3. l # i /\ l # n + k /\ l < n + k /\ l \notin 1 .. n /\ today >= projects[i].day  BY <1>1, <1>2, <1>3, <2>1, <3>1
    <3> QED  BY <1>9, <2>1, <3>2, <3>3
  <2>4. IsFiniteSet(plan1) /\ Cardinality(plan1) = k - 1
    <3>1. k - 1 \in Nat  BY <1>3
    <3> QED  BY <1>2, <3>1, Stretch
  <2>5. Later(i) \in SUBSET P!Rows  BY DEF Later
  <2>6. IsFiniteSet(Later(i)) /\ Cardinality(Later(i)) \in Nat  BY <1>1, <2>5, RowSets
  <2>7. Later(i) \cap plan1 = {}  BY <2>2, <2>3
  <2>8. wanted \in SUBSET (Between(i, n + k)')  BY <2>2, <2>3
  <2> HIDE DEF plan1
  <2>9. Cardinality(wanted) = Cardinality(Later(i)) + (k - 1)
    <3>1. Cardinality(wanted) = Cardinality(Later(i)) + Cardinality(plan1) - Cardinality(Later(i) \cap plan1)
      BY <2>4, <2>6, FS_Union
    <3>2. Cardinality(Later(i) \cap plan1) = 0
      <4>1. Cardinality({}) = 0  BY FS_EmptySet
      <4> QED  BY <2>7, <4>1
    <3> HIDE DEF wanted
    <3>3. k - 1 \in Nat  BY <1>3
    <3> QED  BY <2>4, <2>6, <3>1, <3>2, <3>3
  <2>10. Cardinality(wanted) <= Cardinality(Between(i, n + k)')
    <3> HIDE DEF wanted
    <3> QED  BY <1>3, <1>5, <2>8, MoreIsMore
  <2> QED  BY <1>3, <1>6, <2>6, <2>9, <2>10
<1>8. ASSUME NEW r \in 1 .. (k - 1) PROVE k - r - 1 <= Cardinality(Between(n + r, n + k)')
  <2> DEFINE plan1 == (n + r + 1) .. (n + r + (k - r - 1))
  <2>1. r \in Nat /\ projects'[n + r].day = today  BY <1>3, <1>4
  <2>3. ASSUME NEW l \in plan1 PROVE l \in Between(n + r, n + k)'
    <3>1. l - n \in 1 .. (k - 1) /\ l = n + (l - n)  BY <1>2, <1>3, <2>1
    <3>2. l \in P!Rows' /\ projects'[l].long /\ projects'[l].day = today  BY <1>4, <3>1
    <3>3. l # n + r /\ l # n + k /\ l < n + k /\ today >= today  BY <1>1, <1>2, <1>3, <2>1
    <3> QED  BY <1>9, <2>1, <3>2, <3>3
  <2>4. IsFiniteSet(plan1) /\ Cardinality(plan1) = k - r - 1
    <3>1. k - r - 1 \in Nat /\ n + r \in Nat  BY <1>2, <1>3, <2>1
    <3> QED  BY <3>1, Stretch
  <2> HIDE DEF plan1
  <2>5. plan1 \in SUBSET (Between(n + r, n + k)')  BY <2>3
  <2>6. Cardinality(plan1) <= Cardinality(Between(n + r, n + k)')
    BY <1>3, <1>5, <2>5, MoreIsMore
  <2> QED  BY <2>4, <2>6
<1> QED  BY <1>6, <1>7, <1>8

LEMMA RowIs ==
  ASSUME NEW topic \in P!Topics, NEW long \in BOOLEAN, NEW byAgent \in BOOLEAN, today \in Nat
  PROVE  LET r == P!Row(topic, long, byAgent)
         IN /\ r \in RowType /\ r.subject = topic.subject /\ r.format = topic.format /\ r.long = long
            /\ r.day = today /\ r.byAgent = byAgent
            /\ byAgent => ~r.missed
            /\ ~byAgent => (r.missed <=> \E p \in Planners : ~P!At(p, "idle"))
<1>1. topic.subject \in Subjects /\ topic.format \in P!Formats \cup {NoFormat}  BY DEF P!Topics
<1>2. "pending" \in P!Statuses  BY DEF P!Statuses
<1> DEFINE asleep == \E p \in Planners : ~P!At(p, "idle")
           gone == ~byAgent /\ asleep
<1>3. gone \in BOOLEAN /\ (byAgent => ~gone) /\ (~byAgent => (gone <=> asleep))  OBVIOUS
<1>4. P!Row(topic, long, byAgent) = [subject |-> topic.subject, format |-> topic.format, long |-> long, day |-> today,
                                     status |-> "pending", byAgent |-> byAgent, missed |-> gone]
  BY DEF P!Row
<1> HIDE DEF gone
<1> QED  BY <1>1, <1>2, <1>3, <1>4 DEF RowType

LEMMA RowsOf ==
  ASSUME NEW topics \in Seq(P!Topics), NEW long \in BOOLEAN, today \in Nat
  PROVE  LET rows == [k \in DOMAIN topics |-> P!Row(topics[k], long, TRUE)]
         IN /\ rows \in Seq(RowType) /\ Len(rows) = Len(topics) /\ Len(rows) \in Nat /\ DOMAIN rows = 1 .. Len(rows)
            /\ \A k \in 1 .. Len(rows) : /\ rows[k].subject = topics[k].subject /\ rows[k].format = topics[k].format
                                         /\ rows[k].long = long /\ rows[k].day = today
                                         /\ rows[k].byAgent /\ ~rows[k].missed
<1> DEFINE rows == [k \in DOMAIN topics |-> P!Row(topics[k], long, TRUE)]
<1>1. Len(topics) \in Nat /\ DOMAIN topics = 1 .. Len(topics) /\ \A k \in 1 .. Len(topics) : topics[k] \in P!Topics
  OBVIOUS
<1>2. \A k \in 1 .. Len(topics) : /\ rows[k] \in RowType /\ rows[k].subject = topics[k].subject
                                  /\ rows[k].format = topics[k].format
                                  /\ rows[k].long = long /\ rows[k].day = today
                                  /\ rows[k].byAgent /\ ~rows[k].missed
  BY <1>1, RowIs
<1>3. rows \in [1 .. Len(topics) -> RowType]  BY <1>1, <1>2
<1> HIDE DEF rows
<1>4. rows \in Seq(RowType) /\ Len(rows) = Len(topics) /\ DOMAIN rows = 1 .. Len(rows)  BY <1>1, <1>3
<1> QED  BY <1>1, <1>2, <1>4 DEF rows

LEMMA PersistKeeps ==
  ASSUME P!PlannerAssumption, PlannerInv, NEW p \in Planners, P!Persist(p)
  PROVE  PlannerInv'
<1>1. PlannerTypes /\ planner \in [Planners -> PlannerStates] /\ planner[p] \in PlannerStates /\ today \in Nat
      /\ today \in 1 .. MaxDay /\ handmade \in 0 .. MaxByHand /\ crossed \in BOOLEAN
  BY DEF PlannerInv, PlannerTypes, P!PlannerTypeOK
<1> DEFINE longs == planner[p].longs
           shorts == planner[p].shorts
           longRows == [k \in DOMAIN longs |-> P!Row(longs[k], TRUE, TRUE)]
           shortRows == [k \in DOMAIN shorts |-> P!Row(shorts[k], FALSE, TRUE)]
<1>2. longs \in Seq(P!Topics) /\ shorts \in Seq(P!Topics)  BY <1>1 DEF PlannerStates
<1>3. /\ P!At(p, "persist") /\ ~P!At(p, "idle") /\ planner' = [planner EXCEPT ![p] = P!Rest]
      /\ projects' = projects \o longRows \o shortRows
      /\ today' = today /\ handmade' = handmade /\ crossed' = crossed
  BY DEF P!Persist, P!At
<1> HIDE DEF longs, shorts
<1>4. PICK a \in Nat : a = Len(longs) /\ DOMAIN longs = 1 .. a  BY <1>2
<1>5. PICK b \in Nat : b = Len(shorts) /\ DOMAIN shorts = 1 .. b  BY <1>2
<1>6. /\ longRows \in Seq(RowType) /\ Len(longRows) = a
      /\ \A k \in 1 .. a : /\ longRows[k].subject = longs[k].subject /\ longRows[k].format = longs[k].format
                           /\ longRows[k].long /\ longRows[k].day = today
                           /\ longRows[k].byAgent /\ ~longRows[k].missed
  BY <1>1, <1>2, <1>4, RowsOf
<1>7. /\ shortRows \in Seq(RowType) /\ Len(shortRows) = b
      /\ \A k \in 1 .. b : /\ shortRows[k].subject = shorts[k].subject
                           /\ ~shortRows[k].long /\ shortRows[k].day = today
                           /\ shortRows[k].byAgent /\ ~shortRows[k].missed
  BY <1>1, <1>2, <1>5, RowsOf
<1> HIDE DEF longRows, shortRows
<1>8. projects \in Seq(RowType)  BY <1>1, RowTypes
<1>9. PICK new \in Seq(RowType) :
        /\ projects' = projects \o new
        /\ Len(new) = a + b /\ DOMAIN new = 1 .. (a + b)
        /\ \A k \in 1 .. a : new[k] = longRows[k]
        /\ \A k \in 1 .. b : new[a + k] = shortRows[k]
  <2>1. /\ projects \o longRows \o shortRows = projects \o (longRows \o shortRows)
        /\ longRows \o shortRows \in Seq(RowType) /\ Len(longRows \o shortRows) = Len(longRows) + Len(shortRows)
        /\ DOMAIN (longRows \o shortRows) = 1 .. (Len(longRows) + Len(shortRows))
        /\ \A k \in 1 .. Len(longRows) : (longRows \o shortRows)[k] = longRows[k]
        /\ \A k \in 1 .. Len(shortRows) : (longRows \o shortRows)[Len(longRows) + k] = shortRows[k]
    <3>1. longRows \in Seq(RowType) /\ shortRows \in Seq(RowType)  BY <1>6, <1>7
    <3> QED  BY <1>8, <3>1
  <2>2. PICK new : new = longRows \o shortRows  OBVIOUS
  <2>3. Len(longRows) = a /\ Len(shortRows) = b  BY <1>6, <1>7
  <2> QED  BY <1>3, <2>1, <2>2, <2>3, Zenon
<1>10. \A k \in 1 .. (a + b) : k \notin 1 .. a => k - a \in 1 .. b /\ new[k] = shortRows[k - a]
  <2>1. \A k \in 1 .. (a + b) : k \notin 1 .. a => k - a \in 1 .. b /\ a + (k - a) = k  OBVIOUS
  <2> QED  BY <1>9, <2>1
<1>20. \A k \in 1 .. a : new[k] = longRows[k]  BY <1>9
<1>11. Added(new)
  <2>1. ASSUME NEW k \in 1 .. (a + b) PROVE new[k].day = today
    <3>1. CASE k \in 1 .. a  BY <1>6, <1>20, <3>1
    <3>2. CASE k \notin 1 .. a  BY <1>7, <1>10, <3>2
    <3> QED  BY <3>1, <3>2
  <2> QED  BY <1>3, <1>9, <2>1 DEF Added
<1>12. PICK n \in Nat :
         /\ n = Len(projects) /\ P!Rows = 1 .. n /\ P!Rows' = 1 .. (n + (a + b)) /\ projects' \in Seq(RowType)
         /\ \A i \in 1 .. n : projects'[i] = projects[i]
         /\ \A k \in 1 .. (a + b) : projects'[n + k] = new[k]
         /\ \A i \in P!Rows' \ P!Rows : i - n \in 1 .. (a + b) /\ i = n + (i - n)
  <2>1. Len(new) = a + b  BY <1>9
  <2>2. LET n == Len(projects)
        IN /\ n \in Nat /\ P!Rows = 1 .. n /\ P!Rows' = 1 .. (n + (a + b)) /\ projects' \in Seq(RowType)
           /\ \A i \in 1 .. n : projects'[i] = projects[i]
           /\ \A k \in 1 .. (a + b) : projects'[n + k] = new[k]
           /\ \A i \in P!Rows' \ P!Rows : i - n \in 1 .. (a + b) /\ i = n + (i - n)
    BY <1>1, <1>11, <2>1, AddedRows
  <2> QED  BY <2>2
<1>13. PlannerTypes' /\ planner'[p] = P!Rest /\ \A q \in Planners \ {p} : planner'[q] = planner[q]
  <2>1. Len(P!Rest.longs) <= PlanLong /\ Len(P!Rest.shorts) <= PlanShort  BY RestIs, PlannerBounds
  <2> QED  BY <1>1, <1>3, <1>12, <2>1, PassMoves, RestIs
<1>14. RowsInTime'
  <2>1. Bank # <<>> => \A k \in DOMAIN new : new[k].long => new[k].format \in P!Formats
    <3>1. Bank # <<>> => \A k \in DOMAIN longs : longs[k].format \in P!Formats
      BY <1>3 DEF PlannerInv, FormatsGiven, longs
    <3> QED  BY <1>4, <1>6, <1>7, <1>9, <1>10, <3>1
  <2> QED  BY <1>11, <2>1, AddedInTime
<1>15. FormatsGiven'
  <2>1. ~P!At(p, "persist")'  BY <1>13, RestIs DEF P!At
  <2> QED  BY <1>13, <2>1, FormatsStay
<1>16. PassAlone'
  <2> SUFFICES ASSUME ~crossed PROVE /\ \A q, r \in Planners : ~P!At(q, "idle")' /\ ~P!At(r, "idle")' => q = r
                                     /\ \A q \in Planners : PassKnows(q)'
    BY <1>3 DEF PassAlone
  <2>1. \A q \in Planners \ {p} : P!At(q, "idle")  BY <1>3 DEF PlannerInv, PassAlone
  <2>2. \A q \in Planners : planner'[q].at = "idle"  BY <1>13, <2>1, RestIs DEF P!At
  <2> QED  BY <2>2 DEF PassKnows, P!At
<1>17. ~crossed => FreshPlan(p) /\ RotatedPlan(p)
  BY <1>3 DEF PlannerInv, PassAlone, PassKnows
<1>18. P!FreshSubjects'
  <2> SUFFICES ASSUME ~crossed, NEW i \in P!Rows', NEW j \in P!Rows', i < j,
                      projects'[j].byAgent, ~projects'[i].missed, projects'[j].subject # Filler,
                      projects'[j].long \/ projects'[j].day \in LlmDays
               PROVE  <<projects'[i].subject, projects'[j].subject>> \notin Similar
    BY <1>3 DEF P!FreshSubjects
  <2>1. CASE j \in P!Rows
    <3>1. i \in P!Rows  BY <1>12, <2>1
    <3> QED  BY <1>11, <2>1, <3>1, OldRowsStay
  <2>2. CASE j \notin P!Rows
    <3> DEFINE k == j - n
               l == i - n
    <3>1. k \in 1 .. (a + b) /\ projects'[j] = new[k]  BY <1>12, <2>2
    <3>2. i \in P!Rows => projects'[i] = projects[i] /\ Seen(i)  BY <1>12 DEF Seen
    <3>3. i \notin P!Rows => l \in 1 .. (a + b) /\ l < k /\ projects'[i] = new[l]  BY <1>12, <2>2
    <3> HIDE DEF k, l
    <3>4. CASE k \in 1 .. a
      <4>1. projects'[j].subject = longs[k].subject  BY <1>6, <1>20, <3>1, <3>4
      <4>2. i \notin P!Rows => l \in 1 .. a /\ projects'[i].subject = longs[l].subject
        <5>1. i \notin P!Rows => l \in 1 .. a  BY <3>3, <3>4
        <5> QED  BY <1>6, <1>20, <3>3, <5>1
      <4>3. /\ \A r \in P!Rows : Seen(r) => <<projects[r].subject, longs[k].subject>> \notin Similar
            /\ \A m \in 1 .. a : m < k => <<longs[m].subject, longs[k].subject>> \notin Similar
        BY <1>4, <1>17, <3>4, <4>1 DEF FreshPlan, longs
      <4> QED  BY <3>2, <3>3, <4>1, <4>2, <4>3
    <3>5. CASE k \notin 1 .. a
      <4> DEFINE s == k - a
                 t == l - a
      <4>1. s \in 1 .. b /\ new[k] = shortRows[s]  BY <1>10, <3>1, <3>5
      <4>2. projects'[j].subject = shorts[s].subject /\ today \in LlmDays  BY <1>7, <3>1, <4>1
      <4>3. /\ \A r \in P!Rows : Seen(r) => <<projects[r].subject, shorts[s].subject>> \notin Similar
            /\ \A m \in 1 .. a : <<longs[m].subject, shorts[s].subject>> \notin Similar
            /\ \A m \in 1 .. b : m < s => <<shorts[m].subject, shorts[s].subject>> \notin Similar
        <5> HIDE DEF s
        <5> QED  BY <1>4, <1>5, <1>17, <4>1, <4>2 DEF FreshPlan, longs, shorts
      <4>4. CASE i \in P!Rows  BY <3>2, <4>2, <4>3, <4>4
      <4>5. CASE i \notin P!Rows /\ l \in 1 .. a
        <5>1. projects'[i].subject = longs[l].subject  BY <1>6, <1>20, <3>3, <4>5
        <5> QED  BY <4>2, <4>3, <4>5, <5>1
      <4>6. CASE i \notin P!Rows /\ l \notin 1 .. a
        <5>1. t \in 1 .. b /\ new[l] = shortRows[t]  BY <1>10, <3>3, <4>6
        <5>2. projects'[i].subject = shorts[t].subject  BY <1>7, <3>3, <4>6, <5>1
        <5>3. t < s  BY <3>1, <3>3, <4>6
        <5> HIDE DEF s, t
        <5> QED  BY <4>2, <4>3, <5>1, <5>2, <5>3
      <4> QED  BY <4>4, <4>5, <4>6
    <3> QED  BY <3>4, <3>5
  <2> QED  BY <2>1, <2>2
<1>19. P!FormatsRotate'
  <2> SUFFICES ASSUME ~crossed, Len(Bank) > WindowK, NEW i \in P!Rows', NEW j \in P!Rows', i < j,
                      projects'[i].long, projects'[j].long, ~projects'[i].missed,
                      Cardinality(Between(i, j)') < WindowK
               PROVE  projects'[i].format # projects'[j].format
    BY <1>3, RotationIs DEF Rotation, Seen
  <2>0. WindowK \in Nat  BY PlannerBounds
  <2>1. CASE j \in P!Rows
    <3>1. i \in P!Rows  BY <1>12, <2>1
    <3> QED  BY <1>11, <2>0, <2>1, <3>1, OldRowsStay
  <2>2. CASE j \notin P!Rows
    <3>1. PICK k \in 1 .. (a + b) : j = n + k /\ projects'[j] = new[k]
      <4>1. j - n \in 1 .. (a + b) /\ j = n + (j - n)  BY <1>12, <2>2
      <4> QED  BY <1>12, <4>1
    <3>2. k \in 1 .. a  BY <1>7, <1>10, <3>1
    <3>3. projects'[j].format = longs[k].format /\ k \in Nat  BY <1>6, <1>20, <3>1, <3>2
    <3>4. \A m \in 1 .. k : new[m].long
      <4>1. \A m \in 1 .. k : m \in 1 .. a  BY <3>2
      <4> QED  BY <1>6, <1>20, <4>1
    <3>5. /\ \A r \in P!Rows : k - 1 + Cardinality(Later(r)) <= Cardinality(Between(r, j)')
          /\ \A m \in 1 .. (k - 1) : k - m - 1 <= Cardinality(Between(n + m, j)')
          /\ \A r \in P!Rows' : Cardinality(Between(r, j)') \in Nat
      BY <1>9, <1>11, <1>12, <3>1, <3>3, <3>4, PlanCounts
    <3>6. /\ \A m \in 1 .. a : m < k /\ k - m <= WindowK => longs[k].format # longs[m].format
          /\ \A r \in P!Rows : projects[r].long /\ Seen(r) /\ k - 1 + Cardinality(Later(r)) < WindowK =>
               longs[k].format # projects[r].format
      BY <1>4, <1>17, <3>2 DEF RotatedPlan, longs
    <3>7. CASE i \in P!Rows
      <4>1. projects'[i] = projects[i] /\ Seen(i)  BY <1>12, <3>7 DEF Seen
      <4>2. Later(i) \in SUBSET P!Rows  BY DEF Later
      <4>3. Cardinality(Later(i)) \in Nat  BY <1>1, <4>2, RowSets
      <4>4. k - 1 + Cardinality(Later(i)) < WindowK
        <5>1. /\ k - 1 + Cardinality(Later(i)) <= Cardinality(Between(i, j)')
              /\ Cardinality(Between(i, j)') \in Nat
          BY <3>5, <3>7
        <5> QED  BY <2>0, <3>3, <4>3, <5>1
      <4> QED  BY <3>3, <3>6, <3>7, <4>1, <4>4
    <3>8. CASE i \notin P!Rows
      <4>1. PICK m \in 1 .. (a + b) : i = n + m /\ projects'[i] = new[m]  BY <1>12, <3>8
      <4>2. m < k /\ m \in 1 .. a /\ m \in 1 .. (k - 1)  BY <3>1, <3>2, <4>1
      <4>3. projects'[i].format = longs[m].format  BY <1>6, <1>20, <4>1, <4>2
      <4>4. k - m <= WindowK
        <5>1. k - m - 1 <= Cardinality(Between(i, j)') /\ Cardinality(Between(i, j)') \in Nat
          BY <3>5, <4>1, <4>2
        <5> QED  BY <2>0, <3>3, <5>1
      <4> QED  BY <3>3, <3>6, <4>2, <4>3, <4>4
    <3> QED  BY <3>7, <3>8
  <2> QED  BY <2>1, <2>2
<1> QED  BY <1>13, <1>14, <1>15, <1>16, <1>18, <1>19 DEF PlannerInv

LEMMA CreateProjectKeeps ==
  ASSUME P!PlannerAssumption, PlannerInv, NEW subject \in Subjects, P!CreateProject(subject)
  PROVE  PlannerInv'
<1>1. /\ PlannerTypes /\ today \in Nat /\ today \in 1 .. MaxDay /\ handmade \in 0 .. MaxByHand /\ crossed \in BOOLEAN
      /\ projects \in Seq(RowType)
  BY RowTypes DEF PlannerInv, PlannerTypes, P!PlannerTypeOK
<1>2. PICK made : made = P!Row(P!Topic(subject), FALSE, FALSE)  OBVIOUS
<1>3. /\ made \in RowType /\ ~made.long /\ made.day = today /\ ~made.byAgent
      /\ made.missed <=> \E p \in Planners : ~P!At(p, "idle")
  <2>1. P!Topic(subject) \in P!Topics  BY DEF P!Topic, P!Topics
  <2> QED  BY <1>1, <1>2, <2>1, RowIs
<1>4. /\ projects' = Append(projects, made) /\ P!ByHand
      /\ today' = today /\ planner' = planner /\ crossed' = crossed
  BY <1>2 DEF P!CreateProject
<1>5. PICK new \in Seq(RowType) : Len(new) = 1 /\ DOMAIN new = 1 .. 1 /\ new[1] = made /\ projects' = projects \o new
  <2>1. PICK new : new = <<made>>  OBVIOUS
  <2>2. new \in Seq(RowType) /\ Len(new) = 1 /\ DOMAIN new = 1 .. 1 /\ new[1] = made  BY <1>3, <2>1
  <2>3. Append(projects, made) = projects \o new  BY <1>1, <1>3, <2>1
  <2> QED  BY <1>4, <2>2, <2>3
<1>6. Added(new)  BY <1>3, <1>4, <1>5 DEF Added
<1>7. PICK n \in Nat :
        /\ P!Rows = 1 .. n /\ P!Rows' = 1 .. (n + 1) /\ projects' \in Seq(RowType)
        /\ \A i \in 1 .. n : projects'[i] = projects[i] /\ projects[i] \in RowType
        /\ projects'[n + 1] = made
  <2>1. LET n == Len(projects)
        IN /\ n \in Nat /\ P!Rows = 1 .. n /\ P!Rows' = 1 .. (n + 1) /\ projects' \in Seq(RowType)
           /\ \A i \in 1 .. n : projects'[i] = projects[i] /\ projects[i] \in RowType
           /\ \A k \in 1 .. 1 : projects'[n + k] = new[k]
    BY <1>1, <1>5, <1>6, AddedRows
  <2>2. 1 \in 1 .. 1  OBVIOUS
  <2> QED  BY <1>5, <2>1, <2>2
<1>8. \A i \in P!Rows' : i \notin P!Rows => i = n + 1 /\ projects'[i] = made  BY <1>7
<1>9. PlannerTypes'
  <2>1. handmade' \in 0 .. MaxByHand  BY <1>1, <1>4, PlannerBounds DEF P!ByHand
  <2> QED  BY <1>1, <1>4, <1>7, <2>1, TypesAre DEF PlannerBase
<1>10. RowsInTime'
  <2>1. Bank # <<>> => \A k \in DOMAIN new : new[k].long => new[k].format \in P!Formats  BY <1>3, <1>5
  <2> QED  BY <1>6, <2>1, AddedInTime
<1>11. FormatsGiven'
  BY <1>4 DEF PlannerInv, FormatsGiven, P!At
<1>12. \A i, j \in P!Rows' : i < j => i \in P!Rows  BY <1>7
<1>13. P!FreshSubjects'
  <2> SUFFICES ASSUME ~crossed, NEW i \in P!Rows', NEW j \in P!Rows', i < j,
                      projects'[j].byAgent, ~projects'[i].missed, projects'[j].subject # Filler,
                      projects'[j].long \/ projects'[j].day \in LlmDays
               PROVE  <<projects'[i].subject, projects'[j].subject>> \notin Similar
    BY <1>4 DEF P!FreshSubjects
  <2>1. i \in P!Rows /\ j \in P!Rows  BY <1>3, <1>8, <1>12
  <2> QED  BY <1>6, <2>1, OldRowsStay
<1>14. P!FormatsRotate'
  <2> SUFFICES ASSUME ~crossed, Len(Bank) > WindowK, NEW i \in P!Rows', NEW j \in P!Rows', i < j,
                      projects'[i].long, projects'[j].long, ~projects'[i].missed,
                      Cardinality(Between(i, j)') < WindowK
               PROVE  projects'[i].format # projects'[j].format
    BY <1>4, RotationIs DEF Rotation, Seen
  <2>1. i \in P!Rows /\ j \in P!Rows  BY <1>3, <1>8, <1>12
  <2> QED  BY <1>6, <2>1, OldRowsStay, PlannerBounds
<1>15. ASSUME NEW i \in P!Rows PROVE Later(i)' = Later(i)
  <2>1. projects'[i] = projects[i]  BY <1>7
  <2>2. \A l \in P!Rows : l \in P!Rows' /\ projects'[l] = projects[l]  BY <1>7
  <2>3. \A l \in P!Rows' : projects'[l].long => l \in P!Rows  BY <1>3, <1>8
  <2> QED  BY <2>1, <2>2, <2>3 DEF Later
\* A pass that was there did not see the project.
<1>16. ASSUME ~crossed, NEW q \in Planners PROVE PassKnows(q)'
  <2>1. PassKnows(q)  BY <1>16 DEF PlannerInv, PassAlone
  <2>2. \A l : P!At(q, l)' <=> P!At(q, l)  BY <1>4 DEF P!At
  <2>3. CASE P!At(q, "idle")  BY <2>2, <2>3 DEF PassKnows, P!At
  <2>4. CASE ~P!At(q, "idle")
    <3>1. \A i \in P!Rows' : Seen(i)' => i \in P!Rows /\ Seen(i) /\ projects'[i] = projects[i]
      BY <1>3, <1>7, <1>8, <2>4 DEF Seen
    <3>2. P!At(q, "llm") => \A i \in P!Rows' : Seen(i)' => projects'[i].subject \in P!ToSet(planner'[q].history)
      BY <1>4, <2>1, <3>1 DEF PassKnows
    <3>3. FreshPlan(q) => FreshPlan(q)'
      BY <1>4, <3>1 DEF FreshPlan
    <3>4. RotatedPlan(q) => RotatedPlan(q)'
      <4>1. \A i \in P!Rows' : projects'[i].long /\ Seen(i)' =>
              i \in P!Rows /\ projects[i].long /\ Seen(i) /\ projects'[i] = projects[i] /\ Cardinality(Later(i)') = Cardinality(Later(i))
        BY <1>15, <3>1
      <4> QED  BY <1>4, <4>1 DEF RotatedPlan
    <3> QED  BY <2>1, <2>2, <3>2, <3>3, <3>4 DEF PassKnows
  <2> QED  BY <2>3, <2>4
<1>17. PassAlone'
  BY <1>4, <1>16 DEF PlannerInv, PassAlone, P!At
<1> QED  BY <1>9, <1>10, <1>11, <1>13, <1>14, <1>17 DEF PlannerInv

\* One step per action.
LEMMA PlannerStep ==
  ASSUME P!PlannerAssumption, PlannerInv, [P!Next]_planning
  PROVE  PlannerInv'
<1>1. ASSUME NEW p \in Planners, P!Begin(p) PROVE PlannerInv'  BY <1>1, BeginKeeps
<1>2. ASSUME NEW p \in Planners, P!ReadHistory(p) PROVE PlannerInv'  BY <1>2, ReadHistoryKeeps
<1>3. ASSUME NEW p \in Planners, P!Answer(p) PROVE PlannerInv'  BY <1>3, AnswerKeeps
<1>4. ASSUME NEW p \in Planners, P!NoAnswer(p) PROVE PlannerInv'  BY <1>4, NoAnswerKeeps
<1>5. ASSUME NEW p \in Planners, P!Rotate(p) PROVE PlannerInv'  BY <1>5, RotateKeeps
<1>6. ASSUME NEW p \in Planners, P!Persist(p) PROVE PlannerInv'  BY <1>6, PersistKeeps
<1>7. ASSUME NEW subject \in Subjects, P!CreateProject(subject) PROVE PlannerInv'  BY <1>7, CreateProjectKeeps
<1>8. ASSUME NEW i \in P!Rows, NEW status \in P!Statuses, P!ChangeStatus(i, status) PROVE PlannerInv'
  BY <1>8, ChangeStatusKeeps
<1>9. ASSUME P!NextDay PROVE PlannerInv'  BY <1>9, NextDayKeeps
<1>10. ASSUME UNCHANGED planning PROVE PlannerInv'
  <2>1. /\ today' = today /\ projects' = projects /\ planner' = planner /\ handmade' = handmade /\ crossed' = crossed
    BY <1>10 DEF planning
  <2>2. PlannerTypes /\ today \in Nat
    BY DEF PlannerInv, PlannerTypes, P!PlannerTypeOK
  <2>3. RowsKept  BY <2>1, <2>2, RowTypes DEF RowsKept
  <2>4. /\ RowsInTime' /\ P!FreshSubjects' /\ P!FormatsRotate' /\ \A i \in P!Rows : Later(i)' = Later(i)
    BY <2>1, <2>2, <2>3, KeptStays
  <2>5. PlannerTypes'  BY <2>1, <2>2, TypesAre DEF PlannerBase
  <2>6. FormatsGiven'  BY <2>1 DEF PlannerInv, FormatsGiven, P!At
  <2>7. ASSUME ~crossed, NEW q \in Planners PROVE PassKnows(q)'
    <3>1. PassKnows(q)  BY <2>7 DEF PlannerInv, PassAlone
    <3> QED  BY <2>1, <2>3, <2>4, <3>1, KnowledgeStays
  <2>8. PassAlone'  BY <2>1, <2>7 DEF PlannerInv, PassAlone, P!At
  <2> QED  BY <2>4, <2>5, <2>6, <2>8 DEF PlannerInv
<1> QED  BY <1>1, <1>2, <1>3, <1>4, <1>5, <1>6, <1>7, <1>8, <1>9, <1>10 DEF P!Next

LEMMA PlannerStart ==
  ASSUME P!PlannerAssumption, P!Init
  PROVE  PlannerInv
<1>1. /\ today = 1 /\ projects = <<>> /\ handmade = 0 /\ crossed = FALSE
      /\ planner = [p \in Planners |-> P!Rest] /\ P!Rows = {}
  BY DEF P!Init, P!Rows
<1>2. \A p \in Planners : planner[p] = P!Rest /\ P!At(p, "idle")  BY <1>1, RestIs DEF P!At
<1>3. PlannerTypes
  <2>1. <<>> \in Seq(RowType)  OBVIOUS
  <2>2. today \in 1 .. MaxDay /\ handmade \in 0 .. MaxByHand  BY <1>1, PlannerBounds
  <2>3. \A p \in Planners : Len(planner[p].longs) <= PlanLong /\ Len(planner[p].shorts) <= PlanShort
    BY <1>2, RestIs, PlannerBounds
  <2>4. planner \in [Planners -> PlannerStates]  BY <1>1, RestIs
  <2> QED  BY <1>1, <2>1, <2>2, <2>3, <2>4, TypesAre DEF PlannerBase
<1>4. RowsInTime  BY <1>1 DEF RowsInTime
<1>5. FormatsGiven  BY <1>2 DEF FormatsGiven, P!At
<1>6. PassAlone  BY <1>2 DEF PassAlone, PassKnows, P!At
<1>7. P!FreshSubjects /\ P!FormatsRotate  BY <1>1 DEF P!FreshSubjects, P!FormatsRotate
<1> QED  BY <1>3, <1>4, <1>5, <1>6, <1>7 DEF PlannerInv

LEMMA PlannerHolds ==
  ASSUME P!PlannerAssumption PROVE ServicesSpec => [](focus = "planning" => PlannerInv)
<1> DEFINE Holds == focus = "planning" => PlannerInv
<1>1. ServicesInit => Holds  BY PlannerStart DEF ServicesInit
<1>2. Holds /\ [ServicesNext]_all => Holds'
  <2> SUFFICES ASSUME Holds, [ServicesNext]_all, focus' = "planning" PROVE PlannerInv'  OBVIOUS
  <2>1. focus = "planning" /\ [P!Next]_planning
    <3>1. CASE ServicesNext  BY <3>1 DEF ServicesNext
    <3>2. CASE UNCHANGED all  BY <3>2 DEF all
    <3> QED  BY <3>1, <3>2
  <2> QED  BY <2>1, PlannerStep
<1> HIDE DEF Holds
<1>3. ServicesSpec => []Holds  BY <1>1, <1>2, PTL DEF ServicesSpec
<1> QED  BY <1>3 DEF Holds

\* While passes do not cross, no video the agent plans is like a project that every
\* reading so far found among its HistoryLimit newest, whatever the LLM answers and
\* whatever becomes of the projects (load_topic_history, _dedup_plan_against_history,
\* _pick_evergreen_topics): but for the fallback subjects and the shorts of a plan
\* without the LLM.
THEOREM SubjectsAreFresh ==
  ASSUME P!PlannerAssumption PROVE ServicesSpec => []FreshSubjects
<1> DEFINE Holds == focus = "planning" => PlannerInv
<1>1. Holds => FreshSubjects  BY DEF FreshSubjects, PlannerInv
<1>2. ServicesSpec => []Holds  BY PlannerHolds
<1> HIDE DEF Holds
<1> QED  BY <1>1, <1>2, PTL

\* With a bank larger than the window, a long video never has the format of one of the
\* window that the readings saw, for any bank and window (assign_formats_to_long_topics,
\* pick_available_format_ids, load_format_history).
THEOREM FormatsAreRotated ==
  ASSUME P!PlannerAssumption PROVE ServicesSpec => []FormatsRotate
<1> DEFINE Holds == focus = "planning" => PlannerInv
<1>1. Holds => FormatsRotate  BY DEF FormatsRotate, PlannerInv
<1>2. ServicesSpec => []Holds  BY PlannerHolds
<1> HIDE DEF Holds
<1> QED  BY <1>1, <1>2, PTL
================================================================================

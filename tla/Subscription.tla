----------------------------- MODULE Subscription -----------------------------
(***************************************************************************)
(* What the plan of an owner lets a creation do.  Each launch of a         *)
(* creation, resumption included, loads its channel, then the plan, and    *)
(* writes brief.json from the defaults of the application, the settings of *)
(* the channel capped by the plan, and the settings of the project.  The   *)
(* owner edits the channel and the project, and changes plan, meanwhile.   *)
(***************************************************************************)
EXTENDS Integers

CONSTANTS
  Plans,         \* limits: engines, first engine, unlimited, iterations, duration, ai, motion3d
  Application,   \* agent_config.json: engine, critic, ai, style; animations are on
  Asked,         \* numbers the owner may ask for
  MaxEdits       \* bound of the number of changes by the owner

Unset == "unset"
NoNumber == -1

\* Engines as they are written, "" and unknown names included.
Written == {"azure", "gemini", "edge", "edge-tts", "elevenlabs", "", "other"}
Engines == {"azure", "gemini", "edge-tts", "elevenlabs"}
Styles == {"animation", "mixed", "realistic", "motion3d", "auto"}

SubscriptionAssumption ==
  /\ \A l \in Plans :
       /\ l.engines \subseteq {"azure", "gemini", "edge", "elevenlabs"} /\ l.first \in l.engines
       /\ l.unlimited \in BOOLEAN /\ l.iterations \in Nat \ {0} /\ l.duration \in Nat
       /\ l.ai \in BOOLEAN /\ l.motion3d \in BOOLEAN
  /\ Application.engine \in Written /\ Application.critic \in Nat
  /\ Application.ai \in BOOLEAN /\ Application.style \in Styles
  /\ Asked \subseteq Nat /\ MaxEdits \in Nat

\* Settings of a channel; the voice is the one of its own short profile.
Settings ==
  [engine : Written \cup {Unset}, secours : Written \cup {Unset},
   critic : Asked \cup {NoNumber}, quality : Asked \cup {NoNumber}, duration : Asked \cup {NoNumber},
   ai : BOOLEAN, style : Styles \cup {Unset}]

\* Caps a project may have got, none included.
Numbers == Asked \cup {NoNumber} \cup {l.iterations : l \in Plans}

VARIABLES
  plan,      \* limits of the owner's plan
  channel,   \* channels.config
  override,  \* max_critic_iterations of the project
  patch,     \* a change of it being written, with the plan read for it
  launch,    \* the launch in progress: idle, or the channel it has loaded
  brief,     \* brief.json, or none
  basis,     \* history: plan and own voice the brief comes from
  edits

planVars == <<plan, channel, override, patch, launch, brief, basis, edits>>

None == [at |-> "none"]

Bare == [engine |-> Unset, secours |-> Unset, critic |-> NoNumber, quality |-> NoNumber,
         duration |-> NoNumber, ai |-> TRUE, style |-> Unset]

SubscriptionInit ==
  /\ plan \in Plans /\ channel = Bare /\ override = NoNumber
  /\ patch = None /\ launch = None /\ brief = None /\ basis = None
  /\ edits = 0

------------------------------------------------------------------------------
(* apply_subscription_caps, then the merge of resolve_channel_config.          *)

Least(a, b) == IF a < b THEN a ELSE b

\* "edge and edge-tts are the same engine".
EngineKey(name) == IF name = "edge-tts" THEN "edge" ELSE name

\* _normalize_tts_engine
Normal(name) == IF name = "edge" THEN "edge-tts" ELSE IF name \in Engines THEN name ELSE "azure"

\* A profile on an engine out of the plan is moved to its first engine.
CappedEngine(c, l) ==
  IF c.engine = Unset \/ EngineKey(c.engine) \in l.engines THEN c.engine ELSE l.first

Voice(c, l) ==
  Normal(IF CappedEngine(c, l) = Unset THEN Application.engine ELSE CappedEngine(c, l))

\* Mutation of CappedSecours: the fallback voice of the channel is not capped.
CappedSecoursFree(c, l) == c.secours

\* A fallback out of the plan is removed from the profile.
CappedSecours(c, l) ==
  IF c.secours # Unset /\ EngineKey(c.secours) \in l.engines THEN c.secours ELSE Unset

\* _resolve_tts_fallback: unknown, or the engine of the voice itself: ignored.
Secours(c, l) ==
  LET engine == Normal(CappedSecours(c, l))
  IN IF CappedSecours(c, l) \notin Engines \cup {"edge"} \/ engine = Voice(c, l) THEN Unset ELSE engine

CappedCritic(c, l) ==
  IF l.unlimited THEN c.critic
  ELSE IF c.critic = NoNumber THEN l.iterations ELSE Least(c.critic, l.iterations)

\* The former setting counts when the channel has no cap of its own.
ChannelCritic(c, l) ==
  IF CappedCritic(c, l) # NoNumber THEN CappedCritic(c, l)
  ELSE IF c.quality # NoNumber THEN c.quality ELSE Application.critic

\* resolve_effective_max_critic_iterations: none for an unlimited plan without an override.
Iterations(c, over, l) ==
  IF l.unlimited THEN over
  ELSE LET capped == Least(over, l.iterations)
       IN IF over # NoNumber /\ capped # 0 THEN capped ELSE Least(ChannelCritic(c, l), l.iterations)

Clamp(n, low, high) == IF n < low THEN low ELSE Least(n, high)

Duration(c, l) == IF c.duration = NoNumber THEN l.duration ELSE Least(c.duration, l.duration)

Style(c, l) ==
  LET style == IF c.style = "motion3d" /\ ~l.motion3d THEN "animation" ELSE c.style
  IN IF style = Unset THEN Application.style ELSE style

\* AI images: the plan, the channel and the application have to agree.
AiOn(c, l) == l.ai /\ c.ai /\ Application.ai

\* motion3d_enabled
Motion3d(style, l) == l.motion3d /\ style \in {"motion3d", "auto"}

\* build_brief; the project's own duration, not capped, is left out.
Brief(c, over, l) ==
  LET critic == Iterations(c, over, l)
  IN [at |-> "written",
      engine |-> Voice(c, l), secours |-> Secours(c, l),
      iterations |-> Clamp(IF critic \in {NoNumber, 0} THEN ChannelCritic(c, l) ELSE critic, 1, 6),
      duration |-> Clamp(Duration(c, l), 15, 180),
      ai |-> AiOn(c, l),
      style |-> Style(c, l),
      motion3d |-> Motion3d(Style(c, l), l)]

------------------------------------------------------------------------------
(* Actions.                                                                    *)

Edit == edits < MaxEdits /\ edits' = edits + 1

ChangePlan(l) ==
  /\ Edit /\ plan' = l
  /\ UNCHANGED <<channel, override, patch, launch, brief, basis>>

\* update_channel: a fallback voice is part of a short profile.
EditChannel ==
  /\ Edit
  /\ \/ \E e \in Written, s \in Written \cup {Unset} :
          channel' = [channel EXCEPT !.engine = e, !.secours = s]
     \/ channel' = [channel EXCEPT !.engine = Unset, !.secours = Unset]
     \/ \E n \in Asked \cup {NoNumber} : \/ channel' = [channel EXCEPT !.critic = n]
                                         \/ channel' = [channel EXCEPT !.quality = n]
                                         \/ channel' = [channel EXCEPT !.duration = n]
     \/ \E on \in BOOLEAN : channel' = [channel EXCEPT !.ai = on]
     \/ \E s \in Styles : channel' = [channel EXCEPT !.style = s]
  /\ UNCHANGED <<plan, override, patch, launch, brief, basis>>

\* update_project_config reads the plan, then writes the capped number; only an
\* unlimited plan may remove it.
AskOverride(n) ==
  /\ Edit /\ patch = None
  /\ patch' = IF (n = NoNumber /\ ~plan.unlimited) \/ n = 0 THEN None
              ELSE [at |-> "asked",
                    number |-> IF plan.unlimited THEN n ELSE Least(n, plan.iterations)]
  /\ UNCHANGED <<plan, channel, override, launch, brief, basis>>

WriteOverride ==
  /\ patch # None /\ override' = patch.number /\ patch' = None
  /\ UNCHANGED <<plan, channel, launch, brief, basis, edits>>

\* run_pipeline loads the project and the channel, then the limits.
LoadChannel ==
  /\ launch = None
  /\ launch' = [at |-> "loaded", channel |-> channel, override |-> override]
  /\ UNCHANGED <<plan, channel, override, patch, brief, basis, edits>>

WriteBrief ==
  /\ launch # None /\ launch' = None
  /\ brief' = Brief(launch.channel, launch.override, plan)
  /\ basis' = [at |-> "written", plan |-> plan, own |-> launch.channel.engine # Unset]
  /\ UNCHANGED <<plan, channel, override, patch, edits>>

SubscriptionNext ==
  \/ \E l \in Plans : ChangePlan(l)
  \/ EditChannel
  \/ \E n \in Asked \cup {NoNumber} : AskOverride(n)
  \/ WriteOverride \/ LoadChannel \/ WriteBrief

SubscriptionSpec == SubscriptionInit /\ [][SubscriptionNext]_planVars

------------------------------------------------------------------------------
(* Properties.                                                                 *)

SubscriptionTypeOK ==
  /\ plan \in Plans /\ channel \in Settings /\ override \in Numbers
  /\ patch = None \/ patch.number \in Numbers
  /\ launch = None \/ (launch.channel \in Settings /\ launch.override \in Numbers)
  /\ edits \in 0 .. MaxEdits

\* A brief written from a plan keeps to it.
Keeps(b, l, own) ==
  /\ own => EngineKey(b.engine) \in l.engines
  /\ b.secours # Unset => EngineKey(b.secours) \in l.engines
  /\ ~l.unlimited => b.iterations <= l.iterations
  /\ b.duration <= l.duration \/ b.duration = 15
  /\ b.ai => l.ai
  /\ b.motion3d => l.motion3d
  /\ Application.style # "motion3d" /\ b.style = "motion3d" => l.motion3d

\* "Caps the effective configuration of the channel according to the
\* subscription" (apply_subscription_caps): the brief of a creation keeps to the
\* plan read for it in voice, fallback voice, iterations, duration, AI images and
\* 3D, whatever was set under another plan and however settings of the
\* application, the channel and the project combine.  The voice is that of a
\* channel with a profile of its own: the application's default is not capped.
BriefKeepsToPlan == brief # None => Keeps(brief, basis.plan, basis.own)
===============================================================================

------------------------------ MODULE MCServices ------------------------------
(***************************************************************************)
(* The jobs that share nothing but the database tables each of them owns   *)
(* are checked side by side: the initial state chooses one, and only its   *)
(* steps are taken; the properties of the others hold in it.               *)
(***************************************************************************)
EXTENDS CommentReplies, Subscription, Sequences, TLC

\* Constants of Distribution, ContentPlanner, SchedulerSettings, LlmCalls and Channels.
CONSTANTS
  Videos, VideoType, TargetDate, DayLength, Weekdays, Hours, LongQuota, ShortQuota, Lead, ChannelSettings, DefaultProvider,
  Deduplicates, Runs, CronRun, Callers, MaxTries, MaxPolls, MaxTime, MaxPubs, DistributionEvents,
  Subjects, Similar, Evergreen, Filler, Bank, NoFormat, HistoryLimit, WindowK, PlanLong, PlanShort, LlmDays, Planners,
  CronPlanner, MaxDay, MaxProjects, MaxByHand,
  Jobs, Crons, Default, Requests, MaxAsked,
  Agents, FreeModels, PaidModels, ClaudeModels, CliModels, DefaultModel, MaxContinuations, ModelEdits, MaxCalls,
  Slugs, Limit, MaxOps

VARIABLES
  focus,     \* the component that is checked in this behaviour
  now, pubs, cfg, post, purged, run, call, overlap, doubtful,
  today, projects, planner, handmade, crossed,
  allowed, switch, stored, planned, running, request, asked, raced,
  admin, cli, held, pref, saving, llm, modelEdits, calls, through,
  chan, page, req, flows, granted, profiles, ops, wish, overwritten, rushed

D == INSTANCE Distribution WITH Cron <- CronRun, MaxEvents <- DistributionEvents

P == INSTANCE ContentPlanner WITH LongQuota <- PlanLong, ShortQuota <- PlanShort

S == INSTANCE SchedulerSettings

L == INSTANCE LlmCalls WITH edits <- modelEdits, MaxEdits <- ModelEdits

\* Zernio by default: the profile it makes at a first connection and finds at the
\* next is met within few requests.
K == INSTANCE Channels WITH Default <- DefaultProvider, crossed <- overwritten, raced <- rushed

ASSUME ServicesAssumption ==
  /\ D!DistributionAssumption /\ CommentAssumption
  /\ P!PlannerAssumption /\ S!SettingsAssumption
  /\ L!LlmAssumption /\ SubscriptionAssumption /\ K!ChannelsAssumption

\* A long video, for the second day of the plan, and a short one per platform, for
\* any day.
FourTypes == [v \in Videos |-> CASE v = "v1" -> "short_youtube" [] v = "v2" -> "long"
                                  [] v = "v3" -> "short_instagram" [] OTHER -> "short_tiktok"]
LongOnDayTwo == [v \in Videos |-> IF v = "v2" THEN 2 ELSE 0]
OnePub == [c \in Comments |-> CHOOSE b \in Pubs : TRUE]

\* The default provider in Paris; one that takes a repeated creation for what it is and
\* one that does not, in a timezone one tick behind.
ThreeSettings == {[provider |-> "composio", zone |-> 0], [provider |-> "zernio", zone |-> 1],
                  [provider |-> "postforme", zone |-> 1]}

\* Subjects one of which is like another, three formats, two jobs planned alike.
TwoAlike == {pair \in Subjects \X Subjects : pair[1] = pair[2] \/ {pair[1], pair[2]} = {"s1", "s1b"}}
OneEvergreen == <<"s1b">>
ThreeFormats == <<"f1", "f2", "f3">>
\* One model of each kind, and one that only the claude command has.
FirstModels == [k \in {"config", "free", "paid", "anthropic", "cli"} |->
                  CASE k = "free" -> "g1" [] k = "paid" -> "g2" [] OTHER -> "c1"]

\* The free plan and one without limits, and the application as it is delivered.
TwoPlans ==
  {[engines |-> {"edge", "elevenlabs"}, first |-> "edge", unlimited |-> FALSE, iterations |-> 2,
    duration |-> 60, ai |-> FALSE, motion3d |-> FALSE],
   [engines |-> {"edge", "azure", "gemini", "elevenlabs"}, first |-> "edge", unlimited |-> TRUE,
    iterations |-> 2, duration |-> 180, ai |-> TRUE, motion3d |-> TRUE]}
Delivered == [engine |-> "azure", critic |-> 5, duration |-> 90, ai |-> TRUE, style |-> "animation"]

AllEnabled == [j \in Jobs |-> [enabled |-> TRUE, cron |-> "x"]]

distribution == <<now, pubs, cfg, post, purged, run, call, overlap, doubtful>>
comments == <<platform, row, lock, pass, setting, lapsed>>

planning == <<today, projects, planner, handmade, crossed>>
settings == <<allowed, switch, stored, planned, running, request, asked, raced>>
models == <<admin, cli, held, pref, saving, llm, modelEdits, calls, through>>
channels == <<chan, page, req, flows, granted, profiles, ops, wish, overwritten, rushed>>

dvars == <<events, distribution>>
all == <<focus, vars, distribution, planning, settings, models, planVars, channels>>

\* The components that are not checked keep one initial state.
ServicesInit ==
  /\ focus \in {"distribution", "comments", "planning", "settings", "models", "plans", "channels"}
  /\ D!Init /\ Init /\ P!Init /\ S!Init /\ L!Init /\ SubscriptionInit /\ K!ChannelsInit
  /\ focus # "distribution" => cfg.provider = "zernio"
  /\ focus # "comments" => \A b \in Pubs : client[b] = "again"
  /\ focus # "settings" => allowed /\ switch
  /\ focus # "models" => admin /\ cli
  /\ focus # "plans" => plan.unlimited

ServicesNext ==
  \/ focus = "distribution" /\ D!Next
     /\ UNCHANGED <<focus, comments, planning, settings, models, planVars, channels>>
  \/ focus = "comments" /\ Next
     /\ UNCHANGED <<focus, distribution, planning, settings, models, planVars, channels>>
  \/ focus = "planning" /\ P!Next
     /\ UNCHANGED <<focus, events, distribution, comments, settings, models, planVars, channels>>
  \/ focus = "settings" /\ S!Next
     /\ UNCHANGED <<focus, events, distribution, comments, planning, models, planVars, channels>>
  \/ focus = "models" /\ L!Next
     /\ UNCHANGED <<focus, events, distribution, comments, planning, settings, planVars, channels>>
  \/ focus = "plans" /\ SubscriptionNext
     /\ UNCHANGED <<focus, events, distribution, comments, planning, settings, models, channels>>
  \/ focus = "channels" /\ K!ChannelsNext
     /\ UNCHANGED <<focus, events, distribution, comments, planning, settings, models, planVars>>

ServicesFairness ==
  /\ WF_dvars(focus = "distribution" /\ D!Launch(CronRun))
  /\ \A r \in Runs : WF_dvars(focus = "distribution" /\ D!PassStep(r))
  /\ WF_vars(focus = "comments" /\ Begin(Cron))
  /\ \A p \in Passes : WF_vars(focus = "comments" /\ Step(p))
  /\ \A c \in Comments : WF_vars(focus = "comments" /\ BecomeDue(c))
  /\ WF_vars(focus = "comments" /\ Expire) /\ WF_vars(focus = "comments" /\ LimitEnds)

ServicesSpec == ServicesInit /\ [][ServicesNext]_all /\ ServicesFairness

\* The type invariant of the component that is checked: its states, positions and
\* bounded counters are those of its code.
TypeOK ==
  CASE focus = "distribution" -> D!TypeOK
    [] focus = "comments" -> CommentTypeOK
    [] focus = "planning" -> P!PlannerTypeOK
    [] focus = "settings" -> S!SettingsTypeOK
    [] focus = "models" -> L!LlmTypeOK
    [] focus = "plans" -> SubscriptionTypeOK
    [] focus = "channels" -> K!TypeOK

\* The properties below are stated and commented in the modules of their names; those
\* of CommentReplies and Subscription are taken as they are.
OneLiveCopy == focus = "distribution" => D!OneLiveCopy
VideoPostedOnce == focus = "distribution" => D!VideoPostedOnce
PublicationsAtMostOnce == D!PublicationsAtMostOnce
QuotaKept == focus = "distribution" => D!QuotaKept
DueIsSettled == focus = "distribution" => D!DueIsSettled

FreshSubjects == focus = "planning" => P!FreshSubjects
FormatsRotate == focus = "planning" => P!FormatsRotate

SettingsApplied == focus = "settings" => S!SettingsApplied

PreferenceIsHonoured == focus = "models" => L!PreferenceIsHonoured

ConnectionsKept == focus = "channels" => K!ConnectionsKept
==============================================================================

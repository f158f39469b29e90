---------------------------- MODULE ContentPlanner ----------------------------
(***************************************************************************)
(* The agent that chooses every morning the subjects of the next day and   *)
(* creates their projects, for one active channel: by the scheduler, or by *)
(* hand, where a plan may be forced.  On some days an LLM chooses, on the  *)
(* others the evergreen subjects are gone through.  The LLM is             *)
(* environment: any topics.                                                *)
(***************************************************************************)
EXTENDS Naturals, Sequences, FiniteSets, SequencesExt

CONSTANTS
  Subjects,     \* subjects of projects
  Similar,      \* pairs of subjects with token_set_ratio >= SIMILARITY_THRESHOLD
  Evergreen,    \* evergreen_topics, a sequence of subjects
  Filler,       \* the subject of the fallbacks ("Sujet complémentaire")
  Bank,         \* editorial_formats, a sequence
  NoFormat,
  HistoryLimit, \* limit of load_topic_history and load_format_history
  WindowK,      \* format_rotation.window_k
  LongQuota,    \* daily_quotas
  ShortQuota,
  LlmDays,      \* planner_llm_weekdays, as days
  Planners,     \* passes that may be in progress at once
  CronPlanner,  \* the one the scheduler starts
  MaxDay,       \* bounds of the model: days, projects,
  MaxProjects,
  MaxByHand    \* passes started by hand, projects made by hand and changes of status

Formats == {Bank[k] : k \in DOMAIN Bank}

PlannerAssumption ==
  /\ Filler \in Subjects /\ Evergreen \in Seq(Subjects) /\ Bank \in Seq(Formats)
  /\ Similar \subseteq Subjects \X Subjects
  /\ \A x \in Subjects : <<x, x>> \in Similar
  /\ \A pair \in Similar : <<pair[2], pair[1]>> \in Similar
  /\ NoFormat \notin Formats
  /\ \A k, l \in DOMAIN Bank : Bank[k] = Bank[l] => k = l
  /\ {HistoryLimit, WindowK, LongQuota, ShortQuota, MaxDay, MaxProjects, MaxByHand} \subseteq Nat /\ MaxDay > 0
  /\ CronPlanner \in Planners

VARIABLES
  today,     \* production_day
  projects,  \* rows of `projects`, in order of creation
  planner,   \* the passes
  handmade,   \* passes, projects and changes made by hand so far
  crossed    \* history: two passes were in progress at once

vars == <<today, projects, planner, handmade, crossed>>

\* "pending" stands for running and approved too, which are read like it, and
\* "queued" for paused and stopped.
Statuses == {"pending", "queued", "failed"}

Rest == [at |-> "idle", history |-> <<>>, longs |-> <<>>, shorts |-> <<>>]

Init ==
  /\ today = 1 /\ projects = <<>> /\ handmade = 0 /\ crossed = FALSE
  /\ planner = [p \in Planners |-> Rest]

Topics == [subject : Subjects, format : Formats \cup {NoFormat}]

PlannerTypeOK ==
  /\ today \in 1 .. MaxDay /\ handmade \in 0 .. MaxByHand /\ crossed \in BOOLEAN
  /\ projects \in Seq([subject : Subjects, format : Formats \cup {NoFormat}, long : BOOLEAN, day : Nat,
                       status : Statuses, byAgent : BOOLEAN, missed : BOOLEAN])
  /\ \A p \in Planners :
       /\ planner[p].at \in {"idle", "history", "llm", "rotate", "persist"}
       /\ planner[p].longs \in Seq(Topics) /\ Len(planner[p].longs) <= LongQuota
       /\ planner[p].shorts \in Seq(Topics) /\ Len(planner[p].shorts) <= ShortQuota

At(p, label) == planner[p].at = label

ByHand == handmade < MaxByHand /\ handmade' = handmade + 1

Rows == DOMAIN projects

\* count_planner_projects_for_publish_date, for the day that follows `today`.
Planned == {i \in Rows : projects[i].byAgent /\ projects[i].day = today /\ projects[i].status = "pending"}

\* _plan_channel, run_for_channel: nothing if the day has a plan, unless it is forced.
Begin(p) ==
  /\ At(p, "idle") /\ IF p = CronPlanner THEN UNCHANGED handmade ELSE ByHand
  /\ Planned = {} \/ p # CronPlanner
  /\ LongQuota + ShortQuota > 0
  /\ planner' = [planner EXCEPT ![p] = [Rest EXCEPT !.at = "history"]]
  /\ crossed' = (crossed \/ \E q \in Planners : ~At(q, "idle"))
  /\ UNCHANGED <<today, projects>>

------------------------------------------------------------------------------
(* Subjects.                                                                   *)

\* Order of creation: the videos of one plan have one date, hence no order.
Newer(flip, i, j) ==
  \/ projects[i].day > projects[j].day
  \/ projects[i].day = projects[j].day /\ IF flip THEN i < j ELSE i > j

\* load_topic_history leaves out the projects that are queued, paused or stopped,
\* and those that HistoryLimit others are newer than.
Read(flip) ==
  LET listed == {i \in Rows : projects[i].status # "queued"}
  IN  {i \in listed : Cardinality({j \in listed : Newer(flip, j, i)}) < HistoryLimit}

ReadSubjects(flip) == {projects[i].subject : i \in Read(flip)}

\* missed is for the properties: this reading leaves the project out.
Marked(flip) ==
  projects' = [i \in Rows |-> IF i \in Read(flip) THEN projects[i] ELSE [projects[i] EXCEPT !.missed = TRUE]]

TooSimilar(subject, used) == \E other \in used : <<subject, other>> \in Similar

\* Subjects that are kept, the first come first: none that is similar to a used
\* one or to one kept before.
Distinct(subjects, used) ==
  FoldLeft(LAMBDA kept, x : IF TooSimilar(x, used \cup ToSet(kept)) THEN kept ELSE Append(kept, x), <<>>, subjects)

\* _pick_evergreen_topics, completed without a look at what was used.
PickEvergreen(count, used) ==
  LET fresh == Distinct(Evergreen, used)
  IN  [k \in 1 .. count |-> IF k <= Len(fresh) THEN fresh[k] ELSE Filler]

Topic(subject) == [subject |-> subject, format |-> NoFormat]

\* build_heuristic_plan: a short repeats the subject of its long.
HeuristicPlan(used) ==
  LET longs == [k \in 1 .. LongQuota |-> Topic(PickEvergreen(LongQuota, used)[k])]
  IN  [longs |-> longs,
       shorts |-> [k \in 1 .. ShortQuota |-> IF LongQuota = 0 THEN Topic(Filler) ELSE longs[((k - 1) % LongQuota) + 1]]]

\* The history is read once, before the LLM is asked.
ReadHistory(p) ==
  /\ At(p, "history")
  /\ \E flip \in BOOLEAN :
       LET plan == HeuristicPlan(ReadSubjects(flip))
       IN /\ Marked(flip)
          /\ planner' = [planner EXCEPT ![p] =
               IF today \in LlmDays THEN [@ EXCEPT !.at = "llm", !.history = SetToSeq(ReadSubjects(flip))]
               ELSE [@ EXCEPT !.at = "rotate", !.longs = plan.longs, !.shorts = plan.shorts]]
  /\ UNCHANGED <<today, handmade, crossed>>

\* Mutation of Keep: a topic is compared with the history only.
KeepAll(topics, used) ==
  FoldLeft(LAMBDA kept, t : IF TooSimilar(t.subject, used)
                            THEN kept ELSE Append(kept, t), <<>>, topics)

\* _build_plan completes the long videos; _dedup_plan_against_history filters
\* the topics like the used ones or like one another, longs first.
Keep(topics, used) ==
  FoldLeft(LAMBDA kept, t : IF TooSimilar(t.subject, used \cup {kept[k].subject : k \in DOMAIN kept})
                            THEN kept ELSE Append(kept, t), <<>>, topics)

Complete(topics) == [k \in 1 .. LongQuota |-> IF k <= Len(topics) THEN topics[k] ELSE Topic(Filler)]

Answer(p) ==
  /\ At(p, "llm")
  /\ \E l \in 0 .. LongQuota, s \in 0 .. ShortQuota :
       \E longs \in [1 .. l -> Topics], shorts \in [1 .. s -> [subject : Subjects, format : {NoFormat}]] :
         LET used == ToSet(planner[p].history)
             keptLongs == Keep(Complete(longs), used)
             keptShorts == Keep(shorts, used \cup {keptLongs[k].subject : k \in DOMAIN keptLongs})
         IN planner' = [planner EXCEPT ![p] = [@ EXCEPT !.at = "rotate", !.history = <<>>,
                                                        !.longs = keptLongs, !.shorts = keptShorts]]
  /\ UNCHANGED <<today, projects, handmade, crossed>>

\* The LLM fails, or answers no JSON: the channel is left without a plan.
NoAnswer(p) ==
  /\ At(p, "llm") /\ planner' = [planner EXCEPT ![p] = Rest]
  /\ UNCHANGED <<today, projects, handmade, crossed>>

------------------------------------------------------------------------------
(* Formats.                                                                    *)

\* load_format_history: the formats of the long videos among the same rows, the
\* last plan first.
FormatHistory(flip) ==
  LET rows == {i \in Read(flip) : projects[i].long /\ projects[i].format # NoFormat}
      order == CHOOSE o \in [1 .. Cardinality(rows) -> rows] :
                 \A k, l \in DOMAIN o : k < l => Newer(flip, o[k], o[l])
  IN  [k \in DOMAIN order |-> projects[order[k]].format]

\* The elements of a list that are in a set.
Among(list, wanted) == FoldLeft(LAMBDA acc, f : IF f \in wanted THEN Append(acc, f) ELSE acc, <<>>, list)

\* pick_available_format_ids: the formats outside the window, or else the oldest.
Available(recent) ==
  LET free == Among(Bank, Formats \ {recent[k] : k \in {l \in DOMAIN recent : l <= WindowK}})
      old == Among(recent, Formats)
  IN  IF free # <<>> THEN free ELSE IF old # <<>> THEN <<old[Len(old)]>> ELSE <<Bank[1]>>

\* The format the LLM chose when it may be taken, or the next one of those available.
ChooseFormat(wanted, available, done) ==
  IF wanted \in ToSet(available) THEN wanted ELSE available[(done % Len(available)) + 1]

\* Mutation of AssignFormats: a choice does not count for the next ones.
AssignFormatsFromHistory(topics, history) ==
  FoldLeft(LAMBDA acc, t :
             LET format == ChooseFormat(t.format, Available(acc.recent), Len(acc.topics))
             IN  [topics |-> Append(acc.topics, [t EXCEPT !.format = format]), recent |-> acc.recent],
           [topics |-> <<>>, recent |-> history], topics).topics

\* assign_formats_to_long_topics: each choice counts for the ones that follow; nothing
\* without a bank.
AssignFormats(topics, history) ==
  IF Bank = <<>> THEN topics
  ELSE FoldLeft(LAMBDA acc, t :
         LET format == ChooseFormat(t.format, Available(acc.recent), Len(acc.topics))
         IN  [topics |-> Append(acc.topics, [t EXCEPT !.format = format]), recent |-> <<format>> \o acc.recent],
         [topics |-> <<>>, recent |-> history], topics).topics

Rotate(p) ==
  /\ At(p, "rotate")
  /\ \E flip \in BOOLEAN :
       /\ Marked(flip)
       /\ planner' = [planner EXCEPT ![p].at = "persist", ![p].longs = AssignFormats(@, FormatHistory(flip))]
  /\ UNCHANGED <<today, handmade, crossed>>

\* _persist_plan: one commit.
Row(topic, long, byAgent) ==
  [subject |-> topic.subject, format |-> topic.format, long |-> long, day |-> today,
   status |-> "pending", byAgent |-> byAgent,
   missed |-> ~byAgent /\ \E p \in Planners : ~At(p, "idle")]

Persist(p) ==
  /\ At(p, "persist")
  /\ Len(projects) + Len(planner[p].longs) + Len(planner[p].shorts) <= MaxProjects
  /\ projects' = projects \o [k \in DOMAIN planner[p].longs |-> Row(planner[p].longs[k], TRUE, TRUE)]
                          \o [k \in DOMAIN planner[p].shorts |-> Row(planner[p].shorts[k], FALSE, TRUE)]
  /\ planner' = [planner EXCEPT ![p] = Rest]
  /\ UNCHANGED <<today, handmade, crossed>>

------------------------------------------------------------------------------
(* Environment.                                                                *)

\* POST /projects asks nothing of the history.
CreateProject(subject) ==
  /\ ByHand /\ Len(projects) < MaxProjects
  /\ projects' = Append(projects, Row(Topic(subject), FALSE, FALSE))
  /\ UNCHANGED <<today, planner, crossed>>

\* The pipeline, or the user, changes the status of a project.
ChangeStatus(i, status) ==
  /\ ByHand /\ projects[i].status # status
  /\ projects' = [projects EXCEPT ![i].status = status]
  /\ UNCHANGED <<today, planner, crossed>>

\* The next morning, the passes of the day being over.
NextDay ==
  /\ today < MaxDay /\ \A p \in Planners : At(p, "idle")
  /\ today' = today + 1
  /\ UNCHANGED <<projects, planner, handmade, crossed>>

Next ==
  \/ \E p \in Planners : Begin(p) \/ ReadHistory(p) \/ Answer(p) \/ NoAnswer(p) \/ Rotate(p) \/ Persist(p)
  \/ \E subject \in Subjects : CreateProject(subject)
  \/ \E i \in Rows, status \in Statuses : ChangeStatus(i, status)
  \/ NextDay

Spec == Init /\ [][Next]_vars

------------------------------------------------------------------------------
(* Properties.                                                                 *)

\* The channel does not get again a subject of its recent projects: while passes do
\* not cross, a video the agent plans is like none of the projects that every
\* reading so far found among its HistoryLimit newest, but for the fallback subjects
\* and the shorts that repeat their long by design.  (An older subject, or one of a
\* project that was queued at a reading, may come back.)
FreshSubjects ==
  ~crossed => \A i, j \in Rows :
    /\ i < j /\ projects[j].byAgent /\ ~projects[i].missed
    /\ projects[j].subject # Filler /\ (projects[j].long \/ projects[j].day \in LlmDays)
    => <<projects[i].subject, projects[j].subject>> \notin Similar

\* "Chaque long DOIT avoir un editorial_format_id distinct des K derniers longs
\* si possible": with more formats than the window, no long video has the format
\* of one of the WindowK before it that the readings saw, in the plan or out of it.
FormatsRotate ==
  ~crossed /\ Len(Bank) > WindowK => \A i, j \in Rows :
    LET between == {l \in Rows \ {i, j} : /\ projects[l].long
                                          /\ projects[l].day >= projects[i].day
                                          /\ projects[l].day < projects[j].day \/ l < j}
    IN /\ i < j /\ projects[i].long /\ projects[j].long /\ ~projects[i].missed
       /\ Cardinality(between) < WindowK
       => projects[i].format # projects[j].format
==============================================================================

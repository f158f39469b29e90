----------------------------- MODULE Distribution -----------------------------
(***************************************************************************)
(* The distribution agent: it plans the approved videos on the slots of    *)
(* the day ahead and publishes what is due, started every 15 minutes by    *)
(* the scheduler and at will by an administrator, next to the "Publish"    *)
(* button of a project.  The platforms are environment: a post that was    *)
(* accepted becomes visible or is rejected later, and an answer may be     *)
(* lost.  One channel, active and on automatic publication, whose settings *)
(* do not change; a video has one platform, given by its type.             *)
(***************************************************************************)
EXTENDS Integers, FiniteSets, SequencesExt

CONSTANTS
  Videos,        \* videos of the approved projects
  VideoType,     \* [Videos -> Types]
  TargetDate,    \* [Videos -> days, or 0 for a project without a date]
  DayLength,     \* ticks in a day
  Weekdays,      \* platform_slots: days of the week (0 .. 6)
  Hours,         \* platform_slots: hours of the day, in ticks
  LongQuota,     \* daily_quotas
  ShortQuota,
  Lead,          \* publication_lead_days
  ChannelSettings, \* settings the channel may have: TikTok provider and timezone
  Deduplicates,  \* providers that recognise a repeated creation
  Runs,          \* passes of the agent that may be in progress at once
  Cron,          \* the one the scheduler starts (one instance of a job at a time)
  Callers,       \* "Publish" requests that may be in progress at once
  MaxTries,      \* attempts of a call (RETRY_DELAYS_S)
  MaxPolls,      \* polls of a post (POLL_INTERVALS_S)
  MaxTime,       \* bound of the clock
  MaxPubs,       \* bound of the number of publications
  MaxEvents      \* bound of the number of requests, purges, crashes and refused writes

Types == {"long", "youtube", "short_youtube", "tiktok", "short_tiktok", "instagram",
          "short_instagram", "other"}

Providers == {"composio", "postforme", "zernio"}

\* `publishing.timezone`, as the ticks of its clock behind the clock of Paris.
Zones == 1 - DayLength .. DayLength - 1

DistributionAssumption ==
  /\ VideoType \in [Videos -> Types] /\ TargetDate \in [Videos -> Nat]
  /\ DayLength \in Nat \ {0} /\ Hours \subseteq 0 .. DayLength - 1 /\ Weekdays \subseteq 0 .. 6
  /\ {LongQuota, ShortQuota, Lead, MaxTries, MaxPolls, MaxTime, MaxPubs, MaxEvents} \subseteq Nat
  /\ Lead >= 1 /\ MaxTries >= 1
  /\ Cron \in Runs /\ ChannelSettings \subseteq [provider : Providers, zone : Zones]

Ids == 1 .. MaxPubs

VARIABLES
  now,      \* the clock
  pubs,     \* rows of `publications`, in order of creation
  cfg,      \* the settings of the channel
  post,     \* what the platform holds for each publication
  purged,   \* videos whose file was purged
  run,      \* passes of the agent
  call,     \* "Publish" requests
  events,   \* requests, purges, crashes and refused writes so far
  overlap,  \* history: two passes overlapped
  doubtful  \* history: videos planned twice by a race, or given up though they reached the platform

vars == <<now, pubs, cfg, post, purged, run, call, events, overlap, doubtful>>

PlatformForVideoType(type) ==
  CASE type \in {"long", "youtube", "short_youtube"} -> "youtube"
    [] type \in {"tiktok", "short_tiktok"} -> "tiktok"
    [] type \in {"instagram", "short_instagram"} -> "instagram"
    [] OTHER -> "none"

Platform(v) == PlatformForVideoType(VideoType[v])

IsShort(v) == VideoType[v] \in {"short_youtube", "short_tiktok", "short_instagram"}

\* A day is one of Paris (paris_day_bounds).
Day(t) == t \div DayLength

Rows == DOMAIN pubs

\* Statuses that keep a video from being planned or published again.
Live == {"scheduled", "publishing", "published"}

\* Mutation of HasPublication: a publication being sent is left out.
HasPublicationNotYetSent(v) == \E i \in Rows : pubs[i].video = v /\ pubs[i].status \in {"scheduled", "published"}

HasPublication(v) == \E i \in Rows : pubs[i].video = v /\ pubs[i].status \in Live

\* Somebody has planned the video since there were n rows (for the history only).
TakenSince(n, v) == \E i \in Rows : i > n /\ pubs[i].video = v

\* Mutation of CountFor: only what is published counts.
CountForPublished(day, short) ==
  Cardinality({i \in Rows : /\ IsShort(pubs[i].video) = short
                            /\ pubs[i].status = "published" /\ Day(pubs[i].doneAt) = day})

\* _count_by_type: rows of the day, scheduled for it or published on it.
CountFor(day, short) ==
  Cardinality({i \in Rows : /\ IsShort(pubs[i].video) = short
                            /\ \/ pubs[i].status = "scheduled" /\ Day(pubs[i].at) = day
                               \/ pubs[i].status = "published" /\ Day(pubs[i].doneAt) = day})

Remaining(quota, used) == IF used < quota THEN quota - used ELSE 0

\* _videos_pending_publish, the long videos first.
Pending(day) ==
  LET fits(v) == /\ v \notin purged /\ TargetDate[v] \in {0, day}
                 /\ Platform(v) # "none" /\ ~HasPublication(v)
      All(short) == SetToSeq({v \in Videos : fits(v) /\ IsShort(v) = short})
  IN  All(FALSE) \o All(TRUE)

\* Slots of the day after the present moment that no publication of the platform holds:
\* the hours are those of the channel's timezone (slot_datetime_utc), so that a slot
\* may fall on the day before or after in Paris.
FreeSlots(platform, day) ==
  LET slots == {t \in {day * DayLength + h + cfg.zone : h \in Hours} : day % 7 \in Weekdays /\ t > now}
      held  == {pubs[i].at : i \in {j \in Rows : Platform(pubs[j].video) = platform
                                        /\ pubs[j].status \in {"scheduled", "published"}}}
  IN  slots \ held

Idle == [at |-> "idle", day |-> 0, long |-> 0, short |-> 0, todo |-> <<>>,
         slots |-> {}, due |-> <<>>, tries |-> 0, polls |-> 0, known |-> 0]

NoCall == [at |-> "idle", video |-> CHOOSE v \in Videos : TRUE, known |-> 0]

Init ==
  /\ now = 0 /\ pubs = <<>> /\ purged = {}
  /\ cfg \in ChannelSettings
  /\ post = [i \in Ids |-> [state |-> "none", copies |-> 0, calls |-> 0, stray |-> FALSE]]
  /\ run = [r \in Runs |-> Idle]
  /\ call = [c \in Callers |-> NoCall]
  /\ events = 0 /\ overlap = FALSE /\ doubtful = {}

Labels == {"idle", "plan", "next", "choose", "select", "claim", "check", "send", "poll",
           "container", "publish", "mark", "fail"}

TypeOK ==
  /\ now \in 0 .. MaxTime
  /\ pubs \in Seq([video : Videos, status : Live \cup {"failed"}, at : Nat, doneAt : Nat, byAgent : BOOLEAN])
  /\ Len(pubs) <= MaxPubs
  /\ cfg \in ChannelSettings
  /\ \A i \in Ids : /\ post[i].state \in {"none", "working", "live", "dead"} /\ post[i].copies \in 0 .. MaxTries
                    /\ post[i].calls \in Nat /\ post[i].stray \in BOOLEAN
  /\ purged \subseteq Videos /\ doubtful \subseteq Videos
  /\ \A r \in Runs : run[r].at \in Labels /\ run[r].tries \in 0 .. MaxTries /\ run[r].polls \in 0 .. MaxPolls
  /\ events \in 0 .. MaxEvents /\ overlap \in BOOLEAN

------------------------------------------------------------------------------
(* Planning.                                                                   *)

\* What the scheduled passes do not do by themselves is counted.
Event == events < MaxEvents /\ events' = events + 1

At(r, label) == run[r].at = label

Row(v, at, byAgent) == [video |-> v, status |-> "scheduled", at |-> at, doneAt |-> 0, byAgent |-> byAgent]

\* The cron job; POST /distribution/run or "Run now" for the others.
Launch(r) ==
  /\ At(r, "idle") /\ IF r = Cron THEN UNCHANGED events ELSE Event
  /\ run' = [run EXCEPT ![r] = [Idle EXCEPT !.at = "plan", !.day = Day(now) + Lead]]
  /\ overlap' = (overlap \/ \E s \in Runs : ~At(s, "idle"))
  /\ UNCHANGED <<now, pubs, post, purged, call, doubtful, cfg>>

\* What is left of the quotas, and the videos without a publication.
Plan(r) ==
  /\ At(r, "plan")
  /\ LET day == run[r].day
         l == Remaining(LongQuota, CountFor(day, FALSE))
         s == Remaining(ShortQuota, CountFor(day, TRUE))
     IN run' = [run EXCEPT ![r] = IF l = 0 /\ s = 0 THEN [@ EXCEPT !.at = "select"]
                                  ELSE [@ EXCEPT !.at = "next", !.long = l, !.short = s, !.todo = Pending(day)]]
  /\ UNCHANGED <<now, pubs, post, purged, call, events, overlap, doubtful, cfg>>

\* Room for the rows about to be written (bound of the model).
Room == Len(pubs) + Cardinality({r \in Runs : At(r, "choose")})
          + Cardinality({c \in Callers : call[c].at = "insert"}) < MaxPubs

Left(r, v) == IF IsShort(v) THEN run[r].short ELSE run[r].long

\* _schedule_video up to the choice of the slot: the video is passed over when
\* its quota is used up, it is published already, or no slot is free.
NextVideo(r) ==
  /\ At(r, "next")
  /\ IF run[r].todo = <<>> THEN run' = [run EXCEPT ![r].at = "select"]
     ELSE LET v == Head(run[r].todo)
              free == FreeSlots(Platform(v), run[r].day)
          IN IF Left(r, v) = 0 \/ HasPublication(v) \/ free = {} \/ ~Room
             THEN run' = [run EXCEPT ![r].todo = Tail(@)]
             ELSE run' = [run EXCEPT ![r].at = "choose", ![r].slots = free, ![r].known = Len(pubs)]
  /\ UNCHANGED <<now, pubs, post, purged, call, events, overlap, doubtful, cfg>>

\* The LLM picks a slot: it is shown the first three, any index is taken (and the
\* first slot, if it does not answer or answers anything else); the row is written.
Schedule(r) ==
  /\ At(r, "choose")
  /\ \E t \in run[r].slots : pubs' = Append(pubs, Row(Head(run[r].todo), t, TRUE))
  /\ run' = [run EXCEPT ![r].at = "next", ![r].todo = Tail(@), ![r].slots = {}, ![r].known = 0,
                        ![r].long = IF IsShort(Head(run[r].todo)) THEN @ ELSE @ - 1,
                        ![r].short = IF IsShort(Head(run[r].todo)) THEN @ - 1 ELSE @]
  /\ doubtful' = doubtful \cup {v \in {Head(run[r].todo)} : TakenSince(run[r].known, v)}
  /\ UNCHANGED <<now, post, purged, call, events, overlap, cfg>>

------------------------------------------------------------------------------
(* Publication of what is due.                                                 *)

\* _execute_due reads the due rows with their videos, oldest slot first.
SelectDue(r) ==
  /\ At(r, "select")
  /\ LET due == {i \in Rows : pubs[i].status = "scheduled" /\ pubs[i].at <= now}
         before(i, j) == pubs[i].at < pubs[j].at \/ (pubs[i].at = pubs[j].at /\ i < j)
     IN \E order \in SetToSeqs(due) :
          /\ \A j, k \in DOMAIN order : j < k => before(order[j], order[k])
          /\ run' = [run EXCEPT ![r] = [Idle EXCEPT !.at = "claim",
                       !.due = [k \in DOMAIN order |-> [id |-> order[k],
                                                        purged |-> pubs[order[k]].video \in purged]]]]
  /\ UNCHANGED <<now, pubs, post, purged, call, events, overlap, doubtful, cfg>>

Current(r) == Head(run[r].due).id

\* The next due publication, its row left as it is.
Over(r) == [run[r] EXCEPT !.at = "claim", !.due = Tail(@), !.tries = 0, !.polls = 0]

\* Mutation of Claim: the status is not tested again.
ClaimAnyStatus(r) ==
  /\ At(r, "claim") /\ run[r].due # <<>>
  /\ LET i == Current(r)
     IN IF TRUE
        THEN /\ pubs' = [pubs EXCEPT ![i].status = "publishing"]
             /\ run' = [run EXCEPT ![r].at = "check"]
        ELSE run' = [run EXCEPT ![r] = Over(r)] /\ UNCHANGED pubs
  /\ UNCHANGED <<now, post, purged, call, events, overlap, doubtful, cfg>>

\* _claim_for_publishing: a conditional update; the loser leaves the row alone.
Claim(r) ==
  /\ At(r, "claim") /\ run[r].due # <<>>
  /\ LET i == Current(r)
     IN IF pubs[i].status = "scheduled"
        THEN /\ pubs' = [pubs EXCEPT ![i].status = "publishing"]
             /\ run' = [run EXCEPT ![r].at = "check"]
        ELSE run' = [run EXCEPT ![r] = Over(r)] /\ UNCHANGED pubs
  /\ UNCHANGED <<now, post, purged, call, events, overlap, doubtful, cfg>>

EndPass(r) ==
  /\ At(r, "claim") /\ run[r].due = <<>>
  /\ run' = [run EXCEPT ![r] = Idle]
  /\ UNCHANGED <<now, pubs, post, purged, call, events, overlap, doubtful, cfg>>

\* The file as it was when the rows were read, then the length TikTok requires,
\* the credentials and the file itself: any of them may refuse.
Check(r) ==
  /\ At(r, "check")
  /\ LET v == pubs[Current(r)].video
         next == IF Head(run[r].due).purged \/ v \in purged THEN {"fail"}
                 ELSE {IF Platform(v) = "instagram" THEN "container" ELSE "send", "fail"}
     IN \E at \in next : run' = [run EXCEPT ![r].at = at]
  /\ UNCHANGED <<now, pubs, post, purged, call, events, overlap, doubtful, cfg>>

OnTiktok(i) == i \in Rows /\ Platform(pubs[i].video) = "tiktok"

Steps(r, at) == run' = [run EXCEPT ![r].at = at]

\* Is it the first request of this call, or _request trying again?
Calls(r) == IF run[r].tries = 0 THEN 1 ELSE 0

\* The platform takes the request: a copy more, which is the one that is followed,
\* unless it knows the request.
Taken(r, state) ==
  LET i == Current(r)
      known == post[i].copies > 0 /\ OnTiktok(i) /\ cfg.provider \in Deduplicates
      same == [post[i] EXCEPT !.calls = @ + Calls(r)]
      next == [state |-> state, copies |-> post[i].copies + 1, calls |-> post[i].calls + Calls(r),
               stray |-> post[i].stray \/ post[i].state \in {"working", "live"}]
  IN  post' = [post EXCEPT ![i] = IF known THEN same ELSE next]

\* It does not.
Refused(r) == post' = [post EXCEPT ![Current(r)].calls = @ + Calls(r)]

\* youtube.upload_video: one call, whose answer may be lost.
UploadYoutube(r) ==
  /\ At(r, "send") /\ Platform(pubs[Current(r)].video) = "youtube"
  /\ \/ Taken(r, "live") /\ (Steps(r, "mark") \/ Steps(r, "fail"))
     \/ Steps(r, "fail") /\ Refused(r)
  /\ UNCHANGED <<now, pubs, purged, call, events, overlap, doubtful, cfg>>

\* Creation of the TikTok post.  Post for Me and Zernio: tried again when the
\* answer is lost or is a 429 or 5xx, refused on another error; Composio: once.
CreateTiktok(r) ==
  /\ At(r, "send") /\ Platform(pubs[Current(r)].video) = "tiktok"
  /\ LET again == /\ cfg.provider # "composio" /\ run[r].tries + 1 < MaxTries
                  /\ run' = [run EXCEPT ![r].tries = @ + 1]
     IN \/ Taken(r, "working") /\ (Steps(r, "poll") \/ again \/ Steps(r, "fail"))
        \/ Refused(r) /\ (again \/ Steps(r, "fail"))
  /\ UNCHANGED <<now, pubs, purged, call, events, overlap, doubtful, cfg>>

\* The platform processes the post on its own.
Process(i) ==
  /\ post[i].state = "working"
  /\ \E s \in {"live", "dead"} : post' = [post EXCEPT ![i].state = s]
  /\ UNCHANGED <<now, pubs, purged, run, call, events, overlap, doubtful, cfg>>

\* What a poll may not tell from a post in progress: nothing else, but for Composio,
\* which passes over a poll that failed.
MayBeWorking(r) == post[Current(r)].state = "working" \/ cfg.provider = "composio"

\* Mutation of Poll: the wait is not bounded.
PollForEver(r) ==
  /\ At(r, "poll")
  /\ \/ post[Current(r)].state = "live" /\ Steps(r, "mark")
     \/ post[Current(r)].state = "dead" /\ Steps(r, "fail")
     \/ /\ MayBeWorking(r)
        /\ run' = [run EXCEPT ![r].polls = @ + 1]
     \/ Steps(r, "fail")
  /\ UNCHANGED <<now, pubs, post, purged, call, events, overlap, doubtful, cfg>>

\* Mutation of Poll: a wait that is too short is no failure, whatever the provider.
PollGivesUp(r) ==
  /\ At(r, "poll")
  /\ \/ post[Current(r)].state = "live" /\ Steps(r, "mark")
     \/ post[Current(r)].state = "dead" /\ Steps(r, "fail")
     \/ /\ MayBeWorking(r) /\ run[r].polls < MaxPolls
        /\ run' = [run EXCEPT ![r].polls = @ + 1]
     \/ MayBeWorking(r) /\ run[r].polls = MaxPolls /\ Steps(r, "mark")
     \/ Steps(r, "fail")
  /\ UNCHANGED <<now, pubs, post, purged, call, events, overlap, doubtful, cfg>>

\* _wait_result raises when the post is still in progress at the last poll;
\* _poll_publish_status (Composio) logs it and the publication goes on.  A poll
\* that fails for good ends the wait.
Poll(r) ==
  /\ At(r, "poll")
  /\ \/ post[Current(r)].state = "live" /\ Steps(r, "mark")
     \/ post[Current(r)].state = "dead" /\ Steps(r, "fail")
     \/ /\ MayBeWorking(r) /\ run[r].polls < MaxPolls
        /\ run' = [run EXCEPT ![r].polls = @ + 1]
     \/ /\ MayBeWorking(r) /\ run[r].polls = MaxPolls
        /\ Steps(r, IF cfg.provider = "composio" THEN "mark" ELSE "fail")
     \/ Steps(r, "fail")
  /\ UNCHANGED <<now, pubs, post, purged, call, events, overlap, doubtful, cfg>>

\* Instagram: a container, processed by Meta, then its publication.
WaitContainer(r) ==
  /\ At(r, "container")
  /\ \/ run[r].polls < MaxPolls /\ run' = [run EXCEPT ![r].polls = @ + 1]
     \/ Steps(r, "publish") \/ Steps(r, "fail")
  /\ UNCHANGED <<now, pubs, post, purged, call, events, overlap, doubtful, cfg>>

PublishContainer(r) ==
  /\ At(r, "publish")
  /\ \/ Taken(r, "live") /\ (Steps(r, "mark") \/ Steps(r, "fail"))
     \/ Steps(r, "fail") /\ Refused(r)
  /\ UNCHANGED <<now, pubs, purged, call, events, overlap, doubtful, cfg>>

\* Writes of the outcome.
MarkPublished(r) ==
  /\ At(r, "mark")
  /\ pubs' = [pubs EXCEPT ![Current(r)].status = "published", ![Current(r)].doneAt = now]
  /\ run' = [run EXCEPT ![r] = Over(r)]
  /\ UNCHANGED <<now, post, purged, call, events, overlap, doubtful, cfg>>

\* The platform shows the publication, or may come to: a copy of it, or an earlier one
\* whose word was lost.
Reached(i) == post[i].state \in {"working", "live"} \/ post[i].stray

\* Mutation of MarkFailed: the failure is logged, the row is left as it is.
MarkFailedForgotten(r) ==
  /\ At(r, "fail")
  /\ LET i == Current(r)
     IN /\ UNCHANGED pubs
        /\ doubtful' = IF Reached(i) THEN doubtful \cup {pubs[i].video} ELSE doubtful
  /\ run' = [run EXCEPT ![r] = Over(r)]
  /\ UNCHANGED <<now, post, purged, call, events, overlap, cfg>>

\* Mutation of MarkFailed: the publication waits for the next pass.
MarkFailedForRetry(r) ==
  /\ At(r, "fail")
  /\ LET i == Current(r)
     IN /\ pubs' = [pubs EXCEPT ![i].status = "scheduled"]
        /\ doubtful' = IF Reached(i) THEN doubtful \cup {pubs[i].video} ELSE doubtful
  /\ run' = [run EXCEPT ![r] = Over(r)]
  /\ UNCHANGED <<now, post, purged, call, events, overlap, cfg>>

MarkFailed(r) ==
  /\ At(r, "fail")
  /\ LET i == Current(r)
     IN /\ pubs' = [pubs EXCEPT ![i].status = "failed"]
        /\ doubtful' = IF Reached(i) THEN doubtful \cup {pubs[i].video} ELSE doubtful
  /\ run' = [run EXCEPT ![r] = Over(r)]
  /\ UNCHANGED <<now, post, purged, call, events, overlap, cfg>>

------------------------------------------------------------------------------
(* The "Publish" button: a check, then the row.                                *)

AskPublish(c, v) ==
  /\ Event /\ Room /\ call[c].at = "idle"
  /\ IsShort(v) /\ v \notin purged /\ ~HasPublication(v)
  /\ call' = [call EXCEPT ![c] = [at |-> "insert", video |-> v, known |-> Len(pubs)]]
  /\ UNCHANGED <<now, pubs, post, purged, run, overlap, doubtful, cfg>>

InsertPublication(c) ==
  /\ call[c].at = "insert"
  /\ pubs' = Append(pubs, Row(call[c].video, now, FALSE))
  /\ call' = [call EXCEPT ![c] = NoCall]
  /\ doubtful' = doubtful \cup {v \in {call[c].video} : TakenSince(call[c].known, v)}
  /\ UNCHANGED <<now, post, purged, run, events, overlap, cfg>>

------------------------------------------------------------------------------
(* Environment.                                                                *)

Tick ==
  /\ now < MaxTime /\ now' = now + 1
  /\ UNCHANGED <<pubs, post, purged, run, call, events, overlap, doubtful, cfg>>

\* The nightly purge of an old file, whatever is in progress.
Purge(v) ==
  /\ Event /\ v \notin purged /\ purged' = purged \cup {v}
  /\ UNCHANGED <<now, pubs, post, run, call, overlap, doubtful, cfg>>

\* The API process dies with the passes and requests it runs.
Crash ==
  /\ Event
  /\ run' = [r \in Runs |-> Idle] /\ call' = [c \in Callers |-> NoCall]
  /\ UNCHANGED <<now, pubs, post, purged, overlap, doubtful, cfg>>

\* The write of the outcome is refused: `published` then becomes `failed`, and
\* a refused `failed` ends the whole pass.
WriteRefused(r) ==
  /\ Event
  /\ \/ At(r, "mark") /\ Steps(r, "fail")
     \/ At(r, "fail") /\ run' = [run EXCEPT ![r] = Idle]
  /\ UNCHANGED <<now, pubs, post, purged, call, overlap, doubtful, cfg>>

------------------------------------------------------------------------------
PassStep(r) ==
  \/ Plan(r) \/ NextVideo(r) \/ Schedule(r) \/ SelectDue(r) \/ Claim(r) \/ EndPass(r) \/ Check(r)
  \/ UploadYoutube(r) \/ CreateTiktok(r) \/ Poll(r) \/ WaitContainer(r) \/ PublishContainer(r)
  \/ MarkPublished(r) \/ MarkFailed(r)

Next ==
  \/ \E r \in Runs : Launch(r) \/ PassStep(r) \/ WriteRefused(r)
  \/ \E c \in Callers : InsertPublication(c) \/ \E v \in Videos : AskPublish(c, v)
  \/ \E i \in Ids : Process(i)
  \/ \E v \in Videos : Purge(v)
  \/ Tick \/ Crash

Spec == Init /\ [][Next]_vars

\* The job comes back every 15 minutes and a pass goes on; nothing is said of
\* the clock or the platforms.
Fairness == WF_vars(Launch(Cron)) /\ \A r \in Runs : WF_vars(PassStep(r))

FairSpec == Spec /\ Fairness

------------------------------------------------------------------------------
(* Properties.                                                                 *)

\* How many copies one call of the provider may leave: Post for Me and Zernio send the
\* request again when its answer is lost.
MostCopies(i) == IF OnTiktok(i) /\ cfg.provider \notin Deduplicates \cup {"composio"} THEN MaxTries ELSE 1

\* "Two concurrent distributions must never upload the same publication twice"
\* (comment of publish_scheduled): the platform holds no more copies of it than one call
\* may leave, through overlapping passes, crashes and refused writes.  And what is
\* published is live there, an unknown result never taken for a success; but for
\* Composio, whose wait ends without a result (_poll_publish_status): the platform took
\* that publication at least.
OneLiveCopy ==
  \A i \in Ids : /\ post[i].copies <= MostCopies(i)
                 /\ i \in Rows /\ pubs[i].status = "published" =>
                      \/ post[i].state = "live"
                      \/ OnTiktok(i) /\ cfg.provider = "composio" /\ post[i].copies = 1

\* What a publication is to AtMostOnce: to come, waiting for its slot, or taken by a pass
\* (and given up, sent or left, but never waiting again).
Fate(i) ==
  CASE i \notin Rows -> "unknown"
    [] i \in Rows /\ pubs[i].status = "scheduled" -> "open"
    [] OTHER -> "closed"

Sending == INSTANCE AtMostOnce
  WITH Things <- Ids, state <- [i \in Ids |-> Fate(i)], effects <- [i \in Ids |-> post[i].calls]

\* The agent's part of that comment, whatever the provider: the platform is called once
\* at most for a publication, and only after its claim, which no other pass can repeat.
PublicationsAtMostOnce == Sending!Spec

\* A video is sent to its platform by one publication only, unless two
\* plannings raced for it or an earlier one was given up after the platform had
\* accepted it (answer lost, wait too short, write refused).
VideoPostedOnce ==
  \A v \in Videos \ doubtful :
    Cardinality({i \in Rows : pubs[i].video = v /\ Reached(i)}) <= 1

\* A row of the distribution queue that nothing works on any more: its pass
\* died, or could not write the outcome.
Orphan(i) ==
  /\ pubs[i].status = "publishing"
  /\ ~\E r \in Runs : run[r].at \notin {"idle", "claim"} /\ run[r].due # <<>> /\ Current(r) = i

\* Every slot of a day of the channel falls on that day in Paris.
SlotsOfTheDay == \A h \in Hours : h + cfg.zone \in 0 .. DayLength - 1

\* While passes do not overlap, and in a timezone where the slots of a day are of that day
\* in Paris, the day's publications of the agent stay within the quotas, those being
\* sent included.  In another timezone _plan_channel counts a day and fills another.
QuotaKept ==
  ~overlap /\ SlotsOfTheDay => \A i \in Rows :
    pubs[i].byAgent =>
      LET same == {j \in Rows : /\ pubs[j].byAgent /\ pubs[j].status \in Live
                                /\ Day(pubs[j].at) = Day(pubs[i].at)
                                /\ IsShort(pubs[j].video) = IsShort(pubs[i].video)}
      IN Cardinality(same) <= IF IsShort(pubs[i].video) THEN ShortQuota ELSE LongQuota

\* A due publication is published or marked failed, whatever the passes do with
\* it; only a crash or a refused write leaves it in "publishing".
DueIsSettled ==
  \A i \in Ids : i \in Rows /\ pubs[i].status = "scheduled" /\ pubs[i].at <= now
                  ~> /\ i \in Rows
                     /\ pubs[i].status \in {"published", "failed"} \/ (events > 0 /\ Orphan(i))
==============================================================================

# CuteVideo — specifications of the creation and publication of videos

TLA+ modules of this repository's control logic: *whether, when and how often a
video is created* (queue, workers, repair loops, Claude Studio session), *what
happens inside a creation* (stream of Claude Code, sandbox, paid images, 3D
budget, narration, rendering, media library) and *what happens around it*
(planning of subjects, distribution, comment replies, scheduler settings, choice
of a model, subscriptions). TLC checks them on small instances; TLAPS proves the
central invariants, and two refinements, for every value of the constants.

## 1. Inventory of the system

| Part | Code | State it keeps | Operations | What makes it hard | What makes it correct |
|---|---|---|---|---|---|
| Creation queue | `agent/core/pipeline_queue.py`, `queue.py` | Redis: sorted set, payload keys, cancel flags | enqueue, remove, prune, `dequeue_next_eligible` | each operation is several commands on two stores without a transaction | a queued project is in the queue or in somebody's hands; best eligible entry first; no starvation behind a busy channel |
| Channel slots | `agent/core/concurrency.py` | `Project.status` | `try_claim_project` | the count is a subquery of the UPDATE | no channel exceeds `max_concurrent_pipelines` |
| Lease | `agent/core/pipeline_lease.py` | Redis key with a TTL | acquire, renew, release, test | expiry, GET then DELETE, overwriting acquire | a pipeline being run holds its lease (see section 5) |
| Worker, orchestrator | `scripts/pipeline_worker.py`, `agent/core/orchestrator.py` | the project in hand, the task, the shutdown event | main loop, cancel watcher, renewal, shutdown, endings | cancellation at any `await`, SIGTERM, SIGKILL, restart | a halt is obeyed; a project is not lost with its worker |
| Reconciliation, resumption | `agent/core/pipeline_reconcile.py` | snapshots | queue orphans again; queue due pauses | stale snapshot, several workers | every orphan and every pause ends |
| Project routes | `api/routes/projects.py` | none of their own | run, restart, stop, remove, delete, publish | check, then several awaits, then act | the user's last request holds |
| Studio session | `agent/core/claude_studio.py`, `studio_resume.py` | `config["claude_studio_session"]`, run dir, `AgentRun` rows | start, resume, pause, give up, discard, persist | may be cut between any two writes | resumptions bounded; no step left open |
| Launcher and stream | `studio/launcher.py`, `_ProgressRecorder` | parser, process group, log of each step | run Claude Code, turn its stream into steps | silence, orphans on the pipe, background tasks, deferred writes | a silent session ends; what was done is recorded; logs end with their last line |
| Animation sandbox | `studio/sandbox.py`, `sandbox_worker.py` | files `<id>.json/.running/.cancel/.done` | post, pick, render, cancel, tidy | two programs and a clock, no lock, only renames | a result is the call's own; no job is left |
| AI images | `studio/media.py`, `media_sources/ai/` | register of charges, cache | `ai-image` | kill at any step, charged answers lost | what is charged is counted |
| 3D budget | `studio/animate.py` | ledger of seconds | reserve, render, restore | failures put an older entry back | the shots fit the budget |
| Narration | `studio/tools.py`, `skills/audio/` | cache of lines, `voice.wav`, report | `tts` | fallback engines, keys that change | the report names the engine that spoke |
| Rendering | `studio/render.py` | cache of segments | render a timeline | reuse by key, prune, kill, replaced sources | the film is the timeline's |
| Media library | `studio/media.py`, `rights_check.py` | registry, cache, credits | search, download, use | read-modify-write by parallel commands | no media without the credit of its source |
| Content planner | `content_planner_agent.py`, `skills/content_planning/` | projects of the day | plan, deduplicate, rotate formats, insert | check, LLM call, insert | subjects unlike the recent ones, rotating formats |
| Distribution | `distribution_agent.py`, `skills/publisher/` | `Publication` rows | plan, claim, send, poll, mark | check then insert, lost answers, crash in an upload | one call of the platform per publication, one post per video, quotas |
| Comment replies | `comment_reply_agent.py`, `comments.py` | `PlatformComment` rows, a Redis lock | collect, choose, claim, send, mark | lock that lapses, crash after sending | one call of the platform per comment, cap of answers |
| Scheduler | `agent/scheduler/` | switch and job settings | start, stop, reschedule, apply | requests that cross | what runs is what is stored |
| Choice of a model | `llm_resolver.py`, `llm_retry.py` | keys and preferences | resolve, call, retry, continue | keys read several times while edited; the CLI may be missing on the machine | the preference is honoured when it can be |
| Subscriptions | `subscription.py`, `channel_config.py` | plan, layers of settings | cap, override, write the brief | settings saved under another plan | the brief keeps to the plan |
| Channels | `api/routes/channels.py`, `channel_onboarding.py`, settings page, `tiktok_providers.py` | rows of `channels`, a copy of the settings in each page, OAuth pages open elsewhere | create, wizard steps, save settings, choose a provider, connect, delete | one JSON column written whole by several requests; answers of providers that come back late | connections are the channel's own and are kept; quota of channels |
| Audio and image processing, storage, dashboard, login | `studio/audiomix.py` …, `storage.py`, `dashboard/`, `auth.py` | files, rows | arithmetic on media; request-scoped I/O | — | — |

The parts interact through shared stores, never by direct calls across processes.
The planner and the users create projects; the API and the scheduler enqueue them;
a worker pops, claims in PostgreSQL, takes a lease in Redis and runs the
orchestrator; the orchestrator writes the brief and runs the Studio session, whose
Claude Code calls the tools (images, narration, animation, rendering) as separate
processes that share a run directory; its exceptions become the next status; the
reconciliation reads `running` projects without a lease and the resumption loop
`paused` ones that are due. The distribution takes approved projects, and the
replies take published videos, on the accounts the channels were connected to. A stop is a flag in Redis that a watcher polls. No
lock spans two commands, but for the file locks of the image register and the ledger.

`PROJECT.json` lists every part with its status under `components`, and under
`hazards` the places of the code where an order of events nobody wrote a test for
matters.

## 2. The modules

| Module | Models |
|---|---|
| `PipelineStore` | the two stores and the single commands on them; the score |
| `PipelineClients` | API requests, scheduler job, reconciliation and resumption loops: one action per command |
| `PipelineWorker` | `dequeue_next_eligible`, `_process_task`, `run_pipeline`, watcher, shutdown |
| `Pipeline` | composes them; faults, fairness, the properties |
| `StudioSession` | the session of one project across its executions |
| `StudioStream` | one session of Claude Code: its work, its pipe, the parser, the step rows, the recorder, the timers, the wait for its exit |
| `Sandbox` | the jobs between tools and sandbox workers, over files and a clock; bwrap mode |
| `AiImages` | commands that pay for images under one register |
| `Motion3D` | commands that share the ledger of 3D seconds |
| `Speech` | a narration line by line over engines, keys and cache |
| `Render` | renders that share a run directory and its segments |
| `MediaLibrary` | searches, downloads, credits and uses of media |
| `ContentPlanner` | passes that plan days from the latest projects, and projects made by hand |
| `Distribution` | passes that plan and publish, the Publish button, the platforms behind three TikTok providers, the timezone of the channel |
| `CommentReplies` | passes that collect and answer, the POSTs of an answer, humans, the platform |
| `AtMostOnce` | the abstract promise of an outside effect: once at most, on a thing taken out of the open ones |
| `SchedulerSettings` | requests on the settings, the stored ones, the running scheduler |
| `LlmCalls` | a choice of model over several reads, then the call with retries and continuations |
| `Subscription` | layers of settings, caps, overrides, the brief that results |
| `Channels` | rows, requests with the row each has read, settings pages, OAuth pages, accounts authorised |
| `MCPipeline`, `MCStudio`, `MCServices` | values of the constants for TLC, and the components checked side by side |
| `Pipeline_proofs`, `PipelineQueue_proofs` | theorems about `Pipeline`: types, and slots of one worker; conservation of the queue and order of the claims |
| `CommentReplies_proofs` | theorems about the module of that name |
| `Studio_proofs` | theorems about the other parts of `MCStudio`: render, speech, sandbox, stream, library, images, motion |
| `StudioBounds_proofs` | extends it: theorems about `StudioSession`, types and counters of `MCStudio` as a whole |
| `Distribution_proofs`, `Services_proofs` | theorems about the other parts of `MCServices`: the distribution; settings, choice of model, plans, connections, the planner |
| `ServicesBounds_proofs` | extends the three modules of proofs about services: types and counters of `MCServices` as a whole, and the limit on channels |

### How state corresponds to the code

`Pipeline` keeps for each project `status` (`Project.status`, `absent` once the
row is deleted), `zqueue` (its score in `cutevideo:pipeline:zqueue`, 0 if it is
not a member), `payload`, `cancel` and `lease` (the keys of the three prefixes of
`queue.py`). `act[a]` is the operation of a request handler, of the scheduler or
of a worker's loop: `at` is the next command it will send, `on` its project, `saw`
a status read before an await, `todo` what is left of a snapshot. `wk[w]` is the
main coroutine: project and score popped, entries `held` aside (`deferred`), number
of `tries`, whether the claim's snapshot `fits`, the `outcome` about to be written.

An action is one command to one store, so any other actor may act at each `await`.
Two commands are finer than that. The claim (`ClaimSnapshot`, `ClaimCommit`) is one
UPDATE, but under READ COMMITTED its subquery is evaluated on a snapshot and only
the row's own condition is evaluated again once the row is locked. The release of a
lease is a GET and a DELETE. `CancelTask` says what `task.cancel()` does at each
point: only the execution and the write of `approved` are inside the `try` whose
`CancelledError` handler writes a status; anywhere else the task just ends.

`StudioSession` keeps the session record (`sess`), the copy in memory (`plan`), the
run directory, the number of successful steps (`ok`), the statuses of the rows that
earlier sessions left open (`left`), those of the session in progress (`mine`,
`limited`), and four history variables used by the properties alone.

In `Channels` a request is two steps: what it reads (`req[r].row`, the row as SQLAlchemy
keeps it) and its commit. `Columns` says what a commit does: columns that differ from
those read are written, the others stay what they are by then; a row that was deleted is
not made again. `page[s]` is what the settings page loaded, `flows` the OAuth pages that
may still return, with the state they carry; `wish` is a history of what was last chosen.
A slug may be used again after a deletion, so a row has an `id` of its own.

In the other modules the same scheme holds: a record per actor whose `at` is the next
step, with what it read before; one variable per table, file or key; and, named
*history* in their comments, variables that only the properties read (`doubtful`,
`lapsed`, `crossed`, `swapped`, `unheard`, `basis`, …). Each history variable marks the
one situation in which the code does *not* keep the property; section 5 lists them.
Where the code is on two sides of a file protocol (`Sandbox`), each rename, unlink and
test is a step. Processes started by Claude Code may be killed at any step (`Kill`).

Data are reduced to what the properties tell apart: payloads to their presence, leases
to their holder, a line of text or a media to a name, durations to small numbers, a
provider's answer to the few outcomes the code distinguishes.

## 3. Runs

| Run | Instance | Shows |
|---|---|---|
| `MCConservation` | 2 workers, 2 projects; 2 of stop/remove/delete; disk full or not; 1 SIGTERM | `NoStranded`, `QueuedHasPayload`: a project already queued is never lost, even while two workers defer, claim or abandon it |
| `MCOrder` | 1 worker, 3 projects, 2 channels, unequal priorities; 2 faults of sigterm, crash, lapse | `ClaimsBest`, `PassFindsEligible`, and with one worker `SlotLimit` |
| `MCHalt` | 1 worker, 1 project, 2 callers, 2 requests, 2 faults of every kind; fair, creations never end by themselves | `HaltIsObeyed` |
| `MCRecovery` | 1 worker, scheduler, reconciliation, stop, crash or SIGTERM; fair | `OrphansAreReconciled` |
| `MCPause` | 2 workers, both resumption loops, deletion; fair | `PauseLeadsToRun` |
| `MCStudio` | eight parts of a creation, see below; fair | 13 invariants, 2 liveness properties |
| `MCServices` | seven services, see below; fair | 12 invariants, 2 liveness properties, 2 refinements |

`MCStudio` and `MCServices` check components that share nothing any two of them write:
the variable `focus`, chosen by the initial state, says which one takes steps, so a
run's states are the sum, not the product, of its parts, and a property of a part says
`focus = ... =>`. Nothing is lost: no step of a part reads a variable of another one.

Bounds common to the `Pipeline` runs: `Times` holds the instants at which a project
can be queued (two are enough to make both orders of two entries happen);
`TimeMultiplier` is 1000 instead of 10^12, still more than any difference of times;
`MaxRequests` and `MaxFaults` bound the requests and faults of a behaviour, never
the steps in between; `MaxAttempts` is at least the number of projects. Most questions
are about one project or about the slot two projects share; a third, on a channel of
its own, matters only to ordering.

| Part | Bounds, and why they are enough | Properties |
|---|---|---|
| session | caps 1 and 2, 1 pause, 2 steps, rerun from any end: what decides is whether progress was made since the last resumption, and both caps are met first in some behaviour | `ResumesAreBounded`, `AbandonLeavesNothingOpen`, `PauseIsRecorded` |
| stream | 2 agents, one of them in the background; a pipe of 2 messages, so a start and an end may be in flight together; CLIs with and without notifications | `FinalLogKept`, `SuccessIsReal`, `DoneIsRecorded`, `SessionEnds` |
| sandbox | 2 calls on one directory, 1 worker, 1 kill; delays of 1 to 2 ticks in the order of the code (worker gives up before the tool) | `OwnResult`, `JobsAreCleared` |
| images | 3 commands, 2 images of the two kinds of provider, cap 2, 4 launches: a cap is met by a command that waits for another | `PaidIsCounted` |
| motion | 2 commands, 2 shots, durations 1 and 2, budget 3: two shots fit, or not, according to their durations | `ShotsFit` |
| speech | 2 lines, 2 narrations that share one line, 2 sets of keys, with and without a fallback | `VoiceIsAsReported` |
| render | 2 renders, 2 clips whose texts change places, an empty clip; 1 replacement of a source | `RenderIsFaithful` |
| library | 2 commands, 4 items (one refused, one that comes down as a page, one video), 2 searches | `RightsFollowFiles` |
| distribution | 4 videos of three platforms, quotas 1 and 1, 2 passes, 1 request, 1 fault, 2 tries, 3 instants; three channels (`ThreeSettings`): Composio, the default, in Paris; Zernio, which recognises a repeated request, and Post for Me, which does not, in a timezone one tick behind, whose last slots fall on the next day in Paris | `OneLiveCopy`, `VideoPostedOnce`, `QuotaKept`, `DueIsSettled`, `PublicationsAtMostOnce` |
| comments | 2 comments of one video, cap 1, 2 passes, 2 attempts, 2 events of the environment: lapse and crash may both happen; a client that posts an answer once, and one that posts it up to 2 times (`MaxPosts`; 4 in the code: a second POST is enough for a second answer) to a platform that does not recognise it. One that does (`keyed`) behaves as the first and is left to the proofs | `RepliedOnce`, `RepliesAtMostOnce`, `CapKept`, `PendingEnds` |
| planning | 2 days, 2 passes, 3 formats for a window of 2, two subjects alike, one project by hand; a history of the 3 latest projects of 6 (`HistoryLimit`; 80 in the code): an older subject drops out of it | `FreshSubjects`, `FormatsRotate` |
| settings | 2 jobs, 2 requests at once, all kinds of request | `SettingsApplied` |
| models | 1 agent, a model of each kind, 4 edits of keys and preference during 1 call, the claude command on the machine or not | `PreferenceIsHonoured` |
| plans | the free plan and one without limits, the application as delivered, 2 edits between the launches | `BriefKeepsToPlan` |
| channels | 2 slugs, limit 1, 2 requests at once, 3 in all, a default provider that keeps profiles: a channel is deleted and made again, or a wizard step meets the choice of a provider or a connection; the second creation is the one to refuse | `ConnectionsKept` |

Five runs show where the code parts from what it says of itself. Each is a
finding of `PROJECT.json`, which quotes the line it contradicts:

| Run | What happens |
|---|---|
| `MCStranded` | the entry is popped between ZADD and the write of `queued`, dropped as an orphan, and the project is then queued outside the queue |
| `MCTwoWorkers` | two workers claim two projects of a one-slot channel, each on its own snapshot |
| `MCStopInterrupt` | a stop between the look at the flag and the write of `running` is overwritten |
| `MCStudioGiveUp` | a pause absorbs the progress made; the creation is given up one resumption too early |
| `MCStudioFinished` | a crash between the erasure of the session and the saving of the result restarts a finished creation |

### Fairness

`FairSpec` of `Pipeline` assumes weak fairness of what the processes guarantee: a
request, a pass or a dequeue once begun is carried on (`Proceed`, `Dequeue`, `Process`),
a loop starts its next pass (asyncio timers), a process told to stop exits or is killed
(`stop_grace_period`), a dead one is restarted (`restart: unless-stopped`), an unrenewed
lease expires (TTL). The end of a creation (`Finish`, `Interrupt`) is *not* fair there:
`HaltIsObeyed` holds for a creation that would last for ever. `EndingSpec` adds it:
the launcher cuts a silent session. (It waits without end for a process that has closed its output and does not exit,
unless the whole session is limited, which it is not by default: section 5.) New requests,
the scheduler's job and all faults are never fair.

In `StudioStream` the pump reads what is there, the timers fire (`Stall`) and a
deferred write is carried out; Claude Code itself is under no obligation, not even to exit once it has closed its
output, and `SessionEnds` says so. In `Sandbox`
tools, workers, the sweep and time are fair, a script may never end. In `Distribution`
the scheduler starts its pass and a pass goes on; in `CommentReplies` too, and due
dates, the expiry of the lock and the end of a usage limit come. `PendingEnds` rests on `PerPass >= 1`, an
assumption: with `max_replies_per_run` at 0, which `scheduler/config.py` admits, no comment would be answered. The platforms are
never fair. Weak fairness suffices everywhere: no step needed is disabled again and
again by the others.

### The refinements

`AtMostOnce` states what "never publish twice" means: a thing is unknown, then open or
closed; it leaves the open ones for good; an effect is made on a closed thing that has
none. It says more than a count: nothing is sent for a thing that another pass could
still take. It has two instances, checked by `MCServices` and proved:

* `CommentReplies!Promise`, on comments: `none` is unknown, `pending` open, all the rest
  closed; the effects are the calls of `client.reply` (`RepliesAtMostOnce`, theorem `RepliesRefine`).
* `Distribution!Sending`, on the rows of `publications`: `Fate` makes a row not yet inserted
  unknown, a `scheduled` one open, every other closed; the effects are the calls of the
  provider (`PublicationsAtMostOnce`, theorem `PublicationsRefine`). A row the code
  marks `failed` is closed: a failure of which nobody knows whether it was one is never
  tried again by a later pass.

These are the agent's part of the promise and rest on nothing of the platforms. What one call
leaves on a platform is another matter: `_request` of `tiktok_providers.py` sends a request up to four
times when its answer is lost or is a 429 or 5xx. `RepliedOnce` and `OneLiveCopy` count the answers and
copies: one, or as many as the tries of the one call where the platform does not recognise
what it already took (`Most`, `MostCopies`). That Zernio recognises `x-request-id` and the `Idempotency-Key` of an
answer is what the code counts on; it is a constant here (`Deduplicates`, `keyed`), never assumed.

## 4. Proofs

A theorem about a part of `MCStudio` or `MCServices` is about the specification TLC runs
(`StudioSpec`, `ServicesSpec`), for every value of the constants; its invariant is proved of the
behaviours in which that part is the one looked at. Each invariant below was first checked by TLC.

Assumptions are those the modules state on their constants (`StoreAssumption`,
`ClientAssumption`, `WorkerAssumption`, `FaultAssumption`, `StudioAssumption`, and for
the components of `MCStudio` and `MCServices` the operators `ImagesAssumption`,
`RenderAssumption`, `SpeechAssumption`, `SandboxAssumption`, `MediaAssumption`, `MotionAssumption`,
`SubscriptionAssumption`, `CommentAssumption`, `ChannelsAssumption`, `DistributionAssumption`,
`SettingsAssumption`, `LlmAssumption`, `PlannerAssumption`, which the MC modules assume, so that TLC
evaluates them, and the theorems take as hypotheses). They say what kind of thing a constant is. Some
theorems need more, and name it:

| Hypothesis | Says | Why |
|---|---|---|
| one worker (`Workers = {w}`) | a single worker process | two of them break slots: finding `MCTwoWorkers` |
| `NothingQueues` | requests only stop, remove or delete; faults are shutdowns and lapses | a run or an enqueuing crosses a pop (finding `MCStranded`), and a worker killed with an entry in hand loses it |
| `WorkerIsAlone` | one worker, no request, job or loop; any fault | a request may free a slot the pass has already seen taken: what is first is then a matter of when one looks |
| `Outputs # {}` (in `RenderAssumption`) | a run directory has a place for a film | an idle render names an output: without one its record has no type |
| `MaxAttempts >= Cardinality(Projects)` | a pass may pop every project | with fewer attempts it gives up by design (`queue_dequeue_max_attempts`) |
| `FiniteComments`, `FiniteAgent` | finitely many comments; videos, passes and callers | rows of a table, processes |

* `PriorityThenTime` — the score orders entries by clamped priority, then by time,
  if the times differ by less than the multiplier: a fact about `compute_queue_score`
  for all priorities and times.
* `TypeCorrect` — `Spec => []TypeOK`. Not inductive alone: a worker that writes a status
  must have one to write (`OutcomeIsKnown`), and one past the pop must have a project
  (`CurIsInHand`). The inductive invariant is `Facts`, the conjunction of the three.
* `OneWorkerKeepsSlots` — with one worker, `Spec => []SlotLimit`, whatever the requests,
  loops, crashes and lost leases. The strengthening is `SlotIsKept`: from the claim's
  snapshot to the last write of its status, the slot of the project in hand stays free of
  others. It is preserved because no client ever writes `running` (`ClientsNeverRun`) and
  a worker does so only to its own project (`WorkersRunTheirs`). It covers the case a test would
  miss: a stop, a new run of another project, then the interrupted pipeline writing `running`.
* `StudioTypeCorrect`, `ResumptionsAreBounded` — for all caps. The invariant is `IInv`, type
  correctness with `Accounts`: the history counters are bounded by the counters on record
  (`RecordAccounts`), and the plan in memory is at most one resumption or one pause ahead of
  the record (`PlanAccounts`).
* `AbandonmentIsClean`, `PausesAreRecorded` — from `Endings`: rows are open only in a session
  or in the commands that end it, an abandonment has closed every row before it is written,
  and what will be written as `paused` is already on record.
* `PaidIsInRegister` — for any number of commands, `Spec => []PaidIsCounted`. The invariant
  `PaidInv` is an equation with one case per position of the command that holds the lock:
  the register is ahead of what was charged by the reservation not yet used, and never behind
  it but for the connections broken before an answer.
* `BriefInPlan` — for all plans, settings and defaults, `Spec => []BriefKeepsToPlan`. One lemma
  per layer (`VoiceKeeps`, `SecoursKeeps`, `IterationsKeep`, `DurationKeeps`) says what a cap does to
  *any* settings, so that it does not matter under which plan they were saved.
* `RepliedOnceHolds` — for any comments, passes and clients, `Spec => []RepliedOnce`. The count alone is not
  inductive: a pass about to answer holds a comment that is closed, was not answered by another, has no more
  answers than the POSTs made so far (`Unposted`), and is in no other pass's hands (`InOneHand`); `InHand` and `Known`, that it has one comment,
  which is in the database; `Answered`, that an answered comment is closed. `StepsMove` shows
  that no step brings a row back to `pending`: that is what makes the claim exclusive. The lock
  plays no part, which is the point: the proof holds through lapses and the non-atomic release.
* `RepliesRefine` — the same invariant gives `Spec => RepliesAtMostOnce`: a step of the agent is
  a `Record` of what became known or closed, or an `Act` (the first POST of a call; the next ones are stutters), or
  leaves both alone.
* `ChannelsKeepTheLimit` — for any slugs, limit and requests, `ChannelsSpec => []LimitKept`. The count is
  read in one step and used in another, so it is not inductive alone: `PlaceInv` adds that while one
  creation is in progress its place is free. `PlaceStays` covers all steps but the two of a creation.

The queue:

* `QueuedIsConserved`, `QueuedIsNeverStranded`, `PayloadIsKept` — for any number of workers and of
  requests that stop, remove and delete, a queued project is in the queue with its payload, or in the
  hands of who popped it. `Conserved` is what makes this inductive: a request in progress is a removal of
  one project, and one that found it not queued will not find it so again (`OnlyRemovals`); a queued project is
  in the queue or in somebody's hands (`QueuedIsSomewhere`); its flag or its missing payload means that a
  removal is about to end (`RemovalIsSeen`); a worker drops or leaves behind only what is queued no more, or
  what such a removal has in hand (`WorkerLosesNothing`).
* `BestIsClaimed` — `Spec => ClaimsBest`, an action property: the claim takes the best of the queued projects
  whose channel has a free slot. `InOrder` says where the entries are during a pass: those left in the
  queue come after the one in hand (`NoneBefore`), those set aside are of channels without a free slot
  (`HeldAreBusy`), and what the claim has seen is still so when it commits (`ClaimIsExact`).
* `NothingIsPassedOver` — a pass that ends with no claim leaves nothing it could have taken. `Thorough`
  counts: tries and entries left are never more than the projects (`TriesCount`), so the cap on tries is met only
  when no entry is left, and those set aside are busy (`PassIsThorough`).

The distribution, for every provider and timezone, by the invariant `AgentInv` — types, rows in a pass's hands are `publishing` and in no
other's (`ClaimsAreHeld`), the platform holds nothing of a publication nobody claimed (`PostsAreNew`), and a video has one live row at most,
of which a pass about to write another knows (`SentOnce`):

* `VideosArePostedOnce` — a video reaches its platform by one publication only.
* `OneCopyIsLive` — the platform has no more copies of a publication than one call may leave, and what is `published` is
  live there (or was taken by Composio). `ClaimsAreSent` follows what each pass knows of its post: one call by the claim, no more
  copies than tries, none more once the provider recognises them, through retries whose answer was lost.
* `PublicationsRefine` — `Spec => PublicationsAtMostOnce`. No step opens a row again (`FatesMove`), a planning
  only adds rows (`RowsRecord`), and a call is made only by a pass that has claimed the row and not called yet
  (`CopiesAreSent`); the retries within it are stutters.
* `QuotasAreKept` — where the slots of a day of the channel are of that day in Paris (`SlotsOfTheDay`), a day never holds more
  publications of the agent than its quotas. `DaysAreKept` adds to what a
  day holds the share the pass in progress may still write: the count is read once, used over many steps.

The services:

* `CapIsKept` — no publication gets more answers than its cap, those whose word was lost left out (`WordLost`: they are on the
  platform, the row says `failed`). The lock keeps passes apart (`InOrder`), what a pass has planned fits the places it
  counted, and an answer on the platform is of a row that counts, or of such a row (`Shown`).
* `SettingsAreApplied` — once requests are over, the scheduler runs what the database says. In `SettingsOrder`
  requests that may not overlap do not (`Apart`), what a start or an update is about to apply is in the database
  (`Current`), and a job is planned as stored or an update is about to plan it (`PlannedAsStored`).
* `SubjectsAreFresh`, `FormatsAreRotated` — a pass of the planner that no other crosses repeats no subject of
  the projects that the readings found, and no format within the window. `PlannerInv` says of the rows that they are in the order of their days
  and of the bank, and of a pass that its history holds all it must not repeat, that what it has planned is unlike
  the history and itself, and where in the rotation it stands. The choices are folds over lists: each is taken as the
  sequence of its partial results, whose existence is a lemma (`FoldExists`), and an induction over the natural numbers
  that index it is an ordinary safety argument.
* `ChoiceIsHonoured` — the preferred provider and model are used if their key was usable all through the resolution
  (`KeysThrough`: such a key is on file, and the claude command on the machine if it is a subscription's; `OnPath`: the call keeps to the path of the choice).
* `ConnectionsAreKept` — no request undoes another's. `AllHonoured` says so of each row; it needs what a request
  in progress knows of the row it will write (`RequestsKnow`), that a row made again is another one (`ChannelIds`), and
  that an OAuth page returns to the slug its profile was made for (`ChannelProfiles`).
* `ServicesKeepTypes` — `ServicesSpec => []TypeOK`, whatever the component looked at. The invariants above hold
  the types; the bounds are not types of the proofs but consequences of the control, and need invariants of their
  own: a publication has no more copies than its pass has counted tries (`ClaimsAreSent`), and a pass tries again only below
  `MaxTries`, as an answer is posted again only below `MaxPosts`; retries and continuations of a model call start again and end together (`LlmMore`); a
  comment's failures stop at the give-up (`AttemptsAreCounted`); a profile at Zernio is made once per connection
  asked, so those made and those still to come are fewer than the requests (`ProfilesCount`), and what a row, a page or a
  request in progress says of accounts and profiles was authorised and made (`GoodRow`), however old its reading is.

The studio:

* `RendersAreFaithful` — a finished film shows its timeline. `RenderInv`: the keys of a command are those of the first
  clips of its timeline, a segment shows what its key says, what is joined is read under the keys.
* `VoicesAreAsReported` — the voice status names the engine of each line (`CacheSpeaks`: a cached line is of its key;
  `CommandSpeaks`: what a command has collected and will report).
* `ResultsAreOwn` — the result a call reads was written for it. The calls that were not crossed by another in
  their directory are `Apart`; the directory of such a call holds nothing but its result (`HoldsItsOwn`), through renames,
  expiries and restarts of the workers.
* `FinalLogsAreKept`, `SuccessesAreReal`, `AllDoneIsRecorded` — from one invariant of the stream: messages of an agent
  are in order from its work through the pipe to the parser (`InOrder`), the result is last, nothing written
  is lost before it is read, and what is done will be recorded.
* `RightsAreKept` — a file of `media/` is credited to the item it holds. `CommandsAgree` carries the item from the choice of
  a number to the credit, through the cache (`CacheAgrees`).
* `BudgetIsKept` — the 3D shots fit the budget. Between a reservation and the new file the ledger may be ahead of
  the shots or, for a shot replaced, behind: `FilesAreReserved` allows this only while the command that will replace the
  file is in progress; `KnowsItsShot` says that what a command read under the lock still holds when it writes.
  `Sum` counts a set of seconds (`Seconds`), so that facts about finite sets give what a sum needs without induction.
* `StudioKeepsTypes` — `StudioSpec => []TypeOK`, whatever the part looked at. As with the services the bounds
  are consequences of the control. The lines of an agent's log and its lines still in the pipe are together no more
  than it has written, though the recorder may lose some (`LineFits`); what was charged, with the tools that may still
  charge, is no more than was asked for (`AsksCoverPaid`); the register holds no more items than the
  searches that have reached it may have found, the reading of a search in progress included (`RegisterFits`).

Only model-checked: all liveness, since the provers have no rule for fairness; of several workers, all but type
correctness and conservation. The violations are of course not proved.

## 5. Where the code does not keep a promise

Besides the five findings, the models contain, and the properties exempt by name, these
situations; TLC shows each of them when the exemption is removed.

| Situation | Code | In the model |
|---|---|---|
| a crash between ZPOPMIN and the claim loses the entry of a queued project | `pipeline_queue.py:385` | `MCConservation` has no crash |
| between the claim and `acquire_lease` a running project has no lease, and the renewal ends at its first failure: the reconciliation of another worker takes the project for an orphan and queues it a second time | `pipeline_worker.py:100`, `:56` | steps of the model; no run with a second worker and the reconciliation |
| the reconciliation acts on a stale answer of the lease test; the resumption overwrites a stop | `pipeline_reconcile.py:48`, `:110` | one worker in `MCRecovery`, no stop in `MCPause` |
| the purge removes the files of a project started after its list was read | `cleanup.py:188` | `PurgeRemove`; no property on files |
| a stale cancel flag makes a later dequeue abandon a project queued again; a run soon after a stop clears the flag before the watcher sees it | `pipeline_queue.py:411`, `:145` | no run request in `MCConservation` and `MCHalt` |
| the config column is read and written whole by several writers | `claude_studio.py:548` | reduced to the session state |
| two plannings at once, or an answer lost after the platform accepted, post a video twice | `distribution_agent.py:159`, `tiktok_providers.py:281` | `doubtful`, `overlap` |
| a crash or a refused write leaves a publication `publishing` for ever | `executor.py:296` | `Orphan` |
| Post for Me, or a Zernio that does not recognise a request, gets a publication or an answer up to four times when answers are lost | `tiktok_providers.py:141` | `MostCopies`, `Most` |
| a wait of Composio that ends without a result marks the publication as published; a poll that fails is passed over | `composio_client.py:181`, `:166` | last disjunct of `OneLiveCopy` |
| the slots of a day are in the timezone of the channel, the quotas are counted on Paris days: elsewhere, passes one after the other exceed the quota of a day | `distribution_agent.py:163`, `:366`, `:378` | `SlotsOfTheDay` |
| the cap of answers may be exceeded while a lapsed pass still runs | `comment_reply_agent.py:181` | `lapsed` |
| an answer the platform took and whose word was lost is `failed`, and not counted by the cap: another comment gets its place | `comment_reply_agent.py:278` | `WordLost` |
| a subject or a format older than the 80 latest projects, or of a project then queued, paused or stopped, comes back | `content_planning.py:33`, `:45` | `missed` |
| the choice of a Claude subscription is not used on a machine of the agents without the claude command, though the API accepted its token | `llm_resolver.py:197` | `Usable` |
| a Claude Code that closes its output and does not exit is waited for without end, for the delay of silence is over and the whole session has no limit by default, though "c'est `_stall_timeout()` qui rattrape un blocage réel" (`launcher.py:90`) | `launcher.py:562` | last disjunct of `SessionEnds` |
| passes of the planner that cross plan a day twice | `content_planner_agent.py:192` | `crossed` |
| start or stop of the scheduler during another request's setup | `scheduler/service.py:73` | `raced` |
| a killed sandbox worker leaves `.running`; a job still served when its directory is made again | `sandbox_worker.py` | `crossed`, last disjunct of `JobsAreCleared` |
| a connection that breaks before the answer is taken as free | `media_sources/ai/base.py:113` | `unheard` |
| a failed second rendering of a 3D shot puts back an entry that is no longer that of the file | `studio/animate.py:112` | `astray` |
| a source replaced between key and encoding by a copy that keeps its date | `studio/render.py:131` | `swapped` |
| two overlapping searches, or two downloads, write the same register | `studio/media.py:72` | `shifted`, `doubt` |
| the default voice of the application is not capped by the plan: the caps assume `edge`, `agent_config.json` gives `azure` | `subscription.py:114` | `own` in `BriefKeepsToPlan` |
| settings written over others than those read: by the settings page, which writes back the column it loaded while its TikTok panel writes another provider to it, or by a request that waited for its provider | `channels.py:102`, `:273` | `crossed` of `Channels` |
| two creations of channels at once | `subscription.py:254` | `raced` of `Channels` |

Three more were met in reading the code of the channels, and are no properties of the models: an
empty list of platforms is no restriction for the distribution (`distribution_agent.py:92`), though
it is what the page stores when all are unticked; passing over TikTok in the wizard clears
`tiktok_enabled`, which no page sets back, so that `connect_tiktok` refuses the connection the
wizard announces for later; the callback of Google writes `onboarding_step="youtube"` even on a
finished channel.

Not in the models: the distribution and the planner call `resolve_channel_config` without
the limits of the plan (`distribution_agent.py:82`, `content_planner_agent.py:152`), so the
capped daily quotas and `auto_publish` do not bind there; `shorts_only` with a quota of 0 becomes
3 (`channel_config.py:327`); the limit on projects is counted, then the
project inserted, so two requests at once may pass it as they do for channels.

## 6. Not modelled

* The one-hour TTL of the cancellation flag: the two looks at it are half a second apart.
* The `already_claimed=False` entry of `run_pipeline`, which no production code calls.
* Failures of single store commands other than those that end a request (`Abort`) or a
  worker (`Crash`): a Redis outage makes the outer loop of `run_worker` start again, as a
  crash and a restart do.
* Texts: prompts, logs, messages, titles, positions in the queue; back-off delays.
* Ties between equal scores are broken either way; Redis breaks them by member name.
* Signal and image processing (`audiomix`, `kenburns`, `subtitles`, `align`, `analyze`, the
  templates of animations, ffmpeg filters): real arithmetic without shared state.
* Object storage: I/O without state of its own. What the pages of the dashboard show. Login, tokens and the
  encryption of keys: request-scoped.

## 7. Plan

1. Done: the pipeline, the Studio session, and the parts of section 2; 37 theorems: invariants of every
   component, two action properties of the order of claims, and two refinements.
2. `PipelineQueue`, an abstract queue (a project is idle, waiting, in execution or asleep) that
   `Pipeline` with one worker and no run request refines.
3. Runs that combine run requests with stops, stale cancel flags, and two workers with the reconciliation on one
   project: what two executions of it at once may break (no lease is claimed to prevent it today),
   and starvation under `queue_dequeue_max_attempts`.
4. The config column and its several writers.
5. Proofs: slots and leases under requests of every kind with several workers that never meet on a channel; the
   refinement of item 2.

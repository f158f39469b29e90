---------------------------- MODULE StudioSession ----------------------------
(***************************************************************************)
(* The Claude Studio session of one project, across the executions of its  *)
(* pipeline: what ClaudeStudioRunner.run records in                        *)
(* Project.config["claude_studio_session"], and what studio_resume.decide  *)
(* makes of it when the pipeline is run again after a crash, a shutdown,   *)
(* an interruption or a pause on a usage limit.                            *)
(* The queue between two executions is that of module Pipeline; only the   *)
(* "resume" mark of its payload matters here.                              *)
(***************************************************************************)
EXTENDS Integers

CONSTANTS
  MaxResumes,       \* STUDIO_MAX_RESUMES
  MaxTotalResumes,  \* STUDIO_MAX_RESUMES_TOTAL
  MaxLimitPauses,   \* STUDIO_MAX_LIMIT_PAUSES
  RerunFrom,        \* statuses in which the user may run the project again
  MaxSteps          \* bound of the model: successful steps of a creation

ASSUME StudioAssumption ==
  /\ MaxResumes \in Nat
  /\ MaxTotalResumes \in Nat
  /\ MaxLimitPauses \in Nat
  /\ MaxSteps \in Nat
  /\ RerunFrom \subseteq {"paused", "approved", "failed", "stopped"}

VARIABLES
  status,    \* Project.status
  resume,    \* the "resume" mark of the queue's payload
  sess,      \* the session state of Project.config (NoState: none)
  runDir,    \* does the run dir hold its brief.json?
  result,    \* does it hold a result.json?
  purging,   \* has a purge of files selected the project?
  ok,        \* number of AgentRun rows "success"
  left,      \* statuses of the rows that earlier sessions left open
  mine,      \* has the session in progress rows still open (recorder.runs)?
  limited,   \* has it rows failed on a usage limit (recorder.limit_failures)?
  at,        \* next command of the runner ("off": no runner)
  plan,      \* the session state in memory
  outcome,   \* the status the orchestrator will write
  abandoned, \* (history) was this end a give-up, or the cap on pauses?
  launches,  \* (history) resumptions of the session on record
  fruitless, \* (history) worker resumptions since the last successful step
  finished   \* (history) has the creation asked for produced its result?

disk == <<runDir, result, purging>>
rows == <<ok, left, mine, limited>>
history == <<abandoned, launches, fruitless, finished>>
vars == <<status, resume, sess, disk, rows, at, plan, outcome, history>>

NoState == [id |-> FALSE, resumes |-> 0, total |-> 0, progress |-> 0,
            pauses |-> 0, paused |-> FALSE]

States == [id : BOOLEAN, resumes : 0 .. MaxResumes, total : 0 .. MaxTotalResumes,
           progress : Nat, pauses : 0 .. MaxLimitPauses + 1, paused : BOOLEAN]

\* ACTIVE_PROJECT_STATUSES: the files of these are not to be purged.
ActiveStatuses == {"running", "queued", "paused"}

StudioStatuses == {"queued", "running", "paused", "approved", "failed", "stopped"}

\* "resumed" until Claude Code is found unable to resume the session.
SessionLabels == {"session", "resumed"}

StudioLabels == SessionLabels \cup
  {"off", "start", "decide", "giveUp", "limit", "prepare", "clear", "wipe", "save",
   "pausing", "pauseSave", "capped", "capFail", "discard", "persist", "settle"}

StudioTypeOK ==
  /\ status \in StudioStatuses
  /\ resume \in BOOLEAN
  /\ sess \in States /\ plan \in States
  /\ runDir \in BOOLEAN /\ result \in BOOLEAN /\ purging \in BOOLEAN
  /\ ok \in 0 .. MaxSteps /\ left \subseteq {"running", "interrupted"}
  /\ mine \in BOOLEAN /\ limited \in BOOLEAN
  /\ at \in StudioLabels
  /\ outcome \in StudioStatuses
  /\ abandoned \in BOOLEAN /\ finished \in BOOLEAN
  /\ launches \in Nat /\ fruitless \in Nat

Init ==
  /\ status = "queued" /\ resume = FALSE
  /\ sess = NoState /\ plan = NoState
  /\ runDir = FALSE /\ result = FALSE /\ purging = FALSE
  /\ ok = 0 /\ left = {} /\ mine = FALSE /\ limited = FALSE
  /\ at = "off" /\ outcome = "failed"
  /\ abandoned = FALSE /\ launches = 0 /\ fruitless = 0 /\ finished = FALSE

------------------------------------------------------------------------------
(* studio_resume.                                                              *)

\* Mutation of NextResumes: no progress counts as progress.
NextResumesTooKind(s, progress) == (IF progress >= s.progress THEN 0 ELSE s.resumes) + 1

\* resumes of the next worker resumption: it starts again after a success.
NextResumes(s, progress) == (IF progress > s.progress THEN 0 ELSE s.resumes) + 1

\* Mutation of Decide: the total is not capped.
DecideWithoutTotal(s, progress, dirOk) ==
  IF ~s.id \/ ~dirOk THEN "fresh"
  ELSE IF ~s.paused /\ NextResumes(s, progress) > MaxResumes THEN "give_up"
  ELSE "resume"

Decide(s, progress, dirOk) ==
  IF ~s.id \/ ~dirOk THEN "fresh"
  ELSE IF s.paused THEN "resume"
  ELSE IF NextResumes(s, progress) > MaxResumes \/ s.total + 1 > MaxTotalResumes THEN "give_up"
  ELSE "resume"

\* The state that goes with the decision to resume.
Resumed(s, progress) ==
  IF s.paused
  THEN [s EXCEPT !.paused = FALSE,
                 !.progress = IF progress > s.progress THEN progress ELSE s.progress]
  ELSE [s EXCEPT !.resumes = NextResumes(s, progress), !.total = @ + 1, !.progress = progress]

\* Mutation of RecordPause: the reset time is not recorded.
RecordPauseUndated(s) == [s EXCEPT !.pauses = @ + 1]

RecordPause(s) == [s EXCEPT !.pauses = @ + 1, !.paused = TRUE]

PauseAllowed(s) == s.pauses <= MaxLimitPauses

------------------------------------------------------------------------------
(* Between two executions.                                                     *)

\* The user runs the project again: a new creation.
RunAgain ==
  /\ status \in RerunFrom /\ at = "off"
  /\ status' = "queued" /\ resume' = FALSE /\ finished' = FALSE
  /\ UNCHANGED <<sess, disk, rows, at, plan, outcome, abandoned, launches, fruitless>>

\* Reconciliation of an orphan (its rows still "running" are closed), or
\* resumption at the end of a pause.
Requeue ==
  /\ status \in {"running", "paused"} /\ at = "off"
  /\ status' = "queued" /\ resume' = TRUE
  /\ left' = IF status = "running" THEN left \ {"running"} ELSE left
  /\ UNCHANGED <<sess, disk, ok, mine, limited, at, plan, outcome, history>>

Claim ==
  /\ status = "queued"
  /\ status' = "running" /\ at' = "start" /\ plan' = NoState /\ abandoned' = FALSE
  /\ UNCHANGED <<resume, sess, disk, rows, outcome, launches, fruitless, finished>>

\* The scheduled purge reads the finished projects, then removes their files one
\* project after the other (and so do "delete the files" and, before it queues
\* the project, "restart").
PurgeSelect ==
  /\ ~purging /\ status \notin ActiveStatuses
  /\ purging' = TRUE
  /\ UNCHANGED <<status, resume, sess, runDir, result, rows, at, plan, outcome, history>>

PurgeRemove ==
  /\ purging
  /\ runDir' = FALSE /\ result' = FALSE /\ purging' = FALSE
  /\ UNCHANGED <<status, resume, sess, rows, at, plan, outcome, history>>

------------------------------------------------------------------------------
(* ClaudeStudioRunner.run up to the launch of Claude Code.                     *)

\* No key: an ordinary failure, before anything is looked at.
NoKeys ==
  /\ at = "start"
  /\ at' = "settle" /\ outcome' = "failed"
  /\ UNCHANGED <<status, resume, sess, disk, rows, plan, history>>

Start ==
  /\ at = "start"
  /\ at' = IF resume THEN "decide" ELSE "limit"
  /\ UNCHANGED <<status, resume, sess, disk, rows, plan, outcome, history>>

\* _resume_decision.  A plan with a session is what "resuming" means below.
MakeDecision ==
  /\ at = "decide"
  /\ \/ /\ Decide(sess, ok, runDir) = "give_up"
        /\ at' = "giveUp" /\ UNCHANGED plan
     \/ /\ Decide(sess, ok, runDir) = "resume"
        /\ at' = "limit" /\ plan' = Resumed(sess, ok)
     \/ /\ Decide(sess, ok, runDir) = "fresh"
        /\ at' = "limit" /\ UNCHANGED plan
  /\ UNCHANGED <<status, resume, sess, disk, rows, outcome, history>>

\* _fail_open_runs.
GiveUp ==
  /\ at = "giveUp"
  /\ left' = {} /\ abandoned' = TRUE
  /\ at' = "discard" /\ outcome' = "failed"
  /\ UNCHANGED <<status, resume, sess, disk, ok, mine, limited, plan,
                 launches, fruitless, finished>>

BeginPause(s) ==
  /\ plan' = RecordPause(s)
  /\ at' = IF PauseAllowed(plan') THEN "pausing" ELSE "capped"

\* The account is known to be limited: pause without calling Claude.  Before any
\* session only the counter of pauses is kept.
KnownLimit ==
  /\ at = "limit"
  /\ BeginPause(IF plan.id THEN plan ELSE [NoState EXCEPT !.pauses = sess.pauses])
  /\ UNCHANGED <<status, resume, sess, disk, rows, outcome, history>>

NoLimit ==
  /\ at = "limit"
  /\ at' = IF plan.id THEN "prepare" ELSE "clear"
  /\ plan' = IF plan.id THEN plan
             ELSE [NoState EXCEPT !.id = TRUE, !.pauses = IF resume THEN sess.pauses ELSE 0]
  /\ UNCHANGED <<status, resume, sess, disk, rows, outcome, history>>

\* (history) A worker resumption is on record once the state that counts it is.
CountResumption ==
  fruitless' = IF plan.total > sess.total THEN fruitless + 1 ELSE fruitless

\* The state is saved, then the session resumed.
LaunchResumed ==
  /\ at = "prepare"
  /\ sess' = plan /\ at' = "resumed"
  /\ launches' = launches + 1
  /\ CountResumption
  /\ UNCHANGED <<status, resume, disk, rows, plan, outcome, abandoned, finished>>

\* clear_creation_artifacts.
Clear ==
  /\ at = "clear"
  /\ ok' = 0 /\ left' = {} /\ at' = "wipe" /\ finished' = FALSE
  /\ UNCHANGED <<status, resume, sess, disk, mine, limited, plan, outcome,
                 abandoned, launches, fruitless>>

\* The directories are removed, then prepared again.
Wipe ==
  /\ at = "wipe"
  /\ runDir' = TRUE /\ result' = FALSE /\ at' = "save"
  /\ UNCHANGED <<status, resume, sess, purging, rows, plan, outcome, history>>

LaunchFresh ==
  /\ at = "save"
  /\ sess' = plan /\ at' = "session"
  /\ launches' = 0 /\ fruitless' = 0
  /\ UNCHANGED <<status, resume, disk, rows, plan, outcome, abandoned, finished>>

------------------------------------------------------------------------------
(* The session: the events the recorder reflects, and the ways it ends.        *)

StepStarts ==
  /\ at \in SessionLabels
  /\ mine' = TRUE
  /\ UNCHANGED <<status, resume, sess, disk, ok, left, limited, at, plan, outcome, history>>

StepSucceeds ==
  /\ at \in SessionLabels /\ mine /\ ok < MaxSteps
  /\ ok' = ok + 1 /\ mine' \in BOOLEAN /\ fruitless' = 0
  /\ UNCHANGED <<status, resume, sess, disk, left, limited, at, plan, outcome,
                 abandoned, launches, finished>>

StepFails ==
  /\ at \in SessionLabels /\ mine
  /\ mine' \in BOOLEAN /\ limited' \in {limited, TRUE}
  /\ UNCHANGED <<status, resume, sess, disk, ok, left, at, plan, outcome, history>>

\* The transcript of a resumed session is gone: a new session on the same run dir.
NoTurnPlayed ==
  /\ at = "resumed" /\ ~mine
  /\ sess' = plan /\ at' = "session"
  /\ UNCHANGED <<status, resume, disk, rows, plan, outcome, history>>

\* close_dangling(status): the rows still open take that status.
CloseDangling(s) ==
  /\ left' = IF mine /\ s = "interrupted" THEN left \cup {s} ELSE left
  /\ mine' = FALSE

\* A shutdown, a silence or background tasks killed: the session can be resumed,
\* unless a stop was requested meanwhile.
Interrupted ==
  /\ at \in SessionLabels
  /\ CloseDangling("interrupted") /\ limited' = FALSE
  /\ at' = "settle" /\ outcome' \in {"running", "stopped"}
  /\ UNCHANGED <<status, resume, sess, disk, ok, plan, history>>

UsageLimit ==
  /\ at \in SessionLabels
  /\ BeginPause(plan)
  /\ UNCHANGED <<status, resume, sess, disk, rows, outcome, history>>

\* An error, a limit of an API key, or the user's stop.
Fails ==
  /\ at \in SessionLabels
  /\ CloseDangling("failed") /\ limited' = FALSE
  /\ at' = "discard" /\ outcome' \in {"failed", "stopped"}
  /\ UNCHANGED <<status, resume, sess, disk, ok, plan, history>>

\* The session ends by itself, with a result or without one.
Ends ==
  /\ at \in SessionLabels
  /\ result' \in BOOLEAN /\ finished' = result'
  /\ CloseDangling("failed") /\ limited' = FALSE
  /\ at' = "discard" /\ outcome' = IF result' THEN "approved" ELSE "failed"
  /\ UNCHANGED <<status, resume, sess, runDir, purging, ok, plan,
                 abandoned, launches, fruitless>>

------------------------------------------------------------------------------
(* _pause, _discard_session and the end of the pipeline.                       *)

\* close_dangling("interrupted") and mark_limit_interrupted, for a pause that
\* falls in the middle of a session.
PauseMarks ==
  /\ at = "pausing"
  /\ left' = IF mine \/ limited THEN left \cup {"interrupted"} ELSE left
  /\ mine' = FALSE /\ limited' = FALSE /\ at' = "pauseSave"
  /\ UNCHANGED <<status, resume, sess, disk, ok, plan, outcome, history>>

PauseSave ==
  /\ at = "pauseSave"
  /\ sess' = plan /\ at' = "settle" /\ outcome' = "paused"
  /\ CountResumption
  /\ UNCHANGED <<status, resume, disk, rows, plan, abandoned, launches, finished>>

CapClose ==
  /\ at = "capped"
  /\ CloseDangling("failed") /\ limited' = FALSE /\ at' = "capFail"
  /\ UNCHANGED <<status, resume, sess, disk, ok, plan, outcome, history>>

\* Mutation of CapFail: the steps an earlier pause interrupted are left as they are.
CapFailOwnSteps ==
  /\ at = "capFail" /\ abandoned' = TRUE
  /\ at' = "discard" /\ outcome' = "failed"
  /\ UNCHANGED <<status, resume, sess, disk, rows, plan, launches, fruitless, finished>>

CapFail ==
  /\ at = "capFail"
  /\ left' = {} /\ abandoned' = TRUE
  /\ at' = "discard" /\ outcome' = "failed"
  /\ UNCHANGED <<status, resume, sess, disk, ok, mine, limited, plan,
                 launches, fruitless, finished>>

\* The session state is erased; only then is the result persisted.
Discard ==
  /\ at = "discard"
  /\ sess' = NoState
  /\ at' = IF outcome = "approved" THEN "persist" ELSE "settle"
  /\ UNCHANGED <<status, resume, disk, rows, plan, outcome, history>>

\* Video, scenario, critic reports, exports to the object storage.
Persist ==
  /\ at = "persist"
  /\ at' = "settle" /\ outcome' \in {"approved", "failed"}
  /\ UNCHANGED <<status, resume, sess, disk, rows, plan, history>>

\* The orchestrator writes the status; after a stop, stop_running_agent_runs.
Settle ==
  /\ at = "settle"
  /\ status' = outcome /\ at' = "off" /\ plan' = NoState
  /\ left' = IF outcome = "stopped" THEN left \ {"running"} ELSE left
  /\ UNCHANGED <<resume, sess, disk, ok, mine, limited, outcome, history>>

\* The process dies, or is shut down outside the session: the project stays
\* running and the rows stay as they are.
Crash ==
  /\ at # "off"
  /\ at' = "off" /\ plan' = NoState
  /\ left' = IF mine THEN left \cup {"running"} ELSE left
  /\ mine' = FALSE /\ limited' = FALSE
  /\ UNCHANGED <<status, resume, sess, disk, ok, outcome, history>>

\* The user's stop, outside the session.
Cancelled ==
  /\ at \notin SessionLabels \cup {"off", "settle"}
  /\ at' = "settle" /\ outcome' = "stopped"
  /\ left' = IF mine THEN left \cup {"running"} ELSE left
  /\ mine' = FALSE /\ limited' = FALSE
  /\ UNCHANGED <<status, resume, sess, disk, ok, plan, history>>

------------------------------------------------------------------------------
Prepare == NoKeys \/ Start \/ MakeDecision \/ GiveUp \/ KnownLimit \/ NoLimit
           \/ LaunchResumed \/ Clear \/ Wipe \/ LaunchFresh
Session == StepStarts \/ StepSucceeds \/ StepFails \/ NoTurnPlayed
           \/ Interrupted \/ UsageLimit \/ Fails \/ Ends
Finish  == PauseMarks \/ PauseSave \/ CapClose \/ CapFail \/ Discard \/ Persist \/ Settle

Next == RunAgain \/ Requeue \/ Claim \/ PurgeSelect \/ PurgeRemove \/ Prepare \/ Session \/ Finish \/ Crash \/ Cancelled

Spec == Init /\ [][Next]_vars

------------------------------------------------------------------------------
\* A worker that restarts over and over does not launch the same creation for
\* ever: at most MaxResumes resumptions in a row without a new successful step,
\* and MaxTotalResumes plus one per pause in all.
ResumesAreBounded ==
  /\ fruitless <= MaxResumes
  /\ launches <= MaxTotalResumes + MaxLimitPauses

\* A creation that is abandoned leaves no step "running" or "interrupted"
\* ("automatic resumption"): nothing will ever resume it.
AbandonLeavesNothingOpen ==
  status = "failed" /\ abandoned => left = {} /\ ~mine

\* A paused project has its reset time on record: without it the pause ends at
\* once, and its resumption counts as a restart of the worker.
PauseIsRecorded ==
  status = "paused" => sess.paused /\ sess.pauses \in 1 .. MaxLimitPauses

\* The creation is given up for lack of progress only after MaxResumes worker
\* resumptions in a row without a new successful step.
GivesUpOnlyWithoutProgress ==
  at = "giveUp" /\ sess.total < MaxTotalResumes => fruitless >= MaxResumes

\* A restart of the worker resumes the creation; it never starts over one that
\* has already produced its result.
FinishedIsNotRedone ==
  [][~(at = "clear" /\ at' = "wipe" /\ resume /\ finished)]_vars
==============================================================================

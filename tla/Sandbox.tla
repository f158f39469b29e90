------------------------------- MODULE Sandbox -------------------------------
(***************************************************************************)
(* The sandbox of the animations: run_sandboxed, called by the processes   *)
(* of the tools, and the workers of the studio-sandbox container.  They    *)
(* share a directory of jobs, where a job is a file <id>.json that becomes *)
(* <id>.running, answered by <id>.done or given up by <id>.cancel, and the *)
(* output directory of the call, where result.json is written.  Under      *)
(* bubblewrap the tool runs the script itself.                             *)
(* Time passes in ticks much longer than a poll (0.5 s), so that whoever   *)
(* can see a file or the end of a delay sees it within the tick.           *)
(***************************************************************************)
EXTENDS Naturals

CONSTANTS
  Calls,         \* calls of run_sandboxed, each with a job id of its own
  OutDir,        \* [Calls -> output directories]: a retry has that of the first call
  Modes,         \* STUDIO_SANDBOX: "container", "bwrap"
  Workers,       \* workers on the queue
  QueueWait,     \* QUEUE_WAIT_S
  Timeout,       \* timeout_s of the job
  ResultMargin,  \* RESULT_MARGIN_S
  KillMargin,    \* KILL_MARGIN_S
  MaxKills       \* bound of the number of interrupted and killed tools and crashed workers

NoJob == "none"

SandboxAssumption ==
  /\ Modes \subseteq {"container", "bwrap"} /\ Modes # {}
  /\ {QueueWait, Timeout, ResultMargin, KillMargin, MaxKills} \subseteq Nat
  /\ KillMargin < ResultMargin /\ NoJob \notin Calls

VARIABLES
  mode,    \* the mode of this machine
  call,    \* calls of the tools
  job,     \* the file of each job: "none", ".json" or ".running"
  done,    \* jobs with a .done file
  cancel,  \* jobs with a .cancel file
  output,  \* result.json of each output directory
  worker,  \* workers of the container
  kills,   \* interruptions, kills and crashes so far
  crossed  \* history: calls that shared their output directory with a call still served

files == <<job, done, cancel, output>>
vars == <<mode, call, files, worker, kills, crossed>>

Nothing == [of |-> NoJob, ok |-> FALSE]

Dirs == {OutDir[c] : c \in Calls}

Rest == [at |-> "free", job |-> NoJob, left |-> 0, alive |-> FALSE]

Init ==
  /\ mode \in Modes
  /\ call = [c \in Calls |-> [at |-> "idle", left |-> 0, got |-> NoJob]]
  /\ job = [c \in Calls |-> "none"] /\ done = {} /\ cancel = {}
  /\ output = [d \in Dirs |-> Nothing]
  /\ worker = [w \in Workers |-> Rest]
  /\ kills = 0 /\ crossed = {}

Ended == {"ok", "failed", "killed"}

CallLabels == Ended \cup {"idle", "memory", "post", "wait", "picked", "leave", "withdraw",
                          "giveUp", "clear", "read", "render"}

WorkerLabels == {"free", "check", "start", "render", "unlink", "answer", "drop", "touch"}

SandboxTypeOK ==
  /\ mode \in Modes
  /\ call \in [Calls -> [at : CallLabels, left : Nat, got : Calls \cup {NoJob}]]
  /\ job \in [Calls -> {"none", ".json", ".running"}] /\ done \subseteq Calls /\ cancel \subseteq Calls
  /\ output \in [Dirs -> [of : Calls \cup {NoJob}, ok : BOOLEAN]]
  /\ worker \in [Workers -> [at : WorkerLabels, job : Calls \cup {NoJob},
                             left : 0 .. Timeout + KillMargin, alive : BOOLEAN]]
  /\ kills \in 0 .. MaxKills /\ crossed \subseteq Calls

------------------------------------------------------------------------------
(* The call of a tool.                                                         *)

On(c, label) == call[c].at = label

Goto(c, label) == call' = [call EXCEPT ![c].at = label]

Begin(c) == On(c, "idle") /\ Goto(c, "memory") /\ UNCHANGED <<mode, files, worker, kills, crossed>>

\* wait_for_memory gives up after a while.
NoMemory(c) == On(c, "memory") /\ Goto(c, "failed") /\ UNCHANGED <<mode, files, worker, kills, crossed>>

Holds(w, c) == worker[w].job = c

\* Somebody may still write in the output directory for the call d.
Served(d) ==
  \/ call[d].at \notin Ended \cup {"idle", "memory"}
  \/ job[d] = ".json" \/ \E w \in Workers : Holds(w, d)

\* Mutation of Recreate: the directory keeps the result of an earlier call.
RecreateKeepsResult(c) ==
  /\ On(c, "memory")
  /\ Goto(c, IF mode = "container" THEN "post" ELSE "render")
  /\ UNCHANGED output
  /\ LET others == {d \in Calls \ {c} : OutDir[d] = OutDir[c] /\ Served(d)}
     IN crossed' = IF others = {} THEN crossed ELSE crossed \cup others \cup {c}
  /\ UNCHANGED <<mode, job, done, cancel, worker, kills>>

\* The output directory is erased and made anew.
Recreate(c) ==
  /\ On(c, "memory")
  /\ Goto(c, IF mode = "container" THEN "post" ELSE "render")
  /\ output' = [output EXCEPT ![OutDir[c]] = Nothing]
  /\ LET others == {d \in Calls \ {c} : OutDir[d] = OutDir[c] /\ Served(d)}
     IN crossed' = IF others = {} THEN crossed ELSE crossed \cup others \cup {c}
  /\ UNCHANGED <<mode, job, done, cancel, worker, kills>>

\* The job appears by a rename.
Post(c) ==
  /\ On(c, "post")
  /\ job' = [job EXCEPT ![c] = ".json"]
  /\ call' = [call EXCEPT ![c].at = "wait", ![c].left = QueueWait]
  /\ UNCHANGED <<mode, done, cancel, output, worker, kills, crossed>>

Waits(c) == call[c].at \in {"wait", "picked"}

SeesPickup(c) == On(c, "wait") /\ c \notin done /\ job[c] = ".running"

\* Two delays: the queue, then the rendering, counted from the pick-up.
Picked(c) ==
  /\ SeesPickup(c)
  /\ call' = [call EXCEPT ![c].at = "picked", ![c].left = Timeout + ResultMargin]
  /\ UNCHANGED <<mode, files, worker, kills, crossed>>

Answered(c) ==
  /\ Waits(c) /\ c \in done
  /\ Goto(c, "clear")
  /\ UNCHANGED <<mode, files, worker, kills, crossed>>

Expired(c) == Waits(c) /\ c \notin done /\ call[c].left = 0 /\ ~SeesPickup(c)

GivesUp(c) ==
  /\ Expired(c)
  /\ call' = [call EXCEPT ![c].at = "leave"]
  /\ UNCHANGED <<mode, files, worker, kills, crossed>>

\* The `finally` of a call that raised: a .done that comes now stays where it is.
Leave(c) ==
  /\ On(c, "leave")
  /\ Goto(c, IF c \in done THEN "failed" ELSE "withdraw")
  /\ UNCHANGED <<mode, files, worker, kills, crossed>>

Withdraw(c) ==
  /\ On(c, "withdraw")
  /\ IF job[c] = ".json" THEN job' = [job EXCEPT ![c] = "none"] /\ Goto(c, "failed")
     ELSE Goto(c, "giveUp") /\ UNCHANGED job
  /\ UNCHANGED <<mode, done, cancel, output, worker, kills, crossed>>

AskCancel(c) ==
  /\ On(c, "giveUp")
  /\ cancel' = cancel \cup {c} /\ Goto(c, "failed")
  /\ UNCHANGED <<mode, job, done, output, worker, kills, crossed>>

ClearDone(c) ==
  /\ On(c, "clear")
  /\ done' = done \ {c} /\ Goto(c, "read")
  /\ UNCHANGED <<mode, job, cancel, output, worker, kills, crossed>>

ReadResult(c) ==
  /\ On(c, "read")
  /\ LET r == output[OutDir[c]]
     IN call' = [call EXCEPT ![c].at = IF r.ok THEN "ok" ELSE "failed", ![c].got = r.of]
  /\ UNCHANGED <<mode, files, worker, kills, crossed>>

\* sandbox_exec ends with a result, good or bad, or dies without one.
Writes(d, c) ==
  \/ \E ok \in BOOLEAN : output' = [output EXCEPT ![d] = [of |-> c, ok |-> ok]]
  \/ UNCHANGED output

\* _run_process: the process ends, or is killed at the end of the delay.
RunsItself(c) ==
  /\ On(c, "render")
  /\ \/ Writes(OutDir[c], c) /\ Goto(c, "read")
     \/ Goto(c, "failed") /\ UNCHANGED output
  /\ UNCHANGED <<mode, job, done, cancel, worker, kills, crossed>>

------------------------------------------------------------------------------
(* A worker: handle().                                                         *)

Does(w, label) == worker[w].at = label

Turns(w, label) == worker' = [worker EXCEPT ![w].at = label]

\* The first that renames the file has the job.
Claim(w, c) ==
  /\ Does(w, "free") /\ job[c] = ".json"
  /\ job' = [job EXCEPT ![c] = ".running"]
  /\ worker' = [worker EXCEPT ![w] = [Rest EXCEPT !.at = "check", !.job = c]]
  /\ UNCHANGED <<mode, call, done, cancel, output, kills, crossed>>

CheckCancel(w) ==
  /\ Does(w, "check")
  /\ Turns(w, IF worker[w].job \in cancel THEN "unlink" ELSE "start")
  /\ UNCHANGED <<mode, call, files, kills, crossed>>

Failure(w) == output' = [output EXCEPT ![OutDir[worker[w].job]] = [of |-> worker[w].job, ok |-> FALSE]]

\* The process starts; an exception before it does is the result of the job.
Start(w) ==
  /\ Does(w, "start")
  /\ \/ /\ worker' = [worker EXCEPT ![w].at = "render", ![w].left = Timeout + KillMargin, ![w].alive = TRUE]
        /\ UNCHANGED output
     \/ Turns(w, "unlink") /\ Failure(w)
  /\ UNCHANGED <<mode, call, job, done, cancel, kills, crossed>>

ExecEnds(w) ==
  /\ Does(w, "render") /\ worker[w].alive
  /\ Writes(OutDir[worker[w].job], worker[w].job)
  /\ worker' = [worker EXCEPT ![w].alive = FALSE]
  /\ UNCHANGED <<mode, call, job, done, cancel, kills, crossed>>

SeesEnd(w) == Does(w, "render") /\ ~worker[w].alive

Stops(w) == Does(w, "render") /\ worker[w].alive /\ (worker[w].job \in cancel \/ worker[w].left = 0)

\* The loop over poll(): the end of the process, a .cancel, the end of the delay.
Poll(w) ==
  /\ \/ SeesEnd(w) /\ UNCHANGED output
     \/ Stops(w) /\ Failure(w)
  /\ worker' = [worker EXCEPT ![w].at = "unlink", ![w].alive = FALSE, ![w].left = 0]
  /\ UNCHANGED <<mode, call, job, done, cancel, kills, crossed>>

\* The `finally`: the files of the job.
Unlink(w) ==
  /\ Does(w, "unlink")
  /\ job' = [job EXCEPT ![worker[w].job] = "none"] /\ Turns(w, "answer")
  /\ UNCHANGED <<mode, call, done, cancel, output, kills, crossed>>

Answer(w) ==
  /\ Does(w, "answer")
  /\ Turns(w, IF worker[w].job \in cancel THEN "drop" ELSE "touch")
  /\ UNCHANGED <<mode, call, files, kills, crossed>>

Mark(w) ==
  /\ \/ Does(w, "drop") /\ cancel' = cancel \ {worker[w].job} /\ UNCHANGED done
     \/ Does(w, "touch") /\ done' = done \cup {worker[w].job} /\ UNCHANGED cancel
  /\ worker' = [worker EXCEPT ![w] = Rest]
  /\ UNCHANGED <<mode, call, job, output, kills, crossed>>

\* Mutation of Sweep: only the .done files are swept.
SweepDone(c) ==
  /\ call[c].at \in Ended /\ job[c] # ".running" /\ c \in done \cup cancel
  /\ done' = done \ {c} /\ UNCHANGED cancel
  /\ UNCHANGED <<mode, call, job, output, worker, kills, crossed>>

\* sweep_stale_markers: a marker is an hour old, its call is over.
Sweep(c) ==
  /\ call[c].at \in Ended /\ job[c] # ".running" /\ c \in done \cup cancel
  /\ done' = done \ {c} /\ cancel' = cancel \ {c}
  /\ UNCHANGED <<mode, call, job, output, worker, kills, crossed>>

------------------------------------------------------------------------------
(* Environment.                                                                *)

Killing == kills < MaxKills /\ kills' = kills + 1

\* Claude Code stops the command by SIGTERM: the `finally` runs.
Interrupt(c) ==
  /\ Killing /\ call[c].at \in {"wait", "picked", "memory", "render"}
  /\ Goto(c, IF Waits(c) THEN "leave" ELSE "failed")
  /\ UNCHANGED <<mode, files, worker, crossed>>

\* The process group is killed: nothing runs.
KillTool(c) ==
  /\ Killing /\ call[c].at \notin Ended \cup {"idle"}
  /\ Goto(c, "killed")
  /\ UNCHANGED <<mode, files, worker, crossed>>

\* The container stops and starts again: its processes are gone, its files stay.
CrashWorker(w) ==
  /\ Killing /\ ~Does(w, "free")
  /\ worker' = [worker EXCEPT ![w] = Rest]
  /\ UNCHANGED <<mode, call, files, crossed>>

\* Nothing that takes less than a poll is pending.
Settled ==
  /\ \A c \in Calls : /\ call[c].at \in Ended \cup {"idle", "memory", "wait", "picked", "render"}
                      /\ ~SeesPickup(c) /\ ~Expired(c) /\ ~(Waits(c) /\ c \in done)
  /\ \A w \in Workers : worker[w].at \in {"free", "render"} /\ ~SeesEnd(w) /\ ~Stops(w)

Less(n) == IF n > 0 THEN n - 1 ELSE 0

Tick ==
  /\ Settled
  /\ call' = [c \in Calls |-> [call[c] EXCEPT !.left = IF Waits(c) THEN Less(@) ELSE 0]]
  /\ worker' = [w \in Workers |-> [worker[w] EXCEPT !.left = Less(@)]]
  /\ UNCHANGED <<mode, files, kills, crossed>>

------------------------------------------------------------------------------
CallStep(c) ==
  \/ Recreate(c) \/ NoMemory(c) \/ Post(c) \/ Picked(c) \/ Answered(c) \/ GivesUp(c) \/ Leave(c)
  \/ Withdraw(c) \/ AskCancel(c) \/ ClearDone(c) \/ ReadResult(c) \/ RunsItself(c)

WorkerStep(w) ==
  \/ \E c \in Calls : Claim(w, c)
  \/ CheckCancel(w) \/ Start(w) \/ Poll(w) \/ Unlink(w) \/ Answer(w) \/ Mark(w)

Next ==
  \/ \E c \in Calls : Begin(c) \/ CallStep(c) \/ Interrupt(c) \/ KillTool(c) \/ Sweep(c)
  \/ \E w \in Workers : WorkerStep(w) \/ ExecEnds(w) \/ CrashWorker(w)
  \/ Tick

Spec == Init /\ [][Next]_vars

\* Tools and workers poll, the workers sweep, time passes; a script may never end.
Fairness ==
  /\ \A c \in Calls : WF_vars(CallStep(c)) /\ WF_vars(Sweep(c))
  /\ \A w \in Workers : WF_vars(WorkerStep(w))
  /\ WF_vars(Tick)

FairSpec == Spec /\ Fairness

------------------------------------------------------------------------------
(* Properties.                                                                 *)

\* The frames a tool takes for those of its animation are its own: an accepted
\* result.json was written for this call, whatever an earlier call left in the
\* same directory, unless that one was still being served.
OwnResult == \A c \in Calls \ crossed : On(c, "ok") => call[c].got = c

\* Whatever way a call ends, its files leave the directory of jobs, so that no
\* job is rendered for nobody for ever, unless a restart of the container left
\* it .running.
JobsAreCleared ==
  \A c \in Calls :
    call[c].at \in Ended
      ~> \/ job[c] = "none" /\ c \notin done \cup cancel
         \/ job[c] = ".running" /\ ~\E w \in Workers : Holds(w, c)
==============================================================================

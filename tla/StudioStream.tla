----------------------------- MODULE StudioStream -----------------------------
(***************************************************************************)
(* One launch of Claude Code by a creation: the messages it writes on its  *)
(* output, the parser that makes events of them, the recorder that turns   *)
(* the events into steps (AgentRun rows) with their log, the watchdog and  *)
(* the end of the process.  Claude Code is environment.                   *)
(* What the runner decides afterwards (resume, pause, fail) is module      *)
(* StudioSession.                                                          *)
(***************************************************************************)
EXTENDS Naturals, SequencesExt

CONSTANTS
  Agents,      \* sub-agents of the session (tool_use_id)
  Background,  \* those that Claude Code runs as background tasks
  MaxPipe,     \* bound of the model: messages written and not yet read
  MaxLines     \* bound of the model: trace messages per agent

StreamAssumption == Background \subseteq Agents /\ MaxPipe \in Nat \ {0} /\ MaxLines \in Nat

VARIABLES
  notifies,  \* does this version of the CLI notify the end of its background tasks?
  work,      \* the sub-agents, as Claude Code knows them
  leader,    \* its process: alive, alive with its output closed, exited
  pipe,      \* messages written and not yet read
  written,   \* trace messages written, per agent
  parser,    \* StreamParser
  recorder,  \* _ProgressRecorder in memory
  steps,     \* rows of agent_runs
  pump,      \* where run_claude stands
  cut        \* history: run_claude was cut while a step was being closed

vars == <<notifies, work, leader, pipe, written, parser, recorder, steps, pump, cut>>

claude == <<work, leader, pipe, written>>

Log == [lines |-> 0, ended |-> FALSE]

Init ==
  /\ notifies \in BOOLEAN
  /\ work = [a \in Agents |-> "none"] /\ leader = "alive"
  /\ pipe = <<>> /\ written = [a \in Agents |-> 0]
  /\ parser = [agents |-> {}, background |-> {}, acks |-> {}, notified |-> FALSE, result |-> "none"]
  /\ recorder = [open |-> {}, lines |-> [a \in Agents |-> 0], limit |-> {},
                 flush |-> [a \in Agents |-> "none"], copy |-> [a \in Agents |-> 0]]
  /\ steps = [a \in Agents |-> [status |-> "none", log |-> Log, closed |-> 0]]
  /\ pump = [at |-> "read", ends |-> <<>>, outcome |-> "none"]
  /\ cut = FALSE

Kinds == {"tool_use", "task_started", "tool_result", "trace", "task_notification", "result"}

StepStatuses == {"none", "running", "success", "failed", "interrupted", "stopped"}

PumpLabels == {"read", "end", "write", "wait", "sigterm", "sigkill", "close", "closed"}

StreamTypeOK ==
  /\ notifies \in BOOLEAN /\ cut \in BOOLEAN
  /\ work \in [Agents -> {"none", "asked", "started", "working", "done", "failed", "killed"}]
  /\ leader \in {"alive", "closed", "exited"}
  /\ Len(pipe) <= MaxPipe /\ \A k \in DOMAIN pipe : pipe[k].kind \in Kinds
  /\ written \in [Agents -> 0 .. MaxLines]
  /\ parser.agents \subseteq Agents /\ parser.background \subseteq Background /\ parser.acks \subseteq parser.background
  /\ recorder.open \subseteq Agents /\ recorder.limit \subseteq Agents
  /\ recorder.flush \in [Agents -> {"none", "waiting", "writing"}]
  /\ \A a \in Agents : steps[a].status \in StepStatuses /\ steps[a].log.lines <= MaxLines
  /\ pump.at \in PumpLabels

------------------------------------------------------------------------------
(* Claude Code writes messages.                                                *)

Message(kind, a, status) == [kind |-> kind, id |-> a, status |-> status]

\* (Messages that nobody will read any more are left out.)
Emit(kind, a, status) ==
  /\ leader = "alive" /\ Len(pipe) < MaxPipe /\ pump.at \in {"read", "end", "write"}
  /\ pipe' = Append(pipe, Message(kind, a, status))

Unseen == UNCHANGED <<notifies, parser, recorder, steps, pump, cut>>

Becomes(a, phase) == work' = [work EXCEPT ![a] = phase]

LaunchAgent(a) ==
  /\ work[a] = "none" /\ parser.result = "none"
  /\ ~\E k \in DOMAIN pipe : pipe[k].kind = "result"
  /\ Emit("tool_use", a, "ok") /\ Becomes(a, "asked")
  /\ UNCHANGED <<leader, written>> /\ Unseen

\* A background task is announced before its launch is acknowledged.
StartTask(a) ==
  /\ work[a] = "asked" /\ a \in Background
  /\ Emit("task_started", a, "ok") /\ Becomes(a, "started")
  /\ UNCHANGED <<leader, written>> /\ Unseen

Acknowledge(a) ==
  /\ work[a] = "started"
  /\ Emit("tool_result", a, "ok") /\ Becomes(a, "working")
  /\ UNCHANGED <<leader, written>> /\ Unseen

BeginWork(a) ==
  /\ work[a] = "asked" /\ a \notin Background
  /\ Becomes(a, "working")
  /\ UNCHANGED <<leader, pipe, written>> /\ Unseen

Trace(a) ==
  /\ work[a] = "working" /\ written[a] < MaxLines
  /\ Emit("trace", a, "ok") /\ written' = [written EXCEPT ![a] = @ + 1]
  /\ UNCHANGED <<work, leader>> /\ Unseen

Finish(a) ==
  /\ work[a] = "working" /\ Becomes(a, "done")
  /\ IF a \notin Background THEN Emit("tool_result", a, "ok")
     ELSE IF notifies THEN Emit("task_notification", a, "completed")
     ELSE leader = "alive" /\ UNCHANGED pipe
  /\ UNCHANGED <<leader, written>> /\ Unseen

\* A failure, on a usage limit or not, comes as a tool_result.
Fail(a) ==
  /\ work[a] = (IF a \in Background THEN "started" ELSE "working") /\ Becomes(a, "failed")
  /\ \E why \in {"error", "limit"} : Emit("tool_result", a, why)
  /\ UNCHANGED <<leader, written>> /\ Unseen

\* Killed at the ceiling on background tasks.
Kill(a) ==
  /\ work[a] = "working" /\ a \in Background /\ Becomes(a, "killed")
  /\ IF notifies THEN Emit("task_notification", a, "stopped")
     ELSE leader = "alive" /\ UNCHANGED pipe
  /\ UNCHANGED <<leader, written>> /\ Unseen

\* The session ends with a result once nothing runs...
WriteResult ==
  /\ \A a \in Agents : work[a] \notin {"asked", "started", "working"}
  /\ ~\E k \in DOMAIN pipe : pipe[k].kind = "result"
  /\ parser.result = "none"
  /\ \E s \in {"ok", "error"} : Emit("result", CHOOSE a \in Agents : TRUE, s)
  /\ UNCHANGED <<work, leader, written>> /\ Unseen

\* ... and the process closes its output and exits, with or without one.
CloseOutput ==
  /\ leader = "alive" /\ leader' = "closed"
  /\ UNCHANGED <<work, pipe, written>> /\ Unseen

Exit ==
  /\ leader # "exited" /\ leader' = "exited"
  /\ UNCHANGED <<work, pipe, written>> /\ Unseen

------------------------------------------------------------------------------
(* _pump: one message after the other; the events of one are handled before    *)
(* the next is read.                                                           *)

Read(kind) == pump.at = "read" /\ pipe # <<>> /\ Head(pipe).kind = kind /\ pipe' = Tail(pipe)

Subject == Head(pipe).id

Outside == UNCHANGED <<notifies, work, leader, written, cut>>

\* _on_tool_use, _start: the step begins.
OnToolUse ==
  /\ Read("tool_use")
  /\ parser' = [parser EXCEPT !.agents = @ \cup {Subject}]
  /\ recorder' = [recorder EXCEPT !.open = @ \cup {Subject}]
  /\ steps' = [steps EXCEPT ![Subject].status = "running"]
  /\ UNCHANGED pump /\ Outside

OnTaskStarted ==
  /\ Read("task_started")
  /\ parser' = [parser EXCEPT !.background = @ \cup ({Subject} \cap parser.agents)]
  /\ UNCHANGED <<recorder, steps, pump>> /\ Outside

\* The steps to close, in order.
Close(ends) == pump' = [pump EXCEPT !.at = IF ends = <<>> THEN "read" ELSE "end", !.ends = ends]

End(a, status) == [id |-> a, status |-> status]

\* Mutation of OnToolResult: the acknowledgement of a launch closes the step.
OnToolResultBelieved ==
  /\ Read("tool_result")
  /\ LET a == Subject
         s == Head(pipe).status
     IN IF FALSE
        THEN parser' = [parser EXCEPT !.acks = @ \cup {a}] /\ Close(<<>>)
        ELSE parser' = [parser EXCEPT !.acks = @ \ {a}] /\ Close(<<End(a, s)>>)
  /\ UNCHANGED <<recorder, steps>> /\ Outside

\* _on_agent_tool_result: the success of a background task is only the
\* acknowledgement of its launch.
OnToolResult ==
  /\ Read("tool_result")
  /\ LET a == Subject
         s == Head(pipe).status
     IN IF a \in parser.background /\ s = "ok"
        THEN parser' = [parser EXCEPT !.acks = @ \cup {a}] /\ Close(<<>>)
        ELSE parser' = [parser EXCEPT !.acks = @ \ {a}] /\ Close(<<End(a, s)>>)
  /\ UNCHANGED <<recorder, steps>> /\ Outside

\* _stream: a line more, and a deferred write unless one is under way.
OnTrace ==
  /\ Read("trace")
  /\ recorder' = IF Subject \notin recorder.open THEN recorder
                 ELSE [recorder EXCEPT !.lines[Subject] = @ + 1,
                                       !.flush[Subject] = IF @ = "none" THEN "waiting" ELSE @]
  /\ UNCHANGED <<parser, steps, pump>> /\ Outside

OnTaskNotification ==
  /\ Read("task_notification")
  /\ LET done == Head(pipe).status = "completed" /\ Subject \in parser.background
     IN /\ parser' = [parser EXCEPT !.notified = TRUE, !.acks = IF done THEN @ \ {Subject} ELSE @]
        /\ Close(IF done THEN <<End(Subject, "ok")>> ELSE <<>>)
  /\ UNCHANGED <<recorder, steps>> /\ Outside

\* Mutation of OnResult: no reconciliation of the background tasks.
OnResultUnreconciled ==
  /\ Read("result")
  /\ LET silent == FALSE
     IN /\ Close(IF silent THEN SetToSeq({End(a, "ok") : a \in parser.acks}) ELSE <<>>)
        /\ parser' = [parser EXCEPT !.result = Head(pipe).status, !.acks = IF silent THEN {} ELSE @]
  /\ UNCHANGED <<recorder, steps>> /\ Outside

\* _reconcile_background_agents: a CLI that notified nothing at all is believed
\* on its acknowledgements.
OnResult ==
  /\ Read("result")
  /\ LET silent == ~parser.notified /\ parser.acks # {}
     IN /\ Close(IF silent THEN SetToSeq({End(a, "ok") : a \in parser.acks}) ELSE <<>>)
        /\ parser' = [parser EXCEPT !.result = Head(pipe).status, !.acks = IF silent THEN {} ELSE @]
  /\ UNCHANGED <<recorder, steps>> /\ Outside
------------------------------------------------------------------------------
(* _ProgressRecorder: the end of a step, and the deferred writes of its log.   *)

\* _end takes the step out of the open ones before it writes anything.
EndStep ==
  /\ pump.at = "end"
  /\ LET e == Head(pump.ends)
     IN IF e.id \notin recorder.open
        THEN Close(Tail(pump.ends)) /\ UNCHANGED recorder
        ELSE /\ recorder' = [recorder EXCEPT !.open = @ \ {e.id},
                                             !.limit = IF e.status = "limit" THEN @ \cup {e.id} ELSE @]
             /\ pump' = [pump EXCEPT !.at = "write"]
  /\ UNCHANGED <<parser, steps, pipe>> /\ Outside

Closed(a, status) ==
  [status |-> status, log |-> [lines |-> recorder.lines[a], ended |-> TRUE], closed |-> steps[a].closed + 1]

\* Mutation of WriteEnd: a deferred write under way is not waited for.
WriteEndAtOnce ==
  /\ pump.at = "write"
  /\ LET e == Head(pump.ends)
     IN /\ TRUE
        /\ recorder' = [recorder EXCEPT !.flush[e.id] = IF @ = "writing" THEN @ ELSE "none"]
        /\ steps' = [steps EXCEPT ![e.id] = Closed(e.id, IF e.status = "ok" THEN "success" ELSE "failed")]
  /\ Close(Tail(pump.ends))
  /\ UNCHANGED <<parser, pipe>> /\ Outside

\* _final_log: a deferred write still to come is cancelled, one under way is
\* waited for; then the final write.
WriteEnd ==
  /\ pump.at = "write"
  /\ LET e == Head(pump.ends)
     IN /\ recorder.flush[e.id] # "writing"
        /\ recorder' = [recorder EXCEPT !.flush[e.id] = "none"]
        /\ steps' = [steps EXCEPT ![e.id] = Closed(e.id, IF e.status = "ok" THEN "success" ELSE "failed")]
  /\ Close(Tail(pump.ends))
  /\ UNCHANGED <<parser, pipe>> /\ Outside

\* The database refuses it: the error is logged and the session goes on.
WriteRefused ==
  /\ pump.at = "write" /\ cut' = TRUE
  /\ recorder.flush[Head(pump.ends).id] # "writing"
  /\ recorder' = [recorder EXCEPT !.flush[Head(pump.ends).id] = "none"]
  /\ Close(Tail(pump.ends))
  /\ UNCHANGED <<notifies, claude, parser, steps>>

\* _flush_later, after its delay...
FlushBegins(a) ==
  /\ recorder.flush[a] = "waiting"
  /\ recorder' = IF a \in recorder.open
                 THEN [recorder EXCEPT !.flush[a] = "writing", !.copy[a] = recorder.lines[a]]
                 ELSE [recorder EXCEPT !.flush[a] = "none"]
  /\ UNCHANGED <<parser, steps, pump, pipe>> /\ Outside

\* ... and its commit.
FlushEnds(a) ==
  /\ recorder.flush[a] = "writing"
  /\ recorder' = [recorder EXCEPT !.flush[a] = "none", !.copy[a] = 0]
  /\ steps' = [steps EXCEPT ![a].log = [lines |-> recorder.copy[a], ended |-> FALSE]]
  /\ UNCHANGED <<parser, pump, pipe>> /\ Outside

------------------------------------------------------------------------------
(* The end of run_claude, and what the runner does of the open steps.          *)

Leave(at, outcome) ==
  /\ pump' = [at |-> at, ends |-> <<>>, outcome |-> outcome]
  /\ cut' = (cut \/ pump.at = "write" \/ pump.ends # <<>>)

\* The output is closed: the process is waited for, without the watchdog,
EndOfOutput ==
  /\ pump.at = "read" /\ pipe = <<>> /\ leader # "alive"
  /\ pump' = [pump EXCEPT !.at = "wait"]
  /\ UNCHANGED <<notifies, claude, parser, recorder, steps, cut>>

\* until it exits.
Waited ==
  /\ pump.at = "wait" /\ leader = "exited"
  /\ Leave("close", "over")
  /\ UNCHANGED <<notifies, claude, parser, recorder, steps>>

\* Mutation of Stall: the watchdog only looks at a session without open steps.
StallWithoutAgents ==
  /\ pump.at = "read" /\ pipe = <<>> /\ recorder.open = {}
  /\ Leave("sigterm", "stalled")
  /\ UNCHANGED <<notifies, claude, parser, recorder, steps>>

\* The watchdog: nothing was written for STUDIO_STALL_TIMEOUT_S.
Stall ==
  /\ pump.at = "read" /\ pipe = <<>>
  /\ Leave("sigterm", "stalled")
  /\ UNCHANGED <<notifies, claude, parser, recorder, steps>>

\* A stop, the shutdown of the worker, or CLAUDE_STUDIO_TIMEOUT_S, wherever the
\* pump stands; a deferred write that was waited for is cancelled with it.
Cancel ==
  /\ pump.at \in {"read", "end", "write", "wait"}
  /\ Leave("sigterm", "cancelled")
  /\ recorder' = IF pump.at = "write" THEN [recorder EXCEPT !.flush[Head(pump.ends).id] = "none"] ELSE recorder
  /\ UNCHANGED <<notifies, claude, parser, steps>>

\* terminate_proc: nothing for a process that has exited; SIGTERM to its group,
Terminate ==
  /\ pump.at = "sigterm"
  /\ IF leader = "exited" THEN pump' = [pump EXCEPT !.at = "close"] /\ UNCHANGED leader
     ELSE /\ pump' = [pump EXCEPT !.at = "sigkill"]
          /\ leader' \in {leader, "exited"}
  /\ UNCHANGED <<notifies, work, pipe, written, parser, recorder, steps, cut>>

\* and SIGKILL.
KillGroup ==
  /\ pump.at = "sigkill"
  /\ pump' = [pump EXCEPT !.at = "close"] /\ leader' = "exited"
  /\ UNCHANGED <<notifies, work, pipe, written, parser, recorder, steps, cut>>

\* The statuses close_dangling may be given: `interrupted` for what can be
\* resumed (a usage limit, killed tasks, a silence, a shutdown).
Endings ==
  CASE pump.outcome = "over" -> {"failed", "interrupted"}
    [] pump.outcome = "stalled" -> {"interrupted", "failed"}
    [] pump.outcome = "cancelled" -> {"stopped", "interrupted", "failed"}


\* close_dangling; and mark_limit_interrupted, on a pause.
CloseDangling ==
  /\ pump.at = "close" /\ \A a \in recorder.open : recorder.flush[a] # "writing"
  /\ \E s \in Endings, pause \in BOOLEAN :
       /\ pause => s = "interrupted" /\ recorder.limit # {}
       /\ steps' = [a \in Agents |->
            IF a \in recorder.open THEN Closed(a, s)
            ELSE IF pause /\ a \in recorder.limit THEN [steps[a] EXCEPT !.status = "interrupted"] ELSE steps[a]]
  /\ recorder' = [recorder EXCEPT !.open = {}, !.limit = {},
                                  !.flush = [a \in Agents |-> IF a \in recorder.open THEN "none" ELSE recorder.flush[a]]]
  /\ pump' = [pump EXCEPT !.at = "closed"]
  /\ UNCHANGED <<notifies, claude, parser, cut>>

------------------------------------------------------------------------------
PumpStep ==
  \/ OnToolUse \/ OnTaskStarted \/ OnToolResult \/ OnTrace \/ OnTaskNotification \/ OnResult
  \/ EndStep \/ WriteEnd \/ EndOfOutput \/ Waited \/ Terminate \/ KillGroup \/ CloseDangling

Next ==
  \/ \E a \in Agents : LaunchAgent(a) \/ StartTask(a) \/ Acknowledge(a) \/ BeginWork(a) \/ Trace(a)
                        \/ Finish(a) \/ Fail(a) \/ Kill(a) \/ FlushBegins(a) \/ FlushEnds(a)
  \/ WriteResult \/ CloseOutput \/ Exit \/ PumpStep \/ WriteRefused \/ Stall \/ Cancel

Spec == Init /\ [][Next]_vars

\* The worker goes on: the pump, the deferred writes, the watchdog.  Claude
\* Code may be silent, or live on, for ever.
FairSpec ==
  /\ Spec /\ WF_vars(PumpStep) /\ WF_vars(Stall)
  /\ \A a \in Agents : WF_vars(FlushBegins(a)) /\ WF_vars(FlushEnds(a))

------------------------------------------------------------------------------
(* Properties.                                                                 *)

\* The log of a closed step is whole and ends with its last line: no deferred
\* write of _flush_later is committed after the final one (claude_studio.py,
\* _final_log).
FinalLogKept ==
  \A a \in Agents : steps[a].closed > 0 => steps[a].log = [lines |-> recorder.lines[a], ended |-> TRUE]

\* A step is closed once, and one of a background task is not taken for done on
\* the acknowledgement of its launch while the CLI notifies anything.
SuccessIsReal ==
  \A a \in Agents : /\ steps[a].closed <= 1
                    /\ steps[a].status = "success" => work[a] = "done" \/ ~notifies

\* When the session comes to its result, all that was done in it is recorded as
\* done, whichever way the CLI says so: the count of progress, on which the
\* resumption of the creation depends, misses nothing.
DoneIsRecorded ==
  pump.at = "closed" /\ pump.outcome = "over" /\ parser.result # "none" /\ ~cut
    => \A a \in Agents : work[a] = "done" => steps[a].status = "success"

\* The session ends, however silent Claude Code is: the watchdog covers every wait
\* of run_claude but the last one, `await proc.wait()`, where a process that has
\* closed its output and does not exit is waited for without end (nothing covers
\* it while CLAUDE_STUDIO_TIMEOUT_S is 0, the default).
SessionEnds == <>(pump.at = "closed") \/ <>[](pump.at = "wait" /\ leader = "closed")
==============================================================================

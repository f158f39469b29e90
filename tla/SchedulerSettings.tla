--------------------------- MODULE SchedulerSettings ---------------------------
(***************************************************************************)
(* The scheduler of the API process and its settings in the database: the  *)
(* switch of /scheduler/start and /stop, the planning of each job, and     *)
(* what of them is applied to APScheduler.  Requests are coroutines of one *)
(* process: what stands between two awaits is one step.                    *)
(***************************************************************************)
EXTENDS Naturals

CONSTANTS
  Jobs,       \* JOB_REGISTRY
  Crons,      \* valid cron expressions with their time zone
  Default,    \* [Jobs -> planning], JOB_DEFAULTS
  Requests,   \* requests that may be in progress at once
  MaxAsked    \* bound of the number of requests and restarts

Plannings == [enabled : BOOLEAN, cron : Crons]

SettingsAssumption == Jobs # {} /\ Default \in [Jobs -> Plannings] /\ MaxAsked \in Nat

VARIABLES
  allowed,   \* SCHEDULER_ENABLED of this process
  switch,    \* scheduler_settings.enabled
  stored,    \* scheduler_job_configs, or the defaults
  planned,   \* the jobs APScheduler holds, with their trigger (Off: none)
  running,   \* SchedulerService._running
  request,   \* the requests in progress
  asked,     \* requests and restarts so far
  raced      \* history: a start overlapped with a request, or two updates of one job

vars == <<allowed, switch, stored, planned, running, request, asked, raced>>

Off == "off"

Trigger(planning) == IF planning.enabled THEN planning.cron ELSE Off

AnyJob == CHOOSE j \in Jobs : TRUE

Quiet == [at |-> "idle", op |-> "none", job |-> AnyJob, fields |-> {}, new |-> Default[AnyJob], read |-> Default]

Init ==
  /\ allowed \in BOOLEAN /\ switch \in BOOLEAN
  /\ stored = Default /\ running = (allowed /\ switch)
  /\ planned = [j \in Jobs |-> IF running THEN Trigger(Default[j]) ELSE Off]
  /\ request = [c \in Requests |-> Quiet]
  /\ asked = 0 /\ raced = FALSE

SettingsTypeOK ==
  /\ allowed \in BOOLEAN /\ switch \in BOOLEAN /\ running \in BOOLEAN /\ raced \in BOOLEAN
  /\ stored \in [Jobs -> Plannings]
  /\ planned \in [Jobs -> Crons \cup {Off}]
  /\ \A c \in Requests :
       /\ request[c].at \in {"idle", "switch", "on", "off", "setup", "load", "save", "apply"}
       /\ request[c].read \in [Jobs -> Plannings]
  /\ asked \in 0 .. MaxAsked

At(c, label) == request[c].at = label

Busy == {c \in Requests : ~At(c, "idle")}

\* A request begins; those in progress that it may disturb are noted.
Ask(c, op, job, fields, new, at) ==
  /\ asked < MaxAsked /\ asked' = asked + 1
  /\ At(c, "idle")
  /\ request' = [request EXCEPT ![c] = [Quiet EXCEPT !.at = at, !.op = op, !.job = job,
                                                     !.fields = fields, !.new = new]]
  /\ raced' = (raced \/ \E d \in Busy : \/ "start" \in {op, request[d].op}
                                        \/ {op, request[d].op} = {"put"} /\ request[d].job = job)
  /\ UNCHANGED <<allowed, switch, stored, planned, running>>

AskStart(c) == Ask(c, "start", AnyJob, {}, Default[AnyJob], "switch")
AskStop(c) == Ask(c, "stop", AnyJob, {}, Default[AnyJob], "switch")

\* A PUT sets some of the fields (of the others `new` says nothing).
AskPut(c, j) ==
  \E fields \in SUBSET {"enabled", "cron"}, new \in Plannings :
    /\ fields # {}
    /\ "enabled" \in fields \/ new.enabled = Default[j].enabled
    /\ "cron" \in fields \/ new.cron = Default[j].cron
    /\ Ask(c, "put", j, fields, new, "load")

Goto(c, label) == request' = [request EXCEPT ![c].at = label]

Done(c) == request' = [request EXCEPT ![c] = Quiet]

\* set_enabled saves the switch, then applies it; a process without a right to
\* run the scheduler only stops it.
SaveSwitch(c) ==
  /\ At(c, "switch")
  /\ switch' = (request[c].op = "start")
  /\ CASE request[c].op = "stop" -> Goto(c, "off")
       [] request[c].op = "start" /\ allowed -> Goto(c, "on")
       [] OTHER -> Done(c)
  /\ UNCHANGED <<allowed, stored, planned, running, asked, raced>>

\* start: nothing if it runs; otherwise setup reads the plannings...
Start(c) ==
  /\ At(c, "on")
  /\ IF running THEN Done(c)
     ELSE request' = [request EXCEPT ![c].at = "setup", ![c].read = stored]
  /\ UNCHANGED <<allowed, switch, stored, planned, running, asked, raced>>

\* ... and applies them (a scheduler started meanwhile refuses to start again,
\* once the jobs are replaced).
Setup(c) ==
  /\ At(c, "setup")
  /\ planned' = [j \in Jobs |-> Trigger(request[c].read[j])]
  /\ running' = TRUE
  /\ Done(c)
  /\ UNCHANGED <<allowed, switch, stored, asked, raced>>

\* stop: shutdown and removal of all jobs.
Stop(c) ==
  /\ At(c, "off")
  /\ planned' = IF running THEN [j \in Jobs |-> Off] ELSE planned
  /\ running' = FALSE
  /\ Done(c)
  /\ UNCHANGED <<allowed, switch, stored, asked, raced>>

\* save_job_config reads the planning of the job, ...
Load(c) ==
  /\ At(c, "load")
  /\ request' = [request EXCEPT ![c].at = "save", ![c].read = stored]
  /\ UNCHANGED <<allowed, switch, stored, planned, running, asked, raced>>

Updated(c) ==
  LET given(field) == IF field \in request[c].fields THEN request[c].new ELSE request[c].read[request[c].job]
  IN  [enabled |-> given("enabled").enabled, cron |-> given("cron").cron]

\* ... and writes all its fields;
Save(c) ==
  /\ At(c, "save")
  /\ stored' = [stored EXCEPT ![request[c].job] = Updated(c)]
  /\ Goto(c, "apply")
  /\ UNCHANGED <<allowed, switch, planned, running, asked, raced>>

\* Mutation of Apply: a job switched off keeps its trigger.
ApplyEnabledOnly(c) ==
  /\ At(c, "apply")
  /\ planned' = IF running /\ Updated(c).enabled THEN [planned EXCEPT ![request[c].job] = Trigger(Updated(c))] ELSE planned
  /\ Done(c)
  /\ UNCHANGED <<allowed, switch, stored, running, asked, raced>>

\* update_job then plans the job anew, if the scheduler runs.
Apply(c) ==
  /\ At(c, "apply")
  /\ planned' = IF running THEN [planned EXCEPT ![request[c].job] = Trigger(Updated(c))] ELSE planned
  /\ Done(c)
  /\ UNCHANGED <<allowed, switch, stored, running, asked, raced>>

\* The process stops or dies and starts again: start_from_config reads the
\* switch and the plannings before anything is served.
Restart ==
  /\ asked < MaxAsked /\ asked' = asked + 1
  /\ running' = (allowed /\ switch)
  /\ planned' = [j \in Jobs |-> IF allowed /\ switch THEN Trigger(stored[j]) ELSE Off]
  /\ request' = [c \in Requests |-> Quiet] /\ raced' = FALSE
  /\ UNCHANGED <<allowed, switch, stored>>

Next ==
  \/ \E c \in Requests :
       \/ AskStart(c) \/ AskStop(c) \/ SaveSwitch(c) \/ Start(c) \/ Setup(c) \/ Stop(c)
       \/ Load(c) \/ Save(c) \/ Apply(c)
       \/ \E j \in Jobs : AskPut(c, j)
  \/ Restart

Spec == Init /\ [][Next]_vars

\* "Activation globale persistée en base, appliquée à chaud" (service.py): once
\* the requests are over, the scheduler runs exactly the plannings the database
\* holds.  Updates of different jobs may overlap with each other and with a
\* stop; a start may overlap with nothing (its setup would apply what it read
\* before), nor two updates of one job, until the next restart repairs it.
SettingsApplied ==
  Busy = {} /\ ~raced =>
    /\ running => allowed /\ switch
    /\ \A j \in Jobs : planned[j] = IF running THEN Trigger(stored[j]) ELSE Off
==============================================================================

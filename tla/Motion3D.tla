------------------------------- MODULE Motion3D -------------------------------
(***************************************************************************)
(* The 3D budget of a video: animate_template and animate_script reserve   *)
(* the duration of a 3D shot in a ledger, under a lock, before they render *)
(* it in the sandbox (module Sandbox), and restore the ledger when the     *)
(* rendering fails.  Several commands may be in progress in one run dir.   *)
(***************************************************************************)
EXTENDS FiniteSets, Naturals

CONSTANTS
  Shots,      \* --name of the shots
  Durations,  \* --duration, up to MAX_3D_DURATION_S
  Budget,     \* MOTION3D_BUDGET_S
  Commands,   \* commands that may be in progress at once
  MaxCommands \* bound of the number of commands

MotionAssumption ==
  /\ IsFiniteSet(Shots) /\ Shots # {} /\ "none" \notin Commands
  /\ Durations \subseteq Nat \ {0} /\ Budget \in Nat /\ MaxCommands \in Nat

VARIABLES
  command,   \* commands in progress
  holder,    \* holder of the flock
  ledger,    \* durations reserved (0: none)
  shot,      \* durations of the 3D shots in media/ (0: none, or a 2D shot)
  issued,    \* commands so far
  astray     \* history: a shot was rendered by two commands at once, or a command failed
             \* or was killed that had replaced, or was to replace, a 3D shot

vars == <<command, holder, ledger, shot, issued, astray>>

None == "none"
Rest == [at |-> "idle", name |-> CHOOSE s \in Shots : TRUE, length |-> 0, threeD |-> FALSE, seen |-> [s \in Shots |-> 0],
         previous |-> 0]

Init ==
  /\ command = [c \in Commands |-> Rest] /\ holder = None
  /\ ledger = [s \in Shots |-> 0] /\ shot = [s \in Shots |-> 0]
  /\ issued = 0 /\ astray = FALSE

Labels == {"idle", "enter", "reserve", "write", "render", "finish", "undo", "restore", "forget", "remove"}

Lengths == Durations \cup {0}

MotionTypeOK ==
  /\ command \in [Commands -> [at : Labels, name : Shots, length : Lengths, threeD : BOOLEAN,
                               seen : [Shots -> Lengths], previous : Lengths]]
  /\ holder \in Commands \cup {None}
  /\ ledger \in [Shots -> Lengths] /\ shot \in [Shots -> Lengths]
  /\ issued \in 0 .. MaxCommands /\ astray \in BOOLEAN

At(c, label) == command[c].at = label

Name(c) == command[c].name

Goto(c, label) == command' = [command EXCEPT ![c].at = label]

Ends(c) == command' = [command EXCEPT ![c] = Rest]

\* A preview and a 2D shot reserve nothing.
Issue(c, s, n, threeD) ==
  /\ At(c, "idle") /\ issued < MaxCommands /\ issued' = issued + 1
  /\ command' = [command EXCEPT ![c] = [Rest EXCEPT !.at = IF threeD THEN "enter" ELSE "render",
                                                    !.name = s, !.length = n, !.threeD = threeD]]
  /\ astray' = (astray \/ \E d \in Commands : ~At(d, "idle") /\ Name(d) = s)
  /\ UNCHANGED <<holder, ledger, shot>>

\* Mutation of Enter: no lock.
EnterUnlocked(c) ==
  /\ holder' = c
  /\ \/ At(c, "enter") /\ Goto(c, "reserve")
     \/ At(c, "undo") /\ Goto(c, "restore")
     \/ At(c, "forget") /\ Goto(c, "remove")
  /\ UNCHANGED <<ledger, shot, issued, astray>>

\* _ledger_lock: for the check, the restoration and the removal.
Enter(c) ==
  /\ holder = None /\ holder' = c
  /\ \/ At(c, "enter") /\ Goto(c, "reserve")
     \/ At(c, "undo") /\ Goto(c, "restore")
     \/ At(c, "forget") /\ Goto(c, "remove")
  /\ UNCHANGED <<ledger, shot, issued, astray>>

\* The seconds that some shots hold, each with the name of its shot: there are as many
\* of them as their durations sum up to.
Seconds(l, others) == UNION {{s} \X (1 .. l[s]) : s \in others}
Sum(l, others) == Cardinality(Seconds(l, others))

\* What the other shots hold and this one must fit.
Reserve(c) ==
  /\ At(c, "reserve")
  /\ IF Sum(ledger, Shots \ {Name(c)}) + command[c].length > Budget
     THEN Ends(c) /\ holder' = None
     ELSE /\ command' = [command EXCEPT ![c].at = "write", ![c].seen = ledger, ![c].previous = ledger[Name(c)]]
          /\ UNCHANGED holder
  /\ UNCHANGED <<ledger, shot, issued, astray>>

WriteLedger(c) ==
  /\ At(c, "write")
  /\ ledger' = [command[c].seen EXCEPT ![Name(c)] = command[c].length]
  /\ holder' = None /\ Goto(c, "render")
  /\ UNCHANGED <<shot, issued, astray>>

Failed(c) == IF command[c].threeD THEN Goto(c, "undo") ELSE Ends(c)

Replaces(c) == command[c].threeD /\ command[c].previous # 0

\* The sandbox, then the encoding into a file of its own.
Render(c) ==
  /\ At(c, "render")
  /\ \/ Goto(c, "finish") /\ UNCHANGED astray
     \/ Failed(c) /\ astray' = (astray \/ Replaces(c))
  /\ UNCHANGED <<holder, ledger, shot, issued>>

\* The file takes its place; the contact sheet made of it may fail.
Finish(c) ==
  /\ At(c, "finish")
  /\ shot' = [shot EXCEPT ![Name(c)] = IF command[c].threeD THEN command[c].length ELSE 0]
  /\ \/ /\ IF command[c].threeD THEN Ends(c) ELSE Goto(c, "forget")
        /\ UNCHANGED astray
     \/ Failed(c) /\ astray' = (astray \/ command[c].threeD)
  /\ UNCHANGED <<holder, ledger, issued>>

\* _motion3d_reservation, after an exception: the entry as it was found.
Restore(c) ==
  /\ At(c, "restore")
  /\ ledger' = [ledger EXCEPT ![Name(c)] = command[c].previous]
  /\ holder' = None /\ Ends(c)
  /\ UNCHANGED <<shot, issued, astray>>

\* _forget_3d
Remove(c) ==
  /\ At(c, "remove")
  /\ ledger' = [ledger EXCEPT ![Name(c)] = 0]
  /\ holder' = None /\ Ends(c)
  /\ UNCHANGED <<shot, issued, astray>>

\* SIGKILL: the lock falls, the reservation stays; a ledger cut short by it is
\* taken for an empty one (_ledger).
Kill(c) ==
  /\ ~At(c, "idle")
  /\ holder' = IF holder = c THEN None ELSE holder
  /\ Ends(c)
  /\ \/ UNCHANGED ledger /\ astray' = (astray \/ Replaces(c))
     \/ /\ command[c].at \in {"write", "restore", "remove"}
        /\ ledger' = [s \in Shots |-> 0] /\ astray' = TRUE
  /\ UNCHANGED <<shot, issued>>

Next ==
  \E c \in Commands :
    \/ Enter(c) \/ Reserve(c) \/ WriteLedger(c) \/ Render(c) \/ Finish(c) \/ Restore(c) \/ Remove(c) \/ Kill(c)
    \/ \E s \in Shots, n \in Durations, threeD \in BOOLEAN : Issue(c, s, n, threeD)

Spec == Init /\ [][Next]_vars

------------------------------------------------------------------------------
(* Properties.                                                                 *)

\* "20 s de 3D par video (l'outil refuse au-dela)" (motion3d.md): with the commands
\* over, the 3D shots of the video last no longer than the budget, whatever ran in
\* parallel, failed or was rendered again in 2D -- as long as no two commands
\* rendered one shot at once and none failed that had replaced, or was to replace,
\* a 3D shot: the ledger then loses the duration of the file that is there.
ShotsFit ==
  ~astray /\ (\A c \in Commands : At(c, "idle")) => Sum(shot, Shots) <= Budget
==============================================================================

------------------------------ MODULE AtMostOnce ------------------------------
(***************************************************************************)
(* What the publisher and the comment agent both promise: the call that    *)
(* has an outside effect (an upload, a public answer) is made for a thing  *)
(* once at most, and only after the thing was taken out of the open ones,  *)
(* where it never returns.  What a call leaves outside when the client     *)
(* sends its request again is a property of the detailed modules.          *)
(***************************************************************************)
EXTENDS Naturals

CONSTANT Things

VARIABLES state, effects

Init == state = [x \in Things |-> "unknown"] /\ effects = [x \in Things |-> 0]

Act(x) ==
  /\ state[x] = "closed" /\ effects[x] = 0
  /\ effects' = [effects EXCEPT ![x] = 1]
  /\ UNCHANGED state

\* Things become known, open or closed already (an ignored comment), and others
\* are taken, or given up; one transaction may do both.
Record(X, Y) ==
  /\ \A x \in X : state[x] = "unknown"
  /\ \A y \in Y : state[y] = "open"
  /\ \E s \in [X -> {"open", "closed"}] :
       state' = [x \in Things |-> IF x \in X THEN s[x] ELSE IF x \in Y THEN "closed" ELSE state[x]]
  /\ UNCHANGED effects

Next ==
  \/ \E X, Y \in SUBSET Things : Record(X, Y)
  \/ \E x \in Things : Act(x)

Spec == Init /\ [][Next]_<<state, effects>>
===============================================================================

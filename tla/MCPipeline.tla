------------------------------ MODULE MCPipeline ------------------------------
(* Instances of Pipeline for TLC.                                             *)
EXTENDS Pipeline, TLC

CONSTANTS p1, p2, p3, c1, c2

\* All projects on one channel, or the third one alone on another.
OneChannel == [p \in Projects |-> c1]
TwoChannels == [p \in Projects |-> IF p = p3 THEN c2 ELSE c1]

OneSlot == [c \in Channels |-> 1]

\* Owners' plans: the same priority, or the first project's better.
SamePriority == [p \in Projects |-> 10]
FirstBetter == [p \in Projects |-> IF p = p1 THEN 20 ELSE 10]

ProjectSymmetry == Permutations(Projects)
==============================================================================

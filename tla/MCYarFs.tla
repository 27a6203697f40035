------------------------------ MODULE MCYarFs ------------------------------
(* Values of the constants of YarFs for TLC. *)
EXTENDS YarFs

CONSTANTS c1, c2

NameLens == [c \in Cmd |-> IF c = c1 THEN 1 ELSE 2]
LinkLens == [c \in Cmd |-> 1]
LineLens == [c \in Cmd |-> 1]

Call == [dir : 1..4, name : {"a", "b"}, type : {"REGULAR", "DIRECTORY"}]

\* yar's own, every other with at most three calls, and one too many
AllBuilds ==
  {yarfsCreate, [k \in 1..6 |-> yarfsCreate[1]]}
    \cup UNION {{b \in [1..n -> Call] : Feasible(b)} : n \in 0..3}
=============================================================================

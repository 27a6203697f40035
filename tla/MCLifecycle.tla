---------------------------- MODULE MCLifecycle ----------------------------
(* Values of the constants of Lifecycle for TLC. *)
EXTENDS Lifecycle

CONSTANTS c1, c2

NoDelay  == [c \in Cmd |-> 0]
OneSlow  == [c \in Cmd |-> IF c = c1 THEN 0 ELSE 1]
NoReady  == <<>>
ReadyA   == <<"a">>
=============================================================================

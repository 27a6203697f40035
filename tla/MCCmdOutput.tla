---------------------------- MODULE MCCmdOutput ----------------------------
(* Values of the constants of CmdOutput for TLC. *)
EXTENDS CmdOutput

NoReady == <<>>
ReadyABA == <<"a", "b", "a">>
=============================================================================

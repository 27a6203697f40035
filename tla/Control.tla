------------------------------ MODULE Control ------------------------------
(***************************************************************************)
(* The two ways in which yar is told what to do.                           *)
(*                                                                         *)
(* The monitor tty: monEvent reads one byte per event into GBLS.mon.line   *)
(* and hands a complete line to monProcess.                                *)
(*                                                                         *)
(* Signals: yar blocks the signals of sigAddTermSignals and receives them  *)
(* as events of a signalfd, registered edge triggered.  sigEvent reads one *)
(* signal per event.  The kernel keeps the pending signals as a set, gives *)
(* the lowest number first, and marks the signalfd ready each time a       *)
(* signal becomes pending.                                                 *)
(***************************************************************************)
EXTENDS Integers, Sequences

CONSTANTS
  LineLen,   \* MON_LINELEN
  Byte,      \* the bytes monitor clients write
  NL,        \* the newline
  MaxTyped,  \* bound: the length of a line a client types
  Raised     \* the signals that are sent to yar

SIGHUP    == 1
SIGINT    == 2
SIGQUIT   == 3
SIGUSR1   == 10
SIGUSR2   == 12
SIGPIPE   == 13
SIGALRM   == 14
SIGTERM   == 15
SIGVTALRM == 26
SIGIO     == 29

\* The signals that are blocked and turned into events
sigAddTermSignals ==
  {SIGALRM, SIGTERM, SIGINT, SIGHUP, SIGQUIT, SIGUSR1, SIGVTALRM, SIGUSR2,
   SIGPIPE, SIGIO}

ASSUME LineAssumption ==
  LineLen \in Nat \ {0} /\ MaxTyped \in Nat /\ NL \in Byte
ASSUME RaisedAssumption == Raised \subseteq sigAddTermSignals

VARIABLES
  line,     \* the first GBLS.mon.n bytes of GBLS.mon.line
  ran,      \* the line monProcess was last called with
  typed,    \* history: what clients have typed of the current line
  pending,  \* the blocked signals that have been sent and not read
  edge,     \* the signalfd is on epoll's list of ready descriptors
  inbatch,  \* its event has been returned by epoll_wait
  up        \* theLoop is running

mon == <<line, ran, typed>>
sig == <<pending, edge, inbatch, up>>
vars == <<mon, sig>>

Init ==
  /\ line = <<>> /\ ran = <<>> /\ typed = <<>>
  /\ pending = {} /\ edge = FALSE /\ inbatch = FALSE /\ up = TRUE

-----------------------------------------------------------------------------
(* The monitor *)

\* Mutant: GBLS.mon.n is not reset after monProcess
Assemble_NoReset(b) ==
  LET cur == Append(line, b)
  IN  IF Len(cur) = LineLen THEN line' = <<>> /\ UNCHANGED ran
      ELSE line' = cur /\ ran' = IF b = NL THEN line ELSE ran

\* Mutant: the line is handed on a byte early
Assemble_Early(b) ==
  LET cur == Append(line, b)
  IN  \/ /\ Len(cur) + 1 = LineLen
         /\ line' = <<>> /\ ran' = cur
      \/ /\ Len(cur) + 1 < LineLen /\ b # NL
         /\ line' = cur /\ UNCHANGED ran
      \/ /\ Len(cur) + 1 < LineLen /\ b = NL
         /\ line' = <<>> /\ ran' = line

\* The test for a full line looks at the byte behind the buffer, the '/' of
\* mon.tty.path, so that a line is dropped when its LineLen-th byte arrives
\* even if that is the newline
Assemble(b) ==
  LET cur == Append(line, b)
  IN  \/ /\ Len(cur) = LineLen
         /\ line' = <<>> /\ UNCHANGED ran
      \/ /\ Len(cur) < LineLen /\ b # NL
         /\ line' = cur /\ UNCHANGED ran
      \/ /\ Len(cur) < LineLen /\ b = NL
         /\ line' = <<>> /\ ran' = line

monEvent(b) ==
  /\ up
  /\ Len(typed) < MaxTyped \/ b = NL
  /\ Assemble(b)
  /\ typed' = IF b = NL THEN <<>> ELSE Append(typed, b)
  /\ UNCHANGED sig

-----------------------------------------------------------------------------
(* Signals *)

\* Mutant: an exit signal is missing from the cases of sigEvent
ExitSignals_NoInt ==
  {SIGALRM, SIGTERM, SIGHUP, SIGUSR1, SIGVTALRM, SIGUSR2, SIGPIPE, SIGIO}

\* The cases of sigEvent that end the loop.  SIGQUIT is not one of them.
ExitSignals ==
  {SIGALRM, SIGTERM, SIGINT, SIGHUP, SIGUSR1, SIGVTALRM, SIGUSR2, SIGPIPE,
   SIGIO}

\* A signal that is pending already is not queued twice, and wakes nobody
Raise(s) ==
  /\ up /\ s \notin pending
  /\ pending' = pending \cup {s}
  /\ edge' = TRUE
  /\ UNCHANGED <<mon, inbatch, up>>

\* Edge triggered: the descriptor leaves the list whether or not all is read
EpollWait ==
  /\ up /\ ~inbatch /\ edge
  /\ edge' = FALSE /\ inbatch' = TRUE
  /\ UNCHANGED <<mon, pending, up>>

sigEvent ==
  /\ up /\ inbatch
  /\ \E s \in pending :
       /\ \A t \in pending : s <= t
       /\ pending' = pending \ {s}
       /\ up' = (s \notin ExitSignals)
  /\ inbatch' = FALSE
  /\ UNCHANGED <<mon, edge>>

Ended == ~up /\ UNCHANGED vars

Next ==
  \/ \E b \in Byte : monEvent(b)
  \/ \E s \in Raised : Raise(s)
  \/ EpollWait \/ sigEvent \/ Ended

\* A ready signalfd is returned by epoll_wait, and a batch is worked off
Spec == Init /\ [][Next]_vars /\ WF_vars(EpollWait \/ sigEvent)

-----------------------------------------------------------------------------
\* The monitor's buffer is in step with its client: up to the length that fits
\* it holds the current line and nothing of an earlier one, whatever monEvent
\* dropped before.
InStep ==
  /\ Len(line) < LineLen
  /\ Len(typed) < LineLen => line = typed

\* monProcess is called with every line that fits, as it was typed.
ShortLinesRun ==
  [][typed # <<>> /\ typed' = <<>> /\ Len(typed) + 1 < LineLen
       => ran' = typed]_vars

\* An exit signal numbered below SIGQUIT ends yar whatever else is pending and
\* however sigEvent's reads and new signals interleave.  (A higher one may be
\* left unread behind a SIGQUIT.)
HangupEnds == \A s \in {SIGHUP, SIGINT} : s \in pending ~> ~up
=============================================================================

------------------------------ MODULE BcstLine ------------------------------
(***************************************************************************)
(* What yar promises about one command's output on the broadcast tty       *)
(* (usage text of main.c, -l and -p; linebufferbcst in yar.h): byte by     *)
(* byte when line buffering is off; when it is on, whole lines at a time,  *)
(* each in one piece and behind the command's name if prefixing is on, cut *)
(* to its last Size bytes if it is longer than the buffer.                 *)
(*                                                                         *)
(* The promise is weaker for the first line that ends with line buffering  *)
(* on after a character was printed with it off, be it a newline, and for  *)
(* the line that follows a drain of an overlong one.  That line is still   *)
(* written whole, but bytes printed before it, complete lines included,    *)
(* may be written again in front of it: only the line's newline tells the  *)
(* buffer where a line starts.  After it the promise is in force again.    *)
(***************************************************************************)
EXTENDS Integers, Sequences

CONSTANTS Size, Char, NL

VARIABLES
  line,      \* what has been printed and is still owed to the readers
  settled,   \* the promise is in force, not its weaker form
  sent,      \* the last thing written to the broadcast tty
  bcstflg, linebufferbcst, prefixbcst

modes == <<bcstflg, linebufferbcst, prefixbcst>>
vars == <<line, settled, sent, modes>>

Write(prefix, text) == [prefix |-> prefix, text |-> text]

LastN(s, n) == IF Len(s) <= n THEN s ELSE SubSeq(s, Len(s) - n + 1, Len(s))

Buffering == bcstflg /\ linebufferbcst

\* What is owed after one more character: a line not yet ended
Owed(ch) ==
  IF Buffering /\ ch # NL THEN LastN(Append(line, ch), Size) ELSE <<>>

\* In force again after a newline, if it was collected; off after any
\* character, a newline too, that was not
Settled(ch) == Buffering /\ (settled \/ ch = NL)

Init ==
  /\ bcstflg \in BOOLEAN /\ linebufferbcst \in BOOLEAN
  /\ prefixbcst \in BOOLEAN
  /\ line = <<>> /\ settled = TRUE /\ sent = Write(FALSE, <<>>)

Exact(ch) ==
  sent' = IF Buffering
          THEN IF ch = NL
               THEN Write(prefixbcst, LastN(Append(line, NL), Size))
               ELSE sent
          ELSE IF bcstflg THEN Write(FALSE, <<ch>>) ELSE sent

\* The line ends what is written, but may not begin it
Weaker(ch) ==
  LET owed == LastN(Append(line, NL), Size)
  IN  /\ Buffering /\ ch = NL /\ ~settled
      /\ sent'.prefix = prefixbcst
      /\ Len(sent'.text) <= Size
      /\ LastN(sent'.text, Len(owed)) = owed

Printed(ch) ==
  /\ line' = Owed(ch) /\ settled' = Settled(ch)
  /\ UNCHANGED modes

\* The monitor may change the mode at any time, but not take the tty away
ChangeModes ==
  /\ bcstflg => bcstflg'
  /\ modes' \in BOOLEAN \X BOOLEAN \X BOOLEAN
  /\ UNCHANGED <<line, settled, sent>>

Drain ==
  /\ line' = <<>>
  /\ settled' = (settled /\ Len(line) < Size)
  /\ UNCHANGED <<sent, modes>>

Next ==
  \/ \E ch \in Char : Printed(ch) /\ (Exact(ch) \/ Weaker(ch))
  \/ ChangeModes \/ Drain

Spec == Init /\ [][Next]_vars
=============================================================================

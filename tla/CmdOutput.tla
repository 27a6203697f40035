----------------------------- MODULE CmdOutput -----------------------------
(***************************************************************************)
(* What yar does with one command's output, a character at a time          *)
(* (cmdttyProcessOutput, cmd.c): match it against the ready string, keep   *)
(* it in a circular buffer, and write it to the broadcast tty, at once or  *)
(* line by line out of the buffer.  The monitor turns line buffering and   *)
(* prefixing on and off, creates the broadcast tty by adding a second      *)
(* command, and drains, all while a line may be half way in.               *)
(***************************************************************************)
EXTENDS Integers, Sequences

CONSTANTS
  Size,      \* CMD_BUFSIZE
  Char,      \* the characters a command prints
  NL,        \* the newline
  Zero,      \* a byte of the buffer that was never written
  ReadyStr,  \* GBLS.readystr; the empty sequence if not given
  Controls,  \* what the monitor is asked to do
  MaxN,      \* bound: bufn, a size_t that only monDrain resets
  MaxOf      \* bound: bufof, an int that monDrain does not reset

ASSUME BufAssumption ==
  /\ Size \in Nat \ {0} /\ MaxN \in Nat /\ MaxOf \in Nat
  /\ NL \in Char /\ Zero \notin Char
  /\ ReadyStr \in Seq(Char)
  /\ Controls \subseteq {"line", "prefix", "add", "drain"}

VARIABLES
  buf, bufn, bufstart, bufof, readycnt,   \* fields of cmd_t
  bcstflg, linebufferbcst, prefixbcst,    \* fields of GBLS
  sent,     \* what the last writes to the broadcast tty put there together
  line,     \* history: what is owed to the broadcast's readers
  settled,  \* history: whether that is in the buffer and nothing else
  heard     \* history: the last characters read until the command was ready

Promise == INSTANCE BcstLine WITH
  Size <- Size, Char <- Char, NL <- NL,
  line <- line, settled <- settled, sent <- sent, bcstflg <- bcstflg,
  linebufferbcst <- linebufferbcst, prefixbcst <- prefixbcst

ring == <<buf, bufn, bufstart, bufof>>
modes == <<bcstflg, linebufferbcst, prefixbcst>>
vars == <<ring, readycnt, modes, sent, line, settled, heard>>

RLen == Len(ReadyStr)

-----------------------------------------------------------------------------
cmdbufNtoI(n) == n % Size

Slice(b, from, len) == [k \in 1..len |-> b[from + k - 1]]

\* Mutant: a line that wraps is cut at the end of the buffer
BufferedLine_NoWrap(b, n, start, of) ==
  LET s == cmdbufNtoI(start)
      end == cmdbufNtoI(n)
  IN  IF of = 0 /\ s <= end THEN Slice(b, s, end - s + 1)
      ELSE Slice(b, 0, end + 1)

\* The line that ends at index n of the stream and began at start: one write,
\* or two if it wraps.  Once it has overflowed, start is irrelevant.
BufferedLine(b, n, start, of) ==
  LET s == cmdbufNtoI(start)
      end == cmdbufNtoI(n)
  IN  IF of = 0
      THEN IF s <= end THEN Slice(b, s, end - s + 1)
           ELSE Slice(b, s, Size - s) \o Slice(b, 0, end + 1)
      ELSE Slice(b, end + 1, Size - (end + 1)) \o Slice(b, 0, end + 1)

\* Mutant: overflow is not recorded
Overflow_Never == bufof

\* bufof after the character at bufn is in
Overflow == IF cmdbufNtoI(bufn + 1) = cmdbufNtoI(bufstart)
            THEN bufof + 1 ELSE bufof

\* Mutant: a mismatch does not start the match again
ReadyMatch_NoReset(ch) ==
  IF readycnt = RLen THEN readycnt
  ELSE IF ReadyStr[readycnt + 1] = ch THEN readycnt + 1 ELSE readycnt

ReadyMatch(ch) ==
  IF readycnt = RLen THEN readycnt
  ELSE IF ReadyStr[readycnt + 1] = ch THEN readycnt + 1 ELSE 0

Init ==
  /\ buf = [i \in 0..(Size - 1) |-> Zero]
  /\ bufn = 0 /\ bufstart = 0 /\ bufof = 0 /\ readycnt = 0
  /\ bcstflg \in BOOLEAN /\ linebufferbcst \in BOOLEAN
  /\ prefixbcst \in BOOLEAN
  /\ sent = Promise!Write(FALSE, <<>>)
  /\ line = <<>> /\ settled = TRUE /\ heard = <<>>

\* Line buffering: the line goes out, behind its prefix, when it ends
BufferLine(ch) ==
  IF ch = NL
  THEN /\ sent' = Promise!Write(prefixbcst,
                                BufferedLine(buf', bufn, bufstart, Overflow))
       /\ bufof' = 0
       /\ bufstart' = bufn + 1
  ELSE /\ bufof' = Overflow
       /\ UNCHANGED <<sent, bufstart>>

cmdttyProcessOutput(ch) ==
  /\ bufn < MaxN /\ bufof < MaxOf
  /\ readycnt' = ReadyMatch(ch)
  /\ buf' = [buf EXCEPT ![cmdbufNtoI(bufn)] = ch]
  /\ bufn' = bufn + 1
  /\ \/ /\ ~bcstflg
        /\ UNCHANGED <<sent, bufstart, bufof>>
     \/ /\ bcstflg /\ ~linebufferbcst
        /\ sent' = Promise!Write(FALSE, <<ch>>)
        /\ UNCHANGED <<bufstart, bufof>>
     \/ /\ bcstflg /\ linebufferbcst
        /\ BufferLine(ch)
  /\ UNCHANGED modes
  /\ line' = Promise!Owed(ch)
  /\ settled' = Promise!Settled(ch)
  /\ heard' = IF readycnt = RLen THEN heard
              ELSE Promise!LastN(Append(heard, ch), RLen)

\* The history is not touched by a mode change
Toggle == UNCHANGED <<ring, readycnt, sent, line, settled, heard>>

monToggleLB ==
  /\ "line" \in Controls
  /\ linebufferbcst' = ~linebufferbcst
  /\ UNCHANGED <<bcstflg, prefixbcst>>
  /\ Toggle

monTogglePrefix ==
  /\ "prefix" \in Controls
  /\ prefixbcst' = ~prefixbcst
  /\ UNCHANGED <<bcstflg, linebufferbcst>>
  /\ Toggle

\* monAdd of the second command creates the broadcast tty
monAdd ==
  /\ "add" \in Controls
  /\ ~bcstflg /\ bcstflg' = TRUE
  /\ UNCHANGED <<linebufferbcst, prefixbcst>>
  /\ Toggle

\* Mutant: the count is reset, the start of the line is not
monDrain_CountOnly ==
  /\ "drain" \in Controls
  /\ bufn' = 0
  /\ line' = <<>> /\ settled' = (settled /\ bufof = 0)
  /\ UNCHANGED <<buf, bufstart, bufof, readycnt, modes, sent, heard>>

\* What monDrain does to a command once it has read all its output
monDrain ==
  /\ "drain" \in Controls
  /\ bufstart' = 0 /\ bufn' = 0
  /\ line' = <<>> /\ settled' = (settled /\ bufof = 0)
  /\ UNCHANGED <<buf, bufof, readycnt, modes, sent, heard>>

Next ==
  \/ \E ch \in Char : cmdttyProcessOutput(ch)
  \/ monToggleLB \/ monTogglePrefix \/ monAdd \/ monDrain

Spec == Init /\ [][Next]_vars

-----------------------------------------------------------------------------
(* Properties *)

TypeOK ==
  /\ buf \in [0..(Size - 1) -> Char \cup {Zero}]
  /\ bufn \in 0..MaxN /\ bufstart \in 0..bufn /\ bufof \in 0..MaxOf
  /\ readycnt \in 0..RLen
  /\ bcstflg \in BOOLEAN /\ linebufferbcst \in BOOLEAN
  /\ prefixbcst \in BOOLEAN
  /\ sent.prefix \in BOOLEAN
  /\ sent.text \in Seq(Char \cup {Zero}) /\ Len(sent.text) <= Size
  /\ line \in Seq(Char) /\ Len(line) <= Size
  /\ settled \in BOOLEAN
  /\ heard \in Seq(Char) /\ Len(heard) <= RLen

\* What reaches the broadcast tty is what BcstLine promises: the circular
\* buffer of cmdttyProcessOutput, with its wrap and overflow cases, gives back
\* every line exactly, or exactly its last Size bytes.  Whatever the monitor
\* toggles, adds or drains, and whenever, no byte of a line is lost: at worst
\* older bytes are written again in front of the first line that is buffered.
PromiseKept == Promise!Spec

\* readycnt is the length of the part of the ready string that the output has
\* just matched: a command is only taken to be ready when it has printed the
\* whole string without a gap.
ReadyHeard ==
  /\ readycnt <= Len(heard)
  /\ SubSeq(heard, Len(heard) - readycnt + 1, Len(heard))
       = SubSeq(ReadyStr, 1, readycnt)
=============================================================================

---------------------------- MODULE ControlProofs ----------------------------
(***************************************************************************)
(* The monitor's line buffer (monEvent, main.c): for every length of the   *)
(* buffer and lines of any length, it is in step with the client, and      *)
(* monProcess is called with every line that fits.                         *)
(***************************************************************************)
EXTENDS Control, TLAPS

\* The shape of the monitor's part of the state
MonTypeOK == line \in Seq(Byte) /\ typed \in Seq(Byte)

\* InStep is not inductive by itself: that a line dropped half way leaves the
\* buffer shorter than what was typed needs the lengths to be numbers
MonInv == MonTypeOK /\ InStep

\* A byte of a client keeps the buffer in step, whether it is stored, ends a
\* line, or makes the line too long
LEMMA MonEventStep ==
  ASSUME MonInv, NEW b \in Byte, monEvent(b)
  PROVE  MonInv'
<1>1. /\ Len(line) \in Nat /\ Len(typed) \in Nat /\ LineLen \in Nat \ {0}
      /\ Append(line, b) \in Seq(Byte) /\ Append(typed, b) \in Seq(Byte)
      /\ Len(Append(line, b)) = Len(line) + 1
      /\ Len(Append(typed, b)) = Len(typed) + 1
      /\ <<>> \in Seq(Byte) /\ Len(<<>>) = 0
  BY LineAssumption DEF MonInv, MonTypeOK
<1>2. CASE Len(Append(line, b)) = LineLen
  <2>1. line' = <<>>
    BY <1>1, <1>2 DEF monEvent, Assemble
  <2>2. CASE b = NL
    BY <1>1, <2>1, <2>2 DEF MonInv, MonTypeOK, InStep, monEvent
  <2>3. CASE b # NL
    <3>1. typed' = Append(typed, b)
      BY <2>3 DEF monEvent
    <3>2. ~(Len(typed) + 1 < LineLen)
      BY <1>1, <1>2 DEF MonInv, InStep
    <3> QED
      BY <1>1, <2>1, <3>1, <3>2 DEF MonInv, MonTypeOK, InStep
  <2> QED
    BY <2>2, <2>3
<1>3. CASE Len(Append(line, b)) < LineLen /\ b # NL
  <2>1. line' = Append(line, b) /\ typed' = Append(typed, b)
    BY <1>1, <1>3 DEF monEvent, Assemble
  <2>2. Len(typed) + 1 < LineLen => line = typed
    BY <1>1 DEF MonInv, InStep
  <2> QED
    BY <1>1, <1>3, <2>1, <2>2 DEF MonInv, MonTypeOK, InStep
<1>4. CASE Len(Append(line, b)) < LineLen /\ b = NL
  <2>1. line' = <<>> /\ typed' = <<>>
    BY <1>1, <1>4 DEF monEvent, Assemble
  <2> QED
    BY <1>1, <2>1 DEF MonInv, MonTypeOK, InStep
<1> QED
  BY <1>2, <1>3, <1>4 DEF monEvent, Assemble

\* Signals leave the monitor alone
LEMMA MonStep == MonInv /\ [Next]_vars => MonInv'
<1> SUFFICES ASSUME MonInv, [Next]_vars
             PROVE  MonInv'
  OBVIOUS
<1>1. ASSUME NEW b \in Byte, monEvent(b)
      PROVE  MonInv'
  BY <1>1, MonEventStep
<1>2. CASE UNCHANGED mon
  BY <1>2 DEF mon, MonInv, MonTypeOK, InStep
<1> QED
  BY <1>1, <1>2 DEF Next, Raise, EpollWait, sigEvent, Ended, vars

\* Nothing has been typed when yar starts.
LEMMA MonInit == Init => MonInv
<1>1. <<>> \in Seq(Byte) /\ Len(<<>>) = 0
  OBVIOUS
<1> QED
  BY <1>1, LineAssumption DEF Init, MonInv, MonTypeOK, InStep

\* However long the lines that clients type, and whatever monEvent has dropped,
\* the buffer never runs over and holds nothing of an earlier line
THEOREM MonitorInStep == Spec => []InStep
<1>1. MonInv => InStep
  BY DEF MonInv
<1> QED
  BY <1>1, MonInit, MonStep, PTL DEF Spec

\* monProcess is called with each line that is shorter than the buffer, as it
\* was typed: no prefix of it is lost and nothing of another is left in front
THEOREM LinesRunAsTyped == Spec => ShortLinesRun
<1> DEFINE A == typed # <<>> /\ typed' = <<>> /\ Len(typed) + 1 < LineLen
                  => ran' = typed
<1>1. MonInv /\ [Next]_vars => [A]_vars
  <2> SUFFICES ASSUME MonInv, Next, typed # <<>>, typed' = <<>>,
                      Len(typed) + 1 < LineLen
               PROVE  ran' = typed
    OBVIOUS
  <2>1. PICK b \in Byte : monEvent(b)
    BY DEF Next, Raise, EpollWait, sigEvent, Ended, vars, mon
  <2>2. line = typed
    BY LineAssumption DEF MonInv, MonTypeOK, InStep
  <2>3. /\ Len(typed) \in Nat /\ Len(Append(typed, b)) = Len(typed) + 1
        /\ Append(typed, b) # <<>> /\ LineLen \in Nat
    BY LineAssumption DEF MonInv, MonTypeOK
  <2>4. b = NL
    BY <2>1, <2>3 DEF monEvent
  <2> QED
    BY <2>1, <2>2, <2>3, <2>4 DEF monEvent, Assemble
<1> QED
  BY <1>1, MonInit, MonStep, PTL DEF Spec, ShortLinesRun
=============================================================================

----------------------------- MODULE RelayProofs -----------------------------
(***************************************************************************)
(* For every set of commands, all delays, and buffers of every size: the   *)
(* slowest command is paced; no byte that yar relays is lost or counted    *)
(* twice; the first discarded bytes are kept; a byte is discarded only for *)
(* a reason; and only a reader that does not read drives yar into NYI.     *)
(*                                                                         *)
(* The first part needs nothing of the ttys (PacedInv).  The second rests  *)
(* on what holds of each tty by itself (GoodTty) and between the ttys of a *)
(* command (Balanced), which is carried through the parts of a handler:    *)
(* Sound(T, P) is about the state a handler has reached before it stops    *)
(* commands, and StepSound about what a whole step leaves.                 *)
(***************************************************************************)
EXTENDS Relay, SumProofs, FiniteSetTheorems

\* A value of cmd has its shape, by which since can be compared to a delay, and
\* the slowest command has not been hurried
Paced(P) == P \in [Cmd -> CmdState] /\ ~P[Slowest].hurried

\* The inductive invariant: PacedSlowest and the shape of cmd
PacedInv == Paced(cmd)

\* A command stays one when a field takes another value of its type, and only
\* a change of hurried changes hurried
LEMMA FieldType ==
  ASSUME NEW p \in CmdState
  PROVE  /\ \A n \in Nat : /\ [p EXCEPT !.since = n] \in CmdState
                           /\ [p EXCEPT !.stopped = n] \in CmdState
                           /\ [p EXCEPT !.since = n].hurried = p.hurried
                           /\ [p EXCEPT !.stopped = n].hurried = p.hurried
         /\ \A b \in BOOLEAN : /\ [p EXCEPT !.hurried = b] \in CmdState
                               /\ [p EXCEPT !.hurried = b].hurried = b
         /\ /\ [p EXCEPT !.proc = "none"] \in CmdState
            /\ [p EXCEPT !.proc = "none"].hurried = p.hurried
         /\ p.since \in Nat /\ p.stopped \in Nat /\ p.hurried \in BOOLEAN
<1>1. ASSUME NEW n \in Nat
      PROVE  /\ [p EXCEPT !.since = n] \in CmdState
             /\ [p EXCEPT !.since = n].hurried = p.hurried
  BY DEF CmdState
<1>2. ASSUME NEW n \in Nat
      PROVE  /\ [p EXCEPT !.stopped = n] \in CmdState
             /\ [p EXCEPT !.stopped = n].hurried = p.hurried
  BY DEF CmdState
<1>3. ASSUME NEW b \in BOOLEAN
      PROVE  /\ [p EXCEPT !.hurried = b] \in CmdState
             /\ [p EXCEPT !.hurried = b].hurried = b
  BY DEF CmdState
<1>4. /\ [p EXCEPT !.proc = "none"] \in CmdState
      /\ [p EXCEPT !.proc = "none"].hurried = p.hurried
      /\ p.since \in Nat /\ p.stopped \in Nat /\ p.hurried \in BOOLEAN
  BY DEF CmdState
<1> QED
  BY <1>1, <1>2, <1>3, <1>4

\* A write to a command keeps its shape, and is in time if its delay is over
LEMMA MarkedType ==
  ASSUME NEW p \in CmdState, NEW x, NEW c \in Cmd
  PROVE  /\ Marked(p, x, c) \in CmdState
         /\ ~p.hurried /\ p.since >= Delay[c] => ~Marked(p, x, c).hurried
<1>1. CASE x.opens # 0
  <2> DEFINE h  == p.hurried \/ p.since < Delay[c]
             p1 == [p EXCEPT !.since = 0]
             p2 == [p1 EXCEPT !.hurried = h]
  <2>1. h \in BOOLEAN
    OBVIOUS
  <2>2. ~p.hurried /\ p.since >= Delay[c] => ~h
    <3>1. p.since \in Nat /\ Delay[c] \in Nat
      BY RelayAssumption DEF CmdState
    <3>2. p.since >= Delay[c] => ~(p.since < Delay[c])
      BY <3>1
    <3> QED BY <3>2
  <2>3. Marked(p, x, c) = p2
    BY <1>1 DEF Marked
  <2> HIDE DEF h
  <2>4. p1 \in CmdState
    BY FieldType
  <2> HIDE DEF p1
  <2>5. p2 \in CmdState /\ p2.hurried = h
    BY <2>1, <2>4, FieldType
  <2> QED
    BY <2>2, <2>3, <2>5
<1>2. CASE ~(x.opens # 0)
  BY <1>2 DEF Marked
<1> QED
  BY <1>1, <1>2

\* Stopping a command relays no byte to it, and leaves a lastwrite that is a
\* delay old
LEMMA StopPaced ==
  ASSUME NEW T, NEW P, NEW C, Paced(P)
  PROVE  Paced(StoppedCmds(T, P, C))
<1> DEFINE Q == StoppedCmds(T, P, C)
<1>1. ASSUME NEW c \in Cmd
      PROVE  Q[c] \in CmdState /\ Q[c].hurried = P[c].hurried
  <2>1. P[c] \in CmdState
    BY DEF Paced
  <2>2. CASE c \in Stops(T, P, C)
    <3> DEFINE m  == P[c].stopped + StopBytes
               n  == IF StopBytes # 0 /\ T[Cmdt(c)].opens # 0
                     THEN Delay[c] ELSE P[c].since
               p1 == [P[c] EXCEPT !.proc = "none"]
               p2 == [p1 EXCEPT !.stopped = m]
               p3 == [p2 EXCEPT !.since = n]
    <3>1. m \in Nat /\ n \in Nat
      <4>1. P[c].stopped \in Nat /\ P[c].since \in Nat
        BY <2>1 DEF CmdState
      <4>2. StopBytes \in Nat /\ Delay[c] \in Nat
        BY RelayAssumption DEF StopBytes
      <4> QED BY <4>1, <4>2
    <3>2. Q[c] = p3
      BY <2>2 DEF StoppedCmds
    <3> HIDE DEF m, n
    <3>3. p1 \in CmdState /\ p1.hurried = P[c].hurried
      BY <2>1, FieldType
    <3> HIDE DEF p1
    <3>4. p2 \in CmdState /\ p2.hurried = p1.hurried
      BY <3>1, <3>3, FieldType
    <3> HIDE DEF p2
    <3>5. p3 \in CmdState /\ p3.hurried = p2.hurried
      BY <3>1, <3>4, FieldType
    <3> QED
      BY <3>2, <3>3, <3>4, <3>5
  <2>3. CASE c \notin Stops(T, P, C)
    BY <2>1, <2>3 DEF StoppedCmds
  <2> QED
    BY <2>2, <2>3
<1>2. Q = [c \in Cmd |-> Q[c]]
  BY DEF StoppedCmds
<1> HIDE DEF Q
<1>3. Q \in [Cmd -> CmdState] /\ ~Q[Slowest].hurried
  BY <1>1, <1>2, RelayAssumption DEF Paced
<1> QED
  BY <1>3 DEF Paced, Q

\* Starting commands writes nothing
LEMMA ForkPaced ==
  ASSUME NEW P, NEW C, Paced(P)
  PROVE  Paced(Forked(P, C))
BY RelayAssumption DEF Paced, Forked, CmdState

\* The end of a handler keeps what the handler has reached
LEMMA ThenStopPaced ==
  ASSUME NEW T, NEW P, NEW C, Paced(P), Paced(cmd), ThenStop(T, P, C)
  PROVE  Paced(cmd')
BY StopPaced DEF ThenStop, Halt

\* A byte from a client is relayed to its own command, after its delay
LEMMA CltPaced ==
  ASSUME NEW c \in Cmd, Paced(cmd), CltttyEvent(c)
  PROVE  Paced(cmd')
<1> DEFINE T == [tty EXCEPT ![Clt(c)] = ttyReadChar(@),
                            ![Cmdt(c)] = ttyWriteBuf(@, 1)]
           P == [cmd EXCEPT ![c] = Marked(@, tty[Cmdt(c)], c)]
<1>1. Paced(P)
  BY MarkedType, RelayAssumption DEF Paced, CltttyEvent
<1>2. Halt \/ ThenStop(T, P, {c})
  BY DEF CltttyEvent
<1>3. CASE Halt
  BY <1>3 DEF Halt
<1>4. CASE ThenStop(T, P, {c})
  <2> HIDE DEF T, P
  <2> QED BY <1>1, <1>4, ThenStopPaced
<1> QED BY <1>2, <1>3, <1>4

\* A broadcast byte waits for the delay of the slowest command
LEMMA BcstPaced ==
  ASSUME Paced(cmd), BcstttyEvent
  PROVE  Paced(cmd')
<1>1. CASE Halt
  BY <1>1 DEF Halt
<1>2. CASE cmd' = [c \in Cmd |-> Marked(cmd[c], tty[Cmdt(c)], c)]
  BY <1>2, MarkedType, RelayAssumption DEF Paced, BcstttyEvent
<1> QED BY <1>1, <1>2 DEF BcstttyEvent

\* A notification starts or stops commands
LEMMA NotifyPaced ==
  ASSUME NEW t \in Tty, Paced(cmd), NotifyEvent(t)
  PROVE  Paced(cmd')
<1> DEFINE T == [tty EXCEPT ![t] = Noted(t, @)]
<1>1. cmd' = Forked(cmd, Served(t)) \/ ThenStop(T, cmd, Served(t))
  BY DEF NotifyEvent
<1>2. CASE cmd' = Forked(cmd, Served(t))
  BY <1>2, ForkPaced
<1>3. CASE ThenStop(T, cmd, Served(t))
  <2> HIDE DEF T
  <2> QED BY <1>3, ThenStopPaced
<1> QED BY <1>1, <1>2, <1>3

\* Time passes for all commands
LEMMA TickPaced ==
  ASSUME Paced(cmd), Tick
  PROVE  Paced(cmd')
<1>1. ASSUME NEW c \in Cmd
      PROVE  cmd'[c] \in CmdState /\ cmd'[c].hurried = cmd[c].hurried
  <2> DEFINE n == IF cmd[c].since < Delay[c] THEN cmd[c].since + 1
                  ELSE cmd[c].since
  <2>1. cmd[c] \in CmdState
    BY DEF Paced
  <2>2. n \in Nat
    <3>1. cmd[c].since \in Nat
      BY <2>1 DEF CmdState
    <3> QED BY <3>1
  <2>3. cmd'[c] = [cmd[c] EXCEPT !.since = n]
    BY DEF Tick
  <2> HIDE DEF n
  <2>4. /\ [cmd[c] EXCEPT !.since = n] \in CmdState
        /\ [cmd[c] EXCEPT !.since = n].hurried = cmd[c].hurried
    BY <2>1, <2>2, FieldType
  <2> QED
    BY <2>3, <2>4
<1>2. cmd' = [c \in Cmd |-> cmd'[c]]
  BY DEF Tick
<1> QED
  BY <1>1, <1>2, RelayAssumption DEF Paced

\* Every step keeps the invariant
LEMMA PacedStep == Paced(cmd) /\ [Next]_vars => Paced(cmd')
<1> SUFFICES ASSUME Paced(cmd), [Next]_vars
             PROVE  Paced(cmd')
  OBVIOUS
<1>1. CASE UNCHANGED vars
  BY <1>1 DEF vars
<1>2. CASE BcstttyEvent
  BY <1>2, BcstPaced
<1>3. ASSUME NEW c \in Cmd, CltttyEvent(c)
      PROVE  Paced(cmd')
  BY <1>3, CltPaced
<1>4. ASSUME NEW c \in Cmd, CmdttyEvent(c)
      PROVE  Paced(cmd')
  BY <1>4 DEF CmdttyEvent, Halt
<1>5. ASSUME NEW c \in Cmd, PidEvent(c)
      PROVE  Paced(cmd')
  BY <1>5, RelayAssumption DEF PidEvent, Paced, CmdState
<1>6. ASSUME NEW t \in Tty, NotifyEvent(t)
      PROVE  Paced(cmd')
  BY <1>6, NotifyPaced
<1>7. CASE Tick
  BY <1>7, TickPaced
<1>8. ASSUME NEW t \in Tty, Client(t) \/ Reader(t)
      PROVE  Paced(cmd')
  BY <1>8 DEF Client, Reader
<1>9. ASSUME NEW c \in Cmd, Process(c)
      PROVE  Paced(cmd')
  BY <1>9, RelayAssumption
     DEF Process, ProcOpens, ProcPrints, ProcDies, Paced, CmdState
<1>10. Used \subseteq Tty
  BY RelayAssumption DEF Tty
<1> QED
  BY <1>1, <1>2, <1>3, <1>4, <1>5, <1>6, <1>7, <1>8, <1>9, <1>10
     DEF Next, Loop

\* No byte is relayed to the slowest command before its delay is over, although
\* its client tty and the broadcast tty are relayed by two handlers of which
\* each looks at lastwrite on its own (cmdCltttyEvent, bcstttyEvent)
THEOREM SlowestPaced == Spec => []PacedSlowest
<1>1. Init => PacedInv
  BY RelayAssumption DEF Init, PacedInv, Paced, CmdState
<1>2. PacedInv => PacedSlowest
  BY DEF PacedInv, Paced, PacedSlowest
<1>3. PacedInv /\ [Next]_vars => PacedInv'
  BY PacedStep DEF PacedInv
<1> QED
  BY <1>1, <1>2, <1>3, PTL DEF Spec

-----------------------------------------------------------------------------
(* The counters of the ttys, the discards, and how yar keeps track of opens *)

\* Two events of the same kind are never queued next to each other
Alternates(s) == \A k \in 1..Len(s) - 1 : s[k] # s[k + 1]

\* What reading all of such a queue does to the count of opens
Pending(s) ==
  IF s = << >> THEN 0
  ELSE IF s[1] = "open" THEN (IF s[Len(s)] = "open" THEN 1 ELSE 0)
  ELSE (IF s[Len(s)] = "open" THEN 0 ELSE -1)

\* Until inotify has merged two events, yar's count of opens is wrong only by
\* what is queued, and no close is queued that would take it below zero
Tracked(x) ==
  ~x.merged => /\ Alternates(x.note)
               /\ x.holders = x.opens + Pending(x.note)
               /\ (x.note # << >> /\ x.note[1] = "close" => x.opens > 0)

\* DiscardsFirst of one tty
First(x) ==
  x.wdbytes <= IntMax =>
    x.kept = IF x.wdbytes < Size THEN x.wdbytes ELSE Size

\* What holds of each tty by itself
GoodTty(x) == x \in TtyState /\ First(x) /\ Tracked(x)

\* A step from x to y discards only if the tty is not counted as open, and
\* writes only if it is
Wrote(x, y) == /\ y.wdbytes # x.wdbytes => x.opens = 0
               /\ y.wbytes # x.wbytes => x.opens # 0

\* y is x after r bytes have been read and w bytes written or discarded
Relays(x, y, r, w) ==
  /\ GoodTty(y) /\ Wrote(x, y)
  /\ y.rbytes = x.rbytes + r
  /\ y.wbytes + y.wdbytes = x.wbytes + x.wdbytes + w
  /\ y.out <= x.out + w
  /\ y.opens = x.opens /\ y.holders = x.holders /\ y.merged = x.merged
  /\ y.note = x.note

\* y is x after a step in which yar neither reads from the tty nor writes to it
Keeps(x, y) ==
  /\ GoodTty(y)
  /\ y.rbytes = x.rbytes /\ y.wbytes = x.wbytes /\ y.wdbytes = x.wdbytes

\* The numbers of a tty are numbers
LEMMA TtyNumbers ==
  ASSUME NEW x \in TtyState
  PROVE  /\ x.in \in 0..Cap /\ x.out \in 0..Cap /\ x.holders \in Nat
         /\ x.note \in Seq({"open", "close"}) /\ x.merged \in BOOLEAN
         /\ x.opens \in Nat /\ x.rbytes \in Nat /\ x.wbytes \in Nat
         /\ x.wdbytes \in Nat /\ x.kept \in Int /\ Cap \in Nat
BY RelayAssumption DEF TtyState

\* A number that is an int is converted to itself, and every number to an int
LEMMA ToIntValue ==
  ASSUME NEW n \in Int
  PROVE  /\ ToInt(n) \in Int
         /\ -IntMax <= n /\ n <= IntMax => ToInt(n) = n
<1> DEFINE k == 2 * (IntMax + 1)
           m == n % k
<1>1. k \in Nat /\ k > 0 /\ k = 2 * IntMax + 2 /\ IntMax \in Nat
  BY RelayAssumption
<1>2. ToInt(n) = IF m > IntMax THEN m - k ELSE m
  BY DEF ToInt
<1> HIDE DEF k
<1>3. m \in 0..k-1
  BY <1>1
<1>4. 0 <= n /\ n < k => m = n
  BY <1>1
<1>5. -k < n /\ n < 0 => m = n + k
  BY <1>1
<1> HIDE DEF m
<1> QED
  BY <1>1, <1>2, <1>3, <1>4, <1>5

\* As long as the count of discarded bytes is an int, the bytes copied are
\* those that still find room in discards
LEMMA CopiedValue ==
  ASSUME NEW wd \in Nat, NEW n \in Nat
  PROVE  /\ Copied(wd, n) \in Int
         /\ wd <= IntMax =>
              Copied(wd, n) = IF wd + n <= Size THEN n
                              ELSE IF wd < Size THEN Size - wd ELSE 0
<1>1. Size \in Nat /\ IntMax \in Nat /\ Size <= IntMax
  BY RelayAssumption
<1> DEFINE a == ToInt(wd)
           b == ToInt(Size - a)
<1>2. a \in Int /\ (wd <= IntMax => a = wd)
  BY <1>1, ToIntValue
<1>3. Copied(wd, n) = LET free == IF b < 0 THEN 0 ELSE b
                      IN  IF n <= free THEN n ELSE free
  BY DEF Copied
<1> HIDE DEF a
<1>4. Size - a \in Int
  BY <1>1, <1>2
<1>5. b \in Int /\ (wd <= IntMax => b = Size - wd)
  BY <1>1, <1>2, <1>4, ToIntValue
<1> HIDE DEF b
<1> QED
  BY <1>1, <1>3, <1>5

\* A tty stays one when a field takes another value of its type
LEMMA TtyField ==
  ASSUME NEW x \in TtyState
  PROVE  /\ \A n \in 0..Cap : /\ [x EXCEPT !.in = n] \in TtyState
                              /\ [x EXCEPT !.out = n] \in TtyState
         /\ \A n \in Nat : /\ [x EXCEPT !.holders = n] \in TtyState
                           /\ [x EXCEPT !.opens = n] \in TtyState
                           /\ [x EXCEPT !.rbytes = n] \in TtyState
                           /\ [x EXCEPT !.wbytes = n] \in TtyState
                           /\ [x EXCEPT !.wdbytes = n] \in TtyState
         /\ \A n \in Int : [x EXCEPT !.kept = n] \in TtyState
         /\ \A s \in Seq({"open", "close"}) : [x EXCEPT !.note = s] \in TtyState
         /\ [x EXCEPT !.merged = TRUE] \in TtyState
<1>1. ASSUME NEW n \in 0..Cap
      PROVE  [x EXCEPT !.in = n] \in TtyState /\ [x EXCEPT !.out = n] \in TtyState
  BY DEF TtyState
<1>2. ASSUME NEW n \in Nat
      PROVE  /\ [x EXCEPT !.holders = n] \in TtyState
             /\ [x EXCEPT !.opens = n] \in TtyState
             /\ [x EXCEPT !.rbytes = n] \in TtyState
             /\ [x EXCEPT !.wbytes = n] \in TtyState
             /\ [x EXCEPT !.wdbytes = n] \in TtyState
  BY DEF TtyState
<1>3. ASSUME NEW n \in Int PROVE [x EXCEPT !.kept = n] \in TtyState
  BY DEF TtyState
<1>4. ASSUME NEW s \in Seq({"open", "close"})
      PROVE  [x EXCEPT !.note = s] \in TtyState
  BY DEF TtyState
<1>5. [x EXCEPT !.merged = TRUE] \in TtyState
  BY DEF TtyState
<1> QED
  BY <1>1, <1>2, <1>3, <1>4, <1>5

\* ttyReadChar takes a byte and counts it
LEMMA ReadGood ==
  ASSUME NEW x, GoodTty(x), x.in > 0
  PROVE  Relays(x, ttyReadChar(x), 1, 0)
<1> DEFINE m == x.in - 1
           n == x.rbytes + 1
           y == [x EXCEPT !.in = m]
           z == [y EXCEPT !.rbytes = n]
<1>1. x \in TtyState
  BY DEF GoodTty
<1>2. m \in 0..Cap /\ n \in Nat
  BY <1>1, TtyNumbers
<1>3. ttyReadChar(x) = z
  BY <1>1 DEF ttyReadChar, TtyState
<1>4. z.rbytes = x.rbytes + 1
  BY <1>1 DEF TtyState
<1> HIDE DEF m, n
<1>5. y \in TtyState
  BY <1>1, <1>2, TtyField
<1>6. /\ z.wbytes = x.wbytes /\ z.wdbytes = x.wdbytes /\ z.out = x.out
      /\ z.opens = x.opens /\ z.holders = x.holders /\ z.merged = x.merged
      /\ z.note = x.note /\ z.kept = x.kept
  BY <1>1 DEF TtyState
<1> HIDE DEF y
<1>7. z \in TtyState
  BY <1>2, <1>5, TtyField
<1> HIDE DEF z
<1>8. First(z) /\ Tracked(z)
  BY <1>6 DEF GoodTty, First, Tracked
<1>9. z.out <= x.out + 0 /\ z.wbytes + z.wdbytes = x.wbytes + x.wdbytes + 0
  BY <1>1, <1>6, TtyNumbers
<1> QED
  BY <1>3, <1>4, <1>6, <1>7, <1>8, <1>9 DEF Relays, GoodTty, Wrote

\* ttyWriteBuf writes to a tty that is counted as open, and discards else
LEMMA WriteGood ==
  ASSUME NEW x, NEW n \in Nat, GoodTty(x), ~Fails(x, n)
  PROVE  Relays(x, ttyWriteBuf(x, n), 0, n)
<1>1. x \in TtyState
  BY DEF GoodTty
<1>2. CASE x.opens # 0
  <2> DEFINE a == x.out + n
             b == x.wbytes + n
             y == [x EXCEPT !.out = a]
             z == [y EXCEPT !.wbytes = b]
  <2>1. a \in 0..Cap /\ b \in Nat
    <3>1. ~(x.out + n > Cap)
      BY <1>2 DEF Fails
    <3> QED BY <1>1, <3>1, TtyNumbers
  <2>2. ttyWriteBuf(x, n) = z
    BY <1>1, <1>2 DEF ttyWriteBuf, TtyState
  <2>3. z.out = x.out + n /\ z.wbytes = x.wbytes + n
    BY <1>1 DEF TtyState
  <2> HIDE DEF a, b
  <2>4. y \in TtyState
    BY <1>1, <2>1, TtyField
  <2>5. /\ z.rbytes = x.rbytes /\ z.wdbytes = x.wdbytes
        /\ z.opens = x.opens /\ z.holders = x.holders /\ z.merged = x.merged
        /\ z.note = x.note /\ z.kept = x.kept
    BY <1>1 DEF TtyState
  <2> HIDE DEF y
  <2>6. z \in TtyState
    BY <2>1, <2>4, TtyField
  <2> HIDE DEF z
  <2>7. First(z) /\ Tracked(z)
    BY <2>5 DEF GoodTty, First, Tracked
  <2>8. /\ z.out <= x.out + n /\ z.rbytes = x.rbytes + 0
        /\ z.wbytes + z.wdbytes = x.wbytes + x.wdbytes + n
    BY <1>1, <2>3, <2>5, TtyNumbers
  <2> QED
    BY <1>2, <2>2, <2>5, <2>6, <2>7, <2>8 DEF Relays, GoodTty, Wrote
<1>3. CASE x.opens = 0
  <2> DEFINE k == Copied(x.wdbytes, n)
             a == x.wdbytes + n
             b == x.kept + k
             y == [x EXCEPT !.wdbytes = a]
             z == [y EXCEPT !.kept = b]
  <2>1. ttyWriteBuf(x, n) = z
    BY <1>1, <1>3 DEF ttyWriteBuf, TtyState
  <2>2. /\ k \in Int
        /\ x.wdbytes <= IntMax =>
             k = IF x.wdbytes + n <= Size THEN n
                 ELSE IF x.wdbytes < Size THEN Size - x.wdbytes ELSE 0
    BY <1>1, TtyNumbers, CopiedValue
  <2> HIDE DEF k
  <2>3. a \in Nat /\ b \in Int
    BY <1>1, <2>2, TtyNumbers
  <2>4. z.wdbytes = x.wdbytes + n /\ z.kept = x.kept + k
    BY <1>1 DEF TtyState
  <2> HIDE DEF a, b
  <2>5. y \in TtyState
    BY <1>1, <2>3, TtyField
  <2>6. /\ z.rbytes = x.rbytes /\ z.wbytes = x.wbytes /\ z.out = x.out
        /\ z.opens = x.opens /\ z.holders = x.holders /\ z.merged = x.merged
        /\ z.note = x.note
    BY <1>1 DEF TtyState
  <2> HIDE DEF y
  <2>7. z \in TtyState
    BY <2>3, <2>5, TtyField
  <2> HIDE DEF z
  <2>8. First(z)
    <3>1. First(x) /\ x.wdbytes \in Nat /\ x.kept \in Int
          /\ Size \in Nat /\ IntMax \in Nat
      BY <1>1, TtyNumbers, RelayAssumption DEF GoodTty
    <3> QED BY <2>2, <2>4, <3>1 DEF First
  <2>9. Tracked(z)
    BY <2>6 DEF GoodTty, Tracked
  <2>10. /\ z.out <= x.out + n /\ z.rbytes = x.rbytes + 0
         /\ z.wbytes + z.wdbytes = x.wbytes + x.wdbytes + n
    BY <1>1, <2>4, <2>6, TtyNumbers
  <2> QED
    BY <1>3, <2>1, <2>6, <2>7, <2>8, <2>9, <2>10 DEF Relays, GoodTty, Wrote
<1> QED
  BY <1>2, <1>3

\* The first and the last event of a queue, and its length, after one is added
LEMMA AppendEnds ==
  ASSUME NEW s \in Seq({"open", "close"}), NEW e \in {"open", "close"}
  PROVE  /\ Append(s, e) \in Seq({"open", "close"}) /\ Append(s, e) # << >>
         /\ Append(s, e)[Len(Append(s, e))] = e
         /\ s = << >> => Append(s, e)[1] = e
         /\ s # << >> => Append(s, e)[1] = s[1]
         /\ Alternates(s) /\ (s = << >> \/ s[Len(s)] # e)
              => Alternates(Append(s, e))
<1> DEFINE z == Append(s, e)
<1>1. /\ z \in Seq({"open", "close"}) /\ Len(z) = Len(s) + 1 /\ Len(s) \in Nat
      /\ \A k \in 1..Len(s) : z[k] = s[k]
      /\ z[Len(s) + 1] = e
  BY AppendProperties
<1>2. s # << >> => Len(s) > 0
  BY EmptySeq, LenProperties
<1>3. s = << >> => Len(s) = 0
  OBVIOUS
<1> HIDE DEF z
<1>4. z # << >>
  BY <1>1
<1>5. ASSUME Alternates(s), s = << >> \/ s[Len(s)] # e
      PROVE  Alternates(z)
  <2> SUFFICES ASSUME NEW k \in 1..Len(z) - 1
               PROVE  z[k] # z[k + 1]
    BY DEF Alternates
  <2>1. CASE k = Len(s)
    BY <1>1, <1>3, <1>5, <2>1
  <2>2. CASE k # Len(s)
    <3>1. k \in 1..Len(s) - 1
      BY <1>1, <2>2
    <3>2. s[k] # s[k + 1]
      BY <1>5, <3>1 DEF Alternates
    <3> QED BY <1>1, <3>1, <3>2
  <2> QED BY <2>1, <2>2
<1>6. z[1] = IF s = << >> THEN e ELSE s[1]
  BY <1>1, <1>2, <1>3
<1>7. z[Len(z)] = e
  BY <1>1
<1> QED
  BY <1>1, <1>4, <1>5, <1>6, <1>7 DEF z

\* The queue after its first event has been read
LEMMA TailEnds ==
  ASSUME NEW s \in Seq({"open", "close"}), s # << >>, Alternates(s)
  PROVE  /\ Alternates(Tail(s)) /\ s[1] \in {"open", "close"}
         /\ s[Len(s)] \in {"open", "close"}
         /\ Tail(s) = << >> => s[Len(s)] = s[1]
         /\ Tail(s) # << >> => /\ Tail(s)[1] \in {"open", "close"} \ {s[1]}
                               /\ Tail(s)[Len(Tail(s))] = s[Len(s)]
<1> DEFINE z == Tail(s)
<1>1. /\ z \in Seq({"open", "close"}) /\ Len(z) = Len(s) - 1 /\ Len(s) \in Nat
      /\ \A k \in 1..Len(z) : z[k] = s[k + 1]
  BY HeadTailProperties, LenProperties
<1>2. Len(s) > 0
  BY EmptySeq, LenProperties
<1>3. z # << >> => Len(z) > 0
  BY <1>1, EmptySeq, LenProperties
<1>4. z = << >> => Len(z) = 0
  BY <1>1, EmptySeq, LenProperties
<1>5. \A k \in 1..Len(s) : s[k] \in {"open", "close"}
  BY ElementOfSeq
<1> HIDE DEF z
<1>6. Alternates(z)
  <2> SUFFICES ASSUME NEW k \in 1..Len(z) - 1
               PROVE  z[k] # z[k + 1]
    BY DEF Alternates
  <2>1. k + 1 \in 1..Len(s) - 1 /\ k \in 1..Len(z) /\ k + 1 \in 1..Len(z)
    BY <1>1
  <2>2. s[k + 1] # s[k + 1 + 1]
    BY <2>1 DEF Alternates
  <2> QED BY <1>1, <2>1, <2>2
<1>7. s[1] \in {"open", "close"} /\ s[Len(s)] \in {"open", "close"}
  BY <1>1, <1>2, <1>5
<1>8. z = << >> => s[Len(s)] = s[1]
  <2>1. z = << >> => Len(s) = 1
    BY <1>1, <1>4
  <2> QED BY <2>1
<1>9. ASSUME z # << >>
      PROVE  z[1] \in {"open", "close"} \ {s[1]} /\ z[Len(z)] = s[Len(s)]
  <2>1. Len(z) \in Nat /\ Len(z) > 0 /\ Len(s) = Len(z) + 1
    BY <1>1, <1>3, <1>9
  <2>2. z[1] = s[2] /\ z[Len(z)] = s[Len(s)]
    BY <1>1, <2>1
  <2>3. s[1] # s[2]
    <3>1. 1 \in 1..Len(s) - 1
      BY <2>1
    <3>2. s[1] # s[1 + 1]
      BY <3>1 DEF Alternates
    <3> QED BY <3>2
  <2>4. s[2] \in {"open", "close"}
    BY <1>5, <2>1
  <2> QED BY <2>2, <2>3, <2>4
<1> QED
  BY <1>6, <1>7, <1>8, <1>9 DEF z

\* Who opens or closes a tty queues an event, or inotify merges it
LEMMA EnqueueGood ==
  ASSUME NEW x, GoodTty(x), NEW e \in {"open", "close"},
         e = "close" => x.holders > 0
  PROVE  LET h == IF e = "open" THEN x.holders + 1 ELSE x.holders - 1
             y == Enqueue([x EXCEPT !.holders = h], e)
         IN  Keeps(x, y) /\ y.holders = h
<1> DEFINE h == IF e = "open" THEN x.holders + 1 ELSE x.holders - 1
           v == [x EXCEPT !.holders = h]
           y == Enqueue(v, e)
<1>1. x \in TtyState /\ First(x) /\ Tracked(x)
  BY DEF GoodTty
<1>2. h \in Nat /\ (e = "open" => h = x.holders + 1)
      /\ (e # "open" => h = x.holders - 1)
  BY <1>1, TtyNumbers
<1> HIDE DEF h
<1>3. v \in TtyState
  BY <1>1, <1>2, TtyField
<1>4. /\ v.holders = h
      /\ v.rbytes = x.rbytes /\ v.wbytes = x.wbytes /\ v.wdbytes = x.wdbytes
      /\ v.out = x.out /\ v.in = x.in /\ v.kept = x.kept
      /\ v.opens = x.opens /\ v.merged = x.merged /\ v.note = x.note
  BY <1>1 DEF TtyState
<1> HIDE DEF v
<1>5. CASE v.note # << >> /\ v.note[Len(v.note)] = e
  <2>1. y = [v EXCEPT !.merged = TRUE]
    BY <1>5 DEF Enqueue
  <2> HIDE DEF y
  <2>2. y \in TtyState
    BY <1>3, <2>1, TtyField
  <2>3. /\ y.holders = h /\ y.merged
        /\ y.rbytes = x.rbytes /\ y.wbytes = x.wbytes /\ y.wdbytes = x.wdbytes
        /\ y.out = x.out /\ y.in = x.in /\ y.kept = x.kept
    BY <1>3, <1>4, <2>1 DEF TtyState
  <2>4. First(y) /\ Tracked(y)
    BY <1>1, <2>3 DEF First, Tracked
  <2> QED
    BY <2>2, <2>3, <2>4 DEF Keeps, GoodTty, y, v, h
<1>6. CASE v.note = << >> \/ v.note[Len(v.note)] # e
  <2> DEFINE s == Append(x.note, e)
  <2>1. y = [v EXCEPT !.note = s]
    BY <1>3, <1>4, <1>6 DEF Enqueue, TtyState
  <2>2. x.note \in Seq({"open", "close"})
    BY <1>1, TtyNumbers
  <2>3. /\ s \in Seq({"open", "close"}) /\ s # << >> /\ s[Len(s)] = e
        /\ x.note = << >> => s[1] = e
        /\ x.note # << >> => s[1] = x.note[1]
        /\ Alternates(x.note) => Alternates(s)
    <3> DEFINE q == x.note
    <3>1. q \in Seq({"open", "close"}) /\ (q = << >> \/ q[Len(q)] # e)
      BY <1>4, <1>6, <2>2
    <3>2. s = Append(q, e)
      OBVIOUS
    <3> HIDE DEF q
    <3>3. /\ s \in Seq({"open", "close"}) /\ s # << >> /\ s[Len(s)] = e
          /\ q = << >> => s[1] = e
          /\ q # << >> => s[1] = q[1]
          /\ Alternates(q) => Alternates(s)
      <4> HIDE DEF s
      <4> QED BY <3>1, <3>2, AppendEnds
    <3> QED BY <3>3 DEF q
  <2> HIDE DEF y, s
  <2>4. y \in TtyState
    BY <1>3, <2>1, <2>3, TtyField
  <2>5. /\ y.holders = h /\ y.note = s
        /\ y.opens = x.opens /\ y.merged = x.merged
        /\ y.rbytes = x.rbytes /\ y.wbytes = x.wbytes /\ y.wdbytes = x.wdbytes
        /\ y.out = x.out /\ y.in = x.in /\ y.kept = x.kept
    BY <1>3, <1>4, <2>1 DEF TtyState
  <2>6. First(y)
    BY <1>1, <2>5 DEF First
  <2>7. ASSUME ~x.merged PROVE Tracked(y)
    <3>1. /\ Alternates(s) /\ x.holders = x.opens + Pending(x.note)
          /\ x.note # << >> /\ x.note[1] = "close" => x.opens > 0
      BY <1>1, <2>3, <2>7 DEF Tracked
    <3>2. x.opens \in Nat /\ x.holders \in Nat
      BY <1>1, TtyNumbers
    <3>3. CASE x.note = << >>
      <4>1. Pending(x.note) = 0
        BY <3>3 DEF Pending
      <4>2. Pending(s) = IF e = "open" THEN 1 ELSE -1
        BY <2>3, <3>3 DEF Pending
      <4>3. h = x.opens + Pending(s)
        BY <1>2, <3>1, <3>2, <4>1, <4>2
      <4>4. s[1] = "close" => x.opens > 0
        BY <2>3, <3>1, <3>2, <3>3, <4>1
      <4> QED BY <2>5, <3>1, <4>3, <4>4 DEF Tracked
    <3>4. CASE x.note # << >>
      <4>1. x.note[Len(x.note)] # e
        BY <1>4, <1>6, <3>4
      <4>2. x.note[Len(x.note)] \in {"open", "close"}
        BY <2>2, <3>4, EmptySeq, LenProperties, ElementOfSeq
      <4>3. Pending(s) = IF e = "open" THEN Pending(x.note) + 1
                         ELSE Pending(x.note) - 1
        BY <2>3, <3>4, <4>1, <4>2 DEF Pending
      <4>4. Pending(x.note) \in Int
        BY DEF Pending
      <4>5. h = x.opens + Pending(s)
        BY <1>2, <3>1, <3>2, <4>3, <4>4
      <4>6. s[1] = "close" => x.opens > 0
        BY <2>3, <3>1, <3>4
      <4> QED BY <2>5, <3>1, <4>5, <4>6 DEF Tracked
    <3> QED BY <3>3, <3>4
  <2>8. Tracked(y)
    BY <2>5, <2>7 DEF Tracked
  <2> QED
    BY <2>4, <2>5, <2>6, <2>8 DEF Keeps, GoodTty, y, v, h
<1> QED
  BY <1>5, <1>6

\* The same, of the operators that name the two
LEMMA OpenedGood ==
  ASSUME NEW x, GoodTty(x)
  PROVE  /\ Keeps(x, Opened(x)) /\ Opened(x).holders = x.holders + 1
         /\ x.holders > 0 => Keeps(x, Closed(x))
<1>1. /\ Keeps(x, Enqueue([x EXCEPT !.holders = x.holders + 1], "open"))
      /\ Enqueue([x EXCEPT !.holders = x.holders + 1], "open").holders
           = x.holders + 1
  BY EnqueueGood
<1>2. Opened(x) = Enqueue([x EXCEPT !.holders = x.holders + 1], "open")
  BY DEF Opened
<1>3. Closed(x) = Enqueue([x EXCEPT !.holders = x.holders - 1], "close")
  BY DEF Closed
<1>4. ASSUME x.holders > 0
      PROVE  Keeps(x, Enqueue([x EXCEPT !.holders = x.holders - 1], "close"))
  BY <1>4, EnqueueGood
<1> QED BY <1>1, <1>2, <1>3, <1>4

\* The death of a process that holds its tty is a close
LEMMA HangupGood ==
  ASSUME NEW x, NEW p, GoodTty(x), p.proc = "open" => x.holders > 0
  PROVE  Keeps(x, Hangup(x, p))
<1>1. CASE p.proc = "open"
  BY <1>1, OpenedGood DEF Hangup
<1>2. CASE p.proc # "open"
  BY <1>2 DEF Hangup, Keeps, GoodTty
<1> QED BY <1>1, <1>2

\* An event that is read moves from the queue to the count of opens
LEMMA NotedGood ==
  ASSUME NEW t, NEW x, GoodTty(x), x.note # << >>
  PROVE  Keeps(x, Noted(t, x)) /\ Noted(t, x).holders = x.holders
<1> DEFINE s == Tail(x.note)
           n == IF Head(x.note) = "open" THEN x.opens + 1
                ELSE IF x.opens > 0 THEN x.opens - 1 ELSE 0
           v == [x EXCEPT !.note = s]
           y == [v EXCEPT !.opens = n]
<1>1. x \in TtyState /\ First(x) /\ Tracked(x)
  BY DEF GoodTty
<1>2. x.opens \in Nat /\ x.holders \in Nat /\ x.note \in Seq({"open", "close"})
  BY <1>1, TtyNumbers
<1>3. s \in Seq({"open", "close"}) /\ Head(x.note) = x.note[1]
  BY <1>2, HeadTailProperties
<1>4. n \in Nat
  BY <1>2
<1>5. Noted(t, x) = y
  BY <1>1 DEF Noted, TtyState
<1>6. /\ x.note[1] = "open" => n = x.opens + 1
      /\ x.note[1] # "open" /\ x.opens > 0 => n = x.opens - 1
  BY <1>3
<1> HIDE DEF n
<1>7. ~x.merged => /\ Alternates(s) /\ x.holders = n + Pending(s)
                   /\ s # << >> /\ s[1] = "close" => n > 0
  <2> SUFFICES ASSUME ~x.merged
               PROVE  /\ Alternates(s) /\ x.holders = n + Pending(s)
                      /\ s # << >> /\ s[1] = "close" => n > 0
    OBVIOUS
  <2> DEFINE q == x.note
  <2>1. /\ Alternates(q) /\ x.holders = x.opens + Pending(q)
        /\ (q[1] = "close" => x.opens > 0)
    BY <1>1 DEF Tracked
  <2>2. q \in Seq({"open", "close"}) /\ q # << >> /\ s = Tail(q)
    BY <1>2
  <2> HIDE DEF q, s
  <2>3. /\ Alternates(s) /\ q[1] \in {"open", "close"}
        /\ q[Len(q)] \in {"open", "close"}
        /\ s = << >> => q[Len(q)] = q[1]
        /\ s # << >> => /\ s[1] \in {"open", "close"} \ {q[1]}
                        /\ s[Len(s)] = q[Len(q)]
    BY <2>1, <2>2, TailEnds
  <2>4. Pending(s) = IF q[1] = "open" THEN Pending(q) - 1 ELSE Pending(q) + 1
    BY <2>2, <2>3 DEF Pending
  <2>5. Pending(q) \in Int
    BY DEF Pending
  <2>6. /\ q[1] = "open" => n = x.opens + 1
        /\ q[1] # "open" /\ x.opens > 0 => n = x.opens - 1
    BY <1>6 DEF q
  <2>7. CASE q[1] = "open"
    BY <1>2, <2>1, <2>3, <2>4, <2>5, <2>6, <2>7
  <2>8. CASE q[1] = "close"
    <3>1. x.opens > 0 /\ n = x.opens - 1 /\ Pending(s) = Pending(q) + 1
      BY <2>1, <2>4, <2>6, <2>8
    <3>2. x.holders = n + Pending(s)
      BY <1>2, <2>1, <2>5, <3>1
    <3>3. s # << >> => s[1] = "open"
      BY <2>3, <2>8
    <3> QED BY <2>3, <3>2, <3>3
  <2> QED BY <2>3, <2>7, <2>8
<1> HIDE DEF s
<1>8. v \in TtyState
  BY <1>1, <1>3, TtyField
<1>9. /\ y.opens = n /\ y.note = s
      /\ y.holders = x.holders /\ y.merged = x.merged
      /\ y.rbytes = x.rbytes /\ y.wbytes = x.wbytes /\ y.wdbytes = x.wdbytes
      /\ y.out = x.out /\ y.in = x.in /\ y.kept = x.kept
  BY <1>1 DEF TtyState
<1> HIDE DEF v
<1>10. y \in TtyState
  BY <1>4, <1>8, TtyField
<1> HIDE DEF y
<1>11. First(y)
  BY <1>1, <1>9 DEF First
<1>12. Tracked(y)
  BY <1>7, <1>9 DEF Tracked
<1> QED
  BY <1>5, <1>9, <1>10, <1>11, <1>12 DEF Keeps, GoodTty

-----------------------------------------------------------------------------
(* The state of yar *)

\* Accounting of one command, of the broadcast tty b, its client tty x and its
\* tty y; and a process that has its tty open is one of its holders
Balanced(b, x, y, p) ==
  /\ x.rbytes + b.rbytes + p.stopped = y.wbytes + y.wdbytes
  /\ y.rbytes = x.wbytes + x.wdbytes
  /\ p.proc = "open" => y.holders > 0

GoodCmd(p, c) == p \in CmdState /\ p.since <= Delay[c]

\* What holds of the ttys T and the commands P, within handlers too
Sound(T, P) ==
  /\ T \in [Tty -> TtyState] /\ \A t \in Tty : GoodTty(T[t])
  /\ P \in [Cmd -> CmdState] /\ \A c \in Cmd : GoodCmd(P[c], c)
  /\ \A c \in Cmd : Balanced(T[Bcst], T[Clt(c)], T[Cmdt(c)], P[c])

\* From ttys T to U no byte has been read from a command and none has been
\* written to the broadcast tty or discarded there
Quiet(T, U) ==
  /\ \A c \in Cmd : U[Cmdt(c)].rbytes = T[Cmdt(c)].rbytes
  /\ U[Bcst].wbytes + U[Bcst].wdbytes = T[Bcst].wbytes + T[Bcst].wdbytes

\* From ttys T to U a byte of c has been read, and one has been written to the
\* broadcast tty or discarded there
Heard(T, U, c) ==
  /\ U[Cmdt(c)].rbytes = T[Cmdt(c)].rbytes + 1
  /\ \A d \in Cmd : d # c => U[Cmdt(d)].rbytes = T[Cmdt(d)].rbytes
  /\ U[Bcst].wbytes + U[Bcst].wdbytes = T[Bcst].wbytes + T[Bcst].wdbytes + 1

\* The names of ttys are distinct
LEMMA TtyNames ==
  /\ Bcst \in Tty
  /\ \A c \in Cmd : /\ Clt(c) \in Tty /\ Cmdt(c) \in Tty
                    /\ Clt(c) # Bcst /\ Cmdt(c) # Bcst /\ Cmdt(c)[2] = c
                    /\ \A d \in Cmd : /\ Clt(c) # Cmdt(d)
                                      /\ Clt(c) = Clt(d) => c = d
                                      /\ Cmdt(c) = Cmdt(d) => c = d
                    /\ Cmdt(c) \in CmdTty /\ Clt(c) \notin CmdTty
  /\ Bcst \notin CmdTty
  /\ \A t \in CmdTty : t \in Tty /\ \E c \in Cmd : t = Cmdt(c)
  /\ \A t \in Tty : t = Bcst \/ \E c \in Cmd : t = Clt(c) \/ t = Cmdt(c)
BY DEF Bcst, Clt, Cmdt, Tty, CltTty, CmdTty

\* A stop string is no longer than the room every buffer keeps for it
LEMMA StopRoom == StopBytes \in Nat /\ StopBytes <= StopLen + 1
BY RelayAssumption DEF StopBytes

\* What cmdStop leaves of a command; b: the stop string has been written
StopOf(p, c, b) == [p EXCEPT !.proc = "none", !.stopped = @ + StopBytes,
                             !.since = IF b THEN Delay[c] ELSE @]

\* It is a command that does not run
LEMMA StoppedCmd ==
  ASSUME NEW p, NEW c \in Cmd, NEW b \in BOOLEAN, GoodCmd(p, c)
  PROVE  /\ GoodCmd(StopOf(p, c, b), c) /\ StopOf(p, c, b).proc = "none"
         /\ StopOf(p, c, b).stopped = p.stopped + StopBytes
<1> DEFINE m  == p.stopped + StopBytes
           n  == IF b THEN Delay[c] ELSE p.since
           p1 == [p EXCEPT !.proc = "none"]
           p2 == [p1 EXCEPT !.stopped = m]
           p3 == [p2 EXCEPT !.since = n]
<1>1. p \in CmdState /\ p.since <= Delay[c]
  BY DEF GoodCmd
<1>2. m \in Nat /\ n \in Nat /\ n <= Delay[c]
  <2>1. p.stopped \in Nat /\ p.since \in Nat /\ Delay[c] \in Nat
    BY <1>1, RelayAssumption DEF CmdState
  <2> QED BY <1>1, <2>1, StopRoom
<1>3. StopOf(p, c, b) = p3
  BY <1>1 DEF StopOf, CmdState
<1>4. p3.stopped = p.stopped + StopBytes
  BY <1>1 DEF CmdState
<1> HIDE DEF m, n
<1>5. p1 \in CmdState
  BY <1>1, FieldType
<1>6. p3.proc = "none" /\ p3.since = n
  BY <1>1 DEF CmdState
<1> HIDE DEF p1
<1>7. p2 \in CmdState
  BY <1>2, <1>5, FieldType
<1> HIDE DEF p2
<1>8. p3 \in CmdState
  BY <1>2, <1>7, FieldType
<1> HIDE DEF p3
<1> QED
  BY <1>2, <1>3, <1>4, <1>6, <1>8 DEF GoodCmd

\* cmdStop of some commands keeps the state sound
LEMMA StopSound ==
  ASSUME NEW T, NEW P, NEW C \in SUBSET Cmd, Sound(T, P), ~StopFails(T, P, C)
  PROVE  /\ Sound(StoppedTtys(T, P, C), StoppedCmds(T, P, C))
         /\ \A t \in Tty : Wrote(T[t], StoppedTtys(T, P, C)[t])
         /\ \A t \in Tty : (\A c \in C : t # Cmdt(c))
                             => StoppedTtys(T, P, C)[t] = T[t]
         /\ Quiet(T, StoppedTtys(T, P, C))
<1> DEFINE U == StoppedTtys(T, P, C)
           Q == StoppedCmds(T, P, C)
           S == Stops(T, P, C)
<1>1. S \subseteq Cmd /\ S \subseteq C
  BY DEF Stops
<1>2. ASSUME NEW c \in S
      PROVE  /\ GoodTty(U[Cmdt(c)]) /\ Wrote(T[Cmdt(c)], U[Cmdt(c)])
             /\ U[Cmdt(c)].rbytes = T[Cmdt(c)].rbytes
             /\ U[Cmdt(c)].wbytes + U[Cmdt(c)].wdbytes =
                  T[Cmdt(c)].wbytes + T[Cmdt(c)].wdbytes + StopBytes
             /\ GoodCmd(Q[c], c) /\ Q[c].proc = "none"
             /\ Q[c].stopped = P[c].stopped + StopBytes
  <2> DEFINE x == T[Cmdt(c)]
             w == ttyWriteBuf(x, StopBytes)
             y == Hangup(w, P[c])
  <2>1. c \in Cmd /\ Cmdt(c) \in Tty /\ Cmdt(c)[2] = c
    BY <1>1, TtyNames
  <2>2. U[Cmdt(c)] = y
    BY <2>1 DEF StoppedTtys
  <2>3. ~Fails(x, StopBytes)
    BY DEF StopFails
  <2>4. GoodTty(x) /\ (P[c].proc = "open" => x.holders > 0)
    BY <2>1 DEF Sound, Balanced
  <2>5. GoodCmd(P[c], c)
    BY <2>1 DEF Sound
  <2>6. /\ GoodCmd(Q[c], c) /\ Q[c].proc = "none"
        /\ Q[c].stopped = P[c].stopped + StopBytes
    <3> DEFINE b == StopBytes # 0 /\ T[Cmdt(c)].opens # 0
               p == P[c]
    <3>1. Q[c] = StopOf(p, c, b)
      BY <2>1 DEF StoppedCmds, StopOf
    <3>2. b \in BOOLEAN /\ GoodCmd(p, c)
      BY <2>5
    <3> HIDE DEF b, p, Q
    <3>3. /\ GoodCmd(Q[c], c) /\ Q[c].proc = "none"
          /\ Q[c].stopped = p.stopped + StopBytes
      BY <2>1, <3>1, <3>2, StoppedCmd
    <3> QED BY <3>3 DEF p
  <2> HIDE DEF x
  <2>7. Relays(x, w, 0, StopBytes)
    BY <2>3, <2>4, StopRoom, WriteGood
  <2> HIDE DEF w
  <2>8. Keeps(w, y)
    BY <2>4, <2>7, HangupGood DEF Relays
  <2> HIDE DEF y
  <2>9. GoodTty(y) /\ Wrote(x, y)
    BY <2>7, <2>8 DEF Relays, Keeps, Wrote
  <2>10. /\ y.rbytes = x.rbytes
         /\ y.wbytes + y.wdbytes = x.wbytes + x.wdbytes + StopBytes
    <3>1. w.rbytes = x.rbytes + 0 /\ x.rbytes \in Nat
      BY <2>4, <2>7, TtyNumbers DEF Relays, GoodTty
    <3> QED BY <2>7, <2>8, <3>1 DEF Relays, Keeps
  <2> QED
    BY <2>2, <2>6, <2>9, <2>10 DEF x
<1>3. ASSUME NEW t \in Tty, \A c \in S : t # Cmdt(c)
      PROVE  U[t] = T[t]
  BY <1>3 DEF StoppedTtys
<1>4. ASSUME NEW c \in Cmd, c \notin S
      PROVE  Q[c] = P[c]
  BY <1>4 DEF StoppedCmds
<1>5. U = [t \in Tty |-> U[t]] /\ Q = [c \in Cmd |-> Q[c]]
  BY DEF StoppedTtys, StoppedCmds
<1> HIDE DEF U, Q, S
<1>6. ASSUME NEW t \in Tty
      PROVE  GoodTty(U[t]) /\ Wrote(T[t], U[t])
  <2>1. CASE \A c \in S : t # Cmdt(c)
    BY <1>3, <2>1 DEF Sound, Wrote
  <2>2. CASE \E c \in S : t = Cmdt(c)
    BY <1>2, <2>2
  <2> QED BY <2>1, <2>2
<1>7. ASSUME NEW c \in Cmd
      PROVE  GoodCmd(Q[c], c) /\ Balanced(U[Bcst], U[Clt(c)], U[Cmdt(c)], Q[c])
  <2>1. U[Bcst] = T[Bcst] /\ U[Clt(c)] = T[Clt(c)]
    BY <1>1, <1>3, TtyNames
  <2>2. GoodCmd(P[c], c) /\ Balanced(T[Bcst], T[Clt(c)], T[Cmdt(c)], P[c])
    BY DEF Sound
  <2>3. CASE c \notin S
    <3>1. U[Cmdt(c)] = T[Cmdt(c)]
      <4>1. \A d \in S : Cmdt(c) # Cmdt(d)
        BY <1>1, <2>3, TtyNames
      <4> QED BY <1>3, <4>1, TtyNames
    <3> QED BY <1>4, <2>1, <2>2, <2>3, <3>1
  <2>4. CASE c \in S
    <3>1. /\ T[Clt(c)].rbytes \in Nat /\ T[Bcst].rbytes \in Nat
          /\ P[c].stopped \in Nat
      <4>1. T[Clt(c)] \in TtyState /\ T[Bcst] \in TtyState /\ P[c] \in CmdState
        BY TtyNames DEF Sound
      <4> QED BY <4>1, TtyNumbers DEF CmdState
    <3>2. T[Clt(c)].rbytes + T[Bcst].rbytes + Q[c].stopped =
            U[Cmdt(c)].wbytes + U[Cmdt(c)].wdbytes
      BY <1>2, <2>2, <2>4, <3>1, StopRoom DEF Balanced
    <3> QED
      BY <1>2, <2>1, <2>2, <2>4, <3>2 DEF Balanced
  <2> QED BY <2>3, <2>4
<1>8. \A t \in Tty : (\A c \in C : t # Cmdt(c)) => U[t] = T[t]
  BY <1>1, <1>3
<1>9. U \in [Tty -> TtyState] /\ Q \in [Cmd -> CmdState]
  BY <1>5, <1>6, <1>7 DEF GoodTty, GoodCmd
<1>10. Quiet(T, U)
  <2>1. U[Bcst] = T[Bcst]
    BY <1>1, <1>3, TtyNames
  <2>2. ASSUME NEW c \in Cmd PROVE U[Cmdt(c)].rbytes = T[Cmdt(c)].rbytes
    <3>1. CASE \A d \in S : Cmdt(c) # Cmdt(d)
      BY <1>3, <3>1, TtyNames
    <3>2. CASE \E d \in S : Cmdt(c) = Cmdt(d)
      BY <1>2, <3>2
    <3> QED BY <3>1, <3>2
  <2> QED BY <2>1, <2>2 DEF Quiet
<1> QED
  BY <1>6, <1>7, <1>8, <1>9, <1>10 DEF Sound, U, Q

\* Somebody has left bytes unread
Unread(T) == \E t \in Tty : T[t].opens > 0 /\ T[t].out > 0

\* A step has left a sound state
StepSound ==
  /\ Sound(tty', cmd') /\ halt' \in BOOLEAN /\ (halt' => Unread(tty'))
  /\ \A t \in Tty : Wrote(tty[t], tty'[t])
  /\ Quiet(tty, tty') \/ \E c \in Cmd : Heard(tty, tty', c)

\* A write that fails is to a tty that has not been read
LEMMA FailsUnread ==
  ASSUME Sound(tty, cmd), NEW t \in Tty, Fails(tty[t], 1), Halt
  PROVE  StepSound
<1>1. tty[t].opens # 0 /\ tty[t].out + 1 > Cap
  BY DEF Fails
<1>2. tty[t].opens \in Nat /\ tty[t].out \in 0..Cap /\ Cap \in Nat
  BY TtyNumbers DEF Sound
<1>3. Cap > 0
  BY RelayAssumption
<1>4. tty[t].opens > 0 /\ tty[t].out > 0
  BY <1>1, <1>2, <1>3
<1>5. tty' = tty /\ cmd' = cmd /\ halt' = TRUE
  BY DEF Halt
<1> QED
  BY <1>4, <1>5 DEF StepSound, Unread, Wrote, Quiet

\* The end of a handler keeps sound what the handler has reached, if that has
\* not changed who has the ttys of the commands open and has written no more
\* than a byte to each of them
LEMMA ThenStopSound ==
  ASSUME NEW T, NEW P, NEW C \in SUBSET Cmd,
         Sound(tty, cmd), Sound(T, P), ThenStop(T, P, C), halt = FALSE,
         \A t \in Tty : Wrote(tty[t], T[t]), Quiet(tty, T),
         \A c \in C : /\ T[Cmdt(c)].opens = tty[Cmdt(c)].opens
                       /\ T[Cmdt(c)].out <= tty[Cmdt(c)].out + 1
  PROVE  StepSound
<1>1. CASE StopFails(T, P, C)
  <2>1. tty' = tty /\ cmd' = cmd /\ halt' = TRUE
    BY <1>1 DEF ThenStop, Halt
  <2>2. PICK c \in C : Fails(T[Cmdt(c)], StopBytes)
    BY <1>1 DEF StopFails, Stops
  <2> DEFINE x == tty[Cmdt(c)]
             y == T[Cmdt(c)]
  <2>3. /\ x.opens \in Nat /\ x.out \in 0..Cap /\ Cap \in Nat
        /\ y.out \in 0..Cap
    BY TtyNames, TtyNumbers DEF Sound
  <2>4. y.opens # 0 /\ y.out + StopBytes > Cap
    BY <2>2 DEF Fails
  <2>5. y.opens = x.opens /\ y.out <= x.out + 1
    BY TtyNames
  <2>6. Cap > StopLen + 1 /\ StopLen \in Nat
    BY RelayAssumption
  <2> HIDE DEF x, y
  <2>7. x.opens > 0 /\ x.out > 0
    BY <2>3, <2>4, <2>5, <2>6, StopRoom
  <2> QED
    BY <2>1, <2>7, TtyNames DEF StepSound, Unread, Wrote, Quiet, x
<1>2. CASE ~StopFails(T, P, C)
  <2> DEFINE U == StoppedTtys(T, P, C)
             Q == StoppedCmds(T, P, C)
  <2>1. tty' = U /\ cmd' = Q /\ halt' = halt
    BY <1>2 DEF ThenStop
  <2>2. /\ Sound(U, Q) /\ \A t \in Tty : Wrote(T[t], U[t])
        /\ \A t \in Tty : (\A c \in C : t # Cmdt(c)) => U[t] = T[t]
        /\ Quiet(T, U)
    BY <1>2, StopSound
  <2> HIDE DEF U, Q
  <2>3. ASSUME NEW t \in Tty PROVE Wrote(tty[t], U[t])
    <3>1. CASE \E c \in C : t = Cmdt(c)
      BY <2>2, <3>1 DEF Wrote
    <3>2. CASE \A c \in C : t # Cmdt(c)
      BY <2>2, <3>2 DEF Wrote
    <3> QED BY <3>1, <3>2
  <2>4. ~halt' /\ halt' \in BOOLEAN
    BY <2>1
  <2>5. Quiet(tty, U)
    BY <2>2 DEF Quiet
  <2> QED
    BY <2>1, <2>2, <2>3, <2>4, <2>5 DEF StepSound
<1> QED BY <1>1, <1>2

\* The time of a write is marked, and nothing else of a command changes
LEMMA MarkedGood ==
  ASSUME NEW p, NEW x, NEW c \in Cmd, GoodCmd(p, c)
  PROVE  /\ GoodCmd(Marked(p, x, c), c)
         /\ Marked(p, x, c).stopped = p.stopped
         /\ Marked(p, x, c).proc = p.proc
<1>1. p \in CmdState /\ p.since <= Delay[c] /\ Delay[c] \in Nat
  BY RelayAssumption DEF GoodCmd
<1>2. Marked(p, x, c) \in CmdState
  BY <1>1, MarkedType
<1>3. CASE x.opens # 0
  <2> DEFINE h == p.hurried \/ p.since < Delay[c]
  <2>1. Marked(p, x, c) = [p EXCEPT !.since = 0, !.hurried = h]
    BY <1>3 DEF Marked
  <2> HIDE DEF h
  <2>2. /\ Marked(p, x, c).since = 0 /\ Marked(p, x, c).stopped = p.stopped
        /\ Marked(p, x, c).proc = p.proc
    BY <1>1, <2>1 DEF CmdState
  <2> QED BY <1>1, <1>2, <2>2 DEF GoodCmd
<1>4. CASE x.opens = 0
  BY <1>4 DEF Marked
<1> QED BY <1>3, <1>4

\* A tty that is left alone has relayed nothing
LEMMA RelaysNone ==
  ASSUME NEW x, GoodTty(x)
  PROVE  Relays(x, x, 0, 0)
<1>1. x.rbytes = x.rbytes + 0 /\ x.wbytes + x.wdbytes = x.wbytes + x.wdbytes + 0
      /\ x.out <= x.out + 0
  BY TtyNumbers DEF GoodTty
<1> QED BY <1>1 DEF Relays, Wrote

\* The counters of a command stay in balance if i bytes have been read from its
\* client tty and j from the broadcast tty, and i + j written to its own; and k
\* bytes read from its own and written to its client tty
LEMMA StaysBalanced ==
  ASSUME NEW b \in TtyState, NEW x \in TtyState, NEW y \in TtyState,
         NEW p \in CmdState, NEW a, NEW u, NEW v, NEW q,
         NEW i \in Nat, NEW j \in Nat, NEW k \in Nat, NEW m \in Nat,
         Balanced(b, x, y, p), Relays(b, a, j, m), Relays(x, u, i, k),
         Relays(y, v, k, i + j), q.stopped = p.stopped, q.proc = p.proc
  PROVE  Balanced(a, u, v, q)
<1>1. p.stopped \in Nat
  BY DEF CmdState
<1>2. u.rbytes + a.rbytes + q.stopped = v.wbytes + v.wdbytes
  <2>1. /\ u.rbytes = x.rbytes + i /\ a.rbytes = b.rbytes + j
        /\ v.wbytes + v.wdbytes = y.wbytes + y.wdbytes + (i + j)
    BY DEF Relays
  <2>2. x.rbytes + b.rbytes + p.stopped = y.wbytes + y.wdbytes
    BY DEF Balanced
  <2>3. x.rbytes \in Nat /\ b.rbytes \in Nat
    BY TtyNumbers
  <2> QED BY <1>1, <2>1, <2>2, <2>3
<1>3. v.rbytes = u.wbytes + u.wdbytes
  <2>1. /\ v.rbytes = y.rbytes + k
        /\ u.wbytes + u.wdbytes = x.wbytes + x.wdbytes + k
    BY DEF Relays
  <2>2. y.rbytes = x.wbytes + x.wdbytes
    BY DEF Balanced
  <2> QED BY <2>1, <2>2
<1>4. q.proc = "open" => v.holders > 0
  BY DEF Relays, Balanced
<1> QED
  BY <1>2, <1>3, <1>4 DEF Balanced

\* A byte from a client is counted once where it is read and once where it is
\* written or discarded
LEMMA CltSound ==
  ASSUME Sound(tty, cmd), halt \in BOOLEAN, NEW c \in Cmd, CltttyEvent(c)
  PROVE  StepSound
<1> DEFINE x == tty[Clt(c)]
           y == tty[Cmdt(c)]
           T == [tty EXCEPT ![Clt(c)] = ttyReadChar(@),
                            ![Cmdt(c)] = ttyWriteBuf(@, 1)]
           P == [cmd EXCEPT ![c] = Marked(@, tty[Cmdt(c)], c)]
           C == {c}
<1>1. halt = FALSE /\ x.in > 0
  BY DEF CltttyEvent
<1>2. CASE Fails(y, 1)
  <2>1. Halt
    BY <1>2 DEF CltttyEvent
  <2> QED BY <1>2, <2>1, FailsUnread, TtyNames
<1>3. CASE ~Fails(y, 1)
  <2>1. ThenStop(T, P, C)
    BY <1>3 DEF CltttyEvent
  <2>2. GoodTty(x) /\ GoodTty(y)
    BY TtyNames DEF Sound
  <2>3. Relays(x, ttyReadChar(x), 1, 0) /\ Relays(y, ttyWriteBuf(y, 1), 0, 1)
    <3> HIDE DEF x, y
    <3> QED BY <1>1, <1>3, <2>2, ReadGood, WriteGood
  <2>4. tty \in [Tty -> TtyState] /\ cmd \in [Cmd -> CmdState]
    BY DEF Sound
  <2>5. /\ T = [t \in Tty |-> T[t]]
        /\ T[Clt(c)] = ttyReadChar(x) /\ T[Cmdt(c)] = ttyWriteBuf(y, 1)
        /\ \A t \in Tty : t # Clt(c) /\ t # Cmdt(c) => T[t] = tty[t]
    BY <2>4, TtyNames
  <2>6. /\ P = [d \in Cmd |-> P[d]] /\ P[c] = Marked(cmd[c], y, c)
        /\ \A d \in Cmd : d # c => P[d] = cmd[d]
    BY <2>4
  <2> HIDE DEF x, y, T, P
  <2>7. ASSUME NEW t \in Tty PROVE GoodTty(T[t]) /\ Wrote(tty[t], T[t])
    <3>1. CASE t = Clt(c)
      BY <2>3, <2>5, <3>1 DEF Relays, x
    <3>2. CASE t = Cmdt(c)
      BY <2>3, <2>5, <3>2 DEF Relays, y
    <3>3. CASE t # Clt(c) /\ t # Cmdt(c)
      BY <2>5, <3>3 DEF Sound, Wrote
    <3> QED BY <3>1, <3>2, <3>3
  <2>8. /\ GoodCmd(P[c], c) /\ P[c].stopped = cmd[c].stopped
        /\ P[c].proc = cmd[c].proc
    BY <2>6, MarkedGood DEF Sound
  <2>9. ASSUME NEW d \in Cmd
        PROVE  GoodCmd(P[d], d) /\ Balanced(T[Bcst], T[Clt(d)], T[Cmdt(d)], P[d])
    <3>1. GoodCmd(cmd[d], d)
          /\ Balanced(tty[Bcst], tty[Clt(d)], tty[Cmdt(d)], cmd[d])
      BY DEF Sound
    <3>2. T[Bcst] = tty[Bcst]
      BY <2>5, TtyNames
    <3>3. CASE d # c
      <4>1. T[Clt(d)] = tty[Clt(d)] /\ T[Cmdt(d)] = tty[Cmdt(d)]
        BY <2>5, <3>3, TtyNames
      <4> QED BY <2>6, <3>1, <3>2, <3>3, <4>1
    <3>4. CASE d = c
      <4> DEFINE u == T[Clt(c)]
                 v == T[Cmdt(c)]
                 b == tty[Bcst]
                 p == cmd[c]
                 q == P[c]
      <4>1. Relays(x, u, 1, 0) /\ Relays(y, v, 0, 1)
        BY <2>3, <2>5
      <4>2. Balanced(b, x, y, p)
        BY <3>1, <3>4 DEF x, y
      <4>3. x \in TtyState /\ y \in TtyState /\ b \in TtyState /\ p \in CmdState
        BY TtyNames DEF Sound, x, y
      <4>4. q.stopped = p.stopped /\ q.proc = p.proc
        BY <2>8
      <4> HIDE DEF u, v, b, p, q
      <4>5. GoodTty(b)
        BY TtyNames DEF Sound, b
      <4>6. Relays(b, b, 0, 0)
        BY <4>5, RelaysNone
      <4>7. Relays(y, v, 0, 1 + 0)
        BY <4>1
      <4>8. Balanced(b, u, v, q)
        BY <4>1, <4>2, <4>3, <4>4, <4>6, <4>7, StaysBalanced
      <4> QED BY <2>8, <3>2, <3>4, <4>8 DEF u, v, b, q
    <3> QED BY <3>3, <3>4
  <2>10. T \in [Tty -> TtyState] /\ P \in [Cmd -> CmdState]
    BY <2>5, <2>6, <2>7, <2>9 DEF GoodTty, GoodCmd
  <2>11. Sound(T, P)
    BY <2>7, <2>9, <2>10 DEF Sound
  <2>12. \A d \in C : /\ T[Cmdt(d)].opens = tty[Cmdt(d)].opens
                      /\ T[Cmdt(d)].out <= tty[Cmdt(d)].out + 1
    BY <2>3, <2>5 DEF Relays, y
  <2>13. C \in SUBSET Cmd
    OBVIOUS
  <2>14. Quiet(tty, T)
    <3>1. T[Bcst] = tty[Bcst]
      BY <2>5, TtyNames
    <3>2. ASSUME NEW d \in Cmd, d # c PROVE T[Cmdt(d)] = tty[Cmdt(d)]
      BY <2>5, <3>2, TtyNames
    <3>3. T[Cmdt(c)].rbytes = tty[Cmdt(c)].rbytes
      <4>1. T[Cmdt(c)].rbytes = y.rbytes + 0
        BY <2>3, <2>5 DEF Relays
      <4>2. y.rbytes \in Nat
        BY <2>2, TtyNumbers DEF GoodTty
      <4> QED BY <4>1, <4>2 DEF y
    <3> QED BY <3>1, <3>2, <3>3 DEF Quiet
  <2> HIDE DEF C
  <2> QED
    BY <1>1, <2>1, <2>7, <2>11, <2>12, <2>13, <2>14, ThenStopSound
<1> QED BY <1>2, <1>3

\* A broadcast byte is counted once where it is read and once for each command
LEMMA BcstSound ==
  ASSUME Sound(tty, cmd), halt \in BOOLEAN, BcstttyEvent
  PROVE  StepSound
<1>1. halt = FALSE /\ tty[Bcst].in > 0
  BY DEF BcstttyEvent
<1>2. CASE \E t \in CmdTty : Fails(tty[t], 1)
  <2>1. Halt
    BY <1>2 DEF BcstttyEvent
  <2> QED BY <1>2, <2>1, FailsUnread, TtyNames
<1>3. CASE ~\E t \in CmdTty : Fails(tty[t], 1)
  <2>1. /\ tty' = [t \in Tty |-> CASE t = Bcst -> ttyReadChar(tty[t])
                                   [] t \in CmdTty -> ttyWriteBuf(tty[t], 1)
                                   [] OTHER -> tty[t]]
        /\ cmd' = [c \in Cmd |-> Marked(cmd[c], tty[Cmdt(c)], c)]
        /\ halt' = halt
    BY <1>3 DEF BcstttyEvent
  <2>2. tty' = [t \in Tty |-> tty'[t]] /\ cmd' = [c \in Cmd |-> cmd'[c]]
    BY <2>1
  <2>3. tty'[Bcst] = ttyReadChar(tty[Bcst])
    BY <2>1, TtyNames
  <2>4. \A c \in Cmd : /\ tty'[Cmdt(c)] = ttyWriteBuf(tty[Cmdt(c)], 1)
                       /\ tty'[Clt(c)] = tty[Clt(c)]
                       /\ cmd'[c] = Marked(cmd[c], tty[Cmdt(c)], c)
    <3> TAKE c \in Cmd
    <3>1. /\ Cmdt(c) \in Tty /\ Cmdt(c) # Bcst /\ Cmdt(c) \in CmdTty
          /\ Clt(c) \in Tty /\ Clt(c) # Bcst /\ Clt(c) \notin CmdTty
      BY TtyNames
    <3> QED BY <2>1, <3>1
  <2>5. Relays(tty[Bcst], tty'[Bcst], 1, 0)
    <3>1. GoodTty(tty[Bcst])
      BY TtyNames DEF Sound
    <3> QED BY <1>1, <2>3, <3>1, ReadGood
  <2>6. ASSUME NEW c \in Cmd
        PROVE  /\ Relays(tty[Cmdt(c)], tty'[Cmdt(c)], 0, 1)
               /\ Relays(tty[Clt(c)], tty'[Clt(c)], 0, 0)
               /\ GoodCmd(cmd'[c], c)
               /\ cmd'[c].stopped = cmd[c].stopped /\ cmd'[c].proc = cmd[c].proc
    <3>1. GoodTty(tty[Cmdt(c)]) /\ GoodTty(tty[Clt(c)]) /\ GoodCmd(cmd[c], c)
      BY TtyNames DEF Sound
    <3>2. ~Fails(tty[Cmdt(c)], 1)
      BY <1>3, TtyNames
    <3>3. Relays(tty[Cmdt(c)], ttyWriteBuf(tty[Cmdt(c)], 1), 0, 1)
      BY <3>1, <3>2, WriteGood
    <3>4. Relays(tty[Clt(c)], tty[Clt(c)], 0, 0)
      BY <3>1, RelaysNone
    <3>5. /\ GoodCmd(Marked(cmd[c], tty[Cmdt(c)], c), c)
          /\ Marked(cmd[c], tty[Cmdt(c)], c).stopped = cmd[c].stopped
          /\ Marked(cmd[c], tty[Cmdt(c)], c).proc = cmd[c].proc
      BY <3>1, MarkedGood
    <3> QED BY <2>4, <3>3, <3>4, <3>5
  <2>7. ASSUME NEW t \in Tty PROVE GoodTty(tty'[t]) /\ Wrote(tty[t], tty'[t])
    BY <2>5, <2>6, TtyNames DEF Relays
  <2>8. ASSUME NEW c \in Cmd
        PROVE  Balanced(tty'[Bcst], tty'[Clt(c)], tty'[Cmdt(c)], cmd'[c])
    <3>1. /\ tty[Bcst] \in TtyState /\ tty[Clt(c)] \in TtyState
          /\ tty[Cmdt(c)] \in TtyState /\ cmd[c] \in CmdState
          /\ Balanced(tty[Bcst], tty[Clt(c)], tty[Cmdt(c)], cmd[c])
      BY TtyNames DEF Sound
    <3>2. Relays(tty[Cmdt(c)], tty'[Cmdt(c)], 0, 0 + 1)
      BY <2>6
    <3> QED BY <2>5, <2>6, <3>1, <3>2, StaysBalanced
  <2>9. tty' \in [Tty -> TtyState] /\ cmd' \in [Cmd -> CmdState]
    BY <2>2, <2>6, <2>7 DEF GoodTty, GoodCmd
  <2>10. halt' = FALSE
    BY <1>1, <2>1
  <2>11. Quiet(tty, tty')
    <3>1. /\ tty'[Bcst].wbytes + tty'[Bcst].wdbytes =
               tty[Bcst].wbytes + tty[Bcst].wdbytes + 0
          /\ tty[Bcst].wbytes \in Nat /\ tty[Bcst].wdbytes \in Nat
      BY <2>5, TtyNames, TtyNumbers DEF Relays, Sound
    <3>2. ASSUME NEW c \in Cmd
          PROVE  tty'[Cmdt(c)].rbytes = tty[Cmdt(c)].rbytes
      <4>1. /\ tty'[Cmdt(c)].rbytes = tty[Cmdt(c)].rbytes + 0
            /\ tty[Cmdt(c)].rbytes \in Nat
        BY <2>6, TtyNames, TtyNumbers DEF Relays, Sound
      <4> QED BY <4>1
    <3> QED BY <3>1, <3>2 DEF Quiet
  <2> QED
    BY <2>6, <2>7, <2>8, <2>9, <2>10, <2>11 DEF StepSound, Sound
<1> QED BY <1>2, <1>3

\* A byte a process has printed is counted once where it is read, once for its
\* client tty, and once for the broadcast tty
LEMMA CmdttySound ==
  ASSUME Sound(tty, cmd), halt \in BOOLEAN, NEW c \in Cmd, CmdttyEvent(c)
  PROVE  StepSound
<1> DEFINE to == {Clt(c), Bcst}
<1>1. halt = FALSE /\ tty[Cmdt(c)].in > 0
  BY DEF CmdttyEvent
<1>2. CASE \E t \in to : Fails(tty[t], 1)
  <2>1. Halt
    BY <1>2 DEF CmdttyEvent
  <2> QED BY <1>2, <2>1, FailsUnread, TtyNames
<1>3. CASE ~\E t \in to : Fails(tty[t], 1)
  <2>1. /\ tty' = [t \in Tty |-> CASE t = Cmdt(c) -> ttyReadChar(tty[t])
                                   [] t \in to -> ttyWriteBuf(tty[t], 1)
                                   [] OTHER -> tty[t]]
        /\ cmd' = cmd /\ halt' = halt
    BY <1>3 DEF CmdttyEvent
  <2>2. tty' = [t \in Tty |-> tty'[t]]
    BY <2>1
  <2>3. /\ tty'[Cmdt(c)] = ttyReadChar(tty[Cmdt(c)])
        /\ tty'[Clt(c)] = ttyWriteBuf(tty[Clt(c)], 1)
        /\ tty'[Bcst] = ttyWriteBuf(tty[Bcst], 1)
    BY <2>1, TtyNames
  <2>4. \A t \in Tty : t # Cmdt(c) /\ t \notin to => tty'[t] = tty[t]
    BY <2>1
  <2>5. GoodTty(tty[Bcst]) /\ GoodTty(tty[Clt(c)]) /\ GoodTty(tty[Cmdt(c)])
    BY TtyNames DEF Sound
  <2>6. ~Fails(tty[Clt(c)], 1) /\ ~Fails(tty[Bcst], 1)
    BY <1>3
  <2>7. /\ Relays(tty[Cmdt(c)], tty'[Cmdt(c)], 1, 0)
        /\ Relays(tty[Clt(c)], tty'[Clt(c)], 0, 1)
        /\ Relays(tty[Bcst], tty'[Bcst], 0, 1)
    BY <1>1, <2>3, <2>5, <2>6, ReadGood, WriteGood
  <2>8. ASSUME NEW t \in Tty PROVE GoodTty(tty'[t]) /\ Wrote(tty[t], tty'[t])
    <3>1. CASE t = Cmdt(c) \/ t \in to
      BY <2>7, <3>1 DEF Relays
    <3>2. CASE t # Cmdt(c) /\ t \notin to
      BY <2>4, <3>2 DEF Sound, Wrote
    <3> QED BY <3>1, <3>2
  <2>9. ASSUME NEW d \in Cmd
        PROVE  Balanced(tty'[Bcst], tty'[Clt(d)], tty'[Cmdt(d)], cmd'[d])
    <3>1. /\ tty[Bcst] \in TtyState /\ tty[Clt(d)] \in TtyState
          /\ tty[Cmdt(d)] \in TtyState /\ cmd[d] \in CmdState
          /\ Balanced(tty[Bcst], tty[Clt(d)], tty[Cmdt(d)], cmd[d])
          /\ GoodTty(tty[Clt(d)]) /\ GoodTty(tty[Cmdt(d)])
      BY TtyNames DEF Sound
    <3>2. CASE d = c
      <4>1. Relays(tty[Cmdt(d)], tty'[Cmdt(d)], 1, 0 + 0)
        BY <2>7, <3>2
      <4>2. Relays(tty[Clt(d)], tty'[Clt(d)], 0, 1)
        BY <2>7, <3>2
      <4>3. cmd'[d].stopped = cmd[d].stopped /\ cmd'[d].proc = cmd[d].proc
        BY <2>1
      <4> QED BY <2>7, <3>1, <4>1, <4>2, <4>3, StaysBalanced
    <3>3. CASE d # c
      <4>1. tty'[Clt(d)] = tty[Clt(d)] /\ tty'[Cmdt(d)] = tty[Cmdt(d)]
        BY <2>4, <3>3, TtyNames
      <4>2. /\ Relays(tty[Clt(d)], tty'[Clt(d)], 0, 0)
            /\ Relays(tty[Cmdt(d)], tty'[Cmdt(d)], 0, 0 + 0)
        BY <3>1, <4>1, RelaysNone
      <4> QED BY <2>1, <2>7, <3>1, <4>2, StaysBalanced
    <3> QED BY <3>2, <3>3
  <2>10. tty' \in [Tty -> TtyState]
    BY <2>2, <2>8 DEF GoodTty
  <2>11. /\ cmd' \in [Cmd -> CmdState] /\ \A d \in Cmd : GoodCmd(cmd'[d], d)
         /\ halt' = FALSE
    BY <1>1, <2>1 DEF Sound
  <2>12. Heard(tty, tty', c)
    <3>1. ASSUME NEW d \in Cmd, d # c PROVE tty'[Cmdt(d)] = tty[Cmdt(d)]
      BY <2>4, <3>1, TtyNames
    <3> QED BY <2>7, <3>1 DEF Heard, Relays
  <2> QED
    BY <2>8, <2>9, <2>10, <2>11, <2>12 DEF StepSound, Sound
<1> QED BY <1>2, <1>3

\* The state (T, P) is sound and nothing has been relayed to reach it
Reached(T, P) ==
  /\ Sound(T, P) /\ \A t \in Tty : Wrote(tty[t], T[t])
  /\ Quiet(tty, T)

\* A state in which nothing has been relayed since a sound one is sound, if the
\* processes that have their ttys open still hold them
LEMMA KeepsSound ==
  ASSUME Sound(tty, cmd), NEW T, NEW P,
         T \in [Tty -> TtyState], \A t \in Tty : Keeps(tty[t], T[t]),
         P \in [Cmd -> CmdState],
         \A c \in Cmd : /\ GoodCmd(P[c], c) /\ P[c].stopped = cmd[c].stopped
                        /\ P[c].proc = "open" => T[Cmdt(c)].holders > 0
  PROVE  Reached(T, P)
<1>1. ASSUME NEW c \in Cmd
      PROVE  Balanced(T[Bcst], T[Clt(c)], T[Cmdt(c)], P[c])
  <2>1. Balanced(tty[Bcst], tty[Clt(c)], tty[Cmdt(c)], cmd[c])
    BY DEF Sound
  <2>2. /\ Keeps(tty[Bcst], T[Bcst]) /\ Keeps(tty[Clt(c)], T[Clt(c)])
        /\ Keeps(tty[Cmdt(c)], T[Cmdt(c)])
    BY TtyNames
  <2> QED BY <2>1, <2>2 DEF Balanced, Keeps
<1>2. Quiet(tty, T)
  BY TtyNames DEF Quiet, Keeps
<1> QED
  BY <1>1, <1>2 DEF Sound, Keeps, Wrote, Reached

\* The commands P have written no other stop strings than cmd, and a process
\* that has its tty open still holds it, tty s having become y
StillHeld(P, s, y) ==
  \A c \in Cmd : /\ GoodCmd(P[c], c) /\ P[c].stopped = cmd[c].stopped
                 /\ P[c].proc = "open" => IF s = Cmdt(c) THEN y.holders > 0
                                          ELSE cmd[c].proc = "open"

\* The same when one tty has changed
LEMMA OneKeeps ==
  ASSUME Sound(tty, cmd), NEW s \in Tty, NEW y, Keeps(tty[s], y), NEW T, NEW P,
         T = [tty EXCEPT ![s] = y], P \in [Cmd -> CmdState],
         StillHeld(P, s, y)
  PROVE  Reached(T, P)
<1>1. tty \in [Tty -> TtyState] /\ \A t \in Tty : GoodTty(tty[t])
  BY DEF Sound
<1>2. /\ T = [t \in Tty |-> T[t]] /\ T[s] = y
      /\ \A t \in Tty : t # s => T[t] = tty[t]
  BY <1>1
<1>3. \A t \in Tty : Keeps(tty[t], T[t])
  BY <1>1, <1>2 DEF Keeps
<1>4. T \in [Tty -> TtyState]
  BY <1>2, <1>3 DEF Keeps, GoodTty
<1>5. ASSUME NEW c \in Cmd, P[c].proc = "open"
      PROVE  T[Cmdt(c)].holders > 0
  BY <1>2, <1>5, TtyNames DEF Sound, Balanced, StillHeld
<1> QED
  BY <1>3, <1>4, <1>5, KeepsSound DEF StillHeld

\* Starting a command leaves all of it but its process
LEMMA ForkedGood ==
  ASSUME NEW C \in SUBSET Cmd, Sound(tty, cmd)
  PROVE  /\ Forked(cmd, C) \in [Cmd -> CmdState]
         /\ \A c \in Cmd : /\ GoodCmd(Forked(cmd, C)[c], c)
                           /\ Forked(cmd, C)[c].stopped = cmd[c].stopped
                           /\ Forked(cmd, C)[c].proc = "open" =>
                                cmd[c].proc = "open"
<1> DEFINE P == Forked(cmd, C)
<1>1. cmd \in [Cmd -> CmdState] /\ \A c \in Cmd : GoodCmd(cmd[c], c)
  BY DEF Sound
<1>2. ASSUME NEW c \in Cmd
      PROVE  /\ GoodCmd(P[c], c) /\ P[c].stopped = cmd[c].stopped
             /\ P[c].proc = "open" => cmd[c].proc = "open"
  <2>1. cmd[c] \in CmdState /\ cmd[c].since <= Delay[c]
    BY <1>1 DEF GoodCmd
  <2>2. P[c] = cmd[c] \/ P[c] = [cmd[c] EXCEPT !.proc = "forked"]
    BY DEF Forked
  <2> HIDE DEF P
  <2> QED BY <2>1, <2>2 DEF GoodCmd, CmdState
<1>3. P = [c \in Cmd |-> P[c]]
  BY DEF Forked
<1> HIDE DEF P
<1>4. P \in [Cmd -> CmdState]
  BY <1>2, <1>3 DEF GoodCmd
<1> QED BY <1>2, <1>4 DEF P

\* A notification moves an event to the count of opens, and starts or stops
\* the commands it is about
LEMMA NotifySound ==
  ASSUME Sound(tty, cmd), halt \in BOOLEAN, NEW t \in Tty, NotifyEvent(t)
  PROVE  StepSound
<1> DEFINE y == Noted(t, tty[t])
           T == [tty EXCEPT ![t] = y]
           C == Served(t)
<1>1. halt = FALSE /\ tty[t].note # << >>
  BY DEF NotifyEvent
<1>2. \/ tty' = T /\ cmd' = Forked(cmd, C) /\ halt' = halt
      \/ ThenStop(T, cmd, C)
  BY DEF NotifyEvent
<1>3. C \in SUBSET Cmd
  BY DEF Served
<1>4. GoodTty(tty[t])
  BY DEF Sound
<1>5. Keeps(tty[t], y) /\ y.holders = tty[t].holders
  BY <1>1, <1>4, NotedGood
<1>6. cmd \in [Cmd -> CmdState] /\ \A c \in Cmd : GoodCmd(cmd[c], c)
  BY DEF Sound
<1>7. \A c \in Cmd : cmd[c].proc = "open" => tty[Cmdt(c)].holders > 0
  BY DEF Sound, Balanced
<1> HIDE DEF y, C
<1>8. CASE tty' = T /\ cmd' = Forked(cmd, C) /\ halt' = halt
  <2> DEFINE P == Forked(cmd, C)
  <2>1. /\ P \in [Cmd -> CmdState]
        /\ \A c \in Cmd : /\ GoodCmd(P[c], c) /\ P[c].stopped = cmd[c].stopped
                          /\ P[c].proc = "open" => cmd[c].proc = "open"
    BY <1>3, ForkedGood
  <2> HIDE DEF P
  <2>2. StillHeld(P, t, y)
    BY <1>5, <1>7, <2>1 DEF StillHeld
  <2>3. Reached(T, P)
    <3>1. T = [tty EXCEPT ![t] = y] /\ P \in [Cmd -> CmdState]
      BY <2>1
    <3> HIDE DEF T
    <3> QED BY <1>5, <2>2, <3>1, OneKeeps
  <2>4. tty' = T /\ cmd' = P /\ halt' = FALSE
    BY <1>1, <1>8 DEF P
  <2> HIDE DEF T
  <2> QED BY <2>3, <2>4 DEF StepSound, Reached
<1>9. CASE ThenStop(T, cmd, C)
  <2>1. StillHeld(cmd, t, y)
    BY <1>5, <1>6, <1>7 DEF StillHeld
  <2>2. Reached(T, cmd)
    BY <1>5, <1>6, <2>1, OneKeeps
  <2>3. ASSUME NEW c \in C
        PROVE  /\ T[Cmdt(c)].opens = tty[Cmdt(c)].opens
               /\ T[Cmdt(c)].out <= tty[Cmdt(c)].out + 1
    <3>1. c \in Cmd /\ t # Cmdt(c)
      BY TtyNames DEF C, Served
    <3>2. T[Cmdt(c)] = tty[Cmdt(c)]
      BY <3>1, TtyNames DEF Sound
    <3>3. tty[Cmdt(c)].out \in 0..Cap /\ Cap \in Nat
      BY <3>1, TtyNames, TtyNumbers DEF Sound
    <3> QED BY <3>2, <3>3
  <2> HIDE DEF T
  <2> QED
    BY <1>1, <1>3, <1>9, <2>2, <2>3, ThenStopSound DEF Reached
<1> QED BY <1>2, <1>8, <1>9

\* Reaping a process, and starting another one in its place, relays nothing
LEMMA PidSound ==
  ASSUME Sound(tty, cmd), halt \in BOOLEAN, NEW c \in Cmd, PidEvent(c)
  PROVE  StepSound
<1>1. halt = FALSE /\ tty' = tty /\ halt' = halt
  BY DEF PidEvent
<1>2. PICK v \in {"none", "forked"} : cmd' = [cmd EXCEPT ![c].proc = v]
  BY DEF PidEvent
<1>3. /\ tty \in [Tty -> TtyState] /\ cmd \in [Cmd -> CmdState]
      /\ \A d \in Cmd : GoodCmd(cmd[d], d)
      /\ \A d \in Cmd : cmd[d].proc = "open" => tty[Cmdt(d)].holders > 0
      /\ \A t \in Tty : Keeps(tty[t], tty[t])
  BY DEF Sound, Balanced, Keeps
<1>4. ASSUME NEW d \in Cmd
      PROVE  /\ GoodCmd(cmd'[d], d) /\ cmd'[d].stopped = cmd[d].stopped
             /\ cmd'[d].proc = "open" => cmd[d].proc = "open"
  <2>1. cmd'[d] = IF d = c THEN [cmd[d] EXCEPT !.proc = v] ELSE cmd[d]
    BY <1>2, <1>3
  <2> QED BY <1>3, <2>1 DEF GoodCmd, CmdState
<1>5. cmd' \in [Cmd -> CmdState]
  <2>1. cmd' = [d \in Cmd |-> cmd'[d]]
    BY <1>2, <1>3
  <2> QED BY <1>4, <2>1 DEF GoodCmd
<1>6. Reached(tty, cmd')
  BY <1>3, <1>4, <1>5, KeepsSound
<1> QED BY <1>1, <1>6 DEF StepSound, Reached

\* A field that yar neither reads nor counts may take another value
LEMMA SetGood ==
  ASSUME NEW x, GoodTty(x), NEW n \in 0..Cap
  PROVE  /\ Keeps(x, [x EXCEPT !.in = n]) /\ [x EXCEPT !.in = n].holders = x.holders
         /\ Keeps(x, [x EXCEPT !.out = n]) /\ [x EXCEPT !.out = n].holders = x.holders
<1>1. x \in TtyState
  BY DEF GoodTty
<1>2. ASSUME NEW y \in TtyState,
             /\ y.holders = x.holders /\ y.merged = x.merged /\ y.note = x.note
             /\ y.opens = x.opens /\ y.rbytes = x.rbytes /\ y.kept = x.kept
             /\ y.wbytes = x.wbytes /\ y.wdbytes = x.wdbytes
      PROVE  Keeps(x, y)
  BY <1>2 DEF Keeps, GoodTty, First, Tracked
<1>3. [x EXCEPT !.in = n] \in TtyState /\ [x EXCEPT !.out = n] \in TtyState
  BY <1>1, TtyField
<1> DEFINE y == [x EXCEPT !.in = n]
           z == [x EXCEPT !.out = n]
<1>4. /\ y.holders = x.holders /\ y.merged = x.merged /\ y.note = x.note
      /\ y.opens = x.opens /\ y.rbytes = x.rbytes /\ y.kept = x.kept
      /\ y.wbytes = x.wbytes /\ y.wdbytes = x.wdbytes
  BY <1>1 DEF TtyState
<1>5. /\ z.holders = x.holders /\ z.merged = x.merged /\ z.note = x.note
      /\ z.opens = x.opens /\ z.rbytes = x.rbytes /\ z.kept = x.kept
      /\ z.wbytes = x.wbytes /\ z.wdbytes = x.wdbytes
  BY <1>1 DEF TtyState
<1> HIDE DEF y, z
<1>6. Keeps(x, y) /\ Keeps(x, z)
  BY <1>2, <1>3, <1>4, <1>5 DEF y, z
<1> QED BY <1>4, <1>5, <1>6 DEF y, z

\* A step outside yar that changes one tty, and no process but that of the tty
LEMMA OutsideSound ==
  ASSUME Sound(tty, cmd), NEW s \in Tty, NEW y, Keeps(tty[s], y),
         tty' = [tty EXCEPT ![s] = y], halt' = FALSE,
         \/ cmd' = cmd /\ (s \in CmdTty => y.holders >= tty[s].holders)
         \/ \E c \in Cmd, v \in {"open", "dead"} :
              /\ s = Cmdt(c) /\ cmd' = [cmd EXCEPT ![c].proc = v]
              /\ v = "open" => y.holders > 0
  PROVE  StepSound
<1>1. /\ cmd \in [Cmd -> CmdState] /\ \A d \in Cmd : GoodCmd(cmd[d], d)
      /\ \A d \in Cmd : cmd[d].proc = "open" => tty[Cmdt(d)].holders > 0
  BY DEF Sound, Balanced
<1>2. cmd' = [d \in Cmd |-> cmd'[d]]
  BY <1>1
<1>3. ASSUME NEW d \in Cmd
      PROVE  /\ GoodCmd(cmd'[d], d) /\ cmd'[d].stopped = cmd[d].stopped
             /\ cmd'[d].proc = "open" => IF s = Cmdt(d) THEN y.holders > 0
                                         ELSE cmd[d].proc = "open"
  <2>1. CASE cmd' = cmd /\ (s \in CmdTty => y.holders >= tty[s].holders)
    <3>1. y.holders \in Nat /\ tty[s].holders \in Nat
      BY TtyNumbers DEF Keeps, GoodTty, Sound
    <3>2. ASSUME s = Cmdt(d), cmd[d].proc = "open" PROVE y.holders > 0
      <4>1. tty[s].holders > 0 /\ s \in CmdTty
        BY <1>1, <3>2, TtyNames
      <4> QED BY <2>1, <3>1, <4>1
    <3> QED BY <1>1, <2>1, <3>2
  <2>2. ASSUME NEW c \in Cmd, NEW v \in {"open", "dead"},
               s = Cmdt(c), cmd' = [cmd EXCEPT ![c].proc = v],
               v = "open" => y.holders > 0
        PROVE  /\ GoodCmd(cmd'[d], d) /\ cmd'[d].stopped = cmd[d].stopped
               /\ cmd'[d].proc = "open" => IF s = Cmdt(d) THEN y.holders > 0
                                           ELSE cmd[d].proc = "open"
    <3>1. cmd'[d] = IF d = c THEN [cmd[d] EXCEPT !.proc = v] ELSE cmd[d]
      BY <1>1, <2>2
    <3>2. cmd[d] \in CmdState
      BY <1>1
    <3>3. d = c => /\ cmd'[d] \in CmdState /\ cmd'[d].since = cmd[d].since
                   /\ cmd'[d].stopped = cmd[d].stopped /\ cmd'[d].proc = v
      BY <3>1, <3>2 DEF CmdState
    <3>4. d # c => s # Cmdt(d)
      BY <2>2, TtyNames
    <3>5. CASE d = c
      BY <1>1, <2>2, <3>3, <3>5 DEF GoodCmd
    <3>6. CASE d # c
      BY <1>1, <3>1, <3>4, <3>6
    <3> QED BY <3>5, <3>6
  <2> QED BY <2>1, <2>2
<1>4. cmd' \in [Cmd -> CmdState]
  BY <1>2, <1>3 DEF GoodCmd
<1>5. Reached(tty', cmd')
  <2> DEFINE T == tty'
             P == cmd'
  <2>1. T = [tty EXCEPT ![s] = y] /\ P \in [Cmd -> CmdState]
    BY <1>4
  <2>2. StillHeld(P, s, y)
    BY <1>3 DEF StillHeld
  <2> HIDE DEF T, P
  <2>3. Keeps(tty[s], y) /\ Sound(tty, cmd)
    OBVIOUS
  <2>4. Reached(T, P)
    BY ONLY <2>1, <2>2, <2>3, s \in Tty, OneKeeps
  <2> QED BY <2>4 DEF T, P
<1> QED BY <1>5 DEF StepSound, Reached

\* What clients and readers do
LEMMA ClientSound ==
  ASSUME Sound(tty, cmd), halt \in BOOLEAN, NEW t \in Tty,
         (t \in Used /\ Client(t)) \/ Reader(t)
  PROVE  StepSound
<1> DEFINE x == tty[t]
<1>1. halt' = FALSE /\ cmd' = cmd
  BY DEF Client, Reader
<1>2. GoodTty(x) /\ x \in TtyState
  BY DEF Sound, GoodTty
<1>3. t \in Used => t \notin CmdTty
  <2>1. Used \subseteq CltTty
    BY RelayAssumption
  <2> QED BY <2>1, TtyNames DEF CltTty
<1>4. /\ x.holders \in Nat /\ x.in \in 0..Cap /\ x.out \in 0..Cap /\ Cap \in Nat
  BY <1>2, TtyNumbers
<1>5. CASE t \in Used /\ ClientOpens(t)
  <2> DEFINE y == Opened(x)
  <2>1. tty' = [tty EXCEPT ![t] = y]
    BY <1>5 DEF ClientOpens
  <2>2. Keeps(x, y)
    BY <1>2, OpenedGood
  <2> HIDE DEF y
  <2> QED BY <1>1, <1>3, <1>5, <2>1, <2>2, OutsideSound
<1>6. CASE t \in Used /\ ClientCloses(t)
  <2> DEFINE y == Closed(x)
  <2>1. tty' = [tty EXCEPT ![t] = y] /\ x.holders > 0
    BY <1>6 DEF ClientCloses
  <2>2. Keeps(x, y)
    BY <1>2, <2>1, OpenedGood
  <2> HIDE DEF y
  <2> QED BY <1>1, <1>3, <1>6, <2>1, <2>2, OutsideSound
<1>7. CASE t \in Used /\ ClientWrites(t)
  <2> DEFINE n == x.in + 1
             y == [x EXCEPT !.in = n]
  <2>1. n \in 0..Cap
    BY <1>4, <1>7 DEF ClientWrites
  <2>2. tty' = [tty EXCEPT ![t] = y]
    BY <1>7 DEF ClientWrites
  <2> HIDE DEF n
  <2>3. Keeps(x, y)
    BY <1>2, <2>1, SetGood
  <2> HIDE DEF y
  <2> QED BY <1>1, <1>3, <1>7, <2>2, <2>3, OutsideSound
<1>8. CASE Reads(t)
  <2> DEFINE n == x.out - 1
             y == [x EXCEPT !.out = n]
  <2>1. n \in 0..Cap
    BY <1>4, <1>8 DEF Reads
  <2>2. tty' = [tty EXCEPT ![t] = y]
    BY <1>8 DEF Reads
  <2> HIDE DEF n
  <2>3. Keeps(x, y) /\ y.holders = x.holders
    BY <1>2, <2>1, SetGood
  <2>4. y.holders >= x.holders
    BY <1>4, <2>3
  <2> HIDE DEF y
  <2> QED BY <1>1, <2>2, <2>3, <2>4, OutsideSound
<1> QED BY <1>5, <1>6, <1>7, <1>8 DEF Client, Reader

\* What processes do
LEMMA ProcessSound ==
  ASSUME Sound(tty, cmd), halt \in BOOLEAN, NEW c \in Cmd, Process(c)
  PROVE  StepSound
<1> DEFINE t == Cmdt(c)
           x == tty[t]
<1>1. halt' = FALSE
  BY DEF Process
<1>2. t \in Tty /\ GoodTty(x) /\ x \in TtyState
  BY TtyNames DEF Sound, GoodTty
<1>3. /\ x.holders \in Nat /\ x.in \in 0..Cap /\ Cap \in Nat
  BY <1>2, TtyNumbers
<1>4. CASE ProcOpens(c)
  <2> DEFINE y == Opened(x)
  <2>1. tty' = [tty EXCEPT ![t] = y] /\ cmd' = [cmd EXCEPT ![c].proc = "open"]
    BY <1>4 DEF ProcOpens
  <2>2. Keeps(x, y) /\ y.holders = x.holders + 1
    BY <1>2, OpenedGood
  <2> HIDE DEF y
  <2>3. y.holders > 0
    BY <1>3, <2>2
  <2>4. \E d \in Cmd, v \in {"open", "dead"} :
          /\ t = Cmdt(d) /\ cmd' = [cmd EXCEPT ![d].proc = v]
          /\ v = "open" => y.holders > 0
    BY <2>1, <2>3
  <2> HIDE DEF t
  <2> QED BY <1>1, <1>2, <2>1, <2>2, <2>4, OutsideSound
<1>5. CASE ProcPrints(c)
  <2> DEFINE n == x.in + 1
             y == [x EXCEPT !.in = n]
  <2>1. n \in 0..Cap
    BY <1>3, <1>5 DEF ProcPrints
  <2>2. tty' = [tty EXCEPT ![t] = y] /\ cmd' = cmd
    BY <1>5 DEF ProcPrints
  <2> HIDE DEF n
  <2>3. Keeps(x, y) /\ y.holders = x.holders
    BY <1>2, <2>1, SetGood
  <2>4. y.holders >= x.holders
    BY <1>3, <2>3
  <2> HIDE DEF y, t
  <2> QED BY <1>1, <1>2, <2>2, <2>3, <2>4, OutsideSound
<1>6. CASE ProcDies(c)
  <2> DEFINE y == Hangup(x, cmd[c])
  <2>1. tty' = [tty EXCEPT ![t] = y] /\ cmd' = [cmd EXCEPT ![c].proc = "dead"]
    BY <1>6 DEF ProcDies
  <2>2. cmd[c].proc = "open" => x.holders > 0
    BY DEF Sound, Balanced
  <2>3. Keeps(x, y)
    BY <1>2, <2>2, HangupGood
  <2> HIDE DEF y
  <2>4. \E d \in Cmd, v \in {"open", "dead"} :
          /\ t = Cmdt(d) /\ cmd' = [cmd EXCEPT ![d].proc = v]
          /\ v = "open" => y.holders > 0
    <3>1. "dead" \in {"open", "dead"} /\ "dead" # "open"
      OBVIOUS
    <3> QED BY <2>1, <3>1
  <2> HIDE DEF t
  <2> QED BY <1>1, <1>2, <2>1, <2>3, <2>4, OutsideSound
<1> QED BY <1>4, <1>5, <1>6 DEF Process

\* Time passes up to the delay of each command
LEMMA TickSound ==
  ASSUME Sound(tty, cmd), halt \in BOOLEAN, Tick
  PROVE  StepSound
<1>1. halt' = FALSE /\ tty' = tty
  BY DEF Tick
<1>2. /\ tty \in [Tty -> TtyState] /\ cmd \in [Cmd -> CmdState]
      /\ \A d \in Cmd : GoodCmd(cmd[d], d)
      /\ \A d \in Cmd : cmd[d].proc = "open" => tty[Cmdt(d)].holders > 0
      /\ \A t \in Tty : Keeps(tty[t], tty[t])
  BY DEF Sound, Balanced, Keeps
<1>3. ASSUME NEW d \in Cmd
      PROVE  /\ GoodCmd(cmd'[d], d) /\ cmd'[d].stopped = cmd[d].stopped
             /\ cmd'[d].proc = cmd[d].proc
  <2> DEFINE n == IF cmd[d].since < Delay[d] THEN cmd[d].since + 1
                  ELSE cmd[d].since
  <2>1. cmd[d] \in CmdState /\ cmd[d].since <= Delay[d] /\ Delay[d] \in Nat
    BY <1>2, RelayAssumption DEF GoodCmd
  <2>2. cmd[d].since \in Nat
    BY <2>1 DEF CmdState
  <2>3. n \in Nat /\ n <= Delay[d]
    BY <2>1, <2>2
  <2>4. cmd'[d] = [cmd[d] EXCEPT !.since = n]
    BY DEF Tick
  <2> HIDE DEF n
  <2>5. /\ cmd'[d] \in CmdState /\ cmd'[d].since = n
        /\ cmd'[d].stopped = cmd[d].stopped /\ cmd'[d].proc = cmd[d].proc
    BY <2>1, <2>3, <2>4 DEF CmdState
  <2> QED BY <2>3, <2>5 DEF GoodCmd
<1>4. cmd' \in [Cmd -> CmdState]
  <2>1. cmd' = [d \in Cmd |-> cmd'[d]]
    BY DEF Tick
  <2> QED BY <1>3, <2>1 DEF GoodCmd
<1>5. Reached(tty, cmd')
  BY <1>2, <1>3, <1>4, KeepsSound
<1> QED BY <1>1, <1>5 DEF StepSound, Reached

\* The bounds are kept
Spent == spent \in [bytes : 0..MaxBytes, opened : 0..MaxOpens,
                    started : 0..MaxStarts]

\* The inductive invariant
RelayInv == Sound(tty, cmd) /\ halt \in BOOLEAN /\ (halt => Unread(tty)) /\ Spent

\* Every step of yar, of a client, of a process and of the clock leaves a sound
\* state
LEMMA NextSound ==
  ASSUME Sound(tty, cmd), halt \in BOOLEAN, Next
  PROVE  StepSound
<1>1. CASE BcstttyEvent
  BY <1>1, BcstSound
<1>2. ASSUME NEW c \in Cmd, CltttyEvent(c) PROVE StepSound
  BY <1>2, CltSound
<1>3. ASSUME NEW c \in Cmd, CmdttyEvent(c) PROVE StepSound
  BY <1>3, CmdttySound
<1>4. ASSUME NEW c \in Cmd, PidEvent(c) PROVE StepSound
  BY <1>4, PidSound
<1>5. ASSUME NEW t \in Tty, NotifyEvent(t) PROVE StepSound
  BY <1>5, NotifySound
<1>6. CASE Tick
  BY <1>6, TickSound
<1>7. ASSUME NEW t \in Used, Client(t) PROVE StepSound
  <2>1. t \in Tty
    BY RelayAssumption DEF Tty
  <2> QED BY <1>7, <2>1, ClientSound
<1>8. ASSUME NEW t \in Tty, Reader(t) PROVE StepSound
  BY <1>8, ClientSound
<1>9. ASSUME NEW c \in Cmd, Process(c) PROVE StepSound
  BY <1>9, ProcessSound
<1> QED
  BY <1>1, <1>2, <1>3, <1>4, <1>5, <1>6, <1>7, <1>8, <1>9 DEF Next, Loop

\* No step exceeds a bound
LEMMA NextSpent ==
  ASSUME Spent, Next
  PROVE  Spent'
<1> DEFINE S == [bytes : 0..MaxBytes, opened : 0..MaxOpens,
                 started : 0..MaxStarts]
<1>1. /\ spent \in S /\ MaxBytes \in Nat /\ MaxOpens \in Nat /\ MaxStarts \in Nat
  BY RelayAssumption DEF Spent
<1>2. \/ spent' = spent
      \/ spent.bytes < MaxBytes /\ spent' = [spent EXCEPT !.bytes = @ + 1]
      \/ spent.opened < MaxOpens /\ spent' = [spent EXCEPT !.opened = @ + 1]
      \/ spent.started < MaxStarts /\ spent' = [spent EXCEPT !.started = @ + 1]
      \/ \E t \in Tty :
           /\ spent.started + StartsIn(Served(t)) <= MaxStarts
           /\ spent' = [spent EXCEPT !.started = @ + StartsIn(Served(t))]
  <2>1. CASE BcstttyEvent
    BY <2>1 DEF BcstttyEvent, Halt
  <2>2. ASSUME NEW c \in Cmd, CltttyEvent(c) \/ CmdttyEvent(c)
        PROVE  spent' = spent
    BY <2>2 DEF CltttyEvent, CmdttyEvent, ThenStop, Halt
  <2>3. ASSUME NEW c \in Cmd, PidEvent(c)
        PROVE  \/ spent' = spent
               \/ /\ spent.started < MaxStarts
                  /\ spent' = [spent EXCEPT !.started = @ + 1]
    BY <2>3 DEF PidEvent
  <2>4. ASSUME NEW t \in Tty, NotifyEvent(t)
        PROVE  \/ spent' = spent
               \/ /\ spent.started + StartsIn(Served(t)) <= MaxStarts
                  /\ spent' = [spent EXCEPT !.started = @ + StartsIn(Served(t))]
    BY <2>4 DEF NotifyEvent, ThenStop, Halt
  <2>5. CASE Tick
    BY <2>5 DEF Tick
  <2>6. ASSUME NEW t, Client(t)
        PROVE  \/ spent' = spent
               \/ /\ spent.bytes < MaxBytes
                  /\ spent' = [spent EXCEPT !.bytes = @ + 1]
               \/ /\ spent.opened < MaxOpens
                  /\ spent' = [spent EXCEPT !.opened = @ + 1]
    BY <2>6 DEF Client, ClientOpens, ClientCloses, ClientWrites
  <2>7. ASSUME NEW t, Reader(t) PROVE spent' = spent
    BY <2>7 DEF Reader, Reads
  <2>8. ASSUME NEW c \in Cmd, Process(c)
        PROVE  \/ spent' = spent
               \/ /\ spent.bytes < MaxBytes
                  /\ spent' = [spent EXCEPT !.bytes = @ + 1]
    BY <2>8 DEF Process, ProcOpens, ProcPrints, ProcDies
  <2> QED
    BY <2>1, <2>2, <2>3, <2>4, <2>5, <2>6, <2>7, <2>8 DEF Next, Loop
<1>3. ASSUME NEW n \in Nat, spent.started + n <= MaxStarts,
             spent' = [spent EXCEPT !.started = @ + n]
      PROVE  spent' \in S
  BY <1>1, <1>3
<1>4. ASSUME NEW t \in Tty PROVE StartsIn(Served(t)) \in Nat
  <2> DEFINE C == {c \in Served(t) : ~IsRunning(cmd[c])}
  <2>1. C \subseteq Cmd
    BY DEF Served
  <2>2. IsFiniteSet(Cmd)
    BY RelayAssumption
  <2>3. IsFiniteSet(C)
    BY <2>1, <2>2, FS_Subset
  <2> QED BY <2>3, FS_CardinalityType DEF StartsIn
<1>5. ASSUME spent.bytes < MaxBytes, spent' = [spent EXCEPT !.bytes = @ + 1]
      PROVE  spent' \in S
  BY <1>1, <1>5
<1>6. ASSUME spent.opened < MaxOpens, spent' = [spent EXCEPT !.opened = @ + 1]
      PROVE  spent' \in S
  BY <1>1, <1>6
<1>7. ASSUME spent.started < MaxStarts, spent' = [spent EXCEPT !.started = @ + 1]
      PROVE  spent' \in S
  BY <1>1, <1>7
<1>8. spent' \in S
  BY <1>1, <1>2, <1>3, <1>4, <1>5, <1>6, <1>7
<1> QED
  BY <1>8 DEF Spent

\* Initially no byte has been relayed and nobody has opened a tty
LEMMA InitSound == Init => RelayInv
<1> SUFFICES ASSUME Init PROVE RelayInv
  OBVIOUS
<1> DEFINE x0 == [in |-> 0, out |-> 0, holders |-> 0, note |-> << >>,
                  merged |-> FALSE, opens |-> 0, rbytes |-> 0,
                  wbytes |-> 0, wdbytes |-> 0, kept |-> 0]
<1>1. /\ Cap \in Nat /\ Size \in Nat /\ IntMax \in Nat
      /\ MaxBytes \in Nat /\ MaxOpens \in Nat /\ MaxStarts \in Nat
      /\ Delay \in [Cmd -> Nat]
  BY RelayAssumption
<1>2. x0 \in TtyState
  BY <1>1 DEF TtyState
<1>3. First(x0) /\ Tracked(x0)
  <2>1. First(x0)
    BY <1>1 DEF First
  <2>2. Tracked(x0)
    BY DEF Tracked, Alternates, Pending
  <2> QED BY <2>1, <2>2
<1>4. \A t \in Tty : tty[t] = x0
  BY DEF Init
<1>5. tty = [t \in Tty |-> tty[t]] /\ cmd = [c \in Cmd |-> cmd[c]]
  BY DEF Init
<1>6. \A c \in Cmd : /\ cmd[c] \in CmdState /\ cmd[c].since <= Delay[c]
                     /\ cmd[c].stopped = 0 /\ cmd[c].proc = "none"
  BY <1>1 DEF Init, CmdState
<1>7. x0.rbytes = 0 /\ x0.wbytes = 0 /\ x0.wdbytes = 0
  OBVIOUS
<1>8. halt = FALSE /\ Spent
  BY <1>1 DEF Init, Spent
<1> HIDE DEF x0
<1>9. tty \in [Tty -> TtyState] /\ cmd \in [Cmd -> CmdState]
  BY <1>2, <1>4, <1>5, <1>6
<1>10. \A c \in Cmd : Balanced(tty[Bcst], tty[Clt(c)], tty[Cmdt(c)], cmd[c])
  BY <1>4, <1>6, <1>7, TtyNames DEF Balanced
<1>11. Sound(tty, cmd)
  BY <1>2, <1>3, <1>4, <1>6, <1>9, <1>10 DEF Sound, GoodTty, GoodCmd
<1> QED
  BY <1>8, <1>11 DEF RelayInv

\* The invariant is inductive
LEMMA RelayStep == RelayInv /\ [Next]_vars => RelayInv'
<1> SUFFICES ASSUME RelayInv, [Next]_vars PROVE RelayInv'
  OBVIOUS
<1>1. CASE Next
  <2>1. StepSound
    BY <1>1, NextSound DEF RelayInv
  <2>2. Spent'
    BY <1>1, NextSpent DEF RelayInv
  <2> QED BY <2>1, <2>2 DEF StepSound, RelayInv
<1>2. CASE UNCHANGED vars
  BY <1>2 DEF vars, RelayInv, Spent, Unread
<1> QED BY <1>1, <1>2

\* The state is sound in every behaviour: the counters of each command are in
\* balance, discards holds what was discarded first, and yar's count of opens
\* is wrong only by what is queued
THEOREM RelaySound == Spec => []RelayInv
<1> QED
  BY InitSound, RelayStep, PTL DEF Spec

\* No buffer is filled beyond its capacity, by ttyWriteBuf or by a client, and
\* no count falls below zero
THEOREM RelayTypes == Spec => []TypeOK
<1>1. RelayInv => TypeOK
  BY DEF RelayInv, Sound, GoodCmd, Spent, TypeOK
<1> QED BY <1>1, RelaySound, PTL

\* Every byte yar has read for a command has been written to the command or
\* discarded once, those of stop strings included, and every byte of its output
\* to its client tty, however handlers, deaths and restarts interleave
THEOREM BytesAccounted == Spec => []Accounting
<1>1. RelayInv => Accounting
  BY DEF RelayInv, Sound, Balanced, Accounting
<1> QED BY <1>1, RelaySound, PTL

\* The commands in some order, each once
Order == SetToSeq(Cmd)

\* There is such an order, as there are finitely many commands
LEMMA OrderOfCmd ==
  /\ Order \in Seq(Cmd)
  /\ \A j, k \in 1..Len(Order) : Order[j] = Order[k] => j = k
  /\ \A c \in Cmd : \E k \in 1..Len(Order) : Order[k] = c
<1> DEFINE n == Cardinality(Cmd)
<1>1. IsFiniteSet(Cmd)
  BY RelayAssumption
<1>2. n \in Nat /\ ExistsBijection(1..n, Cmd)
  BY <1>1, FS_CardinalityType
<1>3. IsFiniteSet(1..n) /\ Cardinality(1..n) = n
  BY <1>2, FS_Interval
<1> HIDE DEF n
<1>4. \E f \in [1..n -> Cmd] : IsInjective(f)
  BY <1>2 DEF ExistsBijection, Bijection, Injection
<1>5. Order \in [1..n -> Cmd] /\ IsInjective(Order)
  BY <1>4 DEF Order, SetToSeq, n
<1>6. Order \in Seq(Cmd) /\ Len(Order) = n /\ DOMAIN Order = 1..n
  BY <1>2, <1>5
<1>7. Order \in Injection(1..n, Cmd)
  BY <1>5 DEF Injection
<1>8. Order \in Surjection(1..n, Cmd)
  BY <1>1, <1>3, <1>7, FS_Injection DEF n
<1>9. \A c \in Cmd : \E k \in 1..n : Order[k] = c
  BY <1>8 DEF Surjection
<1> QED
  BY <1>5, <1>6, <1>9 DEF IsInjective

\* The bytes read from each command, of ttys T
ReadOf(T) == [c \in Cmd |-> T[Cmdt(c)].rbytes]

\* BcstAccounting of the ttys T
AllHeard(T) == T[Bcst].wbytes + T[Bcst].wdbytes = SumOver(ReadOf(T), Order)

\* The counters of what was read are natural numbers.
LEMMA ReadNumbers ==
  ASSUME NEW T, NEW P, Sound(T, P)
  PROVE  ReadOf(T) \in [Cmd -> Nat]
<1>1. ASSUME NEW c \in Cmd PROVE T[Cmdt(c)].rbytes \in Nat
  BY TtyNames, TtyNumbers DEF Sound
<1> QED BY <1>1 DEF ReadOf

\* A step that reads from no command leaves the sum alone, and one that reads a
\* byte of a command adds one to both sides
LEMMA HeardStep ==
  ASSUME NEW T, NEW U, NEW P, NEW Q, Sound(T, P), Sound(U, Q), AllHeard(T),
         Quiet(T, U) \/ \E c \in Cmd : Heard(T, U, c)
  PROVE  AllHeard(U)
<1>1. CASE Quiet(T, U)
  <2>1. ReadOf(U) = ReadOf(T)
    BY <1>1 DEF Quiet, ReadOf
  <2> QED BY <1>1, <2>1 DEF AllHeard, Quiet
<1>2. ASSUME NEW c \in Cmd, Heard(T, U, c) PROVE AllHeard(U)
  <2> DEFINE num  == ReadOf(T)
             more == ReadOf(U)
             l    == Order
  <2>1. num \in [Cmd -> Nat] /\ more \in [Cmd -> Nat]
    BY ReadNumbers
  <2>2. more[c] = num[c] + 1 /\ \A d \in Cmd : d # c => more[d] = num[d]
    BY <1>2 DEF ReadOf, Heard
  <2>3. l \in Seq(Cmd) /\ \A j, k \in 1..Len(l) : l[j] = l[k] => j = k
    BY OrderOfCmd
  <2>4. PICK p \in 1..Len(l) : l[p] = c
    BY OrderOfCmd
  <2>5. T[Bcst].wbytes + T[Bcst].wdbytes = SumOver(num, l)
    BY DEF AllHeard
  <2>6. U[Bcst].wbytes + U[Bcst].wdbytes = T[Bcst].wbytes + T[Bcst].wdbytes + 1
    BY <1>2 DEF Heard
  <2> HIDE DEF num, more, l
  <2>7. SumOver(more, l) = SumOver(num, l) + 1
    <3>1. more[l[p]] = num[l[p]] + 1
      BY <2>2, <2>4
    <3>2. \A d \in Cmd : d # l[p] => more[d] = num[d]
      BY <2>2, <2>4
    <3>3. \A k \in 1..Len(l) : l[k] = l[p] => k = p
      BY <2>3
    <3>4. OneMore(Cmd, num, more, l, p)
      BY <2>4, <3>1, <3>2, <3>3 DEF OneMore
    <3> QED BY <2>1, <2>3, <3>4, SumBump
  <2>8. U[Bcst].wbytes + U[Bcst].wdbytes = SumOver(more, l)
    BY <2>5, <2>6, <2>7
  <2> QED BY <2>8 DEF AllHeard, more, l
<1> QED BY <1>1, <1>2

\* What all commands have printed has been written to the broadcast tty or
\* discarded there, once, for any number of commands
THEOREM BcstAccounted == Spec => []BcstAccounting
<1> DEFINE Inv == RelayInv /\ AllHeard(tty)
<1>1. Init => Inv
  <2> SUFFICES ASSUME Init PROVE AllHeard(tty)
    BY InitSound
  <2>1. RelayInv
    BY InitSound
  <2>2. ReadOf(tty) \in [Cmd -> Nat]
    BY <2>1, ReadNumbers DEF RelayInv
  <2>3. \A c \in Cmd : ReadOf(tty)[c] = 0
    BY TtyNames DEF Init, ReadOf
  <2>4. tty[Bcst].wbytes = 0 /\ tty[Bcst].wdbytes = 0
    BY TtyNames DEF Init
  <2>5. SumOver(ReadOf(tty), Order) = 0
    BY <2>2, <2>3, OrderOfCmd, SumZero
  <2> QED BY <2>4, <2>5 DEF AllHeard
<1>2. Inv /\ [Next]_vars => Inv'
  <2> SUFFICES ASSUME Inv, [Next]_vars PROVE Inv'
    OBVIOUS
  <2>1. RelayInv'
    BY RelayStep
  <2>2. Quiet(tty, tty') \/ \E c \in Cmd : Heard(tty, tty', c)
    <3>1. CASE Next
      BY <3>1, NextSound DEF RelayInv, StepSound
    <3>2. CASE UNCHANGED vars
      BY <3>2 DEF vars, Quiet
    <3> QED BY <3>1, <3>2
  <2> DEFINE T == tty'
             P == cmd'
  <2>3. Sound(tty, cmd) /\ Sound(T, P)
    BY <2>1 DEF RelayInv
  <2>4. Quiet(tty, T) \/ \E c \in Cmd : Heard(tty, T, c)
    BY <2>2
  <2> HIDE DEF T, P
  <2>5. AllHeard(T)
    BY <2>3, <2>4, HeardStep
  <2> QED BY <2>1, <2>5 DEF T
<1>3. Inv => BcstAccounting
  BY DEF AllHeard, ReadOf, Order, BcstAccounting
<1> QED BY <1>1, <1>2, <1>3, PTL DEF Spec

\* discards holds one copy of each of the first bytes that ttyWriteBuf has
\* discarded, whatever their number and the sizes of the writes
THEOREM FirstDiscardsKept == Spec => []DiscardsFirst
<1>1. RelayInv => DiscardsFirst
  BY DEF RelayInv, Sound, GoodTty, First, DiscardsFirst
<1> QED BY <1>1, RelaySound, PTL

\* yar reaches NYI in a write only if somebody has a tty open and has left bytes
\* in its buffer unread
THEOREM OnlyUnreadHalts == Spec => []HaltsOnlyUnread
<1>1. RelayInv => HaltsOnlyUnread
  BY DEF RelayInv, Unread, HaltsOnlyUnread
<1> QED BY <1>1, RelaySound, PTL

\* A tty that is not counted as open is one that nobody holds or of which an
\* open is still queued; one that is counted as open is held or a close of it
\* is still queued
LEMMA CountJustified ==
  ASSUME NEW x, GoodTty(x), ~x.merged
  PROVE  /\ x.opens = 0 => x.holders = 0 \/ \E k \in DOMAIN x.note : x.note[k] = "open"
         /\ x.opens # 0 => x.holders > 0 \/ \E k \in DOMAIN x.note : x.note[k] = "close"
<1> DEFINE s == x.note
<1>1. /\ x.opens \in Nat /\ x.holders \in Nat /\ s \in Seq({"open", "close"})
      /\ x.holders = x.opens + Pending(s)
  BY TtyNumbers DEF GoodTty, Tracked
<1> HIDE DEF s
<1>2. s # << >> => 1 \in DOMAIN s /\ s[1] \in {"open", "close"}
  BY <1>1, EmptySeq, LenProperties, ElementOfSeq
<1>3. Pending(s) = 1 => s # << >> /\ s[1] = "open"
  BY DEF Pending
<1>4. Pending(s) = -1 => s # << >> /\ s[1] # "open"
  BY DEF Pending
<1>5. Pending(s) \in {-1, 0, 1}
  BY DEF Pending
<1>6. x.opens = 0 /\ x.holders # 0 => Pending(s) = 1
  BY <1>1, <1>5
<1>7. x.opens # 0 /\ ~(x.holders > 0) => Pending(s) = -1
  BY <1>1, <1>5
<1> QED
  BY <1>2, <1>3, <1>4, <1>6, <1>7 DEF s

\* ttyWriteBuf discards a byte only while nobody has the tty open or the open is
\* still queued, and writes one only while somebody has it open or the close is
\* still queued, until inotify merges two events of the tty
THEOREM DiscardsJustified == Spec => DiscardJustified
<1> DEFINE A == \A t \in Tty :
                  LET x == tty[t] IN ~x.merged =>
                  /\ tty'[t].wdbytes > x.wdbytes =>
                       x.holders = 0 \/ \E k \in DOMAIN x.note : x.note[k] = "open"
                  /\ tty'[t].wbytes > x.wbytes =>
                       x.holders > 0 \/ \E k \in DOMAIN x.note : x.note[k] = "close"
<1>1. RelayInv /\ [Next]_vars => [A]_vars
  <2> SUFFICES ASSUME RelayInv, Next, NEW t \in Tty, ~tty[t].merged
               PROVE  /\ tty'[t].wdbytes > tty[t].wdbytes =>
                           \/ tty[t].holders = 0
                           \/ \E k \in DOMAIN tty[t].note : tty[t].note[k] = "open"
                      /\ tty'[t].wbytes > tty[t].wbytes =>
                           \/ tty[t].holders > 0
                           \/ \E k \in DOMAIN tty[t].note : tty[t].note[k] = "close"
    BY DEF A
  <2>1. StepSound
    BY NextSound DEF RelayInv
  <2> DEFINE x == tty[t]
             y == tty'[t]
  <2>2. GoodTty(x) /\ Wrote(x, y)
    BY <2>1 DEF StepSound, RelayInv, Sound
  <2>3. x.wdbytes \in Nat /\ x.wbytes \in Nat
    BY <2>2, TtyNumbers DEF GoodTty
  <2> HIDE DEF y
  <2>4. y.wdbytes > x.wdbytes => y.wdbytes # x.wdbytes
    BY <2>3
  <2>5. y.wbytes > x.wbytes => y.wbytes # x.wbytes
    BY <2>3
  <2> HIDE DEF x
  <2>6. ~x.merged
    BY DEF x
  <2>7. /\ y.wdbytes > x.wdbytes =>
             x.holders = 0 \/ \E k \in DOMAIN x.note : x.note[k] = "open"
        /\ y.wbytes > x.wbytes =>
             x.holders > 0 \/ \E k \in DOMAIN x.note : x.note[k] = "close"
    BY <2>2, <2>4, <2>5, <2>6, CountJustified DEF Wrote
  <2> QED BY <2>7 DEF x, y
<1> QED
  BY <1>1, RelaySound, PTL DEF Spec, DiscardJustified
=============================================================================

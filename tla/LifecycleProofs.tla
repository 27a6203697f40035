--------------------------- MODULE LifecycleProofs ---------------------------
(***************************************************************************)
(* Theorems about Lifecycle, for any finite set of commands, any options   *)
(* and any bounds.                                                         *)
(***************************************************************************)
EXTENDS Lifecycle, TLAPS, FiniteSetTheorems

\* The length of the ready string is a natural number.
LEMMA RLenType == RLen \in Nat
BY OptionAssumption DEF RLen

-----------------------------------------------------------------------------
(* What the operations on one command object preserve *)

\* A command object stays one when a field takes another value of its type.
LEMMA FieldLemma ==
  ASSUME NEW r \in CmdState
  PROVE  /\ \A b \in BOOLEAN : /\ [r EXCEPT !.pid = b] \in CmdState
                               /\ [r EXCEPT !.watched = b] \in CmdState
                               /\ [r EXCEPT !.deleteonexit = b] \in CmdState
         /\ \A n \in Nat : /\ [r EXCEPT !.live = n] \in CmdState
                           /\ [r EXCEPT !.zomb = n] \in CmdState
         /\ \A n \in 0..RLen : [r EXCEPT !.readycnt = n] \in CmdState
         /\ \A s \in Seq(Char) : [r EXCEPT !.out = s] \in CmdState
<1>1. ASSUME NEW b \in BOOLEAN PROVE [r EXCEPT !.pid = b] \in CmdState
  BY DEF CmdState
<1>2. ASSUME NEW b \in BOOLEAN PROVE [r EXCEPT !.watched = b] \in CmdState
  BY DEF CmdState
<1>3. ASSUME NEW b \in BOOLEAN PROVE [r EXCEPT !.deleteonexit = b] \in CmdState
  BY DEF CmdState
<1>4. ASSUME NEW n \in Nat PROVE [r EXCEPT !.live = n] \in CmdState
  BY DEF CmdState
<1>5. ASSUME NEW n \in Nat PROVE [r EXCEPT !.zomb = n] \in CmdState
  BY DEF CmdState
<1>6. ASSUME NEW n \in 0..RLen PROVE [r EXCEPT !.readycnt = n] \in CmdState
  BY DEF CmdState
<1>7. ASSUME NEW s \in Seq(Char) PROVE [r EXCEPT !.out = s] \in CmdState
  BY DEF CmdState
<1> QED
  BY <1>1, <1>2, <1>3, <1>4, <1>5, <1>6, <1>7

\* cmdInit makes a command without a process of one that has none.
LEMMA InitLemma ==
  ASSUME NEW r \in CmdState, Tracked(r), ~r.pid, NEW d \in BOOLEAN
  PROVE  /\ cmdInit(r, d) \in CmdState /\ Tracked(cmdInit(r, d))
         /\ ~cmdInit(r, d).pid /\ cmdInit(r, d).readycnt = 0
<1> DEFINE r1 == [r EXCEPT !.pid = FALSE]
           r2 == [r1 EXCEPT !.watched = FALSE]
           r3 == [r2 EXCEPT !.readycnt = 0]
           r4 == [r3 EXCEPT !.deleteonexit = d]
           r5 == [r4 EXCEPT !.out = <<>>]
<1>1. cmdInit(r, d) = r5
  BY DEF cmdInit
<1>2. r1 \in CmdState
  BY FieldLemma
<1>3. r2 \in CmdState
  <2> HIDE DEF r1
  <2> QED BY <1>2, FieldLemma
<1>4. r3 \in CmdState
  <2> HIDE DEF r2
  <2> QED BY <1>3, RLenType, FieldLemma
<1>5. r4 \in CmdState
  <2> HIDE DEF r3
  <2> QED BY <1>4, FieldLemma
<1>6. r5 \in CmdState
  <2> HIDE DEF r4
  <2>1. <<>> \in Seq(Char)
    OBVIOUS
  <2> QED BY <1>5, <2>1, FieldLemma
<1>7. /\ ~cmdInit(r, d).pid /\ ~cmdInit(r, d).watched
      /\ cmdInit(r, d).live = r.live /\ cmdInit(r, d).zomb = r.zomb
      /\ cmdInit(r, d).readycnt = 0
  BY DEF cmdInit, CmdState
<1> HIDE DEF r5
<1> QED
  BY <1>1, <1>6, <1>7 DEF Tracked, CmdState

\* cmdStart leaves a tracked process, and no second one if there was one.
LEMMA StartLemma ==
  ASSUME NEW r \in CmdState, Tracked(r)
  PROVE  /\ cmdStart(r) \in CmdState /\ Tracked(cmdStart(r)) /\ cmdStart(r).pid
         /\ cmdStart(r) = r \/ cmdStart(r).readycnt = 0
<1>1. CASE r.pid
  BY <1>1 DEF cmdStart
<1>2. CASE ~r.pid
  <2> DEFINE r1 == [r EXCEPT !.pid = TRUE]
             r2 == [r1 EXCEPT !.watched = TRUE]
             r3 == [r2 EXCEPT !.live = r.live + 1]
             r4 == [r3 EXCEPT !.readycnt = 0]
  <2>1. cmdStart(r) = r4
    BY <1>2 DEF cmdStart
  <2>2. r1 \in CmdState
    BY FieldLemma
  <2>3. r2 \in CmdState
    <3> HIDE DEF r1
    <3> QED BY <2>2, FieldLemma
  <2>4. r3 \in CmdState
    <3> HIDE DEF r2
    <3>1. r.live + 1 \in Nat
      BY DEF CmdState
    <3> QED BY <2>3, <3>1, FieldLemma
  <2>5. r4 \in CmdState
    <3> HIDE DEF r3
    <3> QED BY <2>4, RLenType, FieldLemma
  <2>6. /\ cmdStart(r).pid /\ cmdStart(r).watched
        /\ cmdStart(r).live = r.live + 1 /\ cmdStart(r).zomb = r.zomb
        /\ cmdStart(r).readycnt = 0
    BY <1>2 DEF cmdStart, CmdState
  <2> HIDE DEF r4
  <2> QED
    BY <1>2, <2>1, <2>5, <2>6 DEF Tracked, CmdState
<1> QED
  BY <1>1, <1>2 DEF CmdState

\* ClearReady touches nothing but readycnt, and leaves no command ready.
LEMMA ClearReadyLemma ==
  ASSUME NEW r \in CmdState
  PROVE  /\ ClearReady(r) \in CmdState
         /\ ClearReady(r).pid = r.pid /\ ClearReady(r).watched = r.watched
         /\ ClearReady(r).live = r.live /\ ClearReady(r).zomb = r.zomb
         /\ RLen > 0 => ClearReady(r).readycnt # RLen
<1>1. CASE ~cmdIsReady(r)
  BY <1>1 DEF ClearReady, cmdIsReady
<1>2. CASE cmdIsReady(r)
  <2>1. ClearReady(r) = [r EXCEPT !.readycnt = 0]
    BY <1>2 DEF ClearReady
  <2>2. [r EXCEPT !.readycnt = 0] \in CmdState
    BY RLenType, FieldLemma
  <2> QED
    BY <2>1, <2>2 DEF CmdState
<1> QED
  BY <1>1, <1>2

\* cmdStop leaves no process, running or unreaped, and no ready command.
LEMMA StopLemma ==
  ASSUME NEW r \in CmdState, Tracked(r)
  PROVE  /\ cmdStop(r) \in CmdState /\ Tracked(cmdStop(r))
         /\ ~cmdStop(r).pid
         /\ r.pid /\ RLen > 0 => ~cmdIsReady(cmdStop(r))
         /\ ~r.pid => cmdStop(r) = r
<1>1. CASE ~r.pid
  BY <1>1 DEF cmdStop
<1>2. CASE r.pid
  <2> DEFINE s  == ClearReady(r)
             nl == IF r.zomb > 0 THEN s.live ELSE s.live - 1
             nz == IF r.zomb > 0 THEN s.zomb - 1 ELSE s.zomb
             r1 == [s EXCEPT !.pid = FALSE]
             r2 == [r1 EXCEPT !.watched = FALSE]
             r3 == [r2 EXCEPT !.live = nl]
             r4 == [r3 EXCEPT !.zomb = nz]
  <2>1. /\ s \in CmdState /\ s.pid = r.pid
        /\ s.live = r.live /\ s.zomb = r.zomb
        /\ RLen > 0 => s.readycnt # RLen
    BY ClearReadyLemma
  <2>2. r.live \in Nat /\ r.zomb \in Nat /\ r.live + r.zomb = 1
    BY <1>2 DEF CmdState, Tracked
  <2>3. nl = 0 /\ nz = 0
    BY <2>1, <2>2
  <2> HIDE DEF s, nl, nz
  <2>4. cmdStop(r) = r4
    BY <1>2 DEF cmdStop, s, nl, nz
  <2>5. r1 \in CmdState
    BY <2>1, FieldLemma
  <2>6. r2 \in CmdState
    <3> HIDE DEF r1
    <3> QED BY <2>5, FieldLemma
  <2>7. r3 \in CmdState
    <3> HIDE DEF r2
    <3> QED BY <2>3, <2>6, FieldLemma
  <2>8. r4 \in CmdState
    <3> HIDE DEF r3
    <3> QED BY <2>3, <2>7, FieldLemma
  <2>9. /\ ~r4.pid /\ ~r4.watched /\ r4.live = 0 /\ r4.zomb = 0
        /\ r4.readycnt = s.readycnt
    BY <2>1, <2>3 DEF CmdState
  <2> HIDE DEF r4
  <2> QED
    BY <1>2, <2>1, <2>4, <2>8, <2>9 DEF Tracked, CmdState, cmdIsReady
<1> QED
  BY <1>1, <1>2

\* Reaping the zombie of a tracked process leaves none, and no ready command.
LEMMA ReapLemma ==
  ASSUME NEW r \in CmdState, Tracked(r), r.pid, r.zomb > 0
  PROVE  /\ Reap(r) \in CmdState /\ Tracked(Reap(r)) /\ ~Reap(r).pid
         /\ RLen > 0 => ~cmdIsReady(Reap(r))
<1> DEFINE s  == ClearReady(r)
           r1 == [s EXCEPT !.pid = FALSE]
           r2 == [r1 EXCEPT !.watched = FALSE]
           r3 == [r2 EXCEPT !.zomb = s.zomb - 1]
<1>1. /\ s \in CmdState /\ s.pid = r.pid
      /\ s.live = r.live /\ s.zomb = r.zomb
      /\ RLen > 0 => s.readycnt # RLen
  BY ClearReadyLemma
<1>2. r.live = 0 /\ r.zomb = 1
  BY DEF CmdState, Tracked
<1> HIDE DEF s
<1>3. Reap(r) = r3
  BY DEF Reap, s
<1>4. r1 \in CmdState
  BY <1>1, FieldLemma
<1>5. r2 \in CmdState
  <2> HIDE DEF r1
  <2> QED BY <1>4, FieldLemma
<1>6. r3 \in CmdState
  <2> HIDE DEF r2
  <2>1. s.zomb - 1 \in Nat
    BY <1>1, <1>2
  <2> QED BY <1>5, <2>1, FieldLemma
<1>7. /\ ~r3.pid /\ ~r3.watched /\ r3.live = 0 /\ r3.zomb = 0
      /\ r3.readycnt = s.readycnt
  BY <1>1, <1>2 DEF CmdState
<1> HIDE DEF r3
<1> QED
  BY <1>1, <1>3, <1>6, <1>7 DEF Tracked, CmdState, cmdIsReady

\* cmdCleanup leaves what cmdStop leaves.
LEMMA CleanupLemma ==
  ASSUME NEW r \in CmdState, Tracked(r)
  PROVE  /\ cmdCleanup(r) \in CmdState /\ Tracked(cmdCleanup(r))
         /\ ~cmdCleanup(r).pid
<1> DEFINE s  == cmdStop(r)
           r1 == [s EXCEPT !.deleteonexit = FALSE]
           r2 == [r1 EXCEPT !.out = <<>>]
<1>1. s \in CmdState /\ Tracked(s) /\ ~s.pid
  BY StopLemma
<1> HIDE DEF s
<1>2. cmdCleanup(r) = r2
  BY DEF cmdCleanup, s
<1>3. r1 \in CmdState
  BY <1>1, FieldLemma
<1>4. r2 \in CmdState
  <2> HIDE DEF r1
  <2>1. <<>> \in Seq(Char)
    OBVIOUS
  <2> QED BY <1>3, <2>1, FieldLemma
<1>5. /\ r2.pid = s.pid /\ r2.watched = s.watched
      /\ r2.live = s.live /\ r2.zomb = s.zomb
  BY <1>1 DEF CmdState
<1> HIDE DEF r2
<1> QED
  BY <1>1, <1>2, <1>4, <1>5 DEF Tracked

\* One character of output changes neither the process nor its tracking, and
\* never makes a ready command unready.
LEMMA OutputLemma ==
  ASSUME NEW r \in CmdState, r.out # <<>>
  PROVE  /\ cmdttyProcessOutput(r) \in CmdState
         /\ cmdttyProcessOutput(r).pid = r.pid
         /\ cmdttyProcessOutput(r).watched = r.watched
         /\ cmdttyProcessOutput(r).live = r.live
         /\ cmdttyProcessOutput(r).zomb = r.zomb
         /\ r.readycnt = RLen => cmdttyProcessOutput(r).readycnt = RLen
<1> DEFINE n  == IF r.readycnt = RLen THEN r.readycnt
                 ELSE IF ReadyStr[r.readycnt + 1] = Head(r.out)
                 THEN r.readycnt + 1 ELSE 0
           r1 == [r EXCEPT !.out = Tail(r.out)]
           r2 == [r1 EXCEPT !.readycnt = n]
<1>1. Tail(r.out) \in Seq(Char)
  BY DEF CmdState
<1>2. n \in 0..RLen
  BY RLenType DEF CmdState
<1>3. r.readycnt = RLen => n = RLen
  OBVIOUS
<1>4. cmdttyProcessOutput(r) = r2
  BY DEF cmdttyProcessOutput
<1> HIDE DEF n
<1>5. r1 \in CmdState
  BY <1>1, FieldLemma
<1>6. r2 \in CmdState
  <2> HIDE DEF r1
  <2> QED BY <1>2, <1>5, FieldLemma
<1>7. /\ r2.pid = r.pid /\ r2.watched = r.watched
      /\ r2.live = r.live /\ r2.zomb = r.zomb /\ r2.readycnt = n
  BY DEF CmdState
<1> HIDE DEF r2
<1> QED
  BY <1>3, <1>4, <1>6, <1>7

\* A tracked process that exits is tracked as a zombie.
LEMMA ExitedLemma ==
  ASSUME NEW r \in CmdState, Tracked(r), r.live > 0
  PROVE  /\ Exited(r) \in CmdState /\ Tracked(Exited(r))
         /\ Exited(r).pid = r.pid /\ Exited(r).readycnt = r.readycnt
<1> DEFINE r1 == [r EXCEPT !.live = r.live - 1]
           r2 == [r1 EXCEPT !.zomb = r.zomb + 1]
<1>1. r.live \in Nat /\ r.live - 1 \in Nat /\ r.zomb \in Nat /\ r.zomb + 1 \in Nat
  BY DEF CmdState
<1>2. Exited(r) = r2
  BY DEF Exited
<1>3. r1 \in CmdState
  BY <1>1, FieldLemma
<1>4. r2 \in CmdState
  <2> HIDE DEF r1
  <2> QED BY <1>1, <1>3, FieldLemma
<1>5. /\ r2.pid = r.pid /\ r2.watched = r.watched /\ r2.readycnt = r.readycnt
      /\ r2.live = r.live - 1 /\ r2.zomb = r.zomb + 1
  BY DEF CmdState
<1> HIDE DEF r2
<1> QED
  BY <1>1, <1>2, <1>4, <1>5 DEF Tracked, CmdState

-----------------------------------------------------------------------------
(* The operations on one tty *)

\* Enqueue never empties a queue.
LEMMA EnqueueLemma ==
  ASSUME NEW q \in Seq({"open", "close"}), NEW e \in {"open", "close"}
  PROVE  Enqueue(q, e) \in Seq({"open", "close"}) /\ Enqueue(q, e) # <<>>
<1>1. Append(q, e) \in Seq({"open", "close"})
  OBVIOUS
<1>2. Append(q, e) # <<>>
  <2>1. Len(Append(q, e)) = Len(q) + 1 /\ Len(q) \in Nat
    OBVIOUS
  <2>2. Len(<<>>) = 0
    OBVIOUS
  <2> QED BY <2>1, <2>2
<1> QED
  BY <1>1, <1>2 DEF Enqueue

\* A client that opens or closes a tty leaves a notification and all the
\* bytes that were pending.
LEMMA HeldLemma ==
  ASSUME NEW x \in TtyState, NEW e \in {"open", "close"}, NEW n \in Nat
  PROVE  /\ Held(x, e, n) \in TtyState /\ Held(x, e, n).notify # <<>>
         /\ Held(x, e, n).pending = x.pending
<1> DEFINE x1 == [x EXCEPT !.holders = n]
           x2 == [x1 EXCEPT !.notify = Enqueue(x.notify, e)]
           b  == x.merged \/ (e = "open" /\ Enqueue(x.notify, e) = x.notify)
           x3 == [x2 EXCEPT !.merged = b]
<1>1. x1 \in TtyState
  BY DEF TtyState
<1>2. /\ Enqueue(x.notify, e) \in Seq({"open", "close"})
      /\ Enqueue(x.notify, e) # <<>>
  BY EnqueueLemma DEF TtyState
<1>3. Held(x, e, n) = x3
  BY DEF Held
<1>4. x2 \in TtyState
  <2> HIDE DEF x1
  <2> QED BY <1>1, <1>2 DEF TtyState
<1>5. b \in BOOLEAN
  BY DEF TtyState
<1>6. x3 \in TtyState
  <2> HIDE DEF x2, b
  <2> QED BY <1>4, <1>5 DEF TtyState
<1>7. x3.notify # <<>> /\ x3.pending = x.pending
  BY <1>2 DEF TtyState
<1> QED
  BY <1>3, <1>6, <1>7

\* Reading a notification leaves the pending bytes alone.
LEMMA NotifyLemma ==
  ASSUME NEW x \in TtyState, x.notify # <<>>
  PROVE  /\ ttyNotifyEvent(x) \in TtyState
         /\ ttyNotifyEvent(x).pending = x.pending
<1> DEFINE n  == IF Head(x.notify) = "open" THEN x.opens + 1
                 ELSE IF x.opens > 0 THEN x.opens - 1 ELSE x.opens
           x1 == [x EXCEPT !.notify = Tail(x.notify)]
           x2 == [x1 EXCEPT !.opens = n]
<1>1. Tail(x.notify) \in Seq({"open", "close"}) /\ n \in Nat
  BY DEF TtyState
<1>2. ttyNotifyEvent(x) = x2
  BY DEF ttyNotifyEvent
<1> HIDE DEF n
<1>3. x1 \in TtyState
  BY <1>1 DEF TtyState
<1>4. x2 \in TtyState
  <2> HIDE DEF x1
  <2> QED BY <1>1, <1>3 DEF TtyState
<1>5. x2.pending = x.pending
  BY DEF TtyState
<1> QED
  BY <1>2, <1>4, <1>5

\* Reading a byte leaves the notifications alone.
LEMMA ReadLemma ==
  ASSUME NEW x \in TtyState, x.pending > 0
  PROVE  ttyReadChar(x) \in TtyState /\ ttyReadChar(x).notify = x.notify
BY DEF TtyState, ttyReadChar

-----------------------------------------------------------------------------
(* The inductive invariant.  Its three parts need each other: cmdStop and  *)
(* cmdPidEvent decrement live and zomb, which stay natural numbers because *)
(* of OneProcess; ttyReadChar and ttyNotifyEvent take from pending and     *)
(* notify, which are not empty because of FreshEvents.  (An event of a     *)
(* command that was freed is not among those FreshEvents speaks of.)       *)

Procs == cmd \in [Cmd -> CmdState] /\ OneProcess
FreshEvents ==
  \A e \in batch :
    /\ e[1] \in {"pidfd", "cmdtty"} => e[2] \in cmds
    /\ e[1] \in {"clttty", "notify"} => e[2] \in Ttys
    /\ e[1] = "clttty" => tty[e[2]].pending > 0
    /\ e[1] = "notify" => tty[e[2]].notify # <<>>
Fresh == batch \subseteq Events /\ FreshEvents
Rest  == /\ cmds \subseteq Cmd
         /\ tty \in [Tty -> TtyState]
         /\ cmdsreadycnt \in Int
         /\ slowest \in Cmd \cup {NoCmd, Dangling}
         /\ bcstflg \in BOOLEAN /\ restart \in BOOLEAN
         /\ exitonidle \in BOOLEAN /\ cmddelonexit \in BOOLEAN
         /\ draining \subseteq Cmd
         /\ halt \in {"no", "exit", "freed", "waitid", "readycnt", "slowest"}

Inv == Procs /\ Fresh /\ Rest

\* Inv gives the type invariant and the two safety invariants.
LEMMA InvMeaning == Inv => TypeOK /\ OneProcess /\ EventsFresh
<1>1. FreshEvents => EventsFresh
  BY DEF FreshEvents, EventsFresh
<1> QED
  BY <1>1 DEF Inv, Procs, Fresh, Rest, TypeOK

\* The count of the ready commands of a set is a natural number.
LEMMA ReadyInType ==
  ASSUME NEW S, S \subseteq Cmd
  PROVE  ReadyIn(S) \in Nat
<1>1. IsFiniteSet({c \in S : cmdIsReady(cmd[c])})
  BY CmdAssumption, FS_Subset
<1> QED
  BY <1>1, FS_CardinalityType DEF ReadyIn

\* What Procs says of one command.
LEMMA ProcsAt ==
  ASSUME Procs, NEW d \in Cmd
  PROVE  cmd[d] \in CmdState /\ Tracked(cmd[d]) /\ (cmd[d].pid => d \in cmds)
<1>1. cmd[d] \in CmdState
  BY DEF Procs
<1>2. Tracked(cmd[d]) /\ (cmd[d].pid => d \in cmds)
  BY Zenon DEF Procs, OneProcess
<1> QED
  BY <1>1, <1>2, Zenon

\* A command takes the place of another if it is one, tracked, and registered
\* when it has a process.
LEMMA ProcsUpdate ==
  ASSUME Procs, NEW c \in Cmd, NEW r \in CmdState, Tracked(r),
         cmd' = [cmd EXCEPT ![c] = r],
         r.pid => c \in cmds',
         \A d \in Cmd \ {c} : d \in cmds => d \in cmds'
  PROVE  Procs'
<1>1. cmd' \in [Cmd -> CmdState]
  BY DEF Procs
<1>2. ASSUME NEW d \in Cmd PROVE Tracked(cmd'[d]) /\ (cmd'[d].pid => d \in cmds')
  <2>1. CASE d = c
    BY <2>1 DEF Procs
  <2>2. CASE d # c
    <3>1. cmd'[d] = cmd[d]
      BY <2>2 DEF Procs
    <3> QED BY <2>2, <3>1, ProcsAt, Zenon
  <2> QED BY <2>1, <2>2
<1>3. OneProcess'
  BY <1>2 DEF OneProcess, Tracked
<1> QED
  BY <1>1, <1>3 DEF Procs

\* StartCmds preserves Procs when it starts registered commands.
LEMMA ProcsStart ==
  ASSUME Procs, NEW S, S \subseteq cmds, cmds \subseteq Cmd,
         StartCmds(S), cmds' = cmds
  PROVE  Procs'
<1>1. ASSUME NEW d \in Cmd
      PROVE  /\ cmd'[d] \in CmdState /\ Tracked(cmd'[d])
             /\ cmd'[d].pid => d \in cmds'
  <2>1. cmd[d] \in CmdState /\ Tracked(cmd[d]) /\ (cmd[d].pid => d \in cmds)
    BY ProcsAt, Zenon
  <2>2. cmd'[d] = IF d \in S THEN cmdStart(cmd[d]) ELSE cmd[d]
    BY DEF StartCmds
  <2>3. CASE d \in S
    BY <2>1, <2>2, <2>3, StartLemma
  <2>4. CASE d \notin S
    BY <2>1, <2>2, <2>4
  <2> QED BY <2>3, <2>4
<1>2. cmd' = [d \in Cmd |-> cmd'[d]]
  BY DEF StartCmds
<1>3. cmd' \in [Cmd -> CmdState]
  BY <1>1, <1>2
<1> QED
  BY <1>1, <1>3 DEF Procs, OneProcess, Tracked

\* StopCmds preserves Procs and keeps cmdsreadycnt an integer.
LEMMA ProcsStop ==
  ASSUME Procs, NEW S, S \subseteq cmds, cmds \subseteq Cmd,
         StopCmds(S), cmds' = cmds, cmdsreadycnt \in Int
  PROVE  Procs' /\ cmdsreadycnt' \in Int
<1> DEFINE stopped == {c \in S : /\ cmd[c].pid
                                 /\ ttyIdle(tty'[c]) /\ ttyIdle(tty'[Bcst])}
<1>0. /\ cmd' = [c \in Cmd |->
                   IF c \in stopped THEN cmdStop(cmd[c]) ELSE cmd[c]]
      /\ cmdsreadycnt' = cmdsreadycnt - ReadyIn(stopped)
  BY DEF StopCmds
<1>a. stopped \subseteq Cmd
  OBVIOUS
<1> HIDE DEF stopped
<1>1. ASSUME NEW d \in Cmd
      PROVE  /\ cmd'[d] \in CmdState /\ Tracked(cmd'[d])
             /\ cmd'[d].pid => d \in cmds'
  <2>1. cmd[d] \in CmdState /\ Tracked(cmd[d]) /\ (cmd[d].pid => d \in cmds)
    BY ProcsAt, Zenon
  <2>2. cmd'[d] = IF d \in stopped THEN cmdStop(cmd[d]) ELSE cmd[d]
    BY <1>0
  <2>3. CASE d \in stopped
    BY <2>1, <2>2, <2>3, StopLemma
  <2>4. CASE d \notin stopped
    BY <2>1, <2>2, <2>4
  <2> QED BY <2>3, <2>4
<1>2. cmd' = [d \in Cmd |-> cmd'[d]]
  BY <1>0
<1>3. cmd' \in [Cmd -> CmdState]
  BY <1>1, <1>2
<1>4. cmdsreadycnt' \in Int
  BY <1>0, <1>a, ReadyInType
<1> QED
  BY <1>1, <1>3, <1>4 DEF Procs, OneProcess, Tracked

\* Dispatching an event leaves the others fresh if the ttys still hold what
\* those others announced.
LEMMA FreshDone ==
  ASSUME Fresh, NEW e, batch' = batch \ {e},
         cmds \subseteq cmds', Ttys \subseteq Ttys',
         \A f \in batch' :
           /\ f[1] = "clttty" => tty'[f[2]].pending > 0
           /\ f[1] = "notify" => tty'[f[2]].notify # <<>>
  PROVE  Fresh'
<1>1. batch' \subseteq Events
  BY DEF Fresh
<1>2. ASSUME NEW f \in batch'
      PROVE  /\ f[1] \in {"pidfd", "cmdtty"} => f[2] \in cmds'
             /\ f[1] \in {"clttty", "notify"} => f[2] \in Ttys'
             /\ f[1] = "clttty" => tty'[f[2]].pending > 0
             /\ f[1] = "notify" => tty'[f[2]].notify # <<>>
  BY DEF Fresh, FreshEvents
<1> QED
  BY <1>1, <1>2 DEF Fresh, FreshEvents, Events

-----------------------------------------------------------------------------
(* One lemma for each group of actions *)

\* The initial state satisfies the invariant.
LEMMA InvInit == Init => Inv
<1> SUFFICES ASSUME Init PROVE Inv
  OBVIOUS
<1> DEFINE r0 == [pid |-> FALSE, watched |-> FALSE, live |-> 0, zomb |-> 0,
                  readycnt |-> 0, deleteonexit |-> FALSE, out |-> <<>>]
<1>1. r0 \in CmdState
  BY RLenType DEF CmdState
<1>2. Tracked(r0) /\ ~r0.pid
  BY DEF Tracked
<1>3. cmd = [c \in Cmd |-> r0]
  BY DEF Init
<1> HIDE DEF r0
<1>4. Procs
  <2>1. \A c \in Cmd : cmd[c] = r0
    BY <1>3
  <2>2. cmd \in [Cmd -> CmdState]
    BY <1>1, <1>3
  <2> QED BY <1>2, <2>1, <2>2, Zenon DEF Procs, OneProcess
<1>5. Fresh
  BY DEF Init, Fresh, FreshEvents
<1>6. ClosedTty \in TtyState
  BY DEF ClosedTty, TtyState
<1>7. tty \in [Tty -> TtyState]
  BY <1>6 DEF Init
<1>8. slowest \in Cmd \cup {NoCmd, Dangling} /\ cmds \subseteq Cmd
  BY CmdAssumption DEF Init
<1>9. bcstflg \in BOOLEAN /\ exitonidle \in BOOLEAN
  BY OptionAssumption, Zenon DEF Init
<1>10. restart \in BOOLEAN /\ cmddelonexit \in BOOLEAN
  BY Zenon DEF Init
<1>11. /\ cmdsreadycnt \in Int /\ draining \subseteq Cmd
       /\ halt \in {"no", "exit", "freed", "waitid", "readycnt", "slowest"}
  BY DEF Init
<1>12. Rest
  BY <1>7, <1>8, <1>9, <1>10, <1>11, Zenon DEF Rest
<1> QED
  BY <1>4, <1>5, <1>12 DEF Inv

\* The clients preserve the invariant: they only add notifications and bytes.
LEMMA InvClient ==
  ASSUME Inv, NEW t \in Tty, ClientOpen(t) \/ ClientClose(t) \/ ClientWrite(t)
  PROVE  Inv'
<1> USE DEF Inv
<1>1. UNCHANGED <<cmds, cmd, cmdsreadycnt, slowest, bcstflg, restart, exitonidle,
                  cmddelonexit, batch, draining, halt>>
  BY DEF ClientOpen, ClientClose, ClientWrite, EnvTty, policy
<1>2. tty[t] \in TtyState
  BY DEF Rest
<1>3. \E x \in TtyState : /\ tty' = [tty EXCEPT ![t] = x]
                          /\ x.pending >= tty[t].pending
                          /\ tty[t].notify # <<>> => x.notify # <<>>
  <2>1. CASE ClientOpen(t)
    <3>1. tty[t].holders + 1 \in Nat
      BY <1>2 DEF TtyState
    <3> DEFINE x == Held(tty[t], "open", tty[t].holders + 1)
    <3>2. tty' = [tty EXCEPT ![t] = x]
      BY <2>1 DEF ClientOpen, ClientHolds
    <3>3. x \in TtyState /\ x.notify # <<>> /\ x.pending = tty[t].pending
      BY <1>2, <3>1, HeldLemma
    <3>4. x.pending >= tty[t].pending
      BY <1>2, <3>3 DEF TtyState
    <3> HIDE DEF x
    <3> QED BY <3>2, <3>3, <3>4, Zenon
  <2>2. CASE ClientClose(t)
    <3>1. tty[t].holders - 1 \in Nat
      BY <1>2, <2>2 DEF TtyState, ClientClose
    <3> DEFINE x == Held(tty[t], "close", tty[t].holders - 1)
    <3>2. tty' = [tty EXCEPT ![t] = x]
      BY <2>2 DEF ClientClose, ClientHolds
    <3>3. x \in TtyState /\ x.notify # <<>> /\ x.pending = tty[t].pending
      BY <1>2, <3>1, HeldLemma
    <3>4. x.pending >= tty[t].pending
      BY <1>2, <3>3 DEF TtyState
    <3> HIDE DEF x
    <3> QED BY <3>2, <3>3, <3>4, Zenon
  <2>3. CASE ClientWrite(t)
    <3> DEFINE x == Written(tty[t])
    <3>1. /\ x \in TtyState /\ x.pending >= tty[t].pending
          /\ x.notify = tty[t].notify
      BY <1>2 DEF TtyState, Written
    <3>2. tty' = [tty EXCEPT ![t] = x]
      BY <2>3 DEF ClientWrite
    <3> HIDE DEF x
    <3> QED BY <3>1, <3>2
  <2> QED BY <2>1, <2>2, <2>3
<1>4. PICK x \in TtyState : /\ tty' = [tty EXCEPT ![t] = x]
                            /\ x.pending >= tty[t].pending
                            /\ tty[t].notify # <<>> => x.notify # <<>>
  BY <1>3
<1>5. Procs'
  BY <1>1 DEF Procs, OneProcess, Tracked
<1>6. Rest'
  BY <1>1, <1>4 DEF Rest
<1>7. Fresh'
  <2>1. Ttys \subseteq Tty
    BY DEF Ttys, Rest, Tty
  <2>2. ASSUME NEW f \in batch
        PROVE  /\ f[1] = "clttty" => tty'[f[2]].pending > 0
               /\ f[1] = "notify" => tty'[f[2]].notify # <<>>
    <3>1. /\ f[1] = "clttty" => f[2] \in Tty /\ tty[f[2]].pending > 0
          /\ f[1] = "notify" => f[2] \in Tty /\ tty[f[2]].notify # <<>>
      BY <2>1 DEF Fresh, FreshEvents
    <3>2. ASSUME NEW u \in Tty
          PROVE  /\ tty[u].pending > 0 => tty'[u].pending > 0
                 /\ tty[u].notify # <<>> => tty'[u].notify # <<>>
      <4>1. CASE u = t
        BY <1>2, <1>4, <4>1 DEF Rest, TtyState
      <4>2. CASE u # t
        BY <1>4, <4>2 DEF Rest
      <4> QED BY <4>1, <4>2
    <3> QED BY <3>1, <3>2
  <2>3. Ttys' = Ttys
    BY <1>1 DEF Ttys
  <2> QED BY <1>1, <2>2, <2>3 DEF Fresh, FreshEvents
<1> QED
  BY <1>5, <1>6, <1>7

\* A step that leaves the ttys, the batch and the policies alone.
LEMMA FreshSame ==
  ASSUME Fresh, UNCHANGED <<cmds, tty, bcstflg, batch>>
  PROVE  Fresh'
BY DEF Fresh, FreshEvents, Ttys

\* The processes preserve the invariant.
LEMMA InvProcess ==
  ASSUME Inv, NEW c \in Cmd,
         ProcExit(c) \/ \E ch \in Char : ProcOutput(c, ch)
  PROVE  Inv'
<1> USE DEF Inv
<1>1. UNCHANGED <<cmds, tty, cmdsreadycnt, slowest, bcstflg, restart, exitonidle,
                  cmddelonexit, batch, draining, halt>>
  BY DEF ProcExit, ProcOutput, EnvCmd, policy
<1>2. cmd[c] \in CmdState /\ Tracked(cmd[c]) /\ (cmd[c].pid => c \in cmds)
  BY ProcsAt, Zenon
<1>3. Procs'
  <2>1. CASE ProcExit(c)
    <3>1. cmd' = [cmd EXCEPT ![c] = Exited(cmd[c])] /\ cmd[c].live > 0
      BY <2>1 DEF ProcExit
    <3>2. /\ Exited(cmd[c]) \in CmdState /\ Tracked(Exited(cmd[c]))
          /\ Exited(cmd[c]).pid => c \in cmds'
      BY <1>1, <1>2, <3>1, ExitedLemma
    <3> QED BY <1>1, <3>1, <3>2, ProcsUpdate
  <2>2. CASE \E ch \in Char : ProcOutput(c, ch)
    <3>1. PICK ch \in Char : ProcOutput(c, ch)
      BY <2>2
    <3> DEFINE q == Append(cmd[c].out, ch)
               r == Printed(cmd[c], ch)
    <3>2. q \in Seq(Char)
      BY <1>2 DEF CmdState
    <3>3. cmd' = [cmd EXCEPT ![c] = r]
      BY <3>1 DEF ProcOutput
    <3>4. r \in CmdState
      <4>1. r = [cmd[c] EXCEPT !.out = q]
        BY DEF Printed
      <4> HIDE DEF q, r
      <4> QED BY <1>2, <3>2, <4>1, FieldLemma
    <3>5. /\ r.pid = cmd[c].pid /\ r.watched = cmd[c].watched
          /\ r.live = cmd[c].live /\ r.zomb = cmd[c].zomb
      BY <1>2 DEF CmdState, Printed
    <3> HIDE DEF r
    <3>6. Tracked(r) /\ (r.pid => c \in cmds')
      BY <1>1, <1>2, <3>5 DEF Tracked
    <3> QED BY <1>1, <3>3, <3>4, <3>6, ProcsUpdate
  <2> QED BY <2>1, <2>2
<1>4. Fresh' /\ Rest'
  BY <1>1, FreshSame DEF Rest
<1> QED
  BY <1>3, <1>4

\* An event is the pair of its kind and its object.
LEMMA EventPair ==
  ASSUME NEW f \in Events
  PROVE  f = <<f[1], f[2]>>
BY DEF Events

\* epoll_wait returns fresh events.
LEMMA InvEpollWait ==
  ASSUME Inv, EpollWait
  PROVE  Inv'
<1> USE DEF Inv
<1>1. UNCHANGED <<cmds, cmd, tty, cmdsreadycnt, slowest, bcstflg, restart,
                  exitonidle, cmddelonexit, draining, halt>>
  BY DEF EpollWait, policy
<1>2. PICK ext \in SUBSET External : batch' = Ready \cup ext
  BY DEF EpollWait
<1>3. cmds \subseteq Cmd /\ Ttys \subseteq Tty
  BY DEF Rest, Ttys, Tty
<1>4. ASSUME NEW f \in batch'
      PROVE  /\ f \in Events
             /\ f[1] \in {"pidfd", "cmdtty"} => f[2] \in cmds
             /\ f[1] \in {"clttty", "notify"} => f[2] \in Ttys
             /\ f[1] = "clttty" => tty[f[2]].pending > 0
             /\ f[1] = "notify" => tty[f[2]].notify # <<>>
  <2>1. CASE f \in External
    BY <2>1 DEF External, Events
  <2>2. CASE \E c \in cmds : f = <<"pidfd", c>> \/ f = <<"cmdtty", c>>
    BY <1>3, <2>2 DEF Events, Kinds, Tty
  <2>3. CASE \E t \in Ttys : f = <<"clttty", t>> /\ tty[t].pending > 0
    BY <1>3, <2>3 DEF Events, Kinds
  <2>4. CASE \E t \in Ttys : f = <<"notify", t>> /\ tty[t].notify # <<>>
    BY <1>3, <2>4 DEF Events, Kinds
  <2> QED
    BY <1>2, <2>1, <2>2, <2>3, <2>4 DEF Ready
<1>5. Fresh'
  <2>1. Ttys' = Ttys
    BY <1>1 DEF Ttys
  <2>2. Events' = Events
    BY DEF Events
  <2> QED BY <1>1, <1>4, <2>1, <2>2 DEF Fresh, FreshEvents
<1>6. Procs' /\ Rest'
  BY <1>1 DEF Procs, OneProcess, Tracked, Rest
<1> QED
  BY <1>5, <1>6

\* An abort, and a handler that returns without doing anything.
LEMMA InvSkip ==
  ASSUME Inv, NEW e, Done(e),
         UNCHANGED <<cmds, cmd, tty, cmdsreadycnt, slowest, bcstflg, policy>>,
         draining' \subseteq Cmd,
         halt' \in {"no", "exit", "freed", "waitid", "readycnt", "slowest"}
  PROVE  Inv'
<1> USE DEF Inv
<1>1. Procs' /\ Rest'
  BY DEF Procs, OneProcess, Tracked, Rest, policy
<1>2. Ttys' = Ttys /\ batch' \subseteq batch
  BY DEF Ttys, Done
<1>3. Fresh'
  BY <1>2 DEF Fresh, FreshEvents, Events
<1> QED
  BY <1>1, <1>3

\* Reading a byte or a notification of one tty leaves the other events fresh.
LEMMA FreshRead ==
  ASSUME Fresh, tty \in [Tty -> TtyState], cmds \subseteq Cmd,
         NEW t \in Tty, NEW k \in {"clttty", "notify"}, NEW x \in TtyState,
         Done(<<k, t>>), UNCHANGED <<cmds, bcstflg>>,
         tty' = [tty EXCEPT ![t] = x],
         k = "clttty" => x.notify = tty[t].notify,
         k = "notify" => x.pending = tty[t].pending
  PROVE  Fresh'
<1>1. Ttys' = Ttys /\ Ttys \subseteq Tty
  BY DEF Ttys, Tty
<1>2. ASSUME NEW f \in batch'
      PROVE  /\ f[1] = "clttty" => tty'[f[2]].pending > 0
             /\ f[1] = "notify" => tty'[f[2]].notify # <<>>
  <2>1. f \in batch /\ f # <<k, t>> /\ f = <<f[1], f[2]>>
    BY EventPair DEF Done, Fresh
  <2>2. /\ f[1] = "clttty" => f[2] \in Tty /\ tty[f[2]].pending > 0
        /\ f[1] = "notify" => f[2] \in Tty /\ tty[f[2]].notify # <<>>
    BY <1>1, <2>1 DEF Fresh, FreshEvents
  <2>3. CASE f[2] = t
    BY <2>1, <2>2, <2>3
  <2>4. CASE f[2] # t
    BY <2>1, <2>2, <2>4
  <2> QED BY <2>3, <2>4
<1> QED
  BY <1>1, <1>2, FreshDone DEF Done

\* The event of a dispatched handler is in the batch, with what it announced.
LEMMA InvCltttyEvent ==
  ASSUME Inv, NEW c \in Cmd, CltttyEvent(c)
  PROVE  Inv'
<1> USE DEF Inv
<1>1. /\ <<"clttty", c>> \in batch /\ Done(<<"clttty", c>>)
      /\ UNCHANGED <<cmds, slowest, bcstflg, policy, draining, halt>>
  BY DEF CltttyEvent, Dispatch
<1>2. CASE UNCHANGED <<cmd, tty, cmdsreadycnt>>
  BY <1>1, <1>2, InvSkip DEF Rest
<1>3. CASE tty' = [tty EXCEPT ![c] = ttyReadChar(tty[c])] /\ StopCmds({c})
  <2>1. c \in Ttys /\ tty[c].pending > 0
    BY <1>1 DEF Fresh, FreshEvents
  <2>2. c \in cmds /\ c \in Tty
    BY <2>1, CmdAssumption DEF Ttys, Tty
  <2>3. tty[c] \in TtyState
    BY <2>2 DEF Rest
  <2>4. ttyReadChar(tty[c]) \in TtyState /\ ttyReadChar(tty[c]).notify = tty[c].notify
    BY <2>1, <2>3, ReadLemma
  <2>5. Procs' /\ cmdsreadycnt' \in Int
    BY <1>1, <1>3, <2>2, ProcsStop DEF Rest
  <2>6. Fresh'
    BY <1>1, <1>3, <2>2, <2>4, FreshRead DEF Rest
  <2>7. tty' \in [Tty -> TtyState]
    BY <1>3, <2>4 DEF Rest
  <2>8. Rest'
    BY <1>1, <2>5, <2>7 DEF Rest, policy
  <2> QED BY <2>5, <2>6, <2>8
<1> QED
  BY <1>2, <1>3 DEF CltttyEvent

\* ttyNotifyEvent and the handler it calls.
LEMMA InvNotified ==
  ASSUME Inv, NEW t \in Tty, NEW S, S \subseteq cmds, Notified(t, S)
  PROVE  Inv'
<1> USE DEF Inv
<1>1. /\ <<"notify", t>> \in batch /\ Done(<<"notify", t>>)
      /\ tty' = [tty EXCEPT ![t] = ttyNotifyEvent(tty[t])]
      /\ StartCmds(S) \/ StopCmds(S)
      /\ UNCHANGED <<cmds, slowest, bcstflg, policy, draining, halt>>
  BY DEF Notified, Dispatch
<1>2. tty[t].notify # <<>> /\ tty[t] \in TtyState
  BY <1>1 DEF Fresh, FreshEvents, Rest
<1>3. /\ ttyNotifyEvent(tty[t]) \in TtyState
      /\ ttyNotifyEvent(tty[t]).pending = tty[t].pending
  BY <1>2, NotifyLemma
<1>4. Procs' /\ cmdsreadycnt' \in Int
  <2>1. CASE StartCmds(S)
    <3>1. cmdsreadycnt' = cmdsreadycnt
      BY <2>1 DEF StartCmds
    <3> QED BY <1>1, <2>1, <3>1, ProcsStart DEF Rest
  <2>2. CASE StopCmds(S)
    BY <1>1, <2>2, ProcsStop DEF Rest
  <2> QED BY <1>1, <2>1, <2>2
<1>5. Fresh'
  BY <1>1, <1>3, FreshRead DEF Rest
<1>6. tty' \in [Tty -> TtyState]
  BY <1>1, <1>3 DEF Rest
<1>7. Rest'
  BY <1>1, <1>4, <1>6 DEF Rest, policy
<1> QED
  BY <1>4, <1>5, <1>7

\* bcstttyEvent.
LEMMA InvBcstttyEvent ==
  ASSUME Inv, BcstttyEvent
  PROVE  Inv'
<1> USE DEF Inv
<1>1. <<"clttty", Bcst>> \in batch /\ Done(<<"clttty", Bcst>>)
  BY DEF BcstttyEvent, Dispatch, Abort
<1>2. UNCHANGED <<cmds, cmd, cmdsreadycnt, slowest, bcstflg, policy, draining>>
  BY DEF BcstttyEvent, Abort
<1>3. halt' \in {halt, "slowest"}
  BY DEF BcstttyEvent, Abort
<1>4. CASE tty' = tty
  BY <1>1, <1>2, <1>3, <1>4, InvSkip DEF Rest
<1>5. CASE tty' = [tty EXCEPT ![Bcst] = ttyReadChar(tty[Bcst])]
  <2>1. Bcst \in Tty
    BY DEF Tty
  <2>2. tty[Bcst] \in TtyState /\ tty[Bcst].pending > 0
    BY <1>1, <2>1 DEF Fresh, FreshEvents, Rest
  <2>3. /\ ttyReadChar(tty[Bcst]) \in TtyState
        /\ ttyReadChar(tty[Bcst]).notify = tty[Bcst].notify
    BY <2>2, ReadLemma
  <2>4. Fresh'
    BY <1>1, <1>2, <1>5, <2>1, <2>3, FreshRead DEF Rest
  <2>5. tty' \in [Tty -> TtyState]
    BY <1>5, <2>3 DEF Rest
  <2>6. Procs' /\ Rest'
    BY <1>2, <1>3, <2>5 DEF Procs, OneProcess, Tracked, Rest, policy
  <2> QED BY <2>4, <2>6
<1> QED
  BY <1>4, <1>5 DEF BcstttyEvent, Abort

\* One character of a command's output, from the loop or from monDrain.
LEMMA InvOutput ==
  ASSUME Inv, NEW c \in Cmd, Output(c), batch' \subseteq batch,
         draining' \subseteq Cmd
  PROVE  Inv'
<1> USE DEF Inv
<1>1. UNCHANGED <<cmds, tty, slowest, bcstflg, policy>>
  BY DEF Output
<1>2. Fresh'
  <2>1. Ttys' = Ttys
    BY <1>1 DEF Ttys
  <2> QED BY <1>1, <2>1 DEF Fresh, FreshEvents, Events
<1>3. cmdsreadycnt' \in Int /\ halt' \in {halt, "readycnt"}
  BY DEF Output, Rest
<1>4. Procs'
  <2>1. CASE cmd' = cmd
    BY <1>1, <2>1 DEF Procs, OneProcess, Tracked
  <2>2. CASE cmd[c].out # <<>> /\ cmd' = [cmd EXCEPT ![c] = cmdttyProcessOutput(cmd[c])]
    <3> DEFINE r == cmdttyProcessOutput(cmd[c])
    <3>1. cmd[c] \in CmdState /\ Tracked(cmd[c]) /\ (cmd[c].pid => c \in cmds)
      BY ProcsAt, Zenon
    <3>2. /\ r \in CmdState /\ r.pid = cmd[c].pid /\ r.watched = cmd[c].watched
          /\ r.live = cmd[c].live /\ r.zomb = cmd[c].zomb
      BY <2>2, <3>1, OutputLemma
    <3>3. cmd' = [cmd EXCEPT ![c] = r]
      BY <2>2
    <3> HIDE DEF r
    <3>4. Tracked(r) /\ (r.pid => c \in cmds')
      BY <1>1, <3>1, <3>2 DEF Tracked
    <3> QED BY <1>1, <3>2, <3>3, <3>4, ProcsUpdate
  <2> QED BY <2>1, <2>2 DEF Output
<1>5. Rest'
  BY <1>1, <1>3 DEF Rest, policy
<1> QED
  BY <1>2, <1>4, <1>5

\* Removing a command, by monDel or after its last process has been reaped.
LEMMA InvRemove ==
  ASSUME Inv, NEW c \in Cmd, NEW r \in CmdState, Tracked(r), NEW e,
         RemoveCmd(c, r, e), cmdsreadycnt' \in Int
  PROVE  Inv'
<1> USE DEF Inv
<1>1. /\ cmds' = cmds \ {c}
      /\ cmd' = [cmd EXCEPT ![c] = cmdCleanup(r)]
      /\ UNCHANGED <<bcstflg, policy, draining>>
  BY DEF RemoveCmd
<1>2. cmdCleanup(r) \in CmdState /\ Tracked(cmdCleanup(r)) /\ ~cmdCleanup(r).pid
  BY CleanupLemma
<1>3. Procs'
  BY <1>1, <1>2, ProcsUpdate
<1>4. ClosedTty \in TtyState
  BY DEF ClosedTty, TtyState
<1>5. CASE cmds' = {} /\ exitonidle
  <2>1. /\ slowest' = NoCmd /\ tty' = [t \in Tty |-> ClosedTty]
        /\ batch' = {} /\ halt' = "exit"
    BY <1>5 DEF RemoveCmd
  <2>2. Fresh'
    BY <2>1 DEF Fresh, FreshEvents
  <2>3. Rest'
    BY <1>1, <1>4, <2>1 DEF Rest, policy
  <2> QED BY <1>3, <2>2, <2>3
<1>6. CASE ~(cmds' = {} /\ exitonidle)
  <2>1. /\ slowest' = IF slowest = c THEN Dangling ELSE slowest
        /\ tty' = [tty EXCEPT ![c] = ClosedTty]
        /\ batch' = {IF f[2] = c THEN <<"freed", c>> ELSE f : f \in batch \ {e}}
        /\ halt' = halt
    BY <1>6 DEF RemoveCmd
  <2>2. Rest'
    BY <1>1, <1>4, <2>1 DEF Rest, policy
  <2>3. ASSUME NEW f \in batch'
        PROVE  /\ f \in Events
               /\ f[1] \in {"pidfd", "cmdtty"} => f[2] \in cmds'
               /\ f[1] \in {"clttty", "notify"} => f[2] \in Ttys'
               /\ f[1] = "clttty" => tty'[f[2]].pending > 0
               /\ f[1] = "notify" => tty'[f[2]].notify # <<>>
    <3>1. CASE f = <<"freed", c>>
      BY <3>1 DEF Events
    <3>2. CASE f \in batch /\ f[2] # c
      <4>1. /\ f \in Events
            /\ f[1] \in {"pidfd", "cmdtty"} => f[2] \in cmds
            /\ f[1] \in {"clttty", "notify"} => f[2] \in Ttys
            /\ f[1] = "clttty" => tty[f[2]].pending > 0
            /\ f[1] = "notify" => tty[f[2]].notify # <<>>
        BY <3>2 DEF Fresh, FreshEvents
      <4>2. Ttys' = Ttys \ {c}
        BY <1>1, CmdAssumption DEF Ttys
      <4>3. Ttys \subseteq Tty
        BY DEF Ttys, Tty, Rest
      <4> QED BY <1>1, <2>1, <3>2, <4>1, <4>2, <4>3 DEF Rest
    <3> QED BY <2>1, <3>1, <3>2
  <2>4. Fresh'
    <3>1. Events' = Events
      BY DEF Events
    <3> QED BY <2>3, <3>1 DEF Fresh, FreshEvents
  <2> QED BY <1>3, <2>2, <2>4
<1> QED
  BY <1>5, <1>6

\* cmdPidEvent.
LEMMA InvPidEvent ==
  ASSUME Inv, NEW c \in Cmd, PidEvent(c)
  PROVE  Inv'
<1> USE DEF Inv
<1> DEFINE e == <<"pidfd", c>>
<1>1. CASE Abort("waitid", e)
  BY <1>1, InvSkip DEF Abort, Rest
<1>2. CASE cmd[c].pid /\ cmd[c].zomb > 0 /\ cmdsreadycnt' = cmdsreadycnt - ReadyIn({c})
  <2>1. cmd[c] \in CmdState /\ Tracked(cmd[c]) /\ (cmd[c].pid => c \in cmds)
    BY ProcsAt, Zenon
  <2>2. Reap(cmd[c]) \in CmdState /\ Tracked(Reap(cmd[c])) /\ ~Reap(cmd[c]).pid
    BY <1>2, <2>1, ReapLemma
  <2>3. cmdsreadycnt' \in Int
    BY <1>2, ReadyInType DEF Rest
  <2>4. CASE RemoveCmd(c, Reap(cmd[c]), e)
    BY <2>2, <2>3, <2>4, InvRemove
  <2>5. CASE /\ cmd' = [cmd EXCEPT ![c] = IF restart THEN cmdStart(Reap(cmd[c]))
                                                     ELSE Reap(cmd[c])]
             /\ Done(e)
             /\ UNCHANGED <<cmds, tty, slowest, bcstflg, policy, draining, halt>>
    <3> DEFINE r == IF restart THEN cmdStart(Reap(cmd[c])) ELSE Reap(cmd[c])
    <3>1. r \in CmdState /\ Tracked(r)
      BY <2>2, StartLemma
    <3>2. cmd' = [cmd EXCEPT ![c] = r] /\ c \in cmds'
      BY <1>2, <2>1, <2>5
    <3> HIDE DEF r
    <3>3. Procs'
      BY <2>5, <3>1, <3>2, ProcsUpdate
    <3>4. Fresh'
      <4>1. Ttys' = Ttys /\ batch' \subseteq batch
        BY <2>5 DEF Ttys, Done
      <4> QED BY <2>5, <4>1 DEF Fresh, FreshEvents, Events
    <3>5. Rest'
      BY <2>3, <2>5 DEF Rest, policy
    <3> QED BY <3>3, <3>4, <3>5
  <2> QED BY <1>2, <2>4, <2>5 DEF PidEvent
<1> QED
  BY <1>1, <1>2 DEF PidEvent

\* cleanup.
LEMMA InvCleanup ==
  ASSUME Inv, CleanupAll, exitonidle' \in BOOLEAN, cmddelonexit' \in BOOLEAN
  PROVE  Inv'
<1> USE DEF Inv
<1>1. ASSUME NEW d \in Cmd
      PROVE  cmd'[d] \in CmdState /\ Tracked(cmd'[d]) /\ ~cmd'[d].pid
  <2>1. cmd[d] \in CmdState /\ Tracked(cmd[d]) /\ (cmd[d].pid => d \in cmds)
    BY ProcsAt, Zenon
  <2>2. cmd'[d] = IF d \in cmds THEN cmdCleanup(cmd[d]) ELSE cmd[d]
    BY DEF CleanupAll
  <2>3. CASE d \in cmds
    BY <2>1, <2>2, <2>3, CleanupLemma
  <2>4. CASE d \notin cmds
    BY <2>1, <2>2, <2>4
  <2> QED BY <2>3, <2>4
<1>2. cmd' = [d \in Cmd |-> cmd'[d]]
  BY DEF CleanupAll
<1>3. cmd' \in [Cmd -> CmdState]
  BY <1>1, <1>2
<1>4. Procs'
  BY <1>1, <1>3 DEF Procs, OneProcess, Tracked
<1>5. Fresh'
  BY DEF CleanupAll, Fresh, FreshEvents
<1>6. cmdsreadycnt' \in Int
  <2>1. cmds \cap Running \subseteq Cmd
    BY DEF Rest
  <2> QED BY <2>1, ReadyInType DEF CleanupAll, Rest
<1>7. ClosedTty \in TtyState
  BY DEF ClosedTty, TtyState
<1>8. Rest'
  BY <1>6, <1>7 DEF CleanupAll, Rest
<1> QED
  BY <1>4, <1>5, <1>8

\* monAdd.
LEMMA InvMonAdd ==
  ASSUME Inv, NEW c \in Cmd, MonAdd(c)
  PROVE  Inv'
<1> USE DEF Inv
<1> DEFINE e == <<"monitor", NoCmd>>
           r == cmdInit(cmd[c], cmddelonexit)
<1>1. /\ Done(e) /\ c \notin cmds /\ cmds' = cmds \cup {c}
      /\ UNCHANGED <<tty, cmdsreadycnt, policy, draining, halt>>
  BY DEF MonAdd, MonDone
<1>2. bcstflg' \in BOOLEAN /\ (bcstflg => bcstflg')
  BY Zenon DEF MonAdd, Rest
<1>3. slowest' \in Cmd \cup {NoCmd, Dangling}
  BY DEF MonAdd, SlowestOf, Rest
<1>4. cmd[c] \in CmdState /\ Tracked(cmd[c]) /\ ~cmd[c].pid
  BY <1>1, ProcsAt, Zenon
<1>5. r \in CmdState /\ Tracked(r)
  BY <1>4, InitLemma DEF Rest
<1>6. cmdStart(r) \in CmdState /\ Tracked(cmdStart(r))
  BY <1>5, StartLemma
<1>7. \/ cmd' = [cmd EXCEPT ![c] = r]
      \/ cmd' = [cmd EXCEPT ![c] = cmdStart(r)]
  BY DEF MonAdd
<1> HIDE DEF r
<1>8. Procs'
  BY <1>1, <1>5, <1>6, <1>7, ProcsUpdate
<1>9. Fresh'
  <2>1. Ttys \subseteq Ttys'
    BY <1>1, <1>2 DEF Ttys
  <2>2. batch' = batch \ {e}
    BY <1>1 DEF Done
  <2>3. \A f \in batch' : /\ f[1] = "clttty" => tty'[f[2]].pending > 0
                          /\ f[1] = "notify" => tty'[f[2]].notify # <<>>
    BY <1>1, <2>2 DEF Fresh, FreshEvents
  <2> QED BY <1>1, <2>1, <2>2, <2>3, FreshDone
<1>10. Rest'
  BY <1>1, <1>2, <1>3 DEF Rest, policy
<1> QED
  BY <1>8, <1>9, <1>10

\* monDel.
LEMMA InvMonDel ==
  ASSUME Inv, NEW c \in Cmd, MonDel(c)
  PROVE  Inv'
<1> USE DEF Inv
<1>1. cmdsreadycnt' \in Int
  <2>1. {c} \cap Running \subseteq Cmd
    OBVIOUS
  <2> QED BY <2>1, ReadyInType DEF MonDel, Rest
<1>2. cmd[c] \in CmdState /\ Tracked(cmd[c])
  BY ProcsAt, Zenon
<1> QED
  BY <1>1, <1>2, InvRemove DEF MonDel

\* monIdleExit.
LEMMA InvMonIdleExit ==
  ASSUME Inv, MonIdleExit
  PROVE  Inv'
<1> USE DEF Inv
<1>1. exitonidle' \in BOOLEAN /\ cmddelonexit' \in BOOLEAN
  BY Zenon DEF MonIdleExit
<1>2. CASE CleanupAll
  BY <1>1, <1>2, InvCleanup
<1>3. CASE /\ cmd' = [c \in Cmd |-> IF c \in cmds
                                    THEN [cmd[c] EXCEPT !.deleteonexit = TRUE]
                                    ELSE cmd[c]]
           /\ MonDone
           /\ UNCHANGED <<cmds, tty, cmdsreadycnt, slowest, bcstflg, restart,
                          draining, halt>>
  <2>1. ASSUME NEW d \in Cmd
        PROVE  cmd'[d] \in CmdState /\ Tracked(cmd'[d]) /\ cmd'[d].pid = cmd[d].pid
    <3>1. cmd[d] \in CmdState /\ Tracked(cmd[d])
      BY ProcsAt, Zenon
    <3>2. CASE d \in cmds
      <4> DEFINE r == [cmd[d] EXCEPT !.deleteonexit = TRUE]
      <4>1. cmd'[d] = r
        BY <1>3, <3>2
      <4>2. r \in CmdState
        BY <3>1, FieldLemma
      <4>3. /\ r.pid = cmd[d].pid /\ r.watched = cmd[d].watched
            /\ r.live = cmd[d].live /\ r.zomb = cmd[d].zomb
        BY <3>1 DEF CmdState
      <4> HIDE DEF r
      <4> QED BY <3>1, <4>1, <4>2, <4>3 DEF Tracked
    <3>3. CASE d \notin cmds
      BY <1>3, <3>1, <3>3
    <3> QED BY <3>2, <3>3
  <2>2. cmd' = [d \in Cmd |-> cmd'[d]]
    BY <1>3
  <2>3. cmd' \in [Cmd -> CmdState]
    BY <2>1, <2>2
  <2>4. OneProcess'
    <3>1. ASSUME NEW d \in Cmd
          PROVE  Tracked(cmd'[d]) /\ (cmd'[d].pid => d \in cmds')
      <4>1. cmd[d].pid => d \in cmds
        BY ProcsAt, Zenon
      <4> QED BY <1>3, <2>1, <4>1
    <3> QED BY <3>1 DEF OneProcess, Tracked
  <2>5. Fresh'
    <3>1. Ttys' = Ttys /\ batch' \subseteq batch
      BY <1>3 DEF Ttys, MonDone, Done
    <3> QED BY <1>3, <3>1 DEF Fresh, FreshEvents, Events
  <2>6. Rest'
    BY <1>1, <1>3 DEF Rest
  <2> QED BY <2>3, <2>4, <2>5, <2>6 DEF Procs
<1> QED
  BY <1>2, <1>3 DEF MonIdleExit

\* The monitor commands that change no command.
LEMMA InvMonOther ==
  ASSUME Inv, \/ MonToggleRestart \/ MonDrain
              \/ \E c \in Cmd : MonRefused(c)
  PROVE  Inv'
<1> USE DEF Inv
<1>1. CASE MonDrain
  BY <1>1, InvSkip DEF MonDrain, MonDone, Rest
<1>2. CASE \E c \in Cmd : MonRefused(c)
  BY <1>2, InvSkip DEF MonRefused, MonDone, Rest
<1>3. CASE MonToggleRestart
  <2>1. /\ UNCHANGED <<cmds, cmd, tty, cmdsreadycnt, slowest, bcstflg,
                       exitonidle, cmddelonexit, draining, halt>>
        /\ restart' \in BOOLEAN /\ batch' \subseteq batch
    BY <1>3 DEF MonToggleRestart, MonDone, Done, Rest
  <2>2. Ttys' = Ttys
    BY <2>1 DEF Ttys
  <2>3. Fresh'
    BY <2>1, <2>2 DEF Fresh, FreshEvents, Events
  <2>4. Procs' /\ Rest'
    BY <2>1 DEF Procs, OneProcess, Tracked, Rest
  <2> QED BY <2>3, <2>4
<1> QED
  BY <1>1, <1>2, <1>3

\* Every handler preserves the invariant.
LEMMA InvHandler ==
  ASSUME Inv, Handler
  PROVE  Inv'
<1>1. CASE \E c \in Cmd : PidEvent(c)
  BY <1>1, InvPidEvent
<1>2. CASE \E c \in Cmd : CmdttyEvent(c) \/ DrainStep(c)
  <2>1. PICK c \in Cmd : CmdttyEvent(c) \/ DrainStep(c)
    BY <1>2
  <2>2. /\ Output(c) /\ batch' \subseteq batch
        /\ draining' \subseteq draining
    BY <2>1 DEF CmdttyEvent, DrainStep, Done
  <2> QED BY <2>2, InvOutput DEF Inv, Rest
<1>3. CASE \E c \in Cmd : CltttyEvent(c)
  BY <1>3, InvCltttyEvent
<1>4. CASE \E c \in Cmd : CltttyNotify(c)
  <2>1. PICK c \in Cmd : CltttyNotify(c)
    BY <1>4
  <2>2. c \in Ttys /\ c \in Tty
    BY <2>1 DEF CltttyNotify, Notified, Dispatch, Inv, Fresh, FreshEvents, Tty
  <2>3. {c} \subseteq cmds
    BY <2>2, CmdAssumption DEF Ttys
  <2> QED BY <2>1, <2>2, <2>3, InvNotified DEF CltttyNotify
<1>5. CASE \E c \in Cmd : FreedEvent(c)
  BY <1>5, InvSkip DEF FreedEvent, Abort, Inv, Rest
<1>6. CASE \E c \in Cmd : MonAdd(c)
  BY <1>6, InvMonAdd
<1>7. CASE \E c \in Cmd : MonDel(c)
  BY <1>7, InvMonDel
<1>8. CASE MonToggleRestart \/ MonDrain \/ \E c \in Cmd : MonRefused(c)
  BY <1>8, InvMonOther
<1>9. CASE BcstttyEvent
  BY <1>9, InvBcstttyEvent
<1>10. CASE BcstttyNotify
  <2>1. Bcst \in Tty
    BY DEF Tty
  <2> QED BY <1>10, <2>1, InvNotified DEF BcstttyNotify
<1>11. CASE MonIdleExit
  BY <1>11, InvMonIdleExit
<1>12. CASE MonExit
  BY <1>12, InvCleanup DEF MonExit, Inv, Rest
<1>13. CASE SigEvent
  BY <1>13, InvCleanup DEF SigEvent, Inv, Rest
<1> QED
  BY <1>1, <1>2, <1>3, <1>4, <1>5, <1>6, <1>7, <1>8, <1>9, <1>10, <1>11,
     <1>12, <1>13 DEF Handler

\* Inv is inductive.
LEMMA InvNext == Inv /\ [Next]_vars => Inv'
<1> SUFFICES ASSUME Inv, [Next]_vars PROVE Inv'
  OBVIOUS
<1>1. CASE Env
  BY <1>1, InvClient, InvProcess DEF Env
<1>2. CASE EpollWait
  BY <1>2, InvEpollWait
<1>3. CASE Handler
  BY <1>3, InvHandler
<1>4. CASE UNCHANGED vars
  BY <1>4 DEF vars, policy, Inv, Procs, OneProcess, Tracked, Fresh, FreshEvents,
              Events, Ttys, Rest
<1> QED
  BY <1>1, <1>2, <1>3, <1>4 DEF Next, Loop, Halted

-----------------------------------------------------------------------------
\* Inv holds in every reachable state.
THEOREM InvHolds == Spec => []Inv
BY InvInit, InvNext, PTL DEF Spec

\* Every variable of the loop keeps its type; that the kernel's counts stay
\* natural numbers is the part that rests on OneProcess and FreshEvents.
THEOREM TypeCorrect == Spec => []TypeOK
<1>1. Inv => TypeOK
  BY InvMeaning
<1> QED
  BY <1>1, InvHolds, PTL

\* yar never has two processes of one command, nor a child it does not track
\* and watch, whatever the order in which events are dispatched.
THEOREM SingleInstance == Spec => []OneProcess
<1>1. Inv => OneProcess
  BY InvMeaning
<1> QED
  BY <1>1, InvHolds, PTL

\* The handlers of a tty that is there find the byte or the notification they
\* were called for, whatever the handlers before them in the batch have done.
\* Nothing is said of events that point into a freed command.
THEOREM HandlersFindData == Spec => []EventsFresh
<1>1. Inv => EventsFresh
  BY InvMeaning
<1> QED
  BY <1>1, InvHolds, PTL

-----------------------------------------------------------------------------
(* What the steps of Lifecycle may never do: stop a command somebody uses,  *)
(* lose the slowest command, end without reaping, or keep running after     *)
(* the last command of a yar that was told to wind down.                    *)

\* The steps that leave the hash table and the policies alone.
LEMMA QuietSteps ==
  ASSUME \/ Env \/ EpollWait
         \/ \E c \in Cmd : \/ CmdttyEvent(c) \/ CltttyEvent(c)
                           \/ CltttyNotify(c) \/ FreedEvent(c)
                           \/ MonRefused(c) \/ DrainStep(c)
         \/ BcstttyEvent \/ BcstttyNotify \/ MonDrain
         \/ UNCHANGED vars
  PROVE  UNCHANGED <<cmds, slowest, restart, exitonidle, cmddelonexit>>
<1>1. CASE Env
  <2>1. CASE \E t \in Tty : ClientOpen(t) \/ ClientClose(t) \/ ClientWrite(t)
    BY <2>1 DEF ClientOpen, ClientClose, ClientWrite, EnvTty, policy
  <2>2. CASE \E c \in Cmd : ProcExit(c) \/ \E ch \in Char : ProcOutput(c, ch)
    BY <2>2 DEF ProcExit, ProcOutput, EnvCmd, policy
  <2> QED BY <1>1, <2>1, <2>2 DEF Env
<1>2. CASE EpollWait
  BY <1>2 DEF EpollWait, policy
<1>3. CASE \E c \in Cmd : CmdttyEvent(c) \/ DrainStep(c)
  BY <1>3 DEF CmdttyEvent, DrainStep, Output, policy
<1>4. CASE \E c \in Cmd : CltttyEvent(c)
  BY <1>4 DEF CltttyEvent, policy
<1>5. CASE \E c \in Cmd : CltttyNotify(c)
  BY <1>5 DEF CltttyNotify, Notified, policy
<1>6. CASE \E c \in Cmd : FreedEvent(c)
  BY <1>6 DEF FreedEvent, Abort, policy
<1>7. CASE \E c \in Cmd : MonRefused(c)
  BY <1>7 DEF MonRefused, policy
<1>8. CASE BcstttyEvent
  BY <1>8 DEF BcstttyEvent, Abort, policy
<1>9. CASE BcstttyNotify
  BY <1>9 DEF BcstttyNotify, Notified, policy
<1>10. CASE MonDrain
  BY <1>10 DEF MonDrain, policy
<1>11. CASE UNCHANGED vars
  BY <1>11 DEF vars, policy
<1> QED
  BY <1>1, <1>2, <1>3, <1>4, <1>5, <1>6, <1>7, <1>8, <1>9, <1>10, <1>11

\* A step is quiet, or changes the hash table or the policies in one of six
\* ways.
LEMMA StepKinds ==
  ASSUME [Next]_vars
  PROVE  \/ UNCHANGED <<cmds, slowest, restart, exitonidle, cmddelonexit>>
         \/ \E c \in Cmd : PidEvent(c) \/ MonAdd(c) \/ MonDel(c)
         \/ MonToggleRestart \/ MonIdleExit \/ MonExit \/ SigEvent
<1> USE QuietSteps
<1>1. CASE Env \/ EpollWait \/ UNCHANGED vars
  BY <1>1
<1>2. CASE Handler
  BY <1>2 DEF Handler
<1> QED
  BY <1>1, <1>2 DEF Next, Loop, Halted

-----------------------------------------------------------------------------
(* The slowest command *)

\* No step loses the slowest command but the one that deletes it.
LEMMA PacedStep ==
  ASSUME Inv, [Next]_vars, Paced
  PROVE  Paced' \/ slowest \in cmds \ cmds'
<1>1. /\ cmds \subseteq Cmd /\ NoCmd \notin Cmd /\ Dangling \notin Cmd
      /\ \A c \in Cmd : Delay[c] \in Nat
  BY CmdAssumption DEF Inv, Rest
<1>2. CASE UNCHANGED <<cmds, slowest>>
  BY <1>2 DEF Paced
<1>3. CASE CleanupAll
  BY <1>3 DEF CleanupAll, Paced
<1>4. ASSUME NEW c \in Cmd, NEW r, NEW e, RemoveCmd(c, r, e)
      PROVE  Paced' \/ slowest \in cmds \ cmds'
  <2>1. cmds' = cmds \ {c}
    BY <1>4 DEF RemoveCmd
  <2>2. CASE cmds' = {} /\ slowest' = NoCmd
    BY <2>2 DEF Paced
  <2>3. CASE slowest' = IF slowest = c THEN Dangling ELSE slowest
    <3>1. CASE cmds = {}
      BY <1>1, <2>1, <2>3, <3>1 DEF Paced
    <3>2. CASE slowest \in cmds /\ \A d \in cmds : Delay[d] <= Delay[slowest]
      <4>1. CASE slowest = c
        BY <2>1, <3>2, <4>1
      <4>2. CASE slowest # c
        <5>1. slowest' = slowest /\ slowest' \in cmds'
          BY <2>1, <2>3, <3>2, <4>2
        <5> QED BY <2>1, <3>2, <5>1 DEF Paced
      <4> QED BY <4>1, <4>2
    <3> QED BY <3>1, <3>2 DEF Paced
  <2> QED BY <1>4, <2>2, <2>3 DEF RemoveCmd
<1>5. ASSUME NEW c \in Cmd, MonAdd(c) PROVE Paced'
  <2>1. /\ cmds' = cmds \cup {c} /\ slowest' \in SlowestOf(c)
    BY <1>5 DEF MonAdd
  <2>2. CASE cmds = {}
    <3>1. cmds' = {c} /\ slowest' = c
      BY <2>1, <2>2 DEF Paced, SlowestOf
    <3>2. Delay[c] <= Delay[c]
      BY <1>1
    <3> QED BY <3>1, <3>2 DEF Paced
  <2>3. CASE slowest \in cmds /\ \A d \in cmds : Delay[d] <= Delay[slowest]
    <3>1. slowest' = IF Delay[c] > Delay[slowest] THEN c ELSE slowest
      BY <1>1, <2>1, <2>3 DEF SlowestOf
    <3>2. slowest' \in cmds' /\ \A d \in cmds' : Delay[d] <= Delay[slowest']
      BY <1>1, <2>1, <2>3, <3>1
    <3> QED BY <3>2 DEF Paced
  <2> QED BY <2>2, <2>3 DEF Paced
<1>6. CASE \E c \in Cmd : PidEvent(c)
  BY <1>2, <1>4, <1>6 DEF PidEvent, Abort
<1>7. CASE \E c \in Cmd : MonDel(c)
  BY <1>4, <1>7 DEF MonDel
<1>8. CASE MonToggleRestart \/ MonIdleExit \/ MonExit \/ SigEvent
  BY <1>2, <1>3, <1>8 DEF MonToggleRestart, MonIdleExit, MonExit, SigEvent
<1> QED
  BY <1>2, <1>5, <1>6, <1>7, <1>8, StepKinds

\* GBLSAddCmd and the two ways of deleting keep slowestcmd at the slowest of
\* the current commands until that very command is deleted.
THEOREM SlowestKept == Spec => PacedUntilDeleted
<1>1. Inv /\ [Next]_vars
        => [Paced => Paced' \/ slowest \in cmds \ cmds']_vars
  BY PacedStep
<1> QED
  BY <1>1, InvHolds, PTL DEF Spec, PacedUntilDeleted

-----------------------------------------------------------------------------
(* Stopping *)

\* ClearReady leaves deleteonexit alone too.
LEMMA ClearReadyDel ==
  ASSUME NEW r \in CmdState
  PROVE  ClearReady(r).deleteonexit = r.deleteonexit
BY DEF ClearReady, CmdState

\* The operations on the process leave deleteonexit alone.
LEMMA DelKept ==
  ASSUME NEW r \in CmdState
  PROVE  /\ cmdStart(r).deleteonexit = r.deleteonexit
         /\ cmdStop(r).deleteonexit = r.deleteonexit
         /\ Reap(r).deleteonexit = r.deleteonexit
         /\ Exited(r).deleteonexit = r.deleteonexit
         /\ cmdttyProcessOutput(r).deleteonexit = r.deleteonexit
         /\ \A ch \in Char : Printed(r, ch).deleteonexit = r.deleteonexit
<1>1. cmdStart(r).deleteonexit = r.deleteonexit
  BY DEF cmdStart, CmdState
<1> DEFINE s == ClearReady(r)
<1>2. s \in CmdState /\ s.deleteonexit = r.deleteonexit
  BY ClearReadyLemma, ClearReadyDel
<1>3. cmdStop(r) = r
      \/ cmdStop(r) = [s EXCEPT !.pid = FALSE, !.watched = FALSE,
                                !.live = IF r.zomb > 0 THEN @ ELSE @ - 1,
                                !.zomb = IF r.zomb > 0 THEN @ - 1 ELSE @]
  BY DEF cmdStop
<1>4. Reap(r) = [s EXCEPT !.pid = FALSE, !.watched = FALSE, !.zomb = @ - 1]
  BY DEF Reap
<1> HIDE DEF s
<1>5. cmdStop(r).deleteonexit = r.deleteonexit
  BY <1>2, <1>3 DEF CmdState
<1>6. Reap(r).deleteonexit = r.deleteonexit
  BY <1>2, <1>4 DEF CmdState
<1>7. Exited(r).deleteonexit = r.deleteonexit
  BY DEF Exited, CmdState
<1>8. cmdttyProcessOutput(r).deleteonexit = r.deleteonexit
  BY DEF cmdttyProcessOutput, CmdState
<1>9. \A ch \in Char : Printed(r, ch).deleteonexit = r.deleteonexit
  BY DEF Printed, CmdState
<1> QED
  BY <1>1, <1>5, <1>6, <1>7, <1>8, <1>9

\* cmdInit sets it.
LEMMA DelInit ==
  ASSUME NEW r \in CmdState, NEW d \in BOOLEAN
  PROVE  cmdInit(r, d).deleteonexit = d
BY DEF cmdInit, CmdState

\* What the processes, the loop's reads and StartCmds leave of a command: the
\* process it had, and deleteonexit.
LEMMA CmdKept ==
  ASSUME Inv, NEW d \in Cmd,
         \/ Env \/ EpollWait \/ BcstttyEvent \/ MonDrain
         \/ MonToggleRestart \/ UNCHANGED vars
         \/ \E c \in Cmd : \/ CmdttyEvent(c) \/ DrainStep(c)
                           \/ FreedEvent(c) \/ MonRefused(c)
  PROVE  cmd'[d].pid = cmd[d].pid /\ cmd'[d].deleteonexit = cmd[d].deleteonexit
<1>1. cmd[d] \in CmdState /\ Tracked(cmd[d]) /\ cmd \in [Cmd -> CmdState]
  BY ProcsAt, Zenon DEF Inv, Procs
<1>2. CASE cmd' = cmd
  BY <1>2
<1>3. CASE \E c \in Cmd : ProcExit(c)
  <2>1. PICK c \in Cmd : ProcExit(c)
    BY <1>3
  <2>2. cmd'[d] = IF d = c THEN Exited(cmd[d]) ELSE cmd[d]
    BY <1>1, <2>1 DEF ProcExit
  <2>3. d = c => Exited(cmd[d]).pid = cmd[d].pid
    BY <1>1, <2>1, ExitedLemma DEF ProcExit
  <2>4. Exited(cmd[d]).deleteonexit = cmd[d].deleteonexit
    BY <1>1, DelKept
  <2> QED BY <2>2, <2>3, <2>4
<1>4. CASE \E c \in Cmd, ch \in Char : ProcOutput(c, ch)
  <2>1. PICK c \in Cmd, ch \in Char : ProcOutput(c, ch)
    BY <1>4
  <2>2. cmd'[d] = IF d = c THEN Printed(cmd[d], ch) ELSE cmd[d]
    BY <1>1, <2>1 DEF ProcOutput
  <2>3. Printed(cmd[d], ch).pid = cmd[d].pid
    BY <1>1 DEF Printed, CmdState
  <2>4. Printed(cmd[d], ch).deleteonexit = cmd[d].deleteonexit
    BY <1>1, DelKept
  <2> QED BY <2>2, <2>3, <2>4
<1>5. CASE \E c \in Cmd : Output(c)
  <2>1. PICK c \in Cmd : Output(c)
    BY <1>5
  <2>2. \/ cmd' = cmd
        \/ cmd[c].out # <<>> /\ cmd' = [cmd EXCEPT ![c] = cmdttyProcessOutput(cmd[c])]
    BY <2>1 DEF Output
  <2>3. CASE cmd[c].out # <<>> /\ cmd' = [cmd EXCEPT ![c] = cmdttyProcessOutput(cmd[c])]
    <3>1. cmd'[d] = IF d = c THEN cmdttyProcessOutput(cmd[d]) ELSE cmd[d]
      BY <1>1, <2>3
    <3>2. d = c => cmdttyProcessOutput(cmd[d]).pid = cmd[d].pid
      BY <1>1, <2>3, OutputLemma
    <3>3. cmdttyProcessOutput(cmd[d]).deleteonexit = cmd[d].deleteonexit
      BY <1>1, DelKept
    <3> QED BY <3>1, <3>2, <3>3
  <2> QED BY <1>2, <2>2, <2>3
<1>6. CASE Env
  <2>1. CASE \E t \in Tty : ClientOpen(t) \/ ClientClose(t) \/ ClientWrite(t)
    BY <1>2, <2>1 DEF ClientOpen, ClientClose, ClientWrite, EnvTty
  <2> QED BY <1>3, <1>4, <1>6, <2>1 DEF Env
<1>7. CASE EpollWait \/ BcstttyEvent \/ MonDrain \/ MonToggleRestart \/ UNCHANGED vars
  BY <1>2, <1>7 DEF EpollWait, BcstttyEvent, Abort, MonDrain, MonToggleRestart, vars
<1>8. CASE \E c \in Cmd : FreedEvent(c) \/ MonRefused(c)
  BY <1>2, <1>8 DEF FreedEvent, Abort, MonRefused
<1>9. CASE \E c \in Cmd : CmdttyEvent(c) \/ DrainStep(c)
  BY <1>5, <1>9 DEF CmdttyEvent, DrainStep
<1> QED
  BY <1>6, <1>7, <1>8, <1>9

\* Whom the open and close notifications and a client's last byte stop: only
\* a command whose two ttys are idle.
LEMMA StopSteps ==
  ASSUME Inv, NEW d \in Cmd,
         BcstttyNotify \/ \E c \in Cmd : CltttyEvent(c) \/ CltttyNotify(c)
  PROVE  /\ cmd'[d].deleteonexit = cmd[d].deleteonexit
         /\ cmd[d].pid /\ ~cmd'[d].pid
              => ttyIdle(tty'[d]) /\ ttyIdle(tty'[Bcst])
<1>1. cmd[d] \in CmdState /\ Tracked(cmd[d])
  BY ProcsAt, Zenon DEF Inv
<1>2. CASE cmd' = cmd
  BY <1>2
<1>3. ASSUME NEW S, StartCmds(S)
      PROVE  cmd'[d].deleteonexit = cmd[d].deleteonexit /\ (cmd[d].pid => cmd'[d].pid)
  <2>1. cmd'[d] = IF d \in S THEN cmdStart(cmd[d]) ELSE cmd[d]
    BY <1>3 DEF StartCmds
  <2>2. cmdStart(cmd[d]).pid /\ cmdStart(cmd[d]).deleteonexit = cmd[d].deleteonexit
    BY <1>1, StartLemma, DelKept
  <2> QED BY <2>1, <2>2
<1>4. ASSUME NEW S, StopCmds(S)
      PROVE  /\ cmd'[d].deleteonexit = cmd[d].deleteonexit
             /\ cmd[d].pid /\ ~cmd'[d].pid
                  => ttyIdle(tty'[d]) /\ ttyIdle(tty'[Bcst])
  <2> DEFINE stopped == {c \in S : /\ cmd[c].pid
                                   /\ ttyIdle(tty'[c]) /\ ttyIdle(tty'[Bcst])}
  <2>1. cmd'[d] = IF d \in stopped THEN cmdStop(cmd[d]) ELSE cmd[d]
    BY <1>4 DEF StopCmds
  <2>2. cmdStop(cmd[d]).deleteonexit = cmd[d].deleteonexit
    BY <1>1, DelKept
  <2>3. d \in stopped => ttyIdle(tty'[d]) /\ ttyIdle(tty'[Bcst])
    OBVIOUS
  <2> HIDE DEF stopped
  <2> QED BY <2>1, <2>2, <2>3
<1>5. ASSUME NEW t, NEW S, Notified(t, S)
      PROVE  StartCmds(S) \/ StopCmds(S)
  BY <1>5 DEF Notified
<1>6. CASE \E c \in Cmd : CltttyEvent(c)
  BY <1>2, <1>4, <1>6 DEF CltttyEvent
<1>7. CASE BcstttyNotify \/ \E c \in Cmd : CltttyNotify(c)
  BY <1>3, <1>4, <1>5, <1>7 DEF BcstttyNotify, CltttyNotify
<1> QED
  BY <1>6, <1>7

\* Every step is of one of these kinds, as far as one command is concerned.
LEMMA StepCases ==
  ASSUME [Next]_vars
  PROVE  \/ \/ Env \/ EpollWait \/ BcstttyEvent \/ MonDrain
            \/ MonToggleRestart \/ UNCHANGED vars
            \/ \E c \in Cmd : \/ CmdttyEvent(c) \/ DrainStep(c)
                              \/ FreedEvent(c) \/ MonRefused(c)
         \/ BcstttyNotify \/ \E c \in Cmd : CltttyEvent(c) \/ CltttyNotify(c)
         \/ \E c \in Cmd : PidEvent(c) \/ MonAdd(c) \/ MonDel(c)
         \/ MonIdleExit \/ MonExit \/ SigEvent
<1>1. CASE Handler
  BY <1>1 DEF Handler
<1> QED
  BY <1>1 DEF Next, Loop, Halted

\* No step takes a command's process away from somebody who uses it.
LEMMA StopStep ==
  ASSUME Inv, [Next]_vars, NEW d \in Cmd, cmd[d].pid, ~cmd'[d].pid
  PROVE  \/ ttyIdle(tty'[d]) /\ ttyIdle(tty'[Bcst])
         \/ d \notin cmds'
         \/ cmd[d].zomb > 0 /\ ~restart
<1>1. /\ cmd[d] \in CmdState /\ Tracked(cmd[d]) /\ d \in cmds
      /\ cmd \in [Cmd -> CmdState]
  BY ProcsAt, Zenon DEF Inv, Procs
<1>2. CASE CleanupAll
  BY <1>2 DEF CleanupAll
<1>3. ASSUME NEW c \in Cmd, NEW r, NEW e, RemoveCmd(c, r, e)
      PROVE  d \notin cmds'
  <2>1. cmds' = cmds \ {c} /\ cmd' = [cmd EXCEPT ![c] = cmdCleanup(r)]
    BY <1>3 DEF RemoveCmd
  <2>2. d # c => cmd'[d] = cmd[d]
    BY <1>1, <2>1
  <2> QED BY <2>1, <2>2
<1>4. CASE \E c \in Cmd : PidEvent(c)
  <2>1. PICK c \in Cmd : PidEvent(c)
    BY <1>4
  <2>2. CASE Abort("waitid", <<"pidfd", c>>)
    BY <2>2 DEF Abort
  <2>3. CASE RemoveCmd(c, Reap(cmd[c]), <<"pidfd", c>>)
    BY <1>3, <2>3
  <2>4. CASE /\ cmd[c].pid /\ cmd[c].zomb > 0
             /\ cmd' = [cmd EXCEPT ![c] = IF restart THEN cmdStart(Reap(cmd[c]))
                                                     ELSE Reap(cmd[c])]
    <3>1. c = d
      BY <1>1, <2>4
    <3>2. Reap(cmd[c]) \in CmdState /\ Tracked(Reap(cmd[c]))
      BY <1>1, <2>4, <3>1, ReapLemma
    <3>3. cmdStart(Reap(cmd[c])).pid
      BY <3>2, StartLemma
    <3>4. cmd'[d] = IF restart THEN cmdStart(Reap(cmd[c])) ELSE Reap(cmd[c])
      BY <1>1, <2>4, <3>1
    <3> QED BY <2>4, <3>1, <3>3, <3>4
  <2> QED BY <2>1, <2>2, <2>3, <2>4 DEF PidEvent
<1>5. CASE \E c \in Cmd : MonDel(c)
  BY <1>3, <1>5 DEF MonDel
<1>6. CASE \E c \in Cmd : MonAdd(c)
  <2>1. PICK c \in Cmd : MonAdd(c)
    BY <1>6
  <2>2. c # d
    BY <1>1, <2>1 DEF MonAdd
  <2>3. \E r : cmd' = [cmd EXCEPT ![c] = r]
    BY <2>1 DEF MonAdd
  <2> QED BY <1>1, <2>2, <2>3
<1>7. CASE MonIdleExit
  <2>1. CASE cmd' = [c \in Cmd |-> IF c \in cmds
                                   THEN [cmd[c] EXCEPT !.deleteonexit = TRUE]
                                   ELSE cmd[c]]
    <3>1. cmd'[d] = [cmd[d] EXCEPT !.deleteonexit = TRUE]
      BY <1>1, <2>1
    <3> QED BY <1>1, <3>1 DEF CmdState
  <2> QED BY <1>2, <1>7, <2>1 DEF MonIdleExit
<1>8. CASE MonExit \/ SigEvent
  BY <1>2, <1>8 DEF MonExit, SigEvent
<1> QED
  BY <1>4, <1>5, <1>6, <1>7, <1>8, StepCases, CmdKept, StopSteps

\* A command loses its process only when yar knows both its tty and the
\* broadcast tty to be idle, when it is deleted, or when it died and restart is
\* off: whatever event is dispatched, in whatever order.
THEOREM StopsJustified == Spec => StopsOnlyWhenIdle
<1>1. Inv /\ [Next]_vars
        => [\A c \in Cmd : cmd[c].pid /\ ~cmd'[c].pid =>
              \/ ttyIdle(tty'[c]) /\ ttyIdle(tty'[Bcst])
              \/ c \notin cmds'
              \/ cmd[c].zomb > 0 /\ ~restart]_vars
  BY StopStep
<1> QED
  BY <1>1, InvHolds, PTL DEF Spec, StopsOnlyWhenIdle

-----------------------------------------------------------------------------
(* Winding down *)

\* Who leaves by exit has deleted every command; once idleexit has been given,
\* every command, those added later too, is to be deleted when it exits.
EndInv ==
  /\ halt = "exit" => cmds = {}
  /\ cmddelonexit => exitonidle /\ \A c \in cmds : cmd[c].deleteonexit

\* A command that is removed leaves the others to wind down; removing the
\* last one ends yar.
LEMMA EndRemove ==
  ASSUME Inv, EndInv, halt = "no", NEW c \in Cmd, NEW r, NEW e,
         RemoveCmd(c, r, e)
  PROVE  /\ EndInv' /\ exitonidle' = exitonidle
         /\ cmds' = {} /\ exitonidle => halt' = "exit"
<1>1. /\ cmds' = cmds \ {c} /\ cmd' = [cmd EXCEPT ![c] = cmdCleanup(r)]
      /\ exitonidle' = exitonidle /\ cmddelonexit' = cmddelonexit
      /\ cmds' = {} /\ exitonidle => halt' = "exit"
      /\ halt' = "exit" => cmds' = {}
  BY DEF RemoveCmd, policy
<1>2. cmds \subseteq Cmd /\ cmd \in [Cmd -> CmdState]
  BY DEF Inv, Rest, Procs
<1>3. \A d \in cmds' : cmd'[d] = cmd[d]
  BY <1>1, <1>2
<1> QED
  BY <1>1, <1>3 DEF EndInv

\* EndInv is inductive.
LEMMA EndNext ==
  ASSUME Inv, [Next]_vars, EndInv
  PROVE  EndInv'
<1>1. cmds \subseteq Cmd /\ cmd \in [Cmd -> CmdState]
  BY DEF Inv, Rest, Procs
<1>2. CASE UNCHANGED vars
  BY <1>2 DEF vars, policy, EndInv
<1>3. CASE \/ \/ Env \/ EpollWait \/ BcstttyEvent \/ MonDrain
              \/ MonToggleRestart
              \/ \E c \in Cmd : \/ CmdttyEvent(c) \/ DrainStep(c)
                                \/ FreedEvent(c) \/ MonRefused(c)
           \/ BcstttyNotify \/ \E c \in Cmd : CltttyEvent(c) \/ CltttyNotify(c)
  <2>1. \A d \in Cmd : cmd'[d].deleteonexit = cmd[d].deleteonexit
    BY <1>3, CmdKept, StopSteps
  <2>2. UNCHANGED <<cmds, exitonidle, cmddelonexit>>
    <3>1. CASE MonToggleRestart
      BY <3>1 DEF MonToggleRestart
    <3> QED BY <1>3, <3>1, QuietSteps
  <2>3. halt' # "exit"
    <3>1. CASE Env
      <4>1. CASE \E t \in Tty : ClientOpen(t) \/ ClientClose(t) \/ ClientWrite(t)
        BY <4>1 DEF ClientOpen, ClientClose, ClientWrite, EnvTty
      <4>2. CASE \E c \in Cmd : ProcExit(c) \/ \E ch \in Char : ProcOutput(c, ch)
        BY <4>2 DEF ProcExit, ProcOutput, EnvCmd
      <4> QED BY <3>1, <4>1, <4>2 DEF Env
    <3>2. CASE EpollWait \/ BcstttyEvent \/ MonDrain \/ MonToggleRestart
      BY <3>2 DEF EpollWait, BcstttyEvent, Abort, Dispatch, MonDrain, Mon,
                  MonToggleRestart
    <3>3. CASE \E c \in Cmd : CmdttyEvent(c) \/ DrainStep(c)
      BY <3>3 DEF CmdttyEvent, DrainStep, Output, Dispatch
    <3>4. CASE \E c \in Cmd : FreedEvent(c) \/ MonRefused(c)
      BY <3>4 DEF FreedEvent, Abort, Dispatch, MonRefused, Mon
    <3>5. CASE BcstttyNotify \/ \E c \in Cmd : CltttyEvent(c) \/ CltttyNotify(c)
      BY <3>5 DEF BcstttyNotify, CltttyEvent, CltttyNotify, Notified, Dispatch
    <3> QED BY <1>3, <3>1, <3>2, <3>3, <3>4, <3>5
  <2> QED BY <1>1, <2>1, <2>2, <2>3 DEF EndInv
<1>4. CASE \E c \in Cmd : PidEvent(c)
  <2>1. PICK c \in Cmd : PidEvent(c)
    BY <1>4
  <2>2. halt = "no"
    BY <2>1 DEF PidEvent, Dispatch
  <2>3. CASE Abort("waitid", <<"pidfd", c>>)
    BY <2>3 DEF Abort, policy, EndInv
  <2>4. CASE RemoveCmd(c, Reap(cmd[c]), <<"pidfd", c>>)
    BY <2>2, <2>4, EndRemove DEF EndInv
  <2>5. CASE /\ cmd[c].pid /\ cmd[c].zomb > 0
             /\ cmd' = [cmd EXCEPT ![c] = IF restart THEN cmdStart(Reap(cmd[c]))
                                                     ELSE Reap(cmd[c])]
             /\ UNCHANGED <<cmds, tty, slowest, bcstflg, policy, draining, halt>>
    <3>1. cmd[c] \in CmdState /\ Tracked(cmd[c])
      BY ProcsAt, Zenon DEF Inv
    <3>2. /\ Reap(cmd[c]) \in CmdState
          /\ Reap(cmd[c]).deleteonexit = cmd[c].deleteonexit
      BY <2>5, <3>1, ReapLemma, DelKept
    <3>3. cmdStart(Reap(cmd[c])).deleteonexit = cmd[c].deleteonexit
      BY <3>2, DelKept
    <3>4. \A d \in Cmd : cmd'[d].deleteonexit = cmd[d].deleteonexit
      BY <1>1, <2>5, <3>2, <3>3
    <3> QED BY <1>1, <2>2, <2>5, <3>4 DEF EndInv, policy
  <2> QED BY <2>1, <2>3, <2>4, <2>5 DEF PidEvent
<1>5. CASE \E c \in Cmd : MonDel(c)
  <2>1. PICK c \in Cmd : MonDel(c)
    BY <1>5
  <2>2. halt = "no" /\ RemoveCmd(c, cmd[c], <<"monitor", NoCmd>>)
    BY <2>1 DEF MonDel, Mon, Dispatch
  <2> QED BY <2>2, EndRemove DEF EndInv
<1>6. CASE \E c \in Cmd : MonAdd(c)
  <2>1. PICK c \in Cmd : MonAdd(c)
    BY <1>6
  <2> DEFINE r == cmdInit(cmd[c], cmddelonexit)
  <2>2. /\ cmds' = cmds \cup {c} /\ halt = "no" /\ halt' = halt
        /\ exitonidle' = exitonidle /\ cmddelonexit' = cmddelonexit
        /\ c \notin cmds
    BY <2>1 DEF MonAdd, Mon, Dispatch, policy
  <2>3. cmd' = [cmd EXCEPT ![c] = r] \/ cmd' = [cmd EXCEPT ![c] = cmdStart(r)]
    BY <2>1 DEF MonAdd
  <2>4. cmd[c] \in CmdState /\ Tracked(cmd[c]) /\ ~cmd[c].pid
    BY <2>2, ProcsAt, Zenon DEF Inv
  <2>5. cmddelonexit \in BOOLEAN
    BY DEF Inv, Rest
  <2>6. r \in CmdState /\ r.deleteonexit = cmddelonexit
    BY <2>4, <2>5, InitLemma, DelInit
  <2>7. cmdStart(r).deleteonexit = cmddelonexit
    BY <2>6, DelKept
  <2> HIDE DEF r
  <2>8. \A d \in cmds' : cmd'[d].deleteonexit = IF d = c THEN cmddelonexit
                                                ELSE cmd[d].deleteonexit
    BY <1>1, <2>2, <2>3, <2>6, <2>7
  <2> QED BY <2>2, <2>8 DEF EndInv
<1>7. CASE MonIdleExit
  <2>1. CASE /\ cmd' = [c \in Cmd |-> IF c \in cmds
                                   THEN [cmd[c] EXCEPT !.deleteonexit = TRUE]
                                   ELSE cmd[c]]
             /\ cmds # {} /\ cmds' = cmds /\ halt' = halt
    <3>1. \A d \in cmds : cmd'[d].deleteonexit
      BY <1>1, <2>1 DEF CmdState
    <3>2. exitonidle' /\ cmddelonexit' /\ halt = "no"
      BY <1>7 DEF MonIdleExit, Mon, Dispatch
    <3> QED BY <2>1, <3>1, <3>2 DEF EndInv
  <2>2. CASE cmds = {} /\ CleanupAll /\ exitonidle'
    BY <2>2 DEF CleanupAll, EndInv
  <2> QED BY <1>7, <2>1, <2>2 DEF MonIdleExit
<1>8. CASE MonExit \/ SigEvent
  <2>1. /\ cmds' = {} /\ halt' = "exit"
    BY <1>8 DEF MonExit, SigEvent, CleanupAll
  <2>2. exitonidle' = exitonidle /\ cmddelonexit' = cmddelonexit
    BY <1>8 DEF MonExit, SigEvent
  <2> QED BY <2>1, <2>2 DEF EndInv
<1> QED
  BY <1>2, <1>3, <1>4, <1>5, <1>6, <1>7, <1>8, StepCases

\* EndInv holds in every reachable state.
THEOREM EndHolds == Spec => [](Inv /\ EndInv)
<1>1. Init => EndInv
  BY DEF Init, EndInv
<1>2. Inv /\ EndInv /\ [Next]_vars => EndInv'
  BY EndNext
<1> QED
  BY <1>1, <1>2, InvHolds, PTL DEF Spec

\* However the loop comes to exit (a signal, the monitor's exit, the last
\* command of a winding down yar), no process is left running or unreaped.
THEOREM NoneLeftBehind == Spec => []ExitReapsAll
<1>1. Inv /\ EndInv => ExitReapsAll
  <2> SUFFICES ASSUME Inv, EndInv, halt = "exit", NEW c \in Cmd
               PROVE  cmd[c].live = 0 /\ cmd[c].zomb = 0
    BY DEF ExitReapsAll
  <2>1. cmd[c] \in CmdState /\ Tracked(cmd[c]) /\ (cmd[c].pid => c \in cmds)
    BY ProcsAt, Zenon DEF Inv
  <2>2. ~cmd[c].pid
    BY <2>1 DEF EndInv
  <2> QED BY <2>1, <2>2 DEF Tracked, CmdState
<1> QED
  BY <1>1, EndHolds, PTL

\* The steps that leave a zombie as it is, or make one.
LEMMA ZombKept ==
  ASSUME Inv, NEW d \in Cmd, cmd[d].zomb > 0,
         \/ Env \/ EpollWait \/ BcstttyEvent \/ MonDrain
         \/ MonToggleRestart \/ UNCHANGED vars
         \/ \E c \in Cmd : \/ CmdttyEvent(c) \/ DrainStep(c)
                           \/ FreedEvent(c) \/ MonRefused(c)
  PROVE  cmd'[d].zomb > 0
<1>1. cmd[d] \in CmdState /\ Tracked(cmd[d]) /\ cmd \in [Cmd -> CmdState]
  BY ProcsAt, Zenon DEF Inv, Procs
<1>2. CASE cmd' = cmd
  BY <1>2
<1>3. CASE \E c \in Cmd : ProcExit(c)
  <2>1. PICK c \in Cmd : ProcExit(c)
    BY <1>3
  <2>2. cmd'[d] = IF d = c THEN Exited(cmd[d]) ELSE cmd[d]
    BY <1>1, <2>1 DEF ProcExit
  <2>3. Exited(cmd[d]).zomb = cmd[d].zomb + 1 /\ cmd[d].zomb \in Nat
    BY <1>1 DEF Exited, CmdState
  <2> QED BY <2>2, <2>3
<1>4. CASE \E c \in Cmd, ch \in Char : ProcOutput(c, ch)
  <2>1. PICK c \in Cmd, ch \in Char : ProcOutput(c, ch)
    BY <1>4
  <2>2. cmd'[d] = IF d = c THEN Printed(cmd[d], ch) ELSE cmd[d]
    BY <1>1, <2>1 DEF ProcOutput
  <2>3. Printed(cmd[d], ch).zomb = cmd[d].zomb
    BY <1>1 DEF Printed, CmdState
  <2> QED BY <2>2, <2>3
<1>5. CASE \E c \in Cmd : CmdttyEvent(c) \/ DrainStep(c)
  <2>1. PICK c \in Cmd : Output(c)
    BY <1>5 DEF CmdttyEvent, DrainStep
  <2>2. CASE cmd[c].out = <<>>
    BY <1>2, <2>1, <2>2 DEF Output
  <2>3. CASE cmd[c].out # <<>>
    <3>1. cmd' = [cmd EXCEPT ![c] = cmdttyProcessOutput(cmd[c])]
      BY <2>1, <2>3 DEF Output
    <3>2. c = d => cmdttyProcessOutput(cmd[d]).zomb = cmd[d].zomb
      BY <1>1, <2>3, OutputLemma
    <3> HIDE DEF cmdttyProcessOutput
    <3>3. cmd'[d] = IF d = c THEN cmdttyProcessOutput(cmd[d]) ELSE cmd[d]
      BY <1>1, <3>1
    <3> QED BY <3>2, <3>3
  <2> QED BY <2>2, <2>3
<1>6. CASE \E t \in Tty : ClientOpen(t) \/ ClientClose(t) \/ ClientWrite(t)
  BY <1>2, <1>6 DEF ClientOpen, ClientClose, ClientWrite, EnvTty
<1>7. CASE EpollWait \/ BcstttyEvent \/ MonDrain \/ MonToggleRestart
           \/ UNCHANGED vars
  BY <1>2, <1>7 DEF EpollWait, BcstttyEvent, Abort, MonDrain, MonToggleRestart,
                   vars
<1>8. CASE \E c \in Cmd : FreedEvent(c) \/ MonRefused(c)
  BY <1>2, <1>8 DEF FreedEvent, Abort, MonRefused
<1>9. CASE Env
  BY <1>3, <1>4, <1>6, <1>9 DEF Env
<1> QED
  BY <1>5, <1>7, <1>8, <1>9

\* Of a yar that winds down a zombie is reaped together with its command, or
\* by cmdStop, which looks at the two ttys.
LEMMA DeathStep ==
  ASSUME Inv, EndInv, [Next]_vars, cmddelonexit, NEW d \in cmds',
         cmd[d].zomb > 0, cmd'[d].zomb = 0
  PROVE  ttyIdle(tty'[d]) /\ ttyIdle(tty'[Bcst])
<1>1. cmds \subseteq Cmd /\ cmds' \subseteq Cmd /\ cmd \in [Cmd -> CmdState]
  BY InvNext DEF Inv, Rest, Procs
<1>2. /\ d \in Cmd /\ cmd[d] \in CmdState /\ Tracked(cmd[d])
      /\ cmd[d].pid => d \in cmds
  BY <1>1, ProcsAt, Zenon DEF Inv
<1>3. cmd[d].pid
  BY <1>2 DEF Tracked, CmdState
<1>4. d \in cmds /\ cmd[d].deleteonexit
  BY <1>2, <1>3 DEF EndInv
<1>5. cmd'[d] # cmd[d]
  OBVIOUS
<1>6. cmdStart(cmd[d]) = cmd[d]
  BY <1>3 DEF cmdStart
<1>7. ASSUME NEW S, StartCmds(S) PROVE FALSE
  BY <1>2, <1>5, <1>6, <1>7 DEF StartCmds
<1>8. ASSUME NEW S, StopCmds(S) PROVE ttyIdle(tty'[d]) /\ ttyIdle(tty'[Bcst])
  BY <1>2, <1>5, <1>8 DEF StopCmds
<1>9. CASE BcstttyNotify \/ \E c \in Cmd : CltttyEvent(c) \/ CltttyNotify(c)
  <2>1. cmd' = cmd \/ \E S : StartCmds(S) \/ StopCmds(S)
    BY <1>9 DEF BcstttyNotify, CltttyNotify, CltttyEvent, Notified
  <2> QED BY <1>5, <1>7, <1>8, <2>1
<1>10. CASE \E c \in Cmd : PidEvent(c)
  <2>1. PICK c \in Cmd : PidEvent(c)
    BY <1>10
  <2>2. CASE c # d
    <3>1. cmd' = cmd \/ \E r : cmd' = [cmd EXCEPT ![c] = r]
      BY <2>1 DEF PidEvent, Abort, RemoveCmd
    <3> QED BY <1>1, <1>2, <1>5, <2>2, <3>1
  <2>3. CASE c = d
    <3>1. RemoveCmd(d, Reap(cmd[d]), <<"pidfd", d>>)
      BY <1>3, <1>4, <2>1, <2>3 DEF PidEvent
    <3> QED BY <3>1 DEF RemoveCmd
  <2> QED BY <2>2, <2>3
<1>11. CASE \E c \in Cmd : MonAdd(c) \/ MonDel(c)
  <2>1. PICK c \in Cmd : MonAdd(c) \/ MonDel(c)
    BY <1>11
  <2>2. c # d
    BY <1>4, <2>1 DEF MonAdd, MonDel, RemoveCmd
  <2>3. \E r : cmd' = [cmd EXCEPT ![c] = r]
    BY <2>1 DEF MonAdd, MonDel, RemoveCmd
  <2> QED BY <1>1, <1>2, <1>5, <2>2, <2>3
<1>12. ~CleanupAll
  BY DEF CleanupAll
<1>13. CASE MonIdleExit
  <2>1. cmd' = [c \in Cmd |-> IF c \in cmds
                              THEN [cmd[c] EXCEPT !.deleteonexit = TRUE]
                              ELSE cmd[c]]
    BY <1>12, <1>13 DEF MonIdleExit
  <2>2. cmd'[d] = [cmd[d] EXCEPT !.deleteonexit = TRUE]
    BY <1>2, <1>4, <2>1
  <2> QED BY <1>2, <2>2 DEF CmdState
<1>14. ~MonExit /\ ~SigEvent
  BY <1>12 DEF MonExit, SigEvent
<1>15. CASE \/ Env \/ EpollWait \/ BcstttyEvent \/ MonDrain
            \/ MonToggleRestart \/ UNCHANGED vars
            \/ \E c \in Cmd : \/ CmdttyEvent(c) \/ DrainStep(c)
                              \/ FreedEvent(c) \/ MonRefused(c)
  <2>1. cmd'[d].zomb > 0
    BY <1>2, <1>15, ZombKept
  <2> QED BY <2>1
<1> QED
  BY <1>9, <1>10, <1>11, <1>13, <1>14, <1>15, StepCases

\* No step leaves a yar that is to end when idle without a command, but the
\* one that ends it.
LEMMA LastStep ==
  ASSUME Inv, EndInv, [Next]_vars, exitonidle, cmds # {}, cmds' = {}
  PROVE  halt' = "exit"
<1>1. CASE CleanupAll
  BY <1>1 DEF CleanupAll
<1>2. CASE \E c \in Cmd : PidEvent(c)
  <2>1. PICK c \in Cmd : RemoveCmd(c, Reap(cmd[c]), <<"pidfd", c>>) /\ halt = "no"
    BY <1>2 DEF PidEvent, Abort, Dispatch
  <2> QED BY <2>1, EndRemove
<1>3. CASE \E c \in Cmd : MonDel(c)
  <2>1. PICK c \in Cmd : RemoveCmd(c, cmd[c], <<"monitor", NoCmd>>) /\ halt = "no"
    BY <1>3 DEF MonDel, Mon, Dispatch
  <2> QED BY <2>1, EndRemove
<1>4. ~\E c \in Cmd : MonAdd(c)
  BY DEF MonAdd
<1>5. CASE MonIdleExit \/ MonExit \/ SigEvent
  BY <1>1, <1>5 DEF MonIdleExit, MonExit, SigEvent
<1>6. ~MonToggleRestart
  BY DEF MonToggleRestart
<1>7. cmds' # cmds
  OBVIOUS
<1> QED
  BY <1>2, <1>3, <1>4, <1>5, <1>6, <1>7, QuietSteps, StepCases

\* After idleexit no process that died is replaced: its command goes with it,
\* unless cmdStop reaped it when both ttys had become idle; and a yar that is
\* to end when idle ends with its last command, whichever way that one goes.
THEOREM WindsDown == Spec => DeathsWindDown
<1>1. Inv /\ EndInv /\ [Next]_vars
        => [/\ cmddelonexit =>
                 \A c \in cmds' : cmd[c].zomb > 0 /\ cmd'[c].zomb = 0
                                    => ttyIdle(tty'[c]) /\ ttyIdle(tty'[Bcst])
            /\ exitonidle /\ cmds # {} /\ cmds' = {} => halt' = "exit"]_vars
  BY DeathStep, LastStep
<1> QED
  BY <1>1, EndHolds, PTL DEF Spec, DeathsWindDown

-----------------------------------------------------------------------------
(* The ready count *)

\* A step that subtracts from cmdsreadycnt what the commands in S counted for
\* loses nothing if they are no longer ready and no other command becomes so.
LEMMA ReadyDrops ==
  ASSUME Inv, ReadyNotLost, cmds' \subseteq Cmd, NEW S, S \subseteq cmds,
         cmdsreadycnt' = cmdsreadycnt - ReadyIn(S),
         RLen > 0 => \A d \in cmds' : cmdIsReady(cmd'[d])
                       => d \in cmds \ S /\ cmdIsReady(cmd[d])
  PROVE  ReadyNotLost'
<1>1. cmds \subseteq Cmd /\ cmdsreadycnt \in Int /\ RLen \in Nat
  BY RLenType DEF Inv, Rest
<1>2. CASE RLen = 0
  BY <1>1, <1>2 DEF ReadyNotLost, ReadyIn
<1>3. CASE RLen > 0
  <2> DEFINE R  == {c \in cmds : cmdIsReady(cmd[c])}
             RS == {c \in S : cmdIsReady(cmd[c])}
             Rp == {c \in cmds' : cmdIsReady(cmd'[c])}
  <2>1. /\ ReadyIn(cmds) = Cardinality(R) /\ ReadyIn(S) = Cardinality(RS)
        /\ (ReadyIn(cmds))' = Cardinality(Rp)
    BY <1>3 DEF ReadyIn, cmdIsReady
  <2>2. RS \subseteq R /\ Rp \subseteq R \ RS /\ R \subseteq Cmd
    BY <1>1, <1>3
  <2> HIDE DEF R, RS, Rp
  <2>3. IsFiniteSet(R)
    BY <2>2, CmdAssumption, FS_Subset
  <2>4. IsFiniteSet(RS) /\ IsFiniteSet(R \ RS)
    BY <2>2, <2>3, FS_Subset
  <2>5. IsFiniteSet(Rp) /\ Cardinality(Rp) <= Cardinality(R \ RS)
    BY <2>2, <2>4, FS_Subset
  <2>6. R \cap RS = RS
    BY <2>2
  <2>7. Cardinality(R \ RS) = Cardinality(R) - Cardinality(RS)
    BY <2>3, <2>4, <2>6, FS_Difference
  <2>8. /\ Cardinality(R) \in Nat /\ Cardinality(RS) \in Nat
        /\ Cardinality(Rp) \in Nat
    BY <2>3, <2>4, <2>5, FS_CardinalityType
  <2> QED
    BY <1>1, <2>1, <2>5, <2>7, <2>8 DEF ReadyNotLost
<1> QED
  BY <1>1, <1>2, <1>3

\* The case of a step that leaves cmdsreadycnt alone.
LEMMA ReadySame ==
  ASSUME Inv, ReadyNotLost, cmds' \subseteq Cmd, cmdsreadycnt' = cmdsreadycnt,
         RLen > 0 => \A d \in cmds' : cmdIsReady(cmd'[d])
                       => d \in cmds /\ cmdIsReady(cmd[d])
  PROVE  ReadyNotLost'
<1>1. ReadyIn({}) = 0
  BY FS_EmptySet DEF ReadyIn
<1>2. cmdsreadycnt' = cmdsreadycnt - ReadyIn({})
  BY <1>1 DEF Inv, Rest
<1> QED
  BY <1>2, ReadyDrops

\* One character of output makes at most its command ready, and counts it.
LEMMA ReadyOutput ==
  ASSUME Inv, ReadyNotLost, NEW c \in Cmd, Output(c)
  PROVE  ReadyNotLost'
<1>1. /\ cmds \subseteq Cmd /\ cmdsreadycnt \in Int /\ RLen \in Nat
      /\ cmd \in [Cmd -> CmdState] /\ cmds' = cmds
  BY RLenType DEF Inv, Rest, Procs, Output
<1> DEFINE r == cmdttyProcessOutput(cmd[c])
<1>2. CASE UNCHANGED <<cmd, cmdsreadycnt>>
  BY <1>1, <1>2, ReadySame
<1>3. CASE /\ cmd[c].out # <<>> /\ cmd' = [cmd EXCEPT ![c] = r]
           /\ cmdsreadycnt' = IF cmd[c].readycnt < RLen /\ r.readycnt = RLen
                              THEN cmdsreadycnt + 1 ELSE cmdsreadycnt
  <2>1. /\ cmd[c] \in CmdState /\ r \in CmdState
        /\ cmd[c].readycnt \in 0..RLen
    BY <1>1, <1>3, OutputLemma DEF CmdState
  <2>2. /\ cmd'[c] = r
        /\ \A d \in Cmd \ {c} : cmd'[d] = cmd[d]
    BY <1>1, <1>3
  <2> HIDE DEF r
  <2>3. CASE cmd[c].readycnt < RLen /\ r.readycnt = RLen /\ RLen > 0
    <3> DEFINE R  == {d \in cmds : cmdIsReady(cmd[d])}
               Rp == {d \in cmds : cmdIsReady(cmd'[d])}
    <3>1. ReadyIn(cmds) = Cardinality(R) /\ (ReadyIn(cmds))' = Cardinality(Rp)
      BY <1>1, <2>3 DEF ReadyIn, cmdIsReady
    <3>2. Rp \subseteq R \cup {c} /\ R \subseteq Cmd
      BY <1>1, <2>2
    <3> HIDE DEF R, Rp
    <3>3. IsFiniteSet(R)
      BY <3>2, CmdAssumption, FS_Subset
    <3>4. /\ IsFiniteSet(R \cup {c})
          /\ Cardinality(R \cup {c}) <= Cardinality(R) + 1
      <4>1. Cardinality(R) \in Nat
        BY <3>3, FS_CardinalityType
      <4>2. /\ IsFiniteSet(R \cup {c})
            /\ \/ Cardinality(R \cup {c}) = Cardinality(R)
               \/ Cardinality(R \cup {c}) = Cardinality(R) + 1
        BY <3>3, FS_AddElement
      <4> QED BY <4>1, <4>2
    <3>5. IsFiniteSet(Rp) /\ Cardinality(Rp) <= Cardinality(R \cup {c})
      BY <3>2, <3>4, FS_Subset
    <3>6. /\ Cardinality(R) \in Nat /\ Cardinality(Rp) \in Nat
          /\ Cardinality(R \cup {c}) \in Nat
      BY <3>3, <3>4, <3>5, FS_CardinalityType
    <3>7. cmdsreadycnt' = cmdsreadycnt + 1
      BY <1>3, <2>3
    <3> QED BY <1>1, <3>1, <3>4, <3>5, <3>6, <3>7 DEF ReadyNotLost
  <2>4. CASE ~(cmd[c].readycnt < RLen /\ r.readycnt = RLen)
    <3>1. cmdsreadycnt' = cmdsreadycnt
      BY <1>3, <2>4
    <3>2. RLen > 0 => (cmdIsReady(r) => cmdIsReady(cmd[c]))
      BY <1>1, <2>1, <2>4 DEF cmdIsReady
    <3>3. RLen > 0 => \A d \in cmds' : cmdIsReady(cmd'[d])
                       => d \in cmds /\ cmdIsReady(cmd[d])
      BY <1>1, <2>2, <3>2
    <3> QED BY <1>1, <3>1, <3>3, ReadySame
  <2>5. RLen = 0 => ~(cmd[c].readycnt < RLen)
    BY <2>1
  <2> QED BY <1>1, <2>3, <2>4, <2>5
<1> QED
  BY <1>2, <1>3 DEF Output

\* StopCmds subtracts exactly the commands it makes unready.
LEMMA ReadyStop ==
  ASSUME Inv, ReadyNotLost, NEW S, S \subseteq cmds, StopCmds(S), cmds' = cmds
  PROVE  ReadyNotLost'
<1> DEFINE stopped == {c \in S : /\ cmd[c].pid
                                 /\ ttyIdle(tty'[c]) /\ ttyIdle(tty'[Bcst])}
<1>1. /\ cmd' = [c \in Cmd |->
                   IF c \in stopped THEN cmdStop(cmd[c]) ELSE cmd[c]]
      /\ cmdsreadycnt' = cmdsreadycnt - ReadyIn(stopped)
  BY DEF StopCmds
<1>2. stopped \subseteq cmds /\ \A c \in stopped : cmd[c].pid
  OBVIOUS
<1>3. cmds \subseteq Cmd
  BY DEF Inv, Rest
<1> HIDE DEF stopped
<1>4. ASSUME RLen > 0, NEW d \in cmds', cmdIsReady(cmd'[d])
      PROVE  d \in cmds \ stopped /\ cmdIsReady(cmd[d])
  <2>1. cmd[d] \in CmdState /\ Tracked(cmd[d])
    BY <1>3, ProcsAt, Zenon DEF Inv
  <2>2. d \in stopped => ~cmdIsReady(cmd'[d])
    BY <1>1, <1>2, <1>3, <1>4, <2>1, StopLemma
  <2> QED BY <1>1, <1>3, <1>4, <2>2
<1> QED
  BY <1>1, <1>2, <1>3, <1>4, ReadyDrops

\* StartCmds makes no command ready.
LEMMA ReadyStart ==
  ASSUME Inv, ReadyNotLost, NEW S, StartCmds(S), cmds' = cmds
  PROVE  ReadyNotLost'
<1>1. cmds \subseteq Cmd
  BY DEF Inv, Rest
<1>2. ASSUME RLen > 0, NEW d \in cmds', cmdIsReady(cmd'[d])
      PROVE  d \in cmds /\ cmdIsReady(cmd[d])
  <2>1. cmd[d] \in CmdState /\ Tracked(cmd[d])
    BY <1>1, ProcsAt, Zenon DEF Inv
  <2>2. cmd'[d] = IF d \in S THEN cmdStart(cmd[d]) ELSE cmd[d]
    BY <1>1 DEF StartCmds
  <2>3. cmdStart(cmd[d]) = cmd[d] \/ cmdStart(cmd[d]).readycnt = 0
    BY <2>1, StartLemma
  <2> QED BY <1>2, <2>2, <2>3 DEF cmdIsReady
<1>3. cmdsreadycnt' = cmdsreadycnt
  BY DEF StartCmds
<1> QED
  BY <1>1, <1>2, <1>3, ReadySame

\* RemoveCmd takes its command off the count, if it counted.
LEMMA ReadyRemove ==
  ASSUME Inv, ReadyNotLost, NEW c \in cmds, NEW r, NEW e, RemoveCmd(c, r, e),
         cmdsreadycnt' \in {cmdsreadycnt, cmdsreadycnt - ReadyIn({c})}
  PROVE  ReadyNotLost'
<1>1. /\ cmds' = cmds \ {c} /\ cmd' = [cmd EXCEPT ![c] = cmdCleanup(r)]
      /\ cmds \subseteq Cmd /\ cmd \in [Cmd -> CmdState]
  BY DEF RemoveCmd, Inv, Rest, Procs
<1>2. \A d \in cmds' : cmd'[d] = cmd[d] /\ d \in cmds \ {c}
  BY <1>1
<1>3. CASE cmdsreadycnt' = cmdsreadycnt
  BY <1>1, <1>2, <1>3, ReadySame
<1>4. CASE cmdsreadycnt' = cmdsreadycnt - ReadyIn({c})
  BY <1>1, <1>2, <1>4, ReadyDrops
<1> QED
  BY <1>3, <1>4

\* cleanup takes every command off.
LEMMA ReadyCleanup ==
  ASSUME Inv, ReadyNotLost, CleanupAll
  PROVE  ReadyNotLost'
<1>1. /\ cmds' = {}
      /\ cmdsreadycnt' = cmdsreadycnt - ReadyIn(cmds \cap Running)
  BY DEF CleanupAll
<1> QED
  BY <1>1, ReadyDrops

\* ReadyNotLost is inductive, given Inv.
LEMMA ReadyNext ==
  ASSUME Inv, [Next]_vars, ReadyNotLost
  PROVE  ReadyNotLost'
<1>1. cmds \subseteq Cmd /\ cmd \in [Cmd -> CmdState]
  BY DEF Inv, Rest, Procs
<1>2. ASSUME UNCHANGED <<cmds, cmdsreadycnt>>,
             \A d \in Cmd : cmd'[d].readycnt = cmd[d].readycnt
      PROVE  ReadyNotLost'
  <2>1. \A d \in cmds' : cmdIsReady(cmd'[d]) => d \in cmds /\ cmdIsReady(cmd[d])
    BY <1>1, <1>2 DEF cmdIsReady
  <2> QED BY <1>1, <1>2, <2>1, ReadySame
<1>3. CASE \E t \in Tty : ClientOpen(t) \/ ClientClose(t) \/ ClientWrite(t)
  BY <1>2, <1>3 DEF ClientOpen, ClientClose, ClientWrite, EnvTty
<1>4. CASE \E c \in Cmd : ProcExit(c)
  <2>1. PICK c \in Cmd : ProcExit(c)
    BY <1>4
  <2>2. cmd[c] \in CmdState /\ Tracked(cmd[c]) /\ cmd[c].live > 0
    BY <2>1, ProcsAt, Zenon DEF Inv, ProcExit
  <2>3. Exited(cmd[c]).readycnt = cmd[c].readycnt
    BY <2>2, ExitedLemma
  <2>4. \A d \in Cmd : cmd'[d].readycnt = cmd[d].readycnt
    BY <1>1, <2>1, <2>3 DEF ProcExit
  <2>5. UNCHANGED <<cmds, cmdsreadycnt>>
    BY <2>1 DEF ProcExit, EnvCmd
  <2> QED BY <1>2, <2>4, <2>5
<1>5. CASE \E c \in Cmd, ch \in Char : ProcOutput(c, ch)
  <2>1. PICK c \in Cmd, ch \in Char : ProcOutput(c, ch)
    BY <1>5
  <2>2. cmd[c] \in CmdState
    BY <1>1
  <2>3. Printed(cmd[c], ch).readycnt = cmd[c].readycnt
    BY <2>2 DEF Printed, CmdState
  <2>4. \A d \in Cmd : cmd'[d].readycnt = cmd[d].readycnt
    BY <1>1, <2>1, <2>3 DEF ProcOutput
  <2>5. UNCHANGED <<cmds, cmdsreadycnt>>
    BY <2>1 DEF ProcOutput, EnvCmd
  <2> QED BY <1>2, <2>4, <2>5
<1>6. CASE Env
  BY <1>3, <1>4, <1>5, <1>6 DEF Env
<1>7. CASE EpollWait \/ BcstttyEvent \/ MonDrain \/ MonToggleRestart \/ UNCHANGED vars
  BY <1>2, <1>7 DEF EpollWait, BcstttyEvent, Abort, MonDrain, MonToggleRestart, vars
<1>8. CASE \E c \in Cmd : FreedEvent(c) \/ MonRefused(c)
  BY <1>2, <1>8 DEF FreedEvent, Abort, MonRefused
<1>9. CASE \E c \in Cmd : CmdttyEvent(c) \/ DrainStep(c)
  BY <1>9, ReadyOutput DEF CmdttyEvent, DrainStep
<1>10. CASE \E c \in Cmd : CltttyEvent(c)
  <2>1. PICK c \in Cmd : CltttyEvent(c)
    BY <1>10
  <2>2. c \in Ttys /\ cmds' = cmds
    BY <2>1 DEF CltttyEvent, Dispatch, Inv, Fresh, FreshEvents
  <2>3. {c} \subseteq cmds
    BY <2>2, CmdAssumption DEF Ttys
  <2>4. CASE StopCmds({c})
    BY <2>2, <2>3, <2>4, ReadyStop
  <2>5. CASE UNCHANGED <<cmd, cmdsreadycnt>>
    BY <1>2, <2>2, <2>5
  <2> QED BY <2>1, <2>4, <2>5 DEF CltttyEvent
<1>11. CASE BcstttyNotify
  BY <1>11, ReadyStop, ReadyStart DEF BcstttyNotify, Notified
<1>12. CASE \E c \in Cmd : CltttyNotify(c)
  <2>1. PICK c \in Cmd : CltttyNotify(c)
    BY <1>12
  <2>2. c \in Ttys /\ cmds' = cmds
    BY <2>1 DEF CltttyNotify, Notified, Dispatch, Inv, Fresh, FreshEvents
  <2>3. {c} \subseteq cmds
    BY <2>2, CmdAssumption DEF Ttys
  <2> QED BY <2>1, <2>2, <2>3, ReadyStop, ReadyStart DEF CltttyNotify, Notified
<1>13. CASE \E c \in Cmd : PidEvent(c)
  <2>1. PICK c \in Cmd : PidEvent(c)
    BY <1>13
  <2>2. CASE Abort("waitid", <<"pidfd", c>>)
    BY <1>2, <2>2 DEF Abort
  <2>3. CASE /\ cmd[c].pid /\ cmd[c].zomb > 0
             /\ cmdsreadycnt' = cmdsreadycnt - ReadyIn({c})
    <3>1. cmd[c] \in CmdState /\ Tracked(cmd[c]) /\ c \in cmds
      BY <2>3, ProcsAt, Zenon DEF Inv
    <3> DEFINE r == IF restart THEN cmdStart(Reap(cmd[c])) ELSE Reap(cmd[c])
    <3>2. /\ Reap(cmd[c]) \in CmdState /\ Tracked(Reap(cmd[c]))
          /\ RLen > 0 => ~cmdIsReady(Reap(cmd[c]))
      BY <2>3, <3>1, ReapLemma
    <3>3. \/ cmdStart(Reap(cmd[c])) = Reap(cmd[c])
          \/ cmdStart(Reap(cmd[c])).readycnt = 0
      BY <3>2, StartLemma
    <3>4. RLen > 0 => ~cmdIsReady(r)
      BY <3>2, <3>3 DEF cmdIsReady
    <3>5. CASE RemoveCmd(c, Reap(cmd[c]), <<"pidfd", c>>)
      BY <2>3, <3>1, <3>5, ReadyRemove
    <3>6. CASE cmd' = [cmd EXCEPT ![c] = r] /\ cmds' = cmds
      <4> HIDE DEF r
      <4>1. ASSUME RLen > 0, NEW d \in cmds', cmdIsReady(cmd'[d])
            PROVE  d \in cmds \ {c} /\ cmdIsReady(cmd[d])
        <5>1. cmd'[d] = IF d = c THEN r ELSE cmd[d]
          BY <1>1, <3>6
        <5> QED BY <3>4, <3>6, <4>1, <5>1
      <4> QED BY <1>1, <2>3, <3>1, <3>6, <4>1, ReadyDrops
    <3> QED BY <2>1, <2>3, <3>5, <3>6 DEF PidEvent
  <2> QED BY <2>1, <2>2, <2>3 DEF PidEvent
<1>14. CASE \E c \in Cmd : MonDel(c)
  <2>1. PICK c \in Cmd : MonDel(c)
    BY <1>14
  <2>2. /\ c \in cmds /\ RemoveCmd(c, cmd[c], <<"monitor", NoCmd>>)
        /\ cmdsreadycnt' = cmdsreadycnt - ReadyIn({c} \cap Running)
    BY <2>1 DEF MonDel
  <2>3. CASE {c} \cap Running = {c}
    BY <2>2, <2>3, ReadyRemove
  <2>4. CASE {c} \cap Running = {}
    <3>1. ReadyIn({c} \cap Running) = 0
      BY <2>4, FS_EmptySet DEF ReadyIn
    <3>2. cmdsreadycnt' = cmdsreadycnt
      BY <2>2, <3>1 DEF Inv, Rest
    <3> QED BY <2>2, <3>2, ReadyRemove
  <2> QED BY <2>3, <2>4
<1>15. CASE \E c \in Cmd : MonAdd(c)
  <2>1. PICK c \in Cmd : MonAdd(c)
    BY <1>15
  <2> DEFINE r == cmdInit(cmd[c], cmddelonexit)
  <2>2. c \notin cmds /\ cmds' = cmds \cup {c} /\ cmdsreadycnt' = cmdsreadycnt
    BY <2>1 DEF MonAdd
  <2>3. cmd[c] \in CmdState /\ Tracked(cmd[c]) /\ ~cmd[c].pid
    BY <2>2, ProcsAt, Zenon DEF Inv
  <2>4. r \in CmdState /\ Tracked(r) /\ r.readycnt = 0
    BY <2>3, InitLemma DEF Inv, Rest
  <2>5. cmdStart(r) = r \/ cmdStart(r).readycnt = 0
    BY <2>4, StartLemma
  <2>6. cmd' = [cmd EXCEPT ![c] = r] \/ cmd' = [cmd EXCEPT ![c] = cmdStart(r)]
    BY <2>1 DEF MonAdd
  <2> HIDE DEF r
  <2>7. cmd'[c].readycnt = 0 /\ \A d \in Cmd \ {c} : cmd'[d] = cmd[d]
    BY <1>1, <2>4, <2>5, <2>6
  <2>8. RLen > 0 => \A d \in cmds' : cmdIsReady(cmd'[d])
                       => d \in cmds /\ cmdIsReady(cmd[d])
    BY <1>1, <2>2, <2>7 DEF cmdIsReady
  <2> QED BY <1>1, <2>2, <2>8, ReadySame
<1>16. CASE MonIdleExit
  <2>1. CASE /\ cmd' = [c \in Cmd |-> IF c \in cmds
                                   THEN [cmd[c] EXCEPT !.deleteonexit = TRUE]
                                   ELSE cmd[c]]
             /\ UNCHANGED <<cmds, cmdsreadycnt>>
    <3>1. \A d \in Cmd : cmd'[d].readycnt = cmd[d].readycnt
      BY <1>1, <2>1 DEF CmdState
    <3> QED BY <1>2, <2>1, <3>1
  <2> QED BY <1>16, <2>1, ReadyCleanup DEF MonIdleExit
<1>17. CASE MonExit \/ SigEvent
  BY <1>17, ReadyCleanup DEF MonExit, SigEvent
<1> QED
  BY <1>6, <1>7, <1>8, <1>9, <1>10, <1>11, <1>12, <1>13, <1>14, <1>15, <1>16,
     <1>17, StepCases

\* cmdsreadycnt never falls behind the commands that are ready, for any ready
\* string and any number of commands: the asserts of cmdPidEvent and cmdStop
\* hold, and a broadcast is never held back while every command is ready.
THEOREM ReadyCounted == Spec => []ReadyNotLost
<1>1. Init => ReadyNotLost
  <2> SUFFICES ASSUME Init PROVE ReadyNotLost
    OBVIOUS
  <2>1. RLen > 0 => {c \in cmds : cmdIsReady(cmd[c])} = {}
    BY CmdAssumption DEF Init, cmdIsReady
  <2>2. ReadyIn(cmds) = 0
    BY <2>1, RLenType, FS_EmptySet DEF ReadyIn
  <2> QED BY <2>2 DEF Init, ReadyNotLost
<1>2. Inv /\ ReadyNotLost /\ [Next]_vars => ReadyNotLost'
  BY ReadyNext
<1> QED
  BY <1>1, <1>2, InvHolds, PTL DEF Spec

-----------------------------------------------------------------------------
(* Serving the clients *)

\* By how much reading the whole queue will change opens: two equal events are
\* never next to each other in it.
Owed(q) ==
  IF q = <<>> THEN 0
  ELSE (IF q[Len(q)] = "open" THEN 1 ELSE 0) - (IF q[1] = "open" THEN 0 ELSE 1)

\* What yar knows of a tty and what it will be told add up to at least the
\* clients there are, unless inotify has dropped an open.  (Closes it dropped
\* make opens too large.)
TtyStory(x) ==
  /\ \A i \in 1..(Len(x.notify) - 1) : x.notify[i] # x.notify[i + 1]
  /\ ~x.merged => x.holders <= x.opens + Owed(x.notify)

\* Whoever holds the tty will still be announced.
Waits(x) == x.holders > 0 /\ ~x.merged => StartQueued(x)

\* A tty nobody has touched.
LEMMA StoryClosed == TtyStory(ClosedTty) /\ Waits(ClosedTty)
BY DEF TtyStory, ClosedTty, Waits, Owed

\* A tty that yar takes to be closed has no client, or one to be announced.
LEMMA StoryIdle ==
  ASSUME NEW x \in TtyState, TtyStory(x), x.opens = 0
  PROVE  Waits(x)
<1> SUFFICES ASSUME x.holders > 0, ~x.merged PROVE StartQueued(x)
  BY DEF Waits
<1> DEFINE q == x.notify
<1>1. q \in Seq({"open", "close"}) /\ Len(q) \in Nat /\ x.holders \in Nat
  BY DEF TtyState
<1>2. q # <<>> /\ q[Len(q)] = "open"
  BY <1>1 DEF TtyStory, Owed
<1>3. Len(q) \in 1..Len(q)
  BY <1>1, <1>2
<1> QED
  BY <1>2, <1>3 DEF StartQueued

\* Reading or writing bytes is no part of the story.
LEMMA StoryBytes ==
  ASSUME NEW x, NEW y, TtyStory(x), y.holders = x.holders, y.opens = x.opens,
         y.notify = x.notify, y.merged = x.merged
  PROVE  TtyStory(y) /\ (Waits(x) => Waits(y))
BY DEF TtyStory, Waits, StartQueued

\* What Enqueue leaves in the queue and adds to what is owed.
LEMMA EnqueueStory ==
  ASSUME NEW q \in Seq({"open", "close"}), NEW e \in {"open", "close"},
         \A i \in 1..(Len(q) - 1) : q[i] # q[i + 1]
  PROVE  LET w == Enqueue(q, e) IN
         /\ \A i \in 1..(Len(w) - 1) : w[i] # w[i + 1]
         /\ Len(w) \in Nat \ {0} /\ w[Len(w)] = e
         /\ \A i \in 1..Len(q) : i \in 1..Len(w) /\ w[i] = q[i]
         /\ w = q \/ Owed(w) = Owed(q) + (IF e = "open" THEN 1 ELSE 0 - 1)
<1>1. Len(q) \in Nat
  OBVIOUS
<1>2. CASE q # <<>> /\ q[Len(q)] = e
  BY <1>1, <1>2 DEF Enqueue
<1>3. CASE ~(q # <<>> /\ q[Len(q)] = e)
  <2> DEFINE w == Append(q, e)
  <2>1. Enqueue(q, e) = w
    BY <1>3 DEF Enqueue
  <2>2. /\ w \in Seq({"open", "close"}) /\ Len(w) = Len(q) + 1
        /\ \A i \in 1..Len(q) : w[i] = q[i]
        /\ w[Len(q) + 1] = e
    OBVIOUS
  <2> HIDE DEF w
  <2>3. w # <<>>
    BY <1>1, <2>2
  <2>4. ASSUME NEW i \in 1..(Len(w) - 1) PROVE w[i] # w[i + 1]
    <3>1. CASE i = Len(q)
      BY <1>1, <1>3, <2>2, <2>4, <3>1
    <3>2. CASE i # Len(q)
      <4>1. i \in 1..(Len(q) - 1) /\ i \in 1..Len(q) /\ i + 1 \in 1..Len(q)
        BY <1>1, <2>2, <2>4, <3>2
      <4> QED BY <2>2, <4>1
    <3> QED BY <3>1, <3>2
  <2>5. Owed(w) = Owed(q) + (IF e = "open" THEN 1 ELSE 0 - 1)
    <3>1. CASE q = <<>>
      <4>1. Len(q) = 0 /\ Len(w) = 1 /\ w[1] = e
        BY <2>2, <3>1
      <4> QED BY <2>3, <3>1, <4>1 DEF Owed
    <3>2. CASE q # <<>>
      <4>1. Len(q) > 0 /\ w[1] = q[1] /\ w[Len(w)] = e
        BY <1>1, <2>2, <3>2
      <4>2. q[Len(q)] # e /\ q[Len(q)] \in {"open", "close"}
        BY <1>1, <1>3, <3>2, <4>1
      <4> QED BY <2>3, <3>2, <4>1, <4>2 DEF Owed
    <3> QED BY <3>1, <3>2
  <2>6. \A i \in 1..Len(q) : i \in 1..Len(w)
    BY <1>1, <2>2
  <2> QED BY <1>1, <2>1, <2>2, <2>4, <2>5, <2>6
<1> QED
  BY <1>2, <1>3

\* One more client: it will be announced, alone or with another.
LEMMA StoryOpen ==
  ASSUME NEW x \in TtyState, TtyStory(x)
  PROVE  LET y == Held(x, "open", x.holders + 1) IN TtyStory(y) /\ Waits(y)
<1> DEFINE q == x.notify
           w == Enqueue(q, "open")
           y == Held(x, "open", x.holders + 1)
<1>1. /\ q \in Seq({"open", "close"}) /\ x.opens \in Nat /\ x.holders \in Nat
      /\ x.merged \in BOOLEAN
  BY DEF TtyState
<1>2. /\ y.holders = x.holders + 1 /\ y.opens = x.opens /\ y.notify = w
      /\ y.merged = (x.merged \/ w = q)
  BY DEF Held, TtyState
<1>3. /\ \A i \in 1..(Len(w) - 1) : w[i] # w[i + 1]
      /\ Len(w) \in Nat \ {0} /\ w[Len(w)] = "open"
      /\ w = q \/ Owed(w) = Owed(q) + 1
  BY <1>1, EnqueueStory DEF TtyStory
<1>4. Owed(q) \in Int
  BY DEF Owed
<1> HIDE DEF w, y
<1>5. ASSUME ~y.merged PROVE y.holders <= y.opens + Owed(y.notify)
  <2>1. ~x.merged /\ w # q
    BY <1>2, <1>5, Zenon
  <2>2. x.holders <= x.opens + Owed(q)
    BY <2>1 DEF TtyStory
  <2>3. Owed(w) = Owed(q) + 1
    BY <1>3, <2>1
  <2>4. x.holders + 1 <= x.opens + Owed(w)
    BY <1>1, <1>4, <2>2, <2>3
  <2> QED BY <1>2, <2>4
<1>6. StartQueued(y)
  <2>1. Len(w) \in 1..Len(w)
    BY <1>3
  <2> QED BY <1>2, <1>3, <2>1 DEF StartQueued
<1> QED
  BY <1>2, <1>3, <1>5, <1>6 DEF TtyStory, Waits, y

\* One client less: the others are still to be announced if they were.
LEMMA StoryClose ==
  ASSUME NEW x \in TtyState, TtyStory(x), x.holders > 0
  PROVE  LET y == Held(x, "close", x.holders - 1)
         IN  TtyStory(y) /\ (Waits(x) => Waits(y))
<1> DEFINE q == x.notify
           w == Enqueue(q, "close")
           y == Held(x, "close", x.holders - 1)
<1>1. /\ q \in Seq({"open", "close"}) /\ x.opens \in Nat /\ x.holders \in Nat
      /\ x.merged \in BOOLEAN
  BY DEF TtyState
<1>2. /\ y.holders = x.holders - 1 /\ y.opens = x.opens /\ y.notify = w
      /\ y.merged = x.merged
  BY DEF Held, TtyState
<1>3. /\ \A i \in 1..(Len(w) - 1) : w[i] # w[i + 1]
      /\ \A i \in 1..Len(q) : i \in 1..Len(w) /\ w[i] = q[i]
      /\ w = q \/ Owed(w) = Owed(q) + (0 - 1)
  BY <1>1, EnqueueStory DEF TtyStory
<1>4. Owed(q) \in Int
  BY DEF Owed
<1> HIDE DEF w, y
<1>5. ASSUME ~y.merged PROVE y.holders <= y.opens + Owed(y.notify)
  <2>1. x.holders <= x.opens + Owed(q)
    BY <1>2, <1>5 DEF TtyStory
  <2>2. Owed(w) = Owed(q) \/ Owed(w) = Owed(q) + (0 - 1)
    BY <1>3
  <2>3. x.holders - 1 <= x.opens + Owed(w)
    BY <1>1, <1>4, <2>1, <2>2
  <2> QED BY <1>2, <2>3
<1>6. ASSUME Waits(x) PROVE Waits(y)
  BY <1>2, <1>3, <1>6 DEF Waits, StartQueued
<1> QED
  BY <1>2, <1>3, <1>5, <1>6 DEF TtyStory, y

\* yar reads a notification; one of a close announces nobody.
LEMMA StoryNotify ==
  ASSUME NEW x \in TtyState, TtyStory(x), x.notify # <<>>
  PROVE  /\ TtyStory(ttyNotifyEvent(x))
         /\ Head(x.notify) # "open" /\ Waits(x) => Waits(ttyNotifyEvent(x))
<1> DEFINE q == x.notify
           w == Tail(q)
           y == ttyNotifyEvent(x)
<1>1. /\ q \in Seq({"open", "close"}) /\ Len(q) \in Nat /\ Len(q) > 0
      /\ x.opens \in Nat /\ x.holders \in Nat
  BY DEF TtyState
<1>2. /\ y.holders = x.holders /\ y.notify = w /\ y.merged = x.merged
      /\ y.opens = IF Head(q) = "open" THEN x.opens + 1
                   ELSE IF x.opens > 0 THEN x.opens - 1 ELSE x.opens
  BY DEF ttyNotifyEvent, TtyState
<1>3. /\ Head(q) = q[1] /\ q[1] \in {"open", "close"}
      /\ w \in Seq({"open", "close"}) /\ Len(w) = Len(q) - 1
      /\ \A i \in 1..(Len(q) - 1) : w[i] = q[i + 1]
  BY <1>1
<1> HIDE DEF w, y
<1>4. ASSUME NEW i \in 1..(Len(w) - 1) PROVE w[i] # w[i + 1]
  <2>1. /\ i \in 1..(Len(q) - 1) /\ i + 1 \in 1..(Len(q) - 1)
    BY <1>1, <1>3
  <2>2. q[i + 1] # q[i + 1 + 1]
    BY <2>1 DEF TtyStory
  <2> QED BY <1>3, <2>1, <2>2
<1>5. Owed(w) = Owed(q) - (IF q[1] = "open" THEN 1 ELSE 0 - 1)
  <2>1. CASE Len(q) = 1
    <3>1. w = <<>>
      BY <1>3, <2>1
    <3> QED BY <1>1, <1>3, <2>1, <3>1 DEF Owed
  <2>2. CASE Len(q) > 1
    <3>1. w # <<>> /\ w[1] = q[2] /\ w[Len(w)] = q[Len(q)]
      BY <1>1, <1>3, <2>2
    <3>2. q[1] # q[1 + 1]
      <4>1. 1 \in 1..(Len(q) - 1)
        BY <1>1, <2>2
      <4> QED BY <4>1 DEF TtyStory
    <3>3. q[2] \in {"open", "close"} /\ q[1] # q[2]
      BY <1>1, <2>2, <3>2
    <3> QED BY <1>1, <1>3, <3>1, <3>3 DEF Owed
  <2>3. Len(q) = 1 \/ Len(q) > 1
    <3> DEFINE n == Len(q)
    <3>1. n \in Nat /\ n > 0
      BY <1>1
    <3> HIDE DEF n
    <3>2. n = 1 \/ n > 1
      BY <3>1
    <3> QED BY <3>2 DEF n
  <2> QED BY <2>1, <2>2, <2>3, Zenon
<1>6. Owed(q) \in Int
  BY DEF Owed
<1>7. ~y.merged => y.holders <= y.opens + Owed(y.notify)
  BY <1>1, <1>2, <1>3, <1>5, <1>6 DEF TtyStory
<1>8. ASSUME Head(q) # "open", Waits(x) PROVE Waits(y)
  <2> SUFFICES ASSUME y.holders > 0, ~y.merged PROVE StartQueued(y)
    BY DEF Waits
  <2>1. PICK i \in 1..Len(q) : q[i] = "open"
    BY <1>2, <1>8 DEF Waits, StartQueued
  <2>2. i - 1 \in 1..Len(w) /\ i - 1 \in 1..(Len(q) - 1) /\ i - 1 + 1 = i
    BY <1>1, <1>3, <1>8, <2>1
  <2>3. w[i - 1] = "open"
    BY <1>3, <2>1, <2>2
  <2> QED BY <1>2, <2>2, <2>3 DEF StartQueued
<1> QED
  BY <1>2, <1>4, <1>7, <1>8 DEF TtyStory, y

\* Every tty has its story, and one that is not there has no past.
ServInv ==
  /\ \A t \in Tty : TtyStory(tty[t])
  /\ \A t \in Tty \ Ttys : tty[t] = ClosedTty

\* What a step does for the clients: those of a command without a process
\* that were to be announced still are, and those a new command finds too.
Serves ==
  /\ ServInv'
  /\ halt' = "no" =>
       \A c \in cmds' :
         \/ cmd'[c].pid
         \/ c \in cmds /\ \A t \in {c, Bcst} : Waits(tty[t]) => Waits(tty'[t])
         \/ c \notin cmds /\ \A t \in {c, Bcst} : Waits(tty'[t])

\* A step that leaves the ttys alone.
LEMMA ServQuiet ==
  ASSUME Inv, ServInv, UNCHANGED <<cmds, tty, bcstflg>>
  PROVE  Serves
<1>1. Ttys' = Ttys
  BY DEF Ttys
<1>2. \A t \in Tty : TtyStory(tty'[t])
  BY DEF ServInv
<1>3. ServInv'
  BY <1>1, <1>2 DEF ServInv, TtyStory
<1> QED
  BY <1>3 DEF Serves

\* A step that changes one tty, in a way that continues its story.
LEMMA ServTty ==
  ASSUME Inv, ServInv, NEW t \in Ttys, NEW x, TtyStory(x),
         tty' = [tty EXCEPT ![t] = x], UNCHANGED <<cmds, bcstflg>>,
         \A c \in cmds : t \in {c, Bcst} /\ Waits(tty[t])
                           => cmd'[c].pid \/ Waits(x)
  PROVE  Serves
<1>1. Ttys' = Ttys /\ tty \in [Tty -> TtyState] /\ cmds \subseteq Cmd
  BY DEF Ttys, Inv, Rest
<1>2. \A u \in Tty : tty'[u] = IF u = t THEN x ELSE tty[u]
  BY <1>1
<1>3. ASSUME NEW u \in Tty PROVE TtyStory(tty'[u])
  <2>1. TtyStory(tty[u])
    BY DEF ServInv
  <2> QED BY <1>2, <2>1, Zenon
<1>4. \A u \in Tty \ Ttys : tty'[u] = ClosedTty
  BY <1>1 DEF ServInv
<1>5. ServInv'
  BY <1>1, <1>3, <1>4 DEF ServInv, TtyStory
<1>6. ASSUME NEW c \in cmds, ~cmd'[c].pid, NEW u \in {c, Bcst}, Waits(tty[u])
      PROVE  Waits(tty'[u])
  <2>1. u \in Tty
    BY <1>1 DEF Tty
  <2>2. CASE u = t
    <3>1. Waits(x)
      BY <1>6, <2>2
    <3>2. tty'[u] = x
      BY <1>2, <2>1, <2>2
    <3> QED BY <3>1, <3>2, Zenon
  <2>3. CASE u # t
    <3>1. tty'[u] = tty[u]
      BY <1>2, <2>1, <2>3
    <3> QED BY <1>6, <3>1, Zenon
  <2> QED BY <2>2, <2>3
<1> QED
  BY <1>5, <1>6 DEF Serves

\* The clients continue the story, any number of them.
LEMMA ServClient ==
  ASSUME Inv, ServInv, NEW t \in Tty,
         ClientOpen(t) \/ ClientClose(t) \/ ClientWrite(t)
  PROVE  Serves
<1>1. /\ UNCHANGED <<cmds, bcstflg>> /\ t \in Ttys
  BY DEF ClientOpen, ClientClose, ClientWrite, EnvTty
<1>2. tty[t] \in TtyState /\ TtyStory(tty[t])
  BY DEF Inv, Rest, ServInv
<1>3. CASE ClientOpen(t)
  <2> DEFINE y == Held(tty[t], "open", tty[t].holders + 1)
  <2>1. tty' = [tty EXCEPT ![t] = y]
    BY <1>3 DEF ClientOpen, ClientHolds
  <2>2. TtyStory(y) /\ Waits(y)
    BY <1>2, StoryOpen
  <2> HIDE DEF y
  <2> QED BY <1>1, <2>1, <2>2, ServTty
<1>4. CASE ClientClose(t)
  <2> DEFINE y == Held(tty[t], "close", tty[t].holders - 1)
  <2>1. tty' = [tty EXCEPT ![t] = y] /\ tty[t].holders > 0
    BY <1>4 DEF ClientClose, ClientHolds
  <2>2. TtyStory(y) /\ (Waits(tty[t]) => Waits(y))
    BY <1>2, <2>1, StoryClose
  <2> HIDE DEF y
  <2> QED BY <1>1, <2>1, <2>2, ServTty
<1>5. CASE ClientWrite(t)
  <2> DEFINE y == Written(tty[t])
  <2>1. tty' = [tty EXCEPT ![t] = y]
    BY <1>5 DEF ClientWrite
  <2>2. /\ y.holders = tty[t].holders /\ y.opens = tty[t].opens
        /\ y.notify = tty[t].notify /\ y.merged = tty[t].merged
    BY <1>2 DEF Written, TtyState
  <2> HIDE DEF y
  <2>3. TtyStory(y) /\ (Waits(tty[t]) => Waits(y))
    BY <1>2, <2>2, StoryBytes
  <2> QED BY <1>1, <2>1, <2>3, ServTty
<1> QED
  BY <1>3, <1>4, <1>5

\* A byte read from a tty is no part of its story.
LEMMA ServRead ==
  ASSUME Inv, ServInv, NEW t \in Ttys,
         tty' = [tty EXCEPT ![t] = ttyReadChar(tty[t])],
         UNCHANGED <<cmds, bcstflg>>
  PROVE  Serves
<1> DEFINE y == ttyReadChar(tty[t])
<1>1. tty[t] \in TtyState /\ TtyStory(tty[t])
  BY DEF Inv, Rest, Ttys, Tty, ServInv
<1>2. /\ y.holders = tty[t].holders /\ y.opens = tty[t].opens
      /\ y.notify = tty[t].notify /\ y.merged = tty[t].merged
  BY <1>1 DEF ttyReadChar, TtyState
<1> HIDE DEF y
<1>3. TtyStory(y) /\ (Waits(tty[t]) => Waits(y))
  BY <1>1, <1>2, StoryBytes
<1> QED
  BY <1>3, ServTty DEF y

\* A notification: whom it announces gets a process.
LEMMA ServNotified ==
  ASSUME Inv, ServInv, NEW t \in Ttys, NEW S, Notified(t, S),
         S = IF t = Bcst THEN cmds ELSE {t}
  PROVE  Serves
<1>1. /\ tty \in [Tty -> TtyState] /\ t \in Tty /\ cmds \subseteq Cmd
      /\ Bcst \notin Cmd
  BY CmdAssumption DEF Inv, Rest, Ttys, Tty
<1>2. /\ <<"notify", t>> \in batch
      /\ tty' = [tty EXCEPT ![t] = ttyNotifyEvent(tty[t])]
      /\ Head(tty[t].notify) = "open" => StartCmds(S)
      /\ UNCHANGED <<cmds, bcstflg>>
  BY DEF Notified, Dispatch
<1>3. tty[t] \in TtyState /\ TtyStory(tty[t]) /\ tty[t].notify # <<>>
  BY <1>1, <1>2 DEF ServInv, Inv, Fresh, FreshEvents
<1> DEFINE y == ttyNotifyEvent(tty[t])
<1>4. /\ TtyStory(y)
      /\ Head(tty[t].notify) # "open" /\ Waits(tty[t]) => Waits(y)
  BY <1>3, StoryNotify
<1> HIDE DEF y
<1>5. ASSUME NEW c \in cmds, t \in {c, Bcst}, Head(tty[t].notify) = "open"
      PROVE  cmd'[c].pid
  <2>1. c \in S /\ c \in Cmd
    BY <1>1, <1>5
  <2>2. cmd'[c] = cmdStart(cmd[c])
    BY <1>2, <1>5, <2>1 DEF StartCmds
  <2>3. cmd[c] \in CmdState /\ Tracked(cmd[c])
    BY <2>1, ProcsAt, Zenon DEF Inv
  <2> QED BY <2>2, <2>3, StartLemma
<1> QED
  BY <1>2, <1>4, <1>5, ServTty DEF y

\* cleanup closes every tty.
LEMMA ServCleanup ==
  ASSUME ServInv, CleanupAll
  PROVE  Serves
<1>1. tty' = [t \in Tty |-> ClosedTty] /\ halt' = "exit"
  BY DEF CleanupAll
<1>2. \A t \in Tty : tty'[t] = ClosedTty
  BY <1>1
<1>3. \A t \in Tty : TtyStory(tty'[t])
  BY <1>2, StoryClosed, Zenon
<1> QED
  BY <1>1, <1>2, <1>3 DEF ServInv, Serves, TtyStory

\* A command that is removed takes its tty with it.
LEMMA ServRemove ==
  ASSUME Inv, ServInv, NEW c \in Cmd, NEW r, NEW e, RemoveCmd(c, r, e)
  PROVE  Serves
<1>1. /\ cmds' = cmds \ {c} /\ bcstflg' = bcstflg
      /\ cmds \subseteq Cmd /\ tty \in [Tty -> TtyState] /\ c # Bcst
  BY CmdAssumption DEF RemoveCmd, Inv, Rest
<1>2. CASE tty' = [t \in Tty |-> ClosedTty] /\ halt' = "exit"
  <2>1. \A t \in Tty : tty'[t] = ClosedTty
    BY <1>2
  <2>2. \A t \in Tty : TtyStory(tty'[t])
    BY <2>1, StoryClosed, Zenon
  <2> QED BY <1>2, <2>1, <2>2 DEF ServInv, Serves, TtyStory
<1>3. CASE tty' = [tty EXCEPT ![c] = ClosedTty]
  <2>1. \A t \in Tty : tty'[t] = IF t = c THEN ClosedTty ELSE tty[t]
    BY <1>1, <1>3
  <2>2. ASSUME NEW t \in Tty PROVE TtyStory(tty'[t])
    <3>1. TtyStory(tty[t])
      BY DEF ServInv
    <3> QED BY <2>1, <3>1, StoryClosed, Zenon
  <2>3. Ttys' = Ttys \ {c}
    BY <1>1 DEF Ttys
  <2>4. \A t \in Tty \ Ttys' : tty'[t] = ClosedTty
    BY <2>1, <2>3 DEF ServInv
  <2>5. \A d \in cmds' : d \in cmds /\ \A t \in {d, Bcst} : tty'[t] = tty[t]
    BY <1>1, <2>1 DEF Tty
  <2>6. ServInv'
    BY <2>2, <2>4 DEF ServInv, TtyStory
  <2> QED BY <2>5, <2>6 DEF Serves
<1> QED
  BY <1>2, <1>3 DEF RemoveCmd

\* A command that is added while the broadcast tty is open is started.
LEMMA ServAdd ==
  ASSUME Inv, ServInv, NEW c \in Cmd, MonAdd(c)
  PROVE  Serves
<1> DEFINE r == cmdInit(cmd[c], cmddelonexit)
           makebcst == ~bcstflg /\ Cardinality(cmds') > 1
<1>1. /\ cmds' = cmds \cup {c} /\ c \notin cmds
      /\ bcstflg' = (bcstflg \/ makebcst)
      /\ cmd' = [cmd EXCEPT ![c] = IF ~makebcst /\ tty[Bcst].opens > 0
                                   THEN cmdStart(r) ELSE r]
      /\ tty' = tty
  BY DEF MonAdd
<1>2. /\ cmds \subseteq Cmd /\ cmd \in [Cmd -> CmdState]
      /\ tty \in [Tty -> TtyState] /\ Bcst \notin Cmd /\ Bcst \in Tty
  BY CmdAssumption DEF Inv, Rest, Procs, Tty
<1>3. cmd[c] \in CmdState /\ Tracked(cmd[c]) /\ ~cmd[c].pid
  BY <1>1, ProcsAt, Zenon DEF Inv
<1>4. r \in CmdState /\ Tracked(r)
  BY <1>3, InitLemma DEF Inv, Rest
<1>5. cmdStart(r).pid
  BY <1>4, StartLemma
<1>6. Ttys \subseteq Ttys'
  BY <1>1 DEF Ttys
<1>7. tty[c] = ClosedTty
  BY <1>1, <1>2 DEF Ttys, Tty, ServInv
<1>8. makebcst => tty[Bcst] = ClosedTty
  BY <1>2 DEF Ttys, Tty, ServInv
<1> HIDE DEF r, makebcst
<1>9. Waits(tty[c])
  BY <1>7, StoryClosed, Zenon
<1>10. cmd'[c].pid \/ Waits(tty[Bcst])
  <2>1. CASE makebcst
    BY <1>8, <2>1, StoryClosed, Zenon
  <2>2. CASE tty[Bcst].opens = 0
    <3>1. tty[Bcst] \in TtyState /\ TtyStory(tty[Bcst])
      BY <1>2 DEF ServInv
    <3> QED BY <2>2, <3>1, StoryIdle
  <2>3. CASE ~makebcst /\ tty[Bcst].opens # 0
    <3>1. tty[Bcst].opens > 0
      BY <1>2, <2>3 DEF TtyState
    <3>2. cmd'[c] = cmdStart(r)
      BY <1>1, <1>2, <2>3, <3>1
    <3> QED BY <1>5, <3>2
  <2> QED BY <2>1, <2>2, <2>3
<1>11. \A t \in Tty : TtyStory(tty'[t])
  BY <1>1 DEF ServInv
<1>12. \A t \in Tty \ Ttys' : tty'[t] = ClosedTty
  BY <1>1, <1>6 DEF ServInv
<1>13. ServInv'
  BY <1>11, <1>12 DEF ServInv, TtyStory
<1> QED
  BY <1>1, <1>9, <1>10, <1>13 DEF Serves

\* Every step serves the clients.
LEMMA ServNext ==
  ASSUME Inv, [Next]_vars, ServInv
  PROVE  Serves
<1>1. Bcst \notin Cmd
  BY CmdAssumption
<1>2. CASE \E t \in Tty : ClientOpen(t) \/ ClientClose(t) \/ ClientWrite(t)
  BY <1>2, ServClient
<1>3. CASE \E c \in Cmd : ProcExit(c) \/ \E ch \in Char : ProcOutput(c, ch)
  BY <1>3, ServQuiet DEF ProcExit, ProcOutput, EnvCmd
<1>4. CASE EpollWait \/ MonDrain \/ MonToggleRestart \/ UNCHANGED vars
  BY <1>4, ServQuiet DEF EpollWait, MonDrain, MonToggleRestart, vars
<1>5. CASE \E c \in Cmd : FreedEvent(c) \/ MonRefused(c)
  BY <1>5, ServQuiet DEF FreedEvent, Abort, MonRefused
<1>6. CASE \E c \in Cmd : CmdttyEvent(c) \/ DrainStep(c)
  BY <1>6, ServQuiet DEF CmdttyEvent, DrainStep, Output
<1>7. CASE BcstttyEvent
  <2>1. <<"clttty", Bcst>> \in batch /\ UNCHANGED <<cmds, bcstflg>>
    BY <1>7 DEF BcstttyEvent, Abort, Dispatch
  <2>2. Bcst \in Ttys
    BY <2>1 DEF Inv, Fresh, FreshEvents
  <2>3. tty' = tty \/ tty' = [tty EXCEPT ![Bcst] = ttyReadChar(tty[Bcst])]
    BY <1>7 DEF BcstttyEvent, Abort
  <2> QED BY <2>1, <2>2, <2>3, ServQuiet, ServRead
<1>8. CASE \E c \in Cmd : CltttyEvent(c)
  <2>1. PICK c \in Cmd : CltttyEvent(c)
    BY <1>8
  <2>2. <<"clttty", c>> \in batch /\ UNCHANGED <<cmds, bcstflg>>
    BY <2>1 DEF CltttyEvent, Dispatch
  <2>3. c \in Ttys
    BY <2>2 DEF Inv, Fresh, FreshEvents
  <2>4. tty' = tty \/ tty' = [tty EXCEPT ![c] = ttyReadChar(tty[c])]
    BY <2>1 DEF CltttyEvent
  <2> QED BY <2>2, <2>3, <2>4, ServQuiet, ServRead
<1>9. CASE BcstttyNotify
  <2>1. Notified(Bcst, cmds) /\ Bcst \in Ttys
    BY <1>9 DEF BcstttyNotify, Notified, Dispatch, Inv, Fresh, FreshEvents
  <2> QED BY <2>1, ServNotified
<1>10. CASE \E c \in Cmd : CltttyNotify(c)
  <2>1. PICK c \in Cmd : CltttyNotify(c)
    BY <1>10
  <2>2. Notified(c, {c}) /\ c \in Ttys /\ c # Bcst
    BY <1>1, <2>1 DEF CltttyNotify, Notified, Dispatch, Inv, Fresh, FreshEvents
  <2> QED BY <2>2, ServNotified
<1>11. CASE \E c \in Cmd : PidEvent(c)
  <2>1. PICK c \in Cmd : PidEvent(c)
    BY <1>11
  <2>2. CASE RemoveCmd(c, Reap(cmd[c]), <<"pidfd", c>>)
    BY <2>2, ServRemove
  <2>3. CASE UNCHANGED <<cmds, tty, bcstflg>>
    BY <2>3, ServQuiet
  <2> QED BY <2>1, <2>2, <2>3 DEF PidEvent, Abort
<1>12. CASE \E c \in Cmd : MonAdd(c) \/ MonDel(c)
  BY <1>12, ServAdd, ServRemove DEF MonDel
<1>13. CASE MonIdleExit
  BY <1>13, ServQuiet, ServCleanup DEF MonIdleExit
<1>14. CASE MonExit \/ SigEvent
  BY <1>14, ServCleanup DEF MonExit, SigEvent
<1>15. CASE Env
  BY <1>2, <1>3, <1>15 DEF Env
<1> QED
  BY <1>4, <1>5, <1>6, <1>7, <1>8, <1>9, <1>10, <1>11, <1>12, <1>13, <1>14,
     <1>15, StepCases

\* A command is driven if it has a process or its clients are to be announced.
LEMMA DrivenMeaning ==
  ASSUME NEW c
  PROVE  /\ Driven(c) <=> cmd[c].pid \/ (Waits(tty[c]) /\ Waits(tty[Bcst]))
         /\ Driven(c)' <=> cmd'[c].pid \/ (Waits(tty'[c]) /\ Waits(tty'[Bcst]))
BY DEF Driven, Waits

\* No step abandons the clients of a command, but the death of its process
\* with restart off.
LEMMA DrivenStep ==
  ASSUME Inv, [Next]_vars, ServInv, NEW c \in cmds', halt' = "no",
         c \in cmds => Driven(c)
  PROVE  Driven(c)' \/ (cmd[c].zomb > 0 /\ ~restart)
<1>1. Serves /\ Inv'
  BY ServNext, InvNext
<1>2. c \in Cmd /\ tty' \in [Tty -> TtyState]
  BY <1>1 DEF Inv, Rest
<1> SUFFICES ASSUME ~cmd'[c].pid, ~(cmd[c].zomb > 0 /\ ~restart)
             PROVE  Waits(tty'[c]) /\ Waits(tty'[Bcst])
  BY DrivenMeaning
<1>3. CASE c \notin cmds
  BY <1>1, <1>3 DEF Serves
<1>4. CASE c \in cmds /\ ~cmd[c].pid
  <2>1. Waits(tty[c]) /\ Waits(tty[Bcst])
    BY <1>4, DrivenMeaning
  <2> QED BY <1>1, <1>4, <2>1 DEF Serves
<1>5. CASE cmd[c].pid
  <2>1. ttyIdle(tty'[c]) /\ ttyIdle(tty'[Bcst])
    BY <1>2, <1>5, StopStep
  <2>2. ASSUME NEW t \in {c, Bcst} PROVE Waits(tty'[t])
    <3>1. t \in Tty /\ tty'[t] \in TtyState /\ tty'[t].opens = 0
      BY <1>2, <2>1 DEF Tty, ttyIdle
    <3>2. TtyStory(tty'[t])
      BY <1>1, <3>1, Zenon DEF Serves, ServInv
    <3> QED BY <3>1, <3>2, StoryIdle
  <2> QED BY <2>2
<1> QED
  BY <1>3, <1>4, <1>5

\* Nobody is abandoned whose open yar was told of, for any number of clients,
\* commands and bounds and with all inputs of the monitor: a command whose tty
\* or broadcast tty is held has a process or will be started, from the moment
\* it is added, and only a death with restart off ends that.
THEOREM NobodyAbandoned == Spec => NotAbandoned
<1>1. Init => ServInv
  <2> SUFFICES ASSUME Init PROVE ServInv
    OBVIOUS
  <2>1. \A t \in Tty : tty[t] = ClosedTty
    BY DEF Init
  <2>2. \A t \in Tty : TtyStory(tty[t])
    BY <2>1, StoryClosed, Zenon
  <2> QED BY <2>1, <2>2 DEF ServInv
<1>2. Inv /\ ServInv /\ [Next]_vars => ServInv'
  BY ServNext DEF Serves
<1>3. Inv /\ ServInv /\ [Next]_vars
        => [\A c \in cmds' :
              halt' = "no" /\ (c \in cmds => Driven(c))
                => \/ Driven(c)'
                   \/ cmd[c].zomb > 0 /\ ~restart]_vars
  BY DrivenStep
<1> QED
  BY <1>1, <1>2, <1>3, InvHolds, PTL DEF Spec, NotAbandoned
=============================================================================

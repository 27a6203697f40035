-------------------------------- MODULE Relay --------------------------------
(***************************************************************************)
(* The bytes yar relays.  What clients write goes, byte by byte, from a    *)
(* client tty to the tty of its command and from the broadcast tty to      *)
(* those of all commands; what a process prints goes to the client tty and *)
(* the broadcast tty.  A write to a tty of which yar believes that nobody  *)
(* has it open is a discard; a write to a tty whose buffer is full fails,  *)
(* and every caller meets that with NYI.                                   *)
(*                                                                         *)
(* Bytes are counted, not named.  Commands are neither added nor deleted   *)
(* (Lifecycle), there is a broadcast tty (two commands, or -b) and it is   *)
(* not line buffered (CmdOutput), no ready string is set (Lifecycle), and  *)
(* a command that has died may or may not be restarted, as the policies of *)
(* Lifecycle have it.                                                      *)
(***************************************************************************)
EXTENDS Integers, Sequences, FiniteSets, SequencesExt, Sums

CONSTANTS
  Cmd,         \* the commands
  Delay,       \* the pacing delay of each command; 0 is no delay
  Slowest,     \* GBLS.slowestcmd
  Cap,         \* the bytes the buffer of a tty holds, in each direction
  StopLen,     \* the length of the stop string; 0 if there is none
  Size,        \* sizeof(discards)
  IntMax,      \* the largest int; a uint64_t is taken to be wider
  Used,        \* bound: the ttys that clients open
  MaxBytes,    \* bound: bytes written by clients and printed by processes
  MaxOpens,    \* bound: opens of client ttys
  MaxStarts    \* bound: processes started

Bcst    == <<"bcsttty", "tty">>
Clt(c)  == <<"clttty", c>>
Cmdt(c) == <<"cmdtty", c>>
CltTty  == {Bcst} \cup {Clt(c) : c \in Cmd}
CmdTty  == {Cmdt(c) : c \in Cmd}
Tty     == CltTty \cup CmdTty

ASSUME RelayAssumption ==
  /\ IsFiniteSet(Cmd) /\ Delay \in [Cmd -> Nat] /\ Slowest \in Cmd
  /\ \A c \in Cmd : Delay[c] <= Delay[Slowest]
  /\ {Cap, StopLen, Size, IntMax, MaxBytes, MaxOpens, MaxStarts}
       \subseteq Nat
  /\ Used \subseteq CltTty /\ Size <= IntMax /\ Cap > StopLen + 1

VARIABLES
  tty,     \* the tty_t of each tty, and its pty
  cmd,     \* the cmd_t of each command, and its process
  halt,    \* NYI has been reached
  spent    \* ghost: what the bounds count

vars == <<tty, cmd, halt, spent>>

(* in: written to the sub side and not read by yar; out: written by yar and  *)
(* not read from the sub side; holders: who has the sub side open; note: the *)
(* inotify queue; merged: ghost, inotify has merged two events; kept: the    *)
(* bytes in discards; the rest are fields of tty_t.                          *)
TtyState == [in : 0..Cap, out : 0..Cap, holders : Nat,
             note : Seq({"open", "close"}), merged : BOOLEAN, opens : Nat,
             rbytes : Nat, wbytes : Nat, wdbytes : Nat, kept : Int]

(* proc: none is pid = -1; a forked process has not opened its tty yet.      *)
(* since: the time since lastwrite, up to the delay.  stopped: ghost, bytes  *)
(* of stop strings written.  hurried: ghost, a byte has been relayed to the  *)
(* command before its delay was over.                                        *)
CmdState == [proc : {"none", "forked", "open", "dead"}, since : Nat,
             stopped : Nat, hurried : BOOLEAN]

Init ==
  /\ tty = [t \in Tty |-> [in |-> 0, out |-> 0, holders |-> 0, note |-> << >>,
                           merged |-> FALSE, opens |-> 0, rbytes |-> 0,
                           wbytes |-> 0, wdbytes |-> 0, kept |-> 0]]
  /\ cmd = [c \in Cmd |-> [proc |-> "none", since |-> Delay[c],
                           stopped |-> 0, hurried |-> FALSE]]
  /\ halt = FALSE
  /\ spent = [bytes |-> 0, opened |-> 0, started |-> 0]

\* inotify drops an event that is equal to the last one queued
Enqueue(x, e) ==
  IF x.note # << >> /\ x.note[Len(x.note)] = e THEN [x EXCEPT !.merged = TRUE]
  ELSE [x EXCEPT !.note = Append(@, e)]

\* The sub side of a tty is opened, and closed
Opened(x) == Enqueue([x EXCEPT !.holders = @ + 1], "open")
Closed(x) == Enqueue([x EXCEPT !.holders = @ - 1], "close")

-----------------------------------------------------------------------------
(* ttyWriteBuf, ttyReadChar *)

\* Mutant: full buffers drop the byte
Fails_Never(x, n) == FALSE

\* Mutant: a byte of room is kept
Fails_Early(x, n) == x.opens # 0 /\ x.out + n >= Cap

\* The buffer has no room for n bytes: write returns -1, or less than n
Fails(x, n) == x.opens # 0 /\ x.out + n > Cap

\* The conversion of an unsigned 64-bit number to int
ToInt(n) == LET m == n % (2 * (IntMax + 1))
            IN  IF m > IntMax THEN m - 2 * (IntMax + 1) ELSE m

\* Mutant: free is not cut off at zero
Copied_Negative(wd, len) ==
  LET free == ToInt(Size - ToInt(wd)) IN IF len <= free THEN len ELSE free

\* How many of len discarded bytes are copied to discards, wd having been
\* discarded before: used and free are ints
Copied(wd, len) ==
  LET rest == ToInt(Size - ToInt(wd))
      free == IF rest < 0 THEN 0 ELSE rest
  IN  IF len <= free THEN len ELSE free

\* Mutant: only the discarded bytes that are copied are counted
ttyWriteBuf_Copied(x, n) ==
  IF x.opens # 0 THEN [x EXCEPT !.out = @ + n, !.wbytes = @ + n]
  ELSE [x EXCEPT !.wdbytes = @ + Copied(x.wdbytes, n),
                 !.kept = @ + Copied(x.wdbytes, n)]

ttyWriteBuf(x, n) ==
  IF x.opens # 0 THEN [x EXCEPT !.out = @ + n, !.wbytes = @ + n]
  ELSE [x EXCEPT !.wdbytes = @ + n, !.kept = @ + Copied(x.wdbytes, n)]

\* cmdWriteChar marks the time of a write, not of a discard
Marked(p, x, c) ==
  IF x.opens # 0
  THEN [p EXCEPT !.since = 0, !.hurried = @ \/ p.since < Delay[c]]
  ELSE p

ttyReadChar(x) == [x EXCEPT !.in = @ - 1, !.rbytes = @ + 1]

-----------------------------------------------------------------------------
(* Processes, as cmdStart and cmdStop leave them *)

IsRunning(p) == p.proc # "none"
ttyIdle(x)   == x.opens = 0 /\ x.in = 0

\* What the death of c's process does to its tty
Hangup(x, p) == IF p.proc = "open" THEN Closed(x) ELSE x

\* A newline and the stop string.  cmdStop writes them a character at a time;
\* here they are written in one step, so that the process does not read in
\* between and the tty may be found full where the code would just get through.
StopBytes == IF StopLen = 0 THEN 0 ELSE StopLen + 1

\* cmdStop of the commands in C in the state (T, P), each if it runs and its
\* client tty and the broadcast tty are idle: stop string, delay, kill, wait
Stops(T, P, C) == {c \in C : /\ IsRunning(P[c])
                             /\ ttyIdle(T[Clt(c)]) /\ ttyIdle(T[Bcst])}
StopFails(T, P, C) == \E c \in Stops(T, P, C) : Fails(T[Cmdt(c)], StopBytes)

StoppedTtys(T, P, C) ==
  [t \in Tty |-> IF \E c \in Stops(T, P, C) : t = Cmdt(c)
                 THEN Hangup(ttyWriteBuf(T[t], StopBytes), P[t[2]]) ELSE T[t]]

StoppedCmds(T, P, C) ==
  [c \in Cmd |->
     IF c \in Stops(T, P, C)
     THEN [P[c] EXCEPT !.proc = "none", !.stopped = @ + StopBytes,
             !.since = IF StopBytes # 0 /\ T[Cmdt(c)].opens # 0
                       THEN Delay[c] ELSE @]
     ELSE P[c]]

Halt == halt' = TRUE /\ UNCHANGED <<tty, cmd, spent>>

\* The end of a handler that has reached (T, P) and calls cmdStop on C
ThenStop(T, P, C) ==
  IF StopFails(T, P, C) THEN Halt
  ELSE /\ tty' = StoppedTtys(T, P, C) /\ cmd' = StoppedCmds(T, P, C)
       /\ UNCHANGED <<halt, spent>>

-----------------------------------------------------------------------------
(* Handlers of the loop *)

\* Mutant: only a tty that is open is read
CltttyEvent_Open(c) ==
  LET x == Clt(c)  y == Cmdt(c) IN
  /\ ~halt /\ tty[x].in > 0 /\ tty[x].opens > 0 /\ cmd[c].since >= Delay[c]
  /\ IF Fails(tty[y], 1) THEN Halt
     ELSE ThenStop([tty EXCEPT ![x] = ttyReadChar(@), ![y] = ttyWriteBuf(@, 1)],
                   [cmd EXCEPT ![c] = Marked(@, tty[y], c)], {c})

\* cmdCltttyEvent: one byte, if the delay is over; the command is stopped if
\* this was the last of a client that has gone
CltttyEvent(c) ==
  LET x == Clt(c)  y == Cmdt(c) IN
  /\ ~halt /\ tty[x].in > 0 /\ cmd[c].since >= Delay[c]
  /\ IF Fails(tty[y], 1) THEN Halt
     ELSE ThenStop([tty EXCEPT ![x] = ttyReadChar(@), ![y] = ttyWriteBuf(@, 1)],
                   [cmd EXCEPT ![c] = Marked(@, tty[y], c)], {c})

\* Mutant: the broadcast tty is not paced
BcstttyEvent_Unpaced ==
  /\ ~halt /\ tty[Bcst].in > 0
  /\ IF \E t \in CmdTty : Fails(tty[t], 1) THEN Halt
     ELSE /\ tty' = [t \in Tty |-> CASE t = Bcst -> ttyReadChar(tty[t])
                                     [] t \in CmdTty -> ttyWriteBuf(tty[t], 1)
                                     [] OTHER -> tty[t]]
          /\ cmd' = [c \in Cmd |-> Marked(cmd[c], tty[Cmdt(c)], c)]
          /\ UNCHANGED <<halt, spent>>

\* bcstttyEvent and GBLSCmdsWriteChar: one byte to every command, at the pace
\* of the slowest.  No command is stopped here.
BcstttyEvent ==
  /\ ~halt /\ tty[Bcst].in > 0 /\ cmd[Slowest].since >= Delay[Slowest]
  /\ IF \E t \in CmdTty : Fails(tty[t], 1) THEN Halt
     ELSE /\ tty' = [t \in Tty |-> CASE t = Bcst -> ttyReadChar(tty[t])
                                     [] t \in CmdTty -> ttyWriteBuf(tty[t], 1)
                                     [] OTHER -> tty[t]]
          /\ cmd' = [c \in Cmd |-> Marked(cmd[c], tty[Cmdt(c)], c)]
          /\ UNCHANGED <<halt, spent>>

\* Mutant: the broadcast tty is written to only while it is open
CmdttyEvent_Heard(c) ==
  /\ ~halt /\ tty[Cmdt(c)].in > 0
  /\ LET to == {Clt(c)} \cup (IF tty[Bcst].opens > 0 THEN {Bcst} ELSE {})
     IN  IF \E t \in to : Fails(tty[t], 1) THEN Halt
         ELSE /\ tty' = [t \in Tty |->
                           CASE t = Cmdt(c) -> ttyReadChar(tty[t])
                             [] t \in to -> ttyWriteBuf(tty[t], 1)
                             [] OTHER -> tty[t]]
              /\ UNCHANGED <<cmd, halt, spent>>

\* cmdCmdttyEvent: one byte of output to the client and the broadcast tty
CmdttyEvent(c) ==
  /\ ~halt /\ tty[Cmdt(c)].in > 0
  /\ LET to == {Clt(c), Bcst}
     IN  IF \E t \in to : Fails(tty[t], 1) THEN Halt
         ELSE /\ tty' = [t \in Tty |->
                           CASE t = Cmdt(c) -> ttyReadChar(tty[t])
                             [] t \in to -> ttyWriteBuf(tty[t], 1)
                             [] OTHER -> tty[t]]
              /\ UNCHANGED <<cmd, halt, spent>>

\* Mutant: the opens of command ttys are not counted
Noted_CltOnly(t, x) ==
  [x EXCEPT !.note = Tail(@),
            !.opens = CASE t \in CmdTty -> @
                        [] Head(x.note) = "open" -> @ + 1
                        [] OTHER -> IF @ > 0 THEN @ - 1 ELSE 0]

\* ttyNotifyEvent up to the call of the tty's own handler
Noted(t, x) ==
  [x EXCEPT !.note = Tail(@),
            !.opens = IF Head(x.note) = "open" THEN @ + 1
                      ELSE IF @ > 0 THEN @ - 1 ELSE 0]

\* The commands a tty's handler starts or stops
Served(t) == IF t = Bcst THEN Cmd ELSE {c \in Cmd : t = Clt(c)}

Forked(P, C) == [c \in Cmd |-> IF c \in C /\ ~IsRunning(P[c])
                               THEN [P[c] EXCEPT !.proc = "forked"] ELSE P[c]]
StartsIn(C)  == Cardinality({c \in C : ~IsRunning(cmd[c])})

\* ttyNotifyEvent with cmdCltttyNotify or bcstttyNotify
NotifyEvent(t) ==
  /\ ~halt /\ tty[t].note # << >>
  /\ LET T == [tty EXCEPT ![t] = Noted(t, @)]
     IN  \/ /\ Head(tty[t].note) = "open"
            /\ spent.started + StartsIn(Served(t)) <= MaxStarts
            /\ tty' = T /\ cmd' = Forked(cmd, Served(t))
            /\ spent' = [spent EXCEPT !.started = @ + StartsIn(Served(t))]
            /\ UNCHANGED halt
         \/ /\ Head(tty[t].note) = "close"
            /\ ThenStop(T, cmd, Served(t))

\* cmdPidEvent: the process is reaped and, if restarts are on, replaced
PidEvent(c) ==
  /\ ~halt /\ cmd[c].proc = "dead"
  /\ \/ /\ cmd' = [cmd EXCEPT ![c].proc = "none"]
        /\ UNCHANGED spent
     \/ /\ spent.started < MaxStarts
        /\ cmd' = [cmd EXCEPT ![c].proc = "forked"]
        /\ spent' = [spent EXCEPT !.started = @ + 1]
  /\ UNCHANGED <<tty, halt>>

-----------------------------------------------------------------------------
(* Clients, processes, and the clock *)

ClientOpens(t) ==
  /\ spent.opened < MaxOpens
  /\ tty' = [tty EXCEPT ![t] = Opened(@)]
  /\ spent' = [spent EXCEPT !.opened = @ + 1]

ClientCloses(t) ==
  /\ tty[t].holders > 0
  /\ tty' = [tty EXCEPT ![t] = Closed(@)]
  /\ UNCHANGED spent

ClientWrites(t) ==
  /\ tty[t].holders > 0 /\ tty[t].in < Cap /\ spent.bytes < MaxBytes
  /\ tty' = [tty EXCEPT ![t].in = @ + 1]
  /\ spent' = [spent EXCEPT !.bytes = @ + 1]

\* A client or a process reads
Reads(t) ==
  /\ tty[t].holders > 0 /\ tty[t].out > 0
  /\ tty' = [tty EXCEPT ![t].out = @ - 1]
  /\ UNCHANGED spent

Client(t) ==
  /\ ~halt /\ (ClientOpens(t) \/ ClientCloses(t) \/ ClientWrites(t))
  /\ UNCHANGED <<cmd, halt>>

ProcOpens(c) ==
  /\ cmd[c].proc = "forked"
  /\ cmd' = [cmd EXCEPT ![c].proc = "open"]
  /\ tty' = [tty EXCEPT ![Cmdt(c)] = Opened(@)]
  /\ UNCHANGED spent

ProcPrints(c) ==
  /\ cmd[c].proc = "open" /\ tty[Cmdt(c)].in < Cap
  /\ spent.bytes < MaxBytes
  /\ tty' = [tty EXCEPT ![Cmdt(c)].in = @ + 1]
  /\ spent' = [spent EXCEPT !.bytes = @ + 1]
  /\ UNCHANGED cmd

ProcDies(c) ==
  /\ cmd[c].proc \in {"forked", "open"}
  /\ cmd' = [cmd EXCEPT ![c].proc = "dead"]
  /\ tty' = [tty EXCEPT ![Cmdt(c)] = Hangup(@, cmd[c])]
  /\ UNCHANGED spent

Process(c) ==
  /\ ~halt /\ (ProcOpens(c) \/ ProcPrints(c) \/ ProcDies(c))
  /\ UNCHANGED halt

Reader(t) == ~halt /\ Reads(t) /\ UNCHANGED <<cmd, halt>>

Tick ==
  /\ ~halt /\ \E c \in Cmd : cmd[c].since < Delay[c]
  /\ cmd' = [c \in Cmd |-> [cmd[c] EXCEPT
               !.since = IF @ < Delay[c] THEN @ + 1 ELSE @]]
  /\ UNCHANGED <<tty, halt, spent>>

Loop ==
  \/ BcstttyEvent
  \/ \E c \in Cmd : CltttyEvent(c) \/ CmdttyEvent(c) \/ PidEvent(c)
  \/ \E t \in Tty : NotifyEvent(t)

Next ==
  \/ Loop \/ Tick
  \/ \E t \in Used : Client(t)
  \/ \E t \in Tty : Reader(t)
  \/ \E c \in Cmd : Process(c)

(* The loop dispatches every event that is ready (epoll is level triggered  *)
(* for ttys) and time passes.  Nothing is assumed of clients and processes. *)
Fairness ==
  /\ WF_vars(Tick) /\ WF_vars(BcstttyEvent)
  /\ \A c \in Cmd : WF_vars(CltttyEvent(c))

Spec == Init /\ [][Next]_vars /\ Fairness

-----------------------------------------------------------------------------
(* Properties *)

\* The shape of the state: no buffer is ever filled beyond its capacity
TypeOK ==
  /\ \A t \in Tty : tty[t] \in TtyState
  /\ \A c \in Cmd : cmd[c] \in CmdState /\ cmd[c].since <= Delay[c]
  /\ halt \in BOOLEAN
  /\ spent.bytes \in 0..MaxBytes
  /\ spent.opened \in 0..MaxOpens /\ spent.started \in 0..MaxStarts

\* Every byte read for a command from its client tty and the broadcast tty, and
\* of its stop strings, has been written to its tty or discarded, once, and
\* every byte it has printed to its client tty: the counters that ttyDump and
\* the monitor report agree
Accounting ==
  \A c \in Cmd :
    /\ tty[Clt(c)].rbytes + tty[Bcst].rbytes + cmd[c].stopped =
         tty[Cmdt(c)].wbytes + tty[Cmdt(c)].wdbytes
    /\ tty[Cmdt(c)].rbytes = tty[Clt(c)].wbytes + tty[Clt(c)].wdbytes

\* What all commands have printed has been written to the broadcast tty or
\* discarded there, once
BcstAccounting ==
  tty[Bcst].wbytes + tty[Bcst].wdbytes =
    SumOver([c \in Cmd |-> tty[Cmdt(c)].rbytes], SetToSeq(Cmd))

\* A byte is discarded only while nobody has the tty open or yar has yet to
\* read that it was opened, and put in the buffer only while somebody has it
\* open or yar has yet to read that it was closed; this is so until inotify
\* merges the events of two clients
DiscardJustified ==
  [][\A t \in Tty :
       LET x == tty[t] IN ~x.merged =>
       /\ tty'[t].wdbytes > x.wdbytes =>
            x.holders = 0 \/ \E k \in DOMAIN x.note : x.note[k] = "open"
       /\ tty'[t].wbytes > x.wbytes =>
            x.holders > 0 \/ \E k \in DOMAIN x.note : x.note[k] = "close"]_vars

\* No byte is relayed to the slowest command before its delay is over, whether
\* the bytes come from its own client, from the broadcast tty, or from both
\* (the newline and first character of a stop string are not delayed)
PacedSlowest == ~cmd[Slowest].hurried

\* discards holds "first n discarded data": one copy of each of the first
\* bytes, as long as the count of discarded bytes is an int
DiscardsFirst ==
  \A t \in Tty : tty[t].wdbytes <= IntMax =>
    tty[t].kept = IF tty[t].wdbytes < Size THEN tty[t].wdbytes ELSE Size

\* What clients have written is taken from all client ttys, even if a client
\* has closed its tty meanwhile and however often the commands die
BytesTaken ==
  (\E t \in CltTty : tty[t].in > 0) ~> halt \/ \A t \in CltTty : tty[t].in = 0

\* Only a reader that leaves bytes unread drives yar into NYI: with room for a
\* byte and the stop string, a tty that is read in time never does
HaltsOnlyUnread ==
  halt => \E t \in Tty : tty[t].opens > 0 /\ tty[t].out > 0
=============================================================================

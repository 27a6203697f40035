------------------------------ MODULE Lifecycle ------------------------------
(***************************************************************************)
(* The command babysitter of yar: one event loop (theLoop, main.c) that    *)
(* starts a command's process when its client tty or the broadcast tty is  *)
(* opened, restarts it when it dies, stops it when both ttys are idle, and *)
(* adds and deletes commands on the monitor's orders.                      *)
(*                                                                         *)
(* The loop is a single thread, so one handler is one step.  What runs     *)
(* beside it is the kernel, the clients and the commands' processes; and   *)
(* epoll_wait returns a BATCH of events, fixed when it returns, so that a  *)
(* handler may run after an earlier handler of its batch has changed the   *)
(* very object its event is about.                                         *)
(***************************************************************************)
EXTENDS Integers, Sequences, FiniteSets

CONSTANTS
  Cmd,         \* the names a command may be given
  Initial,     \* the commands given on the command line
  Delay,       \* the pacing delay of each command; 0 is no delay
  Char,        \* the characters a command's process prints
  ReadyStr,    \* GBLS.readystr (-R); the empty sequence if not given
  BcstPath,    \* -b: create the broadcast tty whatever the number of commands
  ExitOnIdle,  \* -x
  Inputs,      \* the monitor commands and signals the environment issues
  Bcst,        \* the broadcast tty
  NoCmd,       \* the null pointer
  Dangling,    \* a pointer to a command that has been freed
  MaxClients,  \* bound: clients that hold one tty open
  MaxOpens,    \* bound: this->opens when one more client opens a tty
  MaxNotify,   \* bound: notifications queued on one inotify descriptor
  MaxPending,  \* bound: bytes a client has written and yar has not read
  MaxOut       \* bound: bytes a process has printed and yar has not read

MonInputs == {"add", "del", "drain", "restart", "idleexit", "exit"}

ASSUME CmdAssumption ==
  /\ IsFiniteSet(Cmd)
  /\ Initial \subseteq Cmd
  /\ Bcst \notin Cmd /\ NoCmd \notin Cmd /\ Dangling \notin Cmd
  /\ NoCmd # Dangling /\ Bcst # NoCmd
  /\ Delay \in [Cmd -> Nat]
ASSUME OptionAssumption ==
  /\ ReadyStr \in Seq(Char)
  /\ BcstPath \in BOOLEAN /\ ExitOnIdle \in BOOLEAN
  /\ Inputs \subseteq MonInputs \cup {"signal"}
ASSUME BoundAssumption ==
  /\ MaxClients \in Nat /\ MaxOpens \in Nat /\ MaxNotify \in Nat
  /\ MaxPending \in Nat /\ MaxOut \in Nat

Tty  == Cmd \cup {Bcst}
RLen == Len(ReadyStr)

VARIABLES
  cmds,          \* GBLS.cmds: the commands in the hash table
  cmd,           \* the command objects, with what the kernel holds for them
  tty,           \* the client ttys and the broadcast tty
  cmdsreadycnt,  \* GBLS.cmdsreadycnt
  slowest,       \* GBLS.slowestcmd
  bcstflg,       \* GBLS.bcstflg: the broadcast tty exists
  restart,       \* GBLS.restart
  exitonidle,    \* GBLS.exitonidle
  cmddelonexit,  \* GBLS.cmddelonexit
  batch,         \* the events of the last epoll_wait still to be dispatched
  draining,      \* the commands monDrain has still to drain
  halt           \* "no", or why the loop has ended

policy == <<restart, exitonidle, cmddelonexit>>
vars == <<cmds, cmd, tty, cmdsreadycnt, slowest, bcstflg, policy, batch,
          draining, halt>>

-----------------------------------------------------------------------------
(* A command object.  pid: this->pid is not -1; watched: this->pidfd is in *)
(* the epoll set; live and zomb: the processes forked for this command     *)
(* that run, and that have exited and not been waited for; out: what was   *)
(* printed on cmdtty and not read.                                         *)
CmdState == [pid : BOOLEAN, watched : BOOLEAN, live : Nat, zomb : Nat,
             readycnt : 0..RLen, deleteonexit : BOOLEAN, out : Seq(Char)]

\* Mutant: deleteonexit is always false at first
cmdInit_Stays(r, delonexit) ==
  [r EXCEPT !.pid = FALSE, !.watched = FALSE, !.readycnt = 0,
            !.deleteonexit = FALSE, !.out = <<>>]

\* cmdInit and cmdCreate; live and zomb are the kernel's and stay
cmdInit(r, delonexit) ==
  [r EXCEPT !.pid = FALSE, !.watched = FALSE, !.readycnt = 0,
            !.deleteonexit = delonexit, !.out = <<>>]

cmdIsReady(r) == RLen = 0 \/ r.readycnt = RLen

\* Mutant: cmdIsRunning is not checked
cmdStart_Unchecked(r) ==
  [r EXCEPT !.pid = TRUE, !.watched = TRUE, !.live = @ + 1, !.readycnt = 0]

\* Mutant: cmdRegisterProcessEvents is not called
cmdStart_Unwatched(r) ==
  IF r.pid THEN r ELSE [r EXCEPT !.pid = TRUE, !.live = @ + 1, !.readycnt = 0]

\* fork, pidfd_open and cmdRegisterProcessEvents
cmdStart(r) ==
  IF r.pid THEN r
  ELSE [r EXCEPT !.pid = TRUE, !.watched = TRUE, !.live = @ + 1,
                 !.readycnt = 0]

\* Mutant: this->readycnt = 0 is missing
ClearReady_Kept(r) == r

\* readycnt is only reset when the command was ready
ClearReady(r) == IF cmdIsReady(r) THEN [r EXCEPT !.readycnt = 0] ELSE r

\* Mutant: the process is killed but not waited for
cmdStop_NoWait(r) ==
  IF ~r.pid THEN r
  ELSE [ClearReady(r) EXCEPT !.pid = FALSE, !.watched = FALSE,
                             !.live = 0, !.zomb = 1]

\* Past the idle checks: the stop string, SIGTERM, then SIGKILL until the
\* process is gone, and waitid.  A process that is a zombie by now is reaped.
cmdStop(r) ==
  IF ~r.pid THEN r
  ELSE [ClearReady(r) EXCEPT
          !.pid = FALSE, !.watched = FALSE,
          !.live = IF r.zomb > 0 THEN @ ELSE @ - 1,
          !.zomb = IF r.zomb > 0 THEN @ - 1 ELSE @]

\* Mutant: this->pid = -1 is missing
Reap_KeepsPid(r) == [ClearReady(r) EXCEPT !.watched = FALSE, !.zomb = @ - 1]

\* The part of cmdPidEvent that precedes its policy decisions
Reap(r) ==
  [ClearReady(r) EXCEPT !.pid = FALSE, !.watched = FALSE, !.zomb = @ - 1]

cmdCleanup(r) ==
  [cmdStop(r) EXCEPT !.deleteonexit = FALSE, !.out = <<>>]

\* One character through cmdttyProcessOutput: only the ready match matters here
cmdttyProcessOutput(r) ==
  [r EXCEPT !.out = Tail(@),
            !.readycnt = IF @ = RLen THEN @
                         ELSE IF ReadyStr[@ + 1] = Head(r.out) THEN @ + 1
                         ELSE 0]

\* What the commands in S that are ready count for in cmdsreadycnt
ReadyIn(S) == IF RLen = 0 THEN 0
              ELSE Cardinality({c \in S : cmdIsReady(cmd[c])})

Running == {c \in Cmd : cmd[c].pid}

-----------------------------------------------------------------------------
(* A client tty or the broadcast tty.  holders: the clients that have it   *)
(* open; notify: the inotify events not read; merged: inotify has dropped  *)
(* an open (an auxiliary field: no action reads it); opens: this->opens;   *)
(* pending: the bytes written by clients and not read.                     *)
TtyState == [holders : Nat, notify : Seq({"open", "close"}), merged : BOOLEAN,
             opens : Nat, pending : Nat]
ClosedTty == [holders |-> 0, notify |-> <<>>, merged |-> FALSE, opens |-> 0,
              pending |-> 0]

ttyIdle(x) == x.opens = 0 /\ x.pending = 0

\* inotify drops an event equal to the last one still queued
Enqueue(q, e) ==
  IF q # <<>> /\ q[Len(q)] = e THEN q ELSE Append(q, e)

\* Mutant: a close throws away what the client had written
ttyNotifyEvent_Flush(x) ==
  [x EXCEPT !.notify = Tail(@),
            !.opens = IF Head(x.notify) = "open" THEN @ + 1
                      ELSE IF @ > 0 THEN @ - 1 ELSE @,
            !.pending = IF Head(x.notify) = "close" THEN 0 ELSE @]

ttyNotifyEvent(x) ==
  [x EXCEPT !.notify = Tail(@),
            !.opens = IF Head(x.notify) = "open" THEN @ + 1
                      ELSE IF @ > 0 THEN @ - 1 ELSE @]

ttyReadChar(x) == [x EXCEPT !.pending = @ - 1]

Ttys == cmds \cup (IF bcstflg THEN {Bcst} ELSE {})

-----------------------------------------------------------------------------
Kinds == {"pidfd", "cmdtty", "clttty", "notify"}
Events == (Kinds \X Tty) \cup ({"freed"} \X Cmd)
          \cup {<<"monitor", NoCmd>>, <<"signal", NoCmd>>}

\* What epoll_wait finds ready
Ready ==
  {<<"pidfd", c>>  : c \in {d \in cmds : cmd[d].watched /\ cmd[d].zomb > 0}}
  \cup {<<"cmdtty", c>> : c \in {d \in cmds : cmd[d].out # <<>>}}
  \cup {<<"clttty", t>> : t \in {u \in Ttys : tty[u].pending > 0}}
  \cup {<<"notify", t>> : t \in {u \in Ttys : tty[u].notify # <<>>}}

\* monEvent has read a whole line, a signal is pending
External == {<<"monitor", NoCmd>> : i \in Inputs \cap MonInputs}
            \cup {<<"signal", NoCmd>> : i \in Inputs \cap {"signal"}}

TypeOK ==
  /\ cmds \subseteq Cmd
  /\ cmd \in [Cmd -> CmdState]
  /\ tty \in [Tty -> TtyState]
  /\ cmdsreadycnt \in Int
  /\ slowest \in Cmd \cup {NoCmd, Dangling}
  /\ bcstflg \in BOOLEAN /\ restart \in BOOLEAN
  /\ exitonidle \in BOOLEAN /\ cmddelonexit \in BOOLEAN
  /\ batch \subseteq Events
  /\ draining \subseteq Cmd
  /\ halt \in {"no", "exit", "freed", "waitid", "readycnt", "slowest"}

Init ==
  /\ cmds = Initial
  /\ cmd = [c \in Cmd |-> [pid |-> FALSE, watched |-> FALSE, live |-> 0,
                           zomb |-> 0, readycnt |-> 0,
                           deleteonexit |-> FALSE, out |-> <<>>]]
  /\ tty = [t \in Tty |-> ClosedTty]
  /\ cmdsreadycnt = 0
  /\ IF Initial = {} THEN slowest = NoCmd
     ELSE /\ slowest \in Initial
          /\ \A c \in Initial : Delay[c] <= Delay[slowest]
  /\ bcstflg = (BcstPath \/ Cardinality(Initial) > 1)
  /\ restart = TRUE
  /\ exitonidle = ExitOnIdle
  /\ cmddelonexit = FALSE
  /\ batch = {} /\ draining = {} /\ halt = "no"

-----------------------------------------------------------------------------
(* The environment: clients and processes *)

EnvTty(t) == /\ halt = "no" /\ t \in Ttys
             /\ UNCHANGED <<cmds, cmd, cmdsreadycnt, slowest, bcstflg, policy,
                            batch, draining, halt>>

Held(x, e, n) ==
  [x EXCEPT !.holders = n, !.notify = Enqueue(@, e),
            !.merged = @ \/ (e = "open" /\ Enqueue(x.notify, e) = x.notify)]

ClientHolds(t, e, n) ==
  /\ Len(Enqueue(tty[t].notify, e)) <= MaxNotify
  /\ tty' = [tty EXCEPT ![t] = Held(@, e, n)]

ClientOpen(t) ==
  /\ EnvTty(t)
  /\ tty[t].holders < MaxClients /\ tty[t].opens < MaxOpens
  /\ ClientHolds(t, "open", tty[t].holders + 1)

ClientClose(t) ==
  /\ EnvTty(t)
  /\ tty[t].holders > 0
  /\ ClientHolds(t, "close", tty[t].holders - 1)

Written(x) == [x EXCEPT !.pending = @ + 1]

ClientWrite(t) ==
  /\ EnvTty(t)
  /\ tty[t].holders > 0 /\ tty[t].pending < MaxPending
  /\ tty' = [tty EXCEPT ![t] = Written(@)]

EnvCmd == /\ halt = "no"
          /\ UNCHANGED <<cmds, tty, cmdsreadycnt, slowest, bcstflg, policy,
                         batch, draining, halt>>

Printed(r, ch) == [r EXCEPT !.out = Append(@, ch)]

ProcOutput(c, ch) ==
  /\ EnvCmd
  /\ cmd[c].live > 0 /\ Len(cmd[c].out) < MaxOut
  /\ cmd' = [cmd EXCEPT ![c] = Printed(@, ch)]

Exited(r) == [r EXCEPT !.live = @ - 1, !.zomb = @ + 1]

ProcExit(c) ==
  /\ EnvCmd
  /\ cmd[c].live > 0
  /\ cmd' = [cmd EXCEPT ![c] = Exited(@)]

Env == \/ \E t \in Tty : ClientOpen(t) \/ ClientClose(t) \/ ClientWrite(t)
       \/ \E c \in Cmd : ProcExit(c) \/ \E ch \in Char : ProcOutput(c, ch)

-----------------------------------------------------------------------------
(* The loop *)

EpollWait ==
  /\ halt = "no" /\ batch = {} /\ draining = {}
  /\ \E ext \in SUBSET External :
       /\ Ready \cup ext # {}
       /\ batch' = Ready \cup ext
  /\ UNCHANGED <<cmds, cmd, tty, cmdsreadycnt, slowest, bcstflg, policy,
                 draining, halt>>

\* theLoop calls the handler of one event of the batch
Dispatch(e) == halt = "no" /\ draining = {} /\ e \in batch

Done(e) == batch' = batch \ {e}

Abort(why, e) ==
  /\ halt' = why /\ Done(e)
  /\ UNCHANGED <<cmds, cmd, tty, cmdsreadycnt, slowest, bcstflg, policy,
                 draining>>

\* HASH_ITER: cmdStart on every command in S
StartCmds(S) ==
  /\ cmd' = [c \in Cmd |-> IF c \in S THEN cmdStart(cmd[c]) ELSE cmd[c]]
  /\ UNCHANGED cmdsreadycnt

\* Mutant: the broadcast tty is not asked
StopCmds_OwnTtyOnly(S) ==
  LET stopped == {c \in S : cmd[c].pid /\ ttyIdle(tty'[c])}
  IN  /\ cmd' = [c \in Cmd |->
                   IF c \in stopped THEN cmdStop(cmd[c]) ELSE cmd[c]]
      /\ cmdsreadycnt' = cmdsreadycnt - ReadyIn(stopped)

\* HASH_ITER: cmdStop, not forced, on every command in S, after the handler
\* has changed the ttys
StopCmds(S) ==
  LET stopped == {c \in S : /\ cmd[c].pid
                            /\ ttyIdle(tty'[c]) /\ ttyIdle(tty'[Bcst])}
  IN  /\ cmd' = [c \in Cmd |->
                   IF c \in stopped THEN cmdStop(cmd[c]) ELSE cmd[c]]
      /\ cmdsreadycnt' = cmdsreadycnt - ReadyIn(stopped)

\* cleanup, by exit or before it: every command goes, stopped by force
CleanupAll ==
  /\ cmd' = [c \in Cmd |-> IF c \in cmds THEN cmdCleanup(cmd[c]) ELSE cmd[c]]
  /\ cmdsreadycnt' = cmdsreadycnt - ReadyIn(cmds \cap Running)
  /\ cmds' = {} /\ slowest' = NoCmd
  /\ tty' = [t \in Tty |-> ClosedTty]
  /\ batch' = {} /\ halt' = "exit"
  /\ UNCHANGED <<bcstflg, restart, draining>>

\* Mutant: nobody looks whether that was the last command
RemoveCmd_Stays(c, r, e) ==
  /\ cmds' = cmds \ {c}
  /\ cmd' = [cmd EXCEPT ![c] = cmdCleanup(r)]
  /\ slowest' = IF slowest = c THEN Dangling ELSE slowest
  /\ tty' = [tty EXCEPT ![c] = ClosedTty]
  /\ batch' = {IF f[2] = c THEN <<"freed", c>> ELSE f : f \in batch \ {e}}
  /\ UNCHANGED <<bcstflg, policy, draining, halt>>

\* The command is cleaned up, taken off the hash table and freed.  Events of
\* the batch that point into it are left there; slowest is not looked at.
RemoveCmd(c, r, e) ==
  /\ cmds' = cmds \ {c}
  /\ cmd' = [cmd EXCEPT ![c] = cmdCleanup(r)]
  /\ IF cmds' = {} /\ exitonidle
     THEN /\ slowest' = NoCmd
          /\ tty' = [t \in Tty |-> ClosedTty]
          /\ batch' = {} /\ halt' = "exit"
     ELSE /\ slowest' = IF slowest = c THEN Dangling ELSE slowest
          /\ tty' = [tty EXCEPT ![c] = ClosedTty]
          /\ batch' = {IF f[2] = c THEN <<"freed", c>> ELSE f : f \in batch \ {e}}
          /\ UNCHANGED halt
  /\ UNCHANGED <<bcstflg, policy, draining>>

\* cmdPidEvent.  The event may be older than this->pidfd: waitid then has no
\* child to report, on -1 or on the non-blocking pidfd of a new process.
\* (EPOLLET changes nothing: each event Ready offers is dispatched, and reaps
\* or aborts, before the next epoll_wait.)
PidEvent(c) ==
  LET e == <<"pidfd", c>> IN
  /\ Dispatch(e)
  /\ \/ /\ ~(cmd[c].pid /\ cmd[c].zomb > 0)
        /\ Abort("waitid", e)
     \/ /\ cmd[c].pid /\ cmd[c].zomb > 0
        /\ cmdsreadycnt' = cmdsreadycnt - ReadyIn({c})
        /\ \/ /\ cmd[c].deleteonexit
              /\ RemoveCmd(c, Reap(cmd[c]), e)
           \/ /\ ~cmd[c].deleteonexit
              /\ cmd' = [cmd EXCEPT ![c] = IF restart
                                           THEN cmdStart(Reap(@))
                                           ELSE Reap(@)]
              /\ Done(e)
              /\ UNCHANGED <<cmds, tty, slowest, bcstflg, policy, draining,
                             halt>>

\* cmdCmdttyEvent; monDrain calls the same function for every command
Output(c) ==
  /\ IF cmd[c].out = <<>>
     THEN UNCHANGED <<cmd, cmdsreadycnt, halt>>
     ELSE LET r == cmdttyProcessOutput(cmd[c])
              n == IF cmd[c].readycnt < RLen /\ r.readycnt = RLen
                   THEN cmdsreadycnt + 1 ELSE cmdsreadycnt
          IN  /\ cmd' = [cmd EXCEPT ![c] = r]
              /\ cmdsreadycnt' = n
              /\ halt' = IF n > cmdsreadycnt /\ n > Cardinality(cmds)
                         THEN "readycnt" ELSE halt
  /\ UNCHANGED <<cmds, tty, slowest, bcstflg, policy>>

CmdttyEvent(c) ==
  LET e == <<"cmdtty", c>> IN
  /\ Dispatch(e)
  /\ Output(c)
  /\ Done(e)
  /\ UNCHANGED draining

\* Mutant: no cmdStop after the byte
CltttyEvent_NoStop(c) ==
  LET e == <<"clttty", c>> IN
  /\ Dispatch(e)
  /\ cmdIsReady(cmd[c])
  /\ tty' = [tty EXCEPT ![c] = ttyReadChar(@)]
  /\ Done(e)
  /\ UNCHANGED <<cmds, cmd, cmdsreadycnt, slowest, bcstflg, policy, draining,
                 halt>>

\* cmdCltttyEvent: one byte if the command is ready and its delay has passed,
\* and cmdStop in case that byte was all the tty was waiting for
CltttyEvent(c) ==
  LET e == <<"clttty", c>> IN
  /\ Dispatch(e)
  /\ \/ /\ ~cmdIsReady(cmd[c]) \/ Delay[c] > 0
        /\ UNCHANGED <<cmd, tty, cmdsreadycnt>>
     \/ /\ cmdIsReady(cmd[c])
        /\ tty' = [tty EXCEPT ![c] = ttyReadChar(@)]
        /\ StopCmds({c})
  /\ Done(e)
  /\ UNCHANGED <<cmds, slowest, bcstflg, policy, draining, halt>>

\* ttyNotifyEvent with cmdCltttyNotify or bcstttyNotify as its second half
Notified(t, S) ==
  LET e == <<"notify", t>> IN
  /\ Dispatch(e)
  /\ tty' = [tty EXCEPT ![t] = ttyNotifyEvent(@)]
  /\ IF Head(tty[t].notify) = "open" THEN StartCmds(S) ELSE StopCmds(S)
  /\ Done(e)
  /\ UNCHANGED <<cmds, slowest, bcstflg, policy, draining, halt>>

CltttyNotify(c) == Notified(c, {c})
BcstttyNotify == Notified(Bcst, cmds)

\* bcstttyEvent: paced as slowestcmd is.  Reading a freed command's delay may
\* yield any value.  No command is stopped here.
BcstttyEvent ==
  LET e == <<"clttty", Bcst>> IN
  /\ Dispatch(e)
  /\ \/ /\ RLen > 0 /\ cmdsreadycnt < Cardinality(cmds)
        /\ Done(e)
        /\ UNCHANGED <<cmds, cmd, tty, cmdsreadycnt, slowest, bcstflg, policy,
                       draining, halt>>
     \/ /\ ~(RLen > 0 /\ cmdsreadycnt < Cardinality(cmds))
        /\ slowest = NoCmd
        /\ Abort("slowest", e)
     \/ /\ ~(RLen > 0 /\ cmdsreadycnt < Cardinality(cmds))
        /\ slowest # NoCmd
        /\ \/ /\ slowest \in Cmd => Delay[slowest] > 0
              /\ UNCHANGED tty
           \/ tty' = [tty EXCEPT ![Bcst] = ttyReadChar(@)]
        /\ Done(e)
        /\ UNCHANGED <<cmds, cmd, cmdsreadycnt, slowest, bcstflg, policy,
                       draining, halt>>

\* theLoop on an event whose descriptor was part of a freed command: zeroed by
\* cmdCleanup, so that assert(ed->hdlr) fails, unless the memory is reused
FreedEvent(c) ==
  LET e == <<"freed", c>> IN
  /\ Dispatch(e)
  /\ \/ Abort("freed", e)
     \/ /\ Done(e)
        /\ UNCHANGED <<cmds, cmd, tty, cmdsreadycnt, slowest, bcstflg, policy,
                       draining, halt>>

-----------------------------------------------------------------------------
(* The monitor: monProcess on one line *)

Mon(i) == i \in Inputs /\ Dispatch(<<"monitor", NoCmd>>)
MonDone == Done(<<"monitor", NoCmd>>)

\* Mutant: the comparison is the wrong way round
SlowestOf_Fastest(c) ==
  IF slowest \notin Cmd THEN {c}
  ELSE IF Delay[c] < Delay[slowest] THEN {c} ELSE {slowest}

\* GBLSAddCmd's choice; slowestcmd->delay of a freed command is any value
SlowestOf(c) ==
  IF slowest = NoCmd THEN {c}
  ELSE IF slowest = Dangling THEN {c, Dangling}
  ELSE IF Delay[c] > Delay[slowest] THEN {c} ELSE {slowest}

\* Mutant: a command added while the broadcast tty is open is not started
MonAdd_NoStart(c) ==
  /\ Mon("add") /\ MonDone
  /\ c \notin cmds
  /\ cmds' = cmds \cup {c}
  /\ slowest' \in SlowestOf(c)
  /\ bcstflg' = (bcstflg \/ Cardinality(cmds') > 1)
  /\ cmd' = [cmd EXCEPT ![c] = cmdInit(@, cmddelonexit)]
  /\ UNCHANGED <<tty, cmdsreadycnt, policy, draining, halt>>

MonAdd(c) ==
  /\ Mon("add") /\ MonDone
  /\ c \notin cmds
  /\ cmds' = cmds \cup {c}
  /\ slowest' \in SlowestOf(c)
  /\ LET r == cmdInit(cmd[c], cmddelonexit)
         makebcst == ~bcstflg /\ Cardinality(cmds') > 1
     IN  /\ bcstflg' = (bcstflg \/ makebcst)
         /\ cmd' = [cmd EXCEPT ![c] = IF ~makebcst /\ tty[Bcst].opens > 0
                                      THEN cmdStart(r) ELSE r]
  /\ UNCHANGED <<tty, cmdsreadycnt, policy, draining, halt>>

MonDel(c) ==
  /\ Mon("del")
  /\ c \in cmds
  /\ cmdsreadycnt' = cmdsreadycnt - ReadyIn({c} \cap Running)
  /\ RemoveCmd(c, cmd[c], <<"monitor", NoCmd>>)

\* A name that is taken, or not there
MonRefused(c) ==
  /\ \/ Mon("add") /\ c \in cmds
     \/ Mon("del") /\ c \notin cmds
  /\ MonDone
  /\ UNCHANGED <<cmds, cmd, tty, cmdsreadycnt, slowest, bcstflg, policy,
                 draining, halt>>

\* monDrain reads each command's output until there is none; processes print
\* meanwhile
MonDrain ==
  /\ Mon("drain") /\ MonDone
  /\ draining' = cmds
  /\ UNCHANGED <<cmds, cmd, tty, cmdsreadycnt, slowest, bcstflg, policy, halt>>

DrainStep(c) ==
  /\ halt = "no" /\ c \in draining
  /\ Output(c)
  /\ draining' = IF cmd[c].out = <<>> THEN draining \ {c} ELSE draining
  /\ UNCHANGED batch

MonToggleRestart ==
  /\ Mon("restart") /\ MonDone
  /\ restart' = ~restart
  /\ UNCHANGED <<cmds, cmd, tty, cmdsreadycnt, slowest, bcstflg, exitonidle,
                 cmddelonexit, draining, halt>>

MonIdleExit ==
  /\ Mon("idleexit")
  /\ exitonidle' = TRUE /\ cmddelonexit' = TRUE
  /\ \/ /\ cmds = {}
        /\ CleanupAll
     \/ /\ cmds # {}
        /\ cmd' = [c \in Cmd |-> IF c \in cmds
                                 THEN [cmd[c] EXCEPT !.deleteonexit = TRUE]
                                 ELSE cmd[c]]
        /\ MonDone
        /\ UNCHANGED <<cmds, tty, cmdsreadycnt, slowest, bcstflg, restart,
                       draining, halt>>

\* exit(), and atexit cleans up
MonExit ==
  Mon("exit") /\ CleanupAll /\ UNCHANGED <<exitonidle, cmddelonexit>>

\* sigEvent returns EVNT_HDLR_EXIT_LOOP; main returns and atexit cleans up
SigEvent ==
  /\ Dispatch(<<"signal", NoCmd>>)
  /\ CleanupAll
  /\ UNCHANGED <<exitonidle, cmddelonexit>>

Handler ==
  \/ \E c \in Cmd : \/ PidEvent(c) \/ CmdttyEvent(c) \/ CltttyEvent(c)
                    \/ CltttyNotify(c) \/ FreedEvent(c)
                    \/ MonAdd(c) \/ MonDel(c) \/ MonRefused(c)
                    \/ DrainStep(c)
  \/ BcstttyEvent \/ BcstttyNotify
  \/ MonDrain \/ MonToggleRestart \/ MonIdleExit \/ MonExit \/ SigEvent

Halted == halt # "no" /\ UNCHANGED vars

Loop == EpollWait \/ Handler

Next == Env \/ Loop \/ Halted

Spec == Init /\ [][Next]_vars

\* The loop never sleeps while an event is ready, and its handlers return
FairSpec == Spec /\ WF_vars(Loop)

-----------------------------------------------------------------------------
(* Safety *)

Tracked(r) ==
  /\ r.live + r.zomb = IF r.pid THEN 1 ELSE 0
  /\ r.watched = r.pid

\* A command has one process, tracked by its pid and watched by its pidfd, or
\* none: cmdStart, cmdStop and cmdPidEvent between them never fork a second
\* instance, lose a child, or leave one whose death nobody would notice.
OneProcess ==
  \A c \in Cmd : Tracked(cmd[c]) /\ (cmd[c].pid => c \in cmds)

\* The byte or the notification an event of the batch announced has not been
\* taken by an earlier handler of the batch.  (Reading an empty descriptor
\* makes ttyNotifyEvent abort and cmdCltttyEvent relay a byte nobody wrote.)
\* This is about ttys that exist: the events of a freed command are the
\* subject of NoFreedEvent, those of a process already reaped that of
\* NoStalePidEvent, and the code breaks both.
EventsFresh ==
  \A e \in batch :
    /\ e[1] = "clttty" => tty[e[2]].pending > 0
    /\ e[1] = "notify" => tty[e[2]].notify # <<>>

\* cmdsreadycnt is never less than the number of commands that are ready, so
\* that the asserts of cmdPidEvent and cmdStop (cmdsreadycnt >= 0) never fire
\* and a broadcast is never held back although every command is ready.
ReadyNotLost == cmdsreadycnt >= ReadyIn(cmds)

StartQueued(x) == \E i \in 1..Len(x.notify) : x.notify[i] = "open"

Driven(c) ==
  \A t \in {c, Bcst} :
    tty[t].holders > 0 /\ ~tty[t].merged => cmd[c].pid \/ StartQueued(tty[t])

\* yar abandons no client whose open it was told of: a command whose tty or
\* broadcast tty is held open by any number of clients has a process, or the
\* notification that will start it is queued, from the moment it is added,
\* and no step ends that but a death with restart off.  Closes may come in
\* any order and be merged; only an open that inotify merged into an earlier
\* one is lost: opens then falls short of the clients there are, and the first
\* close is taken for the last.
NotAbandoned ==
  [][\A c \in cmds' :
       halt' = "no" /\ (c \in cmds => Driven(c))
         => \/ Driven(c)'
            \/ cmd[c].zomb > 0 /\ ~restart]_vars

\* exit, whichever way the loop ends, leaves no process behind and none
\* unreaped.
ExitReapsAll ==
  halt = "exit" => \A c \in Cmd : cmd[c].live = 0 /\ cmd[c].zomb = 0

Paced ==
  IF cmds = {} THEN slowest = NoCmd
  ELSE /\ slowest \in cmds
       /\ \A c \in cmds : Delay[c] <= Delay[slowest]

\* Broadcast reads are paced by the slowest of the current commands, until
\* that very command is deleted (by monDel or on exit): GBLSAddCmd keeps
\* slowestcmd right, and no other delete disturbs it.
PacedUntilDeleted == [][Paced => Paced' \/ slowest \in cmds \ cmds']_vars

\* A command loses its process only when yar knows both its tty and the
\* broadcast tty to be idle, when it is deleted, or when it died and restart
\* is off.
StopsOnlyWhenIdle ==
  [][\A c \in Cmd : cmd[c].pid /\ ~cmd'[c].pid =>
       \/ ttyIdle(tty'[c]) /\ ttyIdle(tty'[Bcst])
       \/ c \notin cmds'
       \/ cmd[c].zomb > 0 /\ ~restart]_vars

\* After idleexit a process that has died is not replaced: the command goes
\* with it, those added later too (cmddelonexit), unless cmdStop was first to
\* find it dead because both ttys had become idle.  And with idleexit or -x
\* the last command to go, by its exit or by del, takes yar with it.
DeathsWindDown ==
  [][/\ cmddelonexit =>
          \A c \in cmds' : cmd[c].zomb > 0 /\ cmd'[c].zomb = 0
                             => ttyIdle(tty'[c]) /\ ttyIdle(tty'[Bcst])
     /\ exitonidle /\ cmds # {} /\ cmds' = {} => halt' = "exit"]_vars

\* After idleexit a command whose process has terminated, in whatever way, is
\* deleted: "exit when command lines terminate" (main.c).
TerminatedGo ==
  [][cmddelonexit => \A c \in Cmd : cmd[c].pid /\ ~cmd'[c].pid
                                      => c \notin cmds']_vars

\* theLoop finds the handler registered for every event it is given: its
\* assert(ed->hdlr) never fails.
NoFreedEvent == halt # "freed"

\* cmdPidEvent is only called for a process that has died and has not been
\* waited for.
NoStalePidEvent == halt # "waitid"

-----------------------------------------------------------------------------
(* Liveness, under FairSpec *)

Up == halt = "no"

\* The death of a process is always noticed.
ExitHandled ==
  \A c \in Cmd : (Up /\ cmd[c].zomb > 0) ~> (~Up \/ cmd[c].zomb = 0)

\* Whoever keeps a tty open gets a running process.
OpenStarts ==
  \A c \in Cmd : \A t \in {c, Bcst} :
    (Up /\ c \in cmds /\ tty[t].holders > 0)
      ~> (~Up \/ c \notin cmds \/ tty[t].holders = 0 \/ cmd[c].live > 0)

\* Once no client has any tty open, every command is stopped.
AllClosedStops ==
  \A c \in Cmd : (Up /\ \A t \in Tty : tty[t].holders = 0)
      ~> (~Up \/ ~cmd[c].pid \/ \E t \in Tty : tty[t].holders > 0)

=============================================================================

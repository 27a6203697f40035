------------------------------ MODULE Resources ------------------------------
(***************************************************************************)
(* What yar takes from the system and gives back: file descriptors and     *)
(* names in the file system.  main takes them in a fixed order (monitor    *)
(* tty, mount point, initial commands, broadcast tty), the loop takes and  *)
(* returns those of commands and processes, and cleanup returns the rest.  *)
(* Every step of ttyCreate may fail half way.                              *)
(*                                                                         *)
(* When a command's process starts, dies or is stopped is the business of  *)
(* Lifecycle; here it may start whenever it does not run, and be stopped   *)
(* whenever it does.                                                       *)
(***************************************************************************)
EXTENDS Integers, Sequences, FiniteSets

CONSTANTS
  Cmd,       \* the names commands may be given
  Initial,   \* the commands on the command line, in order
  Explicit,  \* the commands whose specification says where the link goes
  UseLog,    \* -L or -D: there is a log directory
  Path,      \* names in the file system
  Links,     \* for each tty the names it makes: link, extralink1, extralink2
  MntPt,     \* the name of the mount point
  NFd,       \* the descriptors yar may have open besides its first ones
  Faults,    \* the calls of ttyCreate and fsCreate that may fail
  MaxUser,   \* bound: files made or removed by others
  MaxLost,   \* bound: faults and deaths end when so many descriptors are lost
  MaxOps     \* bound: commands added and processes started by the loop

Mon  == <<"mon", "tty">>
Bcst == <<"bcst", "tty">>
Clt(c)  == <<"clttty", c>>
Cmdt(c) == <<"cmdtty", c>>
Tty == {Mon, Bcst} \cup {Clt(c) : c \in Cmd} \cup {Cmdt(c) : c \in Cmd}
Fd  == 0..NFd - 1

ASSUME ResourceAssumption ==
  /\ Initial \in Seq(Cmd) /\ {NFd, MaxUser, MaxLost, MaxOps} \subseteq Nat
  /\ MntPt \in Path /\ IsFiniteSet(Path)
  /\ \A t \in Tty : Links[t] \in Seq(Path)
  /\ \A c \in Cmd : Links[Cmdt(c)] = <<>>

VARIABLES
  phase,    \* how far main has come; "exited" or "aborted" at the end
  next,     \* the next initial command to create
  fds,      \* the descriptor table: what is open at each number
  path,     \* what each name is: nothing, another's file, or a tty's link
  tty,      \* the tty_t of each tty
  mkdir,    \* fs.mkdir: the mount point has been made
  cmds,     \* GBLS.cmds
  proc,     \* each command's process, as yar sees it, and its pidfd
  bcstflg, exitonidle, delonexit,   \* policies of GBLS and of the commands
  logfree,  \* how often logdir has been freed
  user,     \* ghost: files others have made or removed
  ops,      \* ghost: commands added and processes started
  lost      \* ghost: open descriptors whose number has been forgotten

vars == <<phase, next, fds, path, tty, mkdir, cmds, proc, bcstflg, exitonidle,
          delonexit, logfree, user, ops, lost>>
policy == <<bcstflg, exitonidle, delonexit>>

\* What descriptors and names are for: the resource part of the state, on
\* which the operations below work one after the other
R == [fds |-> fds, path |-> path, tty |-> tty, proc |-> proc, lost |-> lost]
Becomes(r) == /\ fds' = r.fds /\ path' = r.path /\ tty' = r.tty
              /\ proc' = r.proc /\ lost' = r.lost

Unused == <<"unused">>
Gone   == <<"gone">>      \* no such name
File   == <<"file">>      \* made by others
Broken == <<"broken">>    \* a dangling symbolic link made by others
Mount  == <<"mount">>     \* the mount point
Link(t, k) == <<"link", t, k>>   \* the k-th name of tty t

-----------------------------------------------------------------------------
(* Descriptors *)

Full(r)   == \A n \in Fd : r.fds[n] # Unused
Lowest(r) == CHOOSE n \in Fd : /\ r.fds[n] = Unused
                               /\ \A m \in Fd : r.fds[m] = Unused => n <= m
Opened(r, what) == [r EXCEPT !.fds[Lowest(r)] = what]

-----------------------------------------------------------------------------
(* tty_t: linked is link # NULL, -1 is no descriptor *)

NoTty == [linked |-> FALSE, dfd |-> -1, sfd |-> -1, ifd |-> -1]
ttyInit(r, t) == [r EXCEPT !.tty[t] = [NoTty EXCEPT !.linked = TRUE]]

Names(t)  == {Links[t][k] : k \in DOMAIN Links[t]}
Fields(x) == {x.dfd, x.sfd, x.ifd} \ {-1}

\* access() follows links: the first of a tty leads to its pty, the second to
\* the link of the monitor tty, the third to the mount point
Exists(r, p) ==
  CASE r.path[p] \in {Gone, Broken} -> FALSE
    [] r.path[p] \in {File, Mount}  -> TRUE
    [] OTHER -> r.path[p][3] = 2 => r.path[Links[Mon][1]] \notin {Gone, Broken}

\* ttyCleanup of each tty in T: the descriptors in its fields are closed and
\* its names unlinked, whoever has made them (but not a directory); then the
\* fields are reset
Closed(r, T) == [n \in Fd |-> IF \E t \in T : n \in Fields(r.tty[t])
                              THEN Unused ELSE r.fds[n]]
Unlinked(r, P) == [p \in Path |-> IF p \in P /\ r.path[p] # Mount THEN Gone
                                  ELSE r.path[p]]
NamesOf(r, T)  == UNION {Names(t) : t \in {u \in T : r.tty[u].linked}}

\* Mutant: the fields keep the closed descriptors
ttyCleanup_Stale(r, T) ==
  [r EXCEPT !.fds = Closed(r, T), !.path = Unlinked(r, NamesOf(r, T)),
            !.tty = [t \in Tty |-> [@[t] EXCEPT !.linked = @ /\ t \notin T]]]

\* Mutant: where a second name leads is unlinked too
ttyCleanup_Dst(r, T) ==
  [r EXCEPT !.fds = Closed(r, T),
            !.path = Unlinked(r, NamesOf(r, T) \cup
                       (IF \E t \in T : r.tty[t].linked /\ Len(Links[t]) > 1
                        THEN {Links[Mon][1]} ELSE {})),
            !.tty = [t \in Tty |-> IF t \in T THEN NoTty ELSE @[t]]]

ttyCleanup(r, T) ==
  [r EXCEPT !.fds = Closed(r, T), !.path = Unlinked(r, NamesOf(r, T)),
            !.tty = [t \in Tty |-> IF t \in T THEN NoTty ELSE @[t]]]

Failed(r, t) == [ok |-> FALSE, r |-> ttyCleanup(r, {t})]

\* The sub side is open, but only in a local variable until the very end
FailedLate(r, t, sfd) == Failed([r EXCEPT !.lost = @ \cup {sfd}], t)

\* The parts of ttyCreate that take something: openpt, the links, inotify
OpenDom(r, t) == [Opened(r, <<t, "dfd">>) EXCEPT !.tty[t].dfd = Lowest(r)]
OpenIno(r, t) == [Opened(r, <<t, "ifd">>) EXCEPT !.tty[t].ifd = Lowest(r)]
MakeLinks(r, t) ==
  [r EXCEPT !.path = [p \in Path |->
     IF p \in Names(t)
     THEN Link(t, CHOOSE k \in DOMAIN Links[t] : Links[t][k] = p)
     ELSE @[p]]]

\* ttyCreate: the names are looked at, the dom side, the sub side, the links
\* (which a dangling link is in the way of), the inotify descriptor, the watch
ttyCreate(r, t, fault) ==
  LET r1 == OpenDom(r, t)
      r2 == Opened(r1, <<t, "sfd">>)
      r3 == MakeLinks(r2, t)
      r4 == OpenIno(r3, t)
  IN  IF \E p \in Names(t) : Exists(r, p) THEN Failed(r, t)
      ELSE IF Full(r) \/ fault = "pty" THEN Failed(r, t)
      ELSE IF Full(r1) \/ fault = "sub" THEN Failed(r1, t)
      ELSE IF \E p \in Names(t) : r.path[p] # Gone THEN FailedLate(r2, t, Lowest(r1))
      ELSE IF Full(r3) \/ fault = "inotify" THEN FailedLate(r3, t, Lowest(r1))
      ELSE IF fault = "watch" THEN FailedLate(r4, t, Lowest(r1))
      ELSE [ok |-> TRUE,
            r |-> [r4 EXCEPT !.tty[t].sfd = Lowest(r1)]]

\* A fault strikes the first, second or third tty of an operation
At(fault, k) == IF fault[1] = k THEN fault[2] ELSE "none"

\* cmdInit and cmdCreate; if one tty fails, cmdCleanup takes the other down
cmdCreate(r, c, fault) ==
  LET a == ttyCreate(ttyInit(r, Clt(c)), Clt(c), At(fault, 1))
      b == ttyCreate(a.r, Cmdt(c), At(fault, 2))
      ttys == {Clt(c), Cmdt(c)}
  IN  IF ~a.ok THEN [ok |-> FALSE, r |-> ttyCleanup(a.r, ttys)]
      ELSE IF ~b.ok THEN [ok |-> FALSE, r |-> ttyCleanup(b.r, ttys)]
      ELSE b

\* GBLSAddCmd of a new command.  cmdspecParse looks at a link the specification
\* names, and touches nothing if it is there; a link left to cmdInit is only
\* looked at by ttyCreate.
GBLSAddCmd(r, c, fault) ==
  IF c \in Explicit /\ Exists(r, Links[Clt(c)][1]) THEN [ok |-> FALSE, r |-> r]
  ELSE cmdCreate(r, c, fault)

-----------------------------------------------------------------------------
(* Processes: -1 is not running; died is a death yar has not heard of *)

NoProc == [died |-> FALSE, pidfd |-> -1]
Running(c) == proc[c].pidfd # -1

\* The arguments have been parsed: the links they name did not exist then
ArgsParsed ==
  /\ \A k \in DOMAIN Initial :
       Initial[k] \in Explicit => path[Links[Clt(Initial[k])][1]] # File
  /\ bcstflg /\ Len(Initial) <= 1 => path[Links[Bcst][1]] # File   \* -b

\* Without -x: exitonidle and cmddelonexit are then always equal
Init ==
  /\ phase = "mon" /\ next = 1
  /\ fds = [n \in Fd |-> Unused]
  /\ path \in [Path -> {Gone, File, Broken}]
  /\ Cardinality({p \in Path : path[p] # Gone}) <= MaxUser
  /\ tty = [t \in Tty |-> NoTty]
  /\ mkdir = FALSE /\ cmds = {}
  /\ proc = [c \in Cmd |-> NoProc]
  /\ bcstflg \in BOOLEAN /\ (Len(Initial) > 1 => bcstflg)   \* or -b
  /\ ArgsParsed
  /\ exitonidle = FALSE /\ delonexit = {}
  /\ logfree = 0 /\ ops = 0 /\ lost = {}
  /\ user = Cardinality({p \in Path : path[p] # Gone})

\* Mutant: cmdStop does not close the pidfd
StopAll_Open(r, C) ==
  [r EXCEPT !.proc = [c \in Cmd |-> IF c \in C THEN NoProc ELSE @[c]]]

\* cmdStop of the commands in C, as it touches the descriptors
StopAll(r, C) ==
  [r EXCEPT !.fds = [n \in Fd |->
              IF \E c \in C : r.proc[c].pidfd = n THEN Unused ELSE @[n]],
            !.proc = [c \in Cmd |-> IF c \in C THEN NoProc ELSE @[c]]]

\* Mutant: the processes are not stopped
CleanCmds_Runs(r, C) ==
  ttyCleanup(r, {Clt(c) : c \in C} \cup {Cmdt(c) : c \in C})

\* cmdCleanup of the commands in C
CleanCmds(r, C) ==
  ttyCleanup(StopAll(r, C), {Clt(c) : c \in C} \cup {Cmdt(c) : c \in C})

\* Mutant: the monitor tty is forgotten
CleanedUp_NoMon(r, B) ==
  ttyCleanup(CleanCmds(r, cmds), B)

\* cleanup: broadcast tty, commands, file system, monitor tty
CleanedUp(r, B) ==
  LET q == ttyCleanup(CleanCmds(r, cmds), B \cup {Mon})
  IN  IF mkdir THEN [q EXCEPT !.path[MntPt] = Gone] ELSE q

\* cleanup, run n times: by exit, and before it by those who call it
\* themselves.  Everything is null the second time but logdir, which is freed again:
\* the pointer that is reset with it is logpath.
Exit(r, n) ==
  /\ phase' = "exited"
  /\ Becomes(CleanedUp(r, IF bcstflg THEN {Bcst} ELSE {}))
  /\ mkdir' = FALSE /\ cmds' = {}
  /\ logfree' = IF UseLog THEN n ELSE 0

\* An assert fails: no clean-up
Abort ==
  /\ phase' = "aborted"
  /\ UNCHANGED <<next, fds, path, tty, mkdir, cmds, proc, policy, logfree,
                 user, ops, lost>>

-----------------------------------------------------------------------------
(* main: each step creates one resource; the errors end in EEXIT *)

Fault == {<<0, "none">>} \cup
         (IF Cardinality(lost) < MaxLost THEN (1..3) \X Faults ELSE {})

StartMon ==
  /\ phase = "mon"
  /\ \E f \in Fault :
       LET a == ttyCreate(ttyInit(R, Mon), Mon, At(f, 1))
       IN  IF a.ok
           THEN /\ Becomes(a.r) /\ phase' = "fs"
                /\ UNCHANGED <<mkdir, cmds, policy, logfree>>
           ELSE Exit(a.r, 1) /\ UNCHANGED policy
  /\ UNCHANGED <<next, user, ops>>

\* fsCreate: mkdir, then the mount
StartFs ==
  /\ phase = "fs"
  /\ \/ /\ path[MntPt] # Gone
        /\ Exit(R, 1) /\ UNCHANGED policy
     \/ /\ path[MntPt] = Gone
        /\ phase' = "cmds" /\ mkdir' = TRUE
        /\ Becomes([R EXCEPT !.path[MntPt] = Mount])
        /\ UNCHANGED <<cmds, policy, logfree>>
     \/ /\ path[MntPt] = Gone /\ "mount" \in Faults
        /\ Exit(R, 1) /\ UNCHANGED policy
  /\ UNCHANGED <<next, user, ops>>

\* GBLSAddCmd on the next initial command; an assert ends yar if it fails or
\* the name is already used
StartCmd ==
  /\ phase = "cmds" /\ next <= Len(Initial)
  /\ \E f \in Fault :
       LET c == Initial[next]
           a == IF c \in cmds THEN [ok |-> FALSE, r |-> R]
                ELSE GBLSAddCmd(R, c, f)
       IN  IF a.ok
           THEN /\ Becomes(a.r)
                /\ cmds' = cmds \cup {c} /\ next' = next + 1
                /\ UNCHANGED phase
           ELSE /\ Becomes(a.r) /\ phase' = "aborted"
                /\ UNCHANGED <<cmds, next>>
  /\ UNCHANGED <<mkdir, policy, logfree, user, ops>>

\* bcstttyCreate, if the broadcast tty is wanted, then the loop
StartBcst ==
  /\ phase = "cmds" /\ next > Len(Initial)
  /\ \E f \in Fault :
       LET a == ttyCreate(ttyInit(R, Bcst), Bcst, At(f, 1))
       IN  IF ~bcstflg
           THEN /\ Becomes(ttyInit(R, Bcst)) /\ phase' = "loop"
                /\ UNCHANGED <<mkdir, cmds, policy, logfree>>
           ELSE IF a.ok
           THEN /\ Becomes(a.r) /\ phase' = "loop"
                /\ UNCHANGED <<mkdir, cmds, policy, logfree>>
           ELSE Exit(a.r, 1) /\ UNCHANGED policy
  /\ UNCHANGED <<next, user, ops>>

-----------------------------------------------------------------------------
(* The loop *)

Loop == phase = "loop"
Same == UNCHANGED <<next, mkdir, logfree, user>>
More == ops < MaxOps /\ ops' = ops + 1

\* monAdd.  The second command brings the broadcast tty with it, whose
\* failure ends yar; a command that cannot be created is given back.
MonAdd(c) ==
  /\ Loop /\ c \notin cmds /\ More
  /\ \E f \in Fault :
       LET a == GBLSAddCmd(R, c, f)
           second == ~bcstflg /\ cmds # {}
           b == IF second THEN ttyCreate(a.r, Bcst, At(f, 3)) ELSE a
       IN  IF ~a.ok
           THEN Becomes(a.r) /\ UNCHANGED <<phase, cmds, policy, mkdir, logfree>>
           ELSE /\ bcstflg' = (bcstflg \/ second)
                /\ delonexit' = IF exitonidle THEN delonexit \cup {c}
                                ELSE delonexit
                /\ IF b.ok
                   THEN /\ Becomes(b.r) /\ cmds' = cmds \cup {c}
                        /\ UNCHANGED <<phase, exitonidle, mkdir, logfree>>
                   ELSE Exit(CleanCmds(b.r, {c}), 1) /\ UNCHANGED exitonidle
  /\ UNCHANGED <<next, user>>

\* The command goes, on the monitor's order or because it has died and is
\* marked; yar goes with the last one if it is to exit when idle.  r is the
\* state after what the caller has done to the descriptors.
RemoveCmd(r, c) ==
  /\ IF cmds = {c} /\ exitonidle
     THEN Exit(r, 2)
     ELSE /\ Becomes(CleanCmds(r, {c})) /\ cmds' = cmds \ {c}
          /\ UNCHANGED <<phase, mkdir, logfree>>
  /\ delonexit' = delonexit \ {c}
  /\ UNCHANGED <<bcstflg, exitonidle>>

MonDel(c) ==
  /\ Loop /\ c \in cmds
  /\ RemoveCmd(R, c)
  /\ UNCHANGED <<next, user, ops>>

\* monIdleExit: yar ends now, or the commands are marked
MonIdleExit ==
  /\ Loop
  /\ exitonidle' = TRUE /\ delonexit' = cmds
  /\ IF cmds = {} THEN Exit(R, 2)
     ELSE UNCHANGED <<phase, fds, path, tty, proc, lost, cmds, mkdir, logfree>>
  /\ UNCHANGED <<next, user, ops, bcstflg>>

\* exit by the monitor, a signal, or an error of the loop
MonExit ==
  /\ Loop
  /\ Exit(R, 1)
  /\ UNCHANGED <<next, user, ops, policy>>

\* fork and pidfd_open, whose failure an assert finds
cmdStart(r, c) ==
  IF Full(r) THEN Abort
  ELSE /\ Becomes([Opened(r, <<<<"cmd", c>>, "pidfd">>) EXCEPT
                    !.proc[c] = [died |-> FALSE, pidfd |-> Lowest(r)]])
       /\ ops' = ops + 1
       /\ UNCHANGED <<phase, cmds, policy>> /\ Same

\* By an open of the client tty or of the broadcast tty
Start(c) ==
  /\ Loop /\ c \in cmds /\ ~Running(c) /\ ops < MaxOps
  /\ cmdStart(R, c)

\* cmdStop, when the ttys are idle
Stop(c) ==
  /\ Loop /\ c \in cmds /\ Running(c)
  /\ Becomes(StopAll(R, {c}))
  /\ UNCHANGED <<phase, cmds, policy, ops>> /\ Same

ProcDies(c) ==
  /\ Loop /\ Running(c) /\ ~proc[c].died /\ Cardinality(lost) < MaxLost
  /\ proc' = [proc EXCEPT ![c].died = TRUE]
  /\ UNCHANGED <<phase, next, fds, path, tty, mkdir, cmds, policy, logfree,
                 user, ops, lost>>

\* cmdPidEvent: pidfd is set to -1, not closed; then the command is deleted,
\* restarted, or left as it is because the monitor has turned restarts off
PidEvent(c) ==
  /\ Loop /\ proc[c].died
  /\ LET r == [R EXCEPT !.lost = @ \cup {proc[c].pidfd}, !.proc[c] = NoProc]
     IN  IF c \in delonexit
         THEN RemoveCmd(r, c) /\ UNCHANGED <<next, user, ops>>
         ELSE \/ ops < MaxOps /\ cmdStart(r, c)
              \/ Becomes(r) /\ UNCHANGED <<phase, cmds, policy, ops>> /\ Same

-----------------------------------------------------------------------------
(* Others make and remove files *)

UserMake(p, what) ==
  /\ phase \notin {"exited", "aborted"} /\ user < MaxUser
  /\ path[p] = Gone
  /\ path' = [path EXCEPT ![p] = what] /\ user' = user + 1
  /\ UNCHANGED <<phase, next, fds, tty, mkdir, cmds, proc, policy, logfree,
                 ops, lost>>

UserRemove(p) ==
  /\ phase \notin {"exited", "aborted"} /\ user < MaxUser
  /\ path[p] \notin {Gone, Mount}
  /\ path' = [path EXCEPT ![p] = Gone] /\ user' = user + 1
  /\ UNCHANGED <<phase, next, fds, tty, mkdir, cmds, proc, policy, logfree,
                 ops, lost>>

Next ==
  \/ StartMon \/ StartFs \/ StartCmd \/ StartBcst
  \/ MonIdleExit \/ MonExit
  \/ \E c \in Cmd : MonAdd(c) \/ MonDel(c) \/ Start(c) \/ Stop(c)
                      \/ ProcDies(c) \/ PidEvent(c)
  \/ \E p \in Path : UserRemove(p) \/ UserMake(p, File) \/ UserMake(p, Broken)

Spec == Init /\ [][Next]_vars

-----------------------------------------------------------------------------
(* Properties *)

\* The shape of the state; a command that is not in the table of commands has
\* no process and no descriptors
TypeOK ==
  /\ phase \in {"mon", "fs", "cmds", "loop", "exited", "aborted"}
  /\ next \in 1..Len(Initial) + 1
  /\ \A n \in Fd : fds[n] = Unused \/ Len(fds[n]) = 2
  /\ \A p \in Path : path[p] \in {Gone, File, Broken, Mount} \cup
       UNION {{Link(t, k) : k \in DOMAIN Links[t]} : t \in Tty}
  /\ tty \in [Tty -> [linked : BOOLEAN, dfd : Fd \cup {-1},
                      sfd : Fd \cup {-1}, ifd : Fd \cup {-1}]]
  /\ proc \in [Cmd -> [died : BOOLEAN, pidfd : Fd \cup {-1}]]
  /\ cmds \subseteq Cmd /\ delonexit \subseteq Cmd /\ lost \subseteq Fd
  /\ \A c \in Cmd \ cmds :
       proc[c] = NoProc /\ tty[Clt(c)] = NoTty /\ tty[Cmdt(c)] = NoTty
  /\ {mkdir, bcstflg, exitonidle} \subseteq BOOLEAN
  /\ logfree \in 0..2 /\ user \in 0..MaxUser /\ ops \in 0..MaxOps

\* Every number kept in a tty_t or a cmd_t is the descriptor that was opened
\* for that field: ttyCleanup and cmdStop never close, and ttyReadChar never
\* reads, a number that has meanwhile been given to another
FdsValid ==
  /\ \A t \in Tty, f \in {"dfd", "sfd", "ifd"} :
       tty[t][f] # -1 => fds[tty[t][f]] = <<t, f>>
  /\ \A c \in Cmd : Running(c) => fds[proc[c].pidfd] = <<<<"cmd", c>>, "pidfd">>

\* The descriptors open without a field that knows them are the pidfds of the
\* processes whose death cmdPidEvent has seen and the sub sides of the ttys
\* whose ttyCreate failed late; no other path of the code loses one
LeakExact ==
  {n \in Fd : fds[n] # Unused} =
    lost \cup {proc[c].pidfd : c \in {d \in Cmd : Running(d)}}
         \cup UNION {Fields(tty[t]) : t \in Tty}

\* However far main has come and whatever ends yar, a clean exit leaves none
\* of its links and no mount point behind
CleanExit ==
  phase = "exited" => \A p \in Path : path[p] \in {Gone, File, Broken}

\* The tty is there before and after the step
Lives(t) == tty[t].dfd # -1 /\ tty'[t].dfd # -1

\* A tty that lives keeps its names: only a user takes one away, or the making
\* (even if it fails) or the clean-up of another tty that was given the same name
LinksKept ==
  [][\A t \in Tty : Lives(t) =>
       \A k \in DOMAIN Links[t] :
         LET p == Links[t][k]
         IN  path[p] = Link(t, k) =>
               \/ path'[p] = path[p]
               \/ UserRemove(p)
               \/ \E u \in Tty \ {t} : p \in Names(u) /\ ~Lives(u)]_vars

\* "If the ttylink already exists something went wrong" (main.c, cmdspecParse),
\* and ttyCreate refuses a name that "already exists" (tty.c): what others have
\* made stays until they remove it.  It is not so: ttyCleanup, on the way out of
\* that refusal, unlinks the name.
UserFilesKept ==
  [][\A p \in Path : path[p] \in {File, Broken} =>
       path'[p] = path[p] \/ UserRemove(p)]_vars
=============================================================================

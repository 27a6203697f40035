# A TLA+ model of yar

yar runs a set of shell commands, each behind a pseudo terminal that clients
open, read and write, and relays bytes between clients and commands. A
broadcast tty reaches all the commands at once, and a monitor tty takes orders
(add, del, drain, idleexit, ...). It is one process with one `epoll` loop
(`theLoop`, main.c) and one handler per event source.

This directory models the parts of yar that keep state, checks them with TLC on
small instances, and proves its invariants and properties of steps with
TLAPS for all instances. Line numbers in comments are those of the repository's sources.

## The system

| part | state | operations | talks to |
|---|---|---|---|
| event loop (main.c) | the batch `epoll_wait` returned | dispatch an event to its handler | every other part |
| command life cycle (cmd.c) | `pid`, `pidfd`, `readycnt`, `deleteonexit`, the hash table `GBLS.cmds` | `cmdInit`, `cmdStart`, `cmdStop`, `cmdPidEvent`, `cmdCleanup` | ttys, processes |
| ttys (tty.c) | `opens`, descriptors, links, byte counts | `ttyCreate`, `ttyNotifyEvent`, `ttyReadChar`, `ttyWriteBuf`, `ttyCleanup` | inotify, clients |
| broadcast (main.c) | `bcstflg`, `slowestcmd`, `cmdsreadycnt` | `bcstttyNotify`, `bcstttyEvent` | every command |
| command output (cmd.c) | circular buffer `buf`, `bufn`, `bufstart`, `bufof`; `readycnt` | `cmdttyProcessOutput`, `cmdttyDrain` | client and broadcast tty |
| monitor (main.c) | line buffer, policy flags | `monEvent`, `monProcess`, `mon*` | commands, broadcast |
| signals (main.c, yar.h) | signal mask, signalfd | `sigprocInit`, `sigEvent` | the loop |
| file system (fs.c, yarfs.c) | inode table, directories | `inoalloc`, `fsCreatefile`, `fsRemoveitem`, FUSE callbacks | libfuse, `GBLS` |
| start and end (main.c) | options, log | `argsParse`, `cmdspecParse`, `cleanup` | everything |

What is hard about it:

* **Batches.** `epoll_wait` returns many events at once. A handler may stop,
  restart or free a command that a later event of the same batch is about.
* **The kernel's view of the clients.** yar learns of opens and closes from
  inotify, late, and inotify drops an event equal to the last one queued.
* **Processes beside the loop.** A process dies, or prints, between any two
  steps, also between its death and its reaping.
* **Idleness over two ttys.** A command is stopped when its client tty and the
  broadcast tty are both closed and drained, and each of four handlers must
  look at the right moment.
* **Half-finished work.** `ttyCreate` takes five things in turn and may fail at
  each; `exit` runs `cleanup` over whatever exists by then.
* **A kernel that remembers.** libfuse is asked for sizes and bytes at different
  times, and answers come from the commands as they are at that moment.
* **Modes changed in mid line**, edge triggered descriptors, counters kept in
  two places (`readycnt` per command and `cmdsreadycnt`).

What makes each part correct: the life cycle keeps at most one process per
command, none unnoticed, running while a client holds a tty and stopped when
none does; the loop calls handlers only for things that exist; the broadcast is
gated by readiness and paced by the slowest command; every byte is relayed or
discarded for a reason; output reaches the broadcast tty unchanged and in whole
lines; the monitor runs the lines that were typed; an exit signal ends yar and
an exit leaves no process, no link and no mount; descriptors are used by the
object that opened them; inodes are handed out once and all come back; a file
of the file system is as long as it says.

## Modules

The modules cut yar along its state. `Lifecycle` decides when processes start
and stop, and counts bytes only as far as that needs; `CmdOutput` follows one
command's output through its buffer; `Relay` follows bytes of all ttys, with
just enough life cycle to have them opened, closed and killed at the wrong
moment; `Resources` follows descriptors and names, and lets processes come and
go freely; `Fs` and `YarFs` are the file system. A module that leaves something
to another allows at least what the other one does: `Relay` may or may not
restart a dead command, `Resources` may stop one at any time.

* `Lifecycle.tla`: the event loop, the life cycle of commands, open tracking,
  the broadcast tty and the monitor commands that change them. One handler is
  one step, because the loop is one thread; clients and processes move between
  any two steps, and during the drain loop. `batch` is the array `epoll_wait`
  filled; its order is left open, which allows every order the kernel may
  give. An event of a command that is freed becomes `<<"freed", c>>`, as the
  pointer in the batch now points to freed memory; the loop ends when it is
  dispatched (`halt = "freed"`). A failed `assert` or a bad
  pointer ends the loop with its reason in `halt`. A tty is the number of
  clients that hold it, inotify's queue, `opens`, and the number of bytes not
  yet read; a command is its `pid` and `pidfd`, the processes the kernel has
  for it (`live`, `zomb`), `readycnt`, `deleteonexit`, and its unread output.
  The delay of a tty with a delay may or may not have passed. `merged`, in a
  tty, is a ghost: inotify has dropped an open of it.
  A process started with a restart delay is a process from the fork on.
* `LifecycleProofs.tla`: theorems about `Lifecycle`.
* `BcstLine.tla`: what is promised about a command's output on the broadcast
  tty, without a buffer: each line exactly (`Exact`), or, for the one line after
  output that was not buffered or was drained, a text that ends with that line
  (`Weaker`).
* `CmdOutput.tla`: `cmdttyProcessOutput` with the circular buffer and the
  monitor commands that act on it; shown to implement `BcstLine` (`Promise`,
  with the refinement mapping spelled out). `line`, `settled` and `heard` are
  history variables, which no action reads to decide what the program does.
* `CmdOutputProofs.tla`: theorems about `CmdOutput`, the refinement among them.
* `Control.tla`: the two ways yar is told what to do: the assembly of monitor
  lines by `monEvent`, and the edge triggered signalfd with `sigEvent`.
* `ControlProofs.tla`: theorems about the monitor's lines.
* `Relay.tla`: `ttyReadChar`, `ttyWriteBuf`, `cmdWriteChar` and the handlers
  that relay a byte: `cmdCltttyEvent`, `bcstttyEvent` with `GBLSCmdsWriteChar`,
  `cmdCmdttyEvent`, `ttyNotifyEvent`, `cmdPidEvent`, and `cmdStop` with the stop
  string. A tty has a buffer of `Cap` bytes in each direction. A write is a
  discard when `opens` is 0 and ends in `NYI` (`halt`) when the buffer is full.
  `lastwrite` is the time since it, up to the delay; `Tick` is the clock. The
  stop string is one step of `cmdStop`, where the code waits between its
  characters (`StopBytes`): nothing else of yar runs in that time. The
  counters are those of `tty_t`, and the index into `discards` is computed in an
  `int` of `IntMax`. `merged`, `stopped` and `hurried` are ghosts.
* `RelayProofs.tla`: theorems about `Relay`.
* `Resources.tla`: `ttyInit`, `ttyCreate`, `ttyCleanup`, `cmdCreate`,
  `cmdCleanup`, the steps of `main`, `monAdd`, `monDel`, `monIdleExit`,
  `monExit`, `cmdStart`, `cmdStop`, `cmdPidEvent` and `cleanup`, as what they do
  to the descriptor table (`fds`, lowest free number first), to names (`path`)
  and to the fields that remember them. A command whose link was named in its
  specification (`Explicit`) passes the check of `cmdspecParse` first
  (`GBLSAddCmd`), on the command line (`ArgsParsed`) and in `monAdd`; default
  links, and that of the monitor, do not. Any call of `ttyCreate` may fail; others
  may make a file or a dangling symbolic link under a name that yar wants. `lost`
  is a ghost: the numbers no field knows any more.
* `ResourcesProofs.tla`: theorems about `Resources`.
* `Fs.tla`: fs.c, with any sequence of `fsCreatedir` and `fsCreatefile` calls
  in `Builds`: the inode table with its free list, directories as sets of
  children, the FUSE callbacks as guards and answers, what the kernel knows
  (`known`), and `fsCleanup`'s scan, one step per table entry and one per item
  removed. A freed inode keeps a `"freed"` file pointer, as in the code.
* `FsProofs.tla`: theorems about `Fs` alone.
* `YarFs.tla`: extends `Fs` with the files of yarfs.c: the size functions, the
  contents as sequences of fields, reads in requests of `Request` bytes, a size
  the kernel holds until it expires, and commands that come and go meanwhile.
  `ops`, `deleted` and the reader's `since` are ghosts that date what was read.
* `YarFsProofs.tla`: the theorems of `FsProofs` about yar's use of it, and
  theorems about sizes, contents and readers.
* `Sums.tla`: sums along a sequence, used by `YarFs` for sizes and by `Relay`
  for the bytes of all commands. `SumProofs.tla`: induction over bounded
  numbers, and what such sums are.
* `MCLifecycle.tla`, `MCCmdOutput.tla`, `MCRelay.tla`, `MCResources.tla`,
  `MCYarFs.tla`: values of constants for TLC.

Operators named `X_Y` after a definition `X` are plausible wrong versions of
it. Each property is shown to fail when its definition is replaced by one of
them, so that every property is known to depend on the code it is about.

## Runs

Bounds (`Max...`) are guards of the environment's actions, or of the action
that grows an unbounded counter.

| run | instance | shows |
|---|---|---|
| `solo` | one command, one client, four notifications, three bytes, signals, exit | under fairness `ExitHandled`, `OpenStarts`, `AllClosedStops` |
| `monitor` | one command and a second that is added; add, del, idleexit; one client; 950,000 states | `TypeOK`, `OneProcess`, `EventsFresh`, `ExitReapsAll`, and of steps `StopsOnlyWhenIdle`, `PacedUntilDeleted`, `DeathsWindDown` |
| `clients` | one command that is added and deleted, with a ready string, and the broadcast tty; two clients on each; output of dead processes; drain, restart switched; notifications that merge; 1,910,000 states | `ReadyNotLost`, and of steps `NotAbandoned` |
| `output` | buffer of 3, ready string of 3, all the monitor's toggles, add and drain; 180,000 states | `TypeOK`, `ReadyHeard`, and `PromiseKept`: refinement of `BcstLine` |
| `control` | line buffer of 4, lines of up to 5; SIGHUP, SIGINT, SIGQUIT, SIGTERM in any order | `InStep`, `ShortLinesRun`, `HangupEnds` |
| `relay` | two commands, one slow; a client on the slow one and on the broadcast tty; buffers of 3, two bytes, two opens, two processes; 610,000 states | `TypeOK`, `Accounting`, `BcstAccounting`, `PacedSlowest`, `HaltsOnlyUnread`, `DiscardsFirst`, `DiscardJustified`, and under fairness `BytesTaken` |
| `resources` | two commands, 19 descriptors, every fault, one file of others, two lost descriptors, four operations; 62,000 states | `TypeOK`, `FdsValid`, `LeakExact`, `CleanExit`, `LinksKept` |
| `fs` | table of 7; every build of at most three calls, yar's own, and one too many; three adds and deletes | `TypeOK`, `FreeListSound`, `DirsAgree`, `BehindScan`, `CleanupSound`, `SizeExact`, `WholeRead`, `AddsOnlyCutShort`, and under fairness `CleanupEnds` |

Why the bounds are enough for the cases that matter:

* In `monitor` one client per tty brings about every order of open, close, write
  and read events; two commands suffice for one command's event to meet
  another's in a batch, and for the broadcast tty to appear.
* In `clients` a tty has two clients, and inotify's queue is read late enough to
  merge two opens, or two closes, and to hold an open and a close. A command may
  be added while the broadcast tty is held. No bytes are typed there: `monitor`
  and `solo` have them. Readiness is followed for one command at a time, which
  earns it, loses it and dies with output unread; that it is counted for any
  number of commands is proved (`ReadyCounted`).
* A buffer of 3 gives a line every position in the buffer, every wrap, a length
  below, at and above the size, and two overflows in one line.
* In `relay` a buffer has room for a byte and the stop string and no more, so
  that it is filled; `discards` holds one byte, so that the second is beyond
  it; two opens are what inotify needs to merge events; two processes are a
  process and its successor.
* In `resources` the second link of one command (its link and ".mon") is the
  first of the other, which makes two ttys claim one name. 19 descriptors are
  enough for the four ttys of two commands, the monitor, the broadcast tty and
  one process, and for nothing more: a second process, or a lost descriptor,
  runs into the limit. One command's link was named and is checked, the other's
  is the default.
* In `fs` three calls make a directory in a directory with a file, two names in
  a directory make a clash, and the table is filled by six calls. Numbers are
  printed in base 2, so that two commands take a digit more than one; a request
  of 4 bytes cuts every file in the middle of a field.

Four runs are expected to fail; each shows that the program does not do what
one of its comments or its usage text says.

| run | property | what happens |
|---|---|---|
| `stale_pid_event` | `NoStalePidEvent` | the client closes and the process dies in one batch; `cmdStop` reaps it, `cmdPidEvent` then aborts on `waitid` |
| `freed_event` | `NoFreedEvent` | a command is deleted (`del`, or a death with `deleteonexit`) while another event of the batch is about it; the loop takes the handler from freed memory |
| `idle_exit` | `TerminatedGo` | after `idleexit` the last client closes; `cmdStop` reaps the process itself, the command stays, and yar does not end |
| `user_files` | `UserFilesKept` | `ttyCreate` refuses a name that exists, and its clean-up unlinks that name |

Other deviations from what the program's documents say are in the models too.
The passing properties say what holds beside them, so a reader of one of these
should know what it leaves out:

* `EventsFresh` is about the byte or notification that an event announced, on a
  tty that exists. An event of a freed command is `NoFreedEvent`'s, that of a
  process already reaped `NoStalePidEvent`'s.
* `NotAbandoned` holds for any number of clients and with restart switched at
  any time, from the moment an open is queued. An open that inotify merges into
  an earlier one is lost: of two clients whose opens merge, the first to close
  has the command stopped under the other. The property excepts the ttys where
  this has happened (`merged`). The one step that may end the service is
  a death with restart off, which is what `restart` is for.
* `DeathsWindDown` says that after `idleexit` no dead process is replaced, that
  its command goes with it unless `cmdStop` was first to find it, and that the
  last command to go takes yar with it. `TerminatedGo` is the promise without
  the "unless", and the code breaks it.
* `PacedUntilDeleted` is about every step but the delete of the slowest command,
  after which `slowestcmd` points to freed memory.
* `AllClosedStops` is checked for a command without a broadcast tty, and fails
  with one: the last byte of a closed broadcast tty is read by `bcstttyEvent`,
  which does not look whether the commands are idle now. A process runs on for
  nobody.
* `ReadyNotLost` says that `cmdsreadycnt` is never too small. It may be too
  large: late output of a dead process completes the ready string, and `cmdStart`
  resets `readycnt`, not `cmdsreadycnt`. The broadcast then opens before all
  commands are ready.
* `PacedSlowest` is about the slowest command. While that one has not opened its
  tty its bytes are discarded and mark no `lastwrite`, and broadcast bytes reach
  the other commands without their delay.
* `PromiseKept` allows, for the first line that ends with buffering on after
  output that was not buffered, be it whole lines, or after the drain of an
  overlong line (`monDrain` does not reset `bufof`), that what is still in the
  buffer is broadcast again in front of it. That line itself is whole even then,
  and the next one is exact again. With `line` turned on after "ab" and a
  newline, the next line "c" goes out behind "ab" and its newline once more.
* `ReadyHeard` says that a match is real, not that none is missed: "aab" does not
  make a command ready that waits for "ab".
* `LinksKept` lets a name go with the making or the clean-up of another tty that
  was given the same name. Two ttys that share a name and both live on do not
  take it from each other.
* `CleanExit` is about links and the mount, and about exits. An exit of the idle
  policy runs `cleanup` twice and frees `logdir` twice (`logfree`). An initial
  command that fails ends in an `assert`, which leaves links and the mount behind.

Other limits of the code that no document speaks about, and that passing
properties go around:

* `drain` goes on for as long as a process prints, and holds up the loop.
* With `-b` and no command, the first broadcast byte follows a null `slowestcmd`.
* The tail of a monitor line longer than the buffer is run as a line of its own.
  `ShortLinesRun` is about lines that fit.
* A signal numbered above SIGQUIT is left unread if both are pending
  (`HangupEnds` is about the ones below).
* `-x` sets `exitonidle` but not `cmddelonexit`.
* The newline before a stop string and its first character are sent without a
  delay (`PacedSlowest` is about relayed bytes).
* A full buffer ends yar in `NYI` with a byte in hand. `HaltsOnlyUnread` says
  that it takes a tty that is open and not read.
* Past 2^31 discarded bytes the index into `discards` is negative
  (`DiscardsFirst` stops there).
* A pidfd is lost with each death that `cmdPidEvent` sees, and the sub side of a
  tty whose link or inotify watch fails. `LeakExact` says that nothing else is.
* `fsCreatefile` ignores a refusal of `dir_add`: the item exists without an
  entry, and clean-up asserts (`Orphans` in `CleanupSound`). yarfs never does so.
* A file that grows while the kernel holds its size is cut short, and a delete
  between two requests shifts the rest: `WholeRead` and `AddsOnlyCutShort` say
  what holds in spite of it.

The passing liveness properties end with "or the loop has ended": an abort of
the kind `stale_pid_event` shows also ends every wait.

**Fairness.** `Lifecycle`'s `FairSpec` assumes weak fairness of the loop as a
whole: an event that is ready is eventually returned by `epoll_wait`, and
handlers return (all descriptors are non-blocking; `cmdStop` escalates to
SIGKILL). Each batch is worked off before the next, so no fairness per handler
is needed. `Relay` has no batches; there a tty with input is level triggered, so
its handler (`CltttyEvent`, `BcstttyEvent`) is called again until it has been
read, and time passes (`Tick`). In `YarFs` the clean-up is a loop of the program
that nothing interrupts (`FsCleanup`). `Control` assumes weak fairness of the
signalfd's event and of its handler. Nothing is assumed of clients, processes,
or the kernel's requests to the file system.

**Deadlock** is checked in the runs of `Lifecycle` and `Control`, where a loop
that has ended stutters (`Halted`). It is not in `output`, whose bound on `bufn` ends every behaviour, nor in `fs`,
`resources`, `user_files` and `relay`, where yar may have ended, or may wait for clients that have used up
their opens and bytes.

## Proofs

The theorems hold for every value of the constants that satisfies the named
assumptions of the modules: any number of commands, any delays, buffers, tables
and limits of any size, any strings, and all bounds.

| theorem | states |
|---|---|
| `LifecycleProofs`: `TypeCorrect`, `SingleInstance`, `HandlersFindData` | `[]TypeOK`, `[]OneProcess`, `[]EventsFresh` |
| `LifecycleProofs`: `SlowestKept`, `StopsJustified`, `WindsDown` | `PacedUntilDeleted`, `StopsOnlyWhenIdle`, `DeathsWindDown`, properties of steps |
| `LifecycleProofs`: `NoneLeftBehind`, `ReadyCounted`, `NobodyAbandoned` | `[]ExitReapsAll`, `[]ReadyNotLost`, and `NotAbandoned`, a property of steps |
| `CmdOutputProofs`: `TypeCorrect`, `ReadyMeansHeard`, `OutputImplementsPromise` | `[]TypeOK`, `[]ReadyHeard`, and `PromiseKept`: the refinement of `BcstLine` |
| `ControlProofs`: `MonitorInStep`, `LinesRunAsTyped` | `[]InStep`, `ShortLinesRun` |
| `RelayProofs`: `SlowestPaced`, `RelayTypes`, `BytesAccounted`, `FirstDiscardsKept`, `OnlyUnreadHalts`, `BcstAccounted`, `DiscardsJustified` | `[]PacedSlowest`, `[]TypeOK`, `[]Accounting`, `[]DiscardsFirst`, `[]HaltsOnlyUnread`, `[]BcstAccounting`, `DiscardJustified` |
| `ResourcesProofs`: `ResourceTypes`, `NumbersNotStale`, `OnlyKnownLeaks`, `ExitsClean`, `NamesStay` | `[]TypeOK`, `[]FdsValid`, `[]LeakExact`, `[]CleanExit`, `LinksKept` |
| `YarFsProofs`: `InodesNotReused`, `LookupsUnambiguous`, `ScanNeverDangles`, `CleanupLeavesNothing` | `[]FreeListSound`, `[]DirsAgree`, `[]BehindScan`, `[]CleanupSound` |
| `YarFsProofs`: `FilesTyped`, `BuffersFilled`, `WholeFileRead`, `AddsCutShort` | `[]TypeOK`, `[]SizeExact`, `[]WholeRead`, `[]AddsOnlyCutShort` |

`InvHolds`, `EndHolds`, `RingHolds`, `RelaySound`, `ResourcesSound`, `FsSound`,
`FilesSound` and `ReadersSound` are the inductive invariants themselves.

**Lifecycle** (`CmdAssumption`, `OptionAssumption`, `BoundAssumption`). `Inv` is
the type invariant, `OneProcess`, and `FreshEvents`: an event of the batch,
unless its command has been freed, is about a command or tty that is there, and
the byte or notification it announced is too. `EventsFresh` is the second half
of that; the first holds because `RemoveCmd` takes the events of what it frees
aside, and is only a step of the proof. None of the parts is inductive alone:
that `zomb` and `live` stay natural numbers needs `OneProcess` (a process is
reaped only if there is one), and that a notification is read from a non-empty
queue needs `FreshEvents`. The proof first shows, by lemmas, what each record
operator (`cmdStart`, `cmdStop`, `Reap`, ...) does to a tracked command, lifts
that to the functions `cmd` and `tty` (`ProcsUpdate`, `ProcsStart`, `ProcsStop`,
`FreshRead`, ...), and then has one lemma per action. The action properties
follow step by step from `Inv`. `ExitReapsAll` and `DeathsWindDown` need
`EndInv` besides: an exit leaves no command in the table, and after `idleexit`
every command is marked to be deleted when it exits. `ReadyNotLost` relates a
counter to the cardinality of a set and uses the theorems on finite sets.
`NotAbandoned` needs `ServInv`, which tells each tty's story (`TtyStory`): until
inotify has merged an open, `opens` and what the queue will still do to it cover
all the holders, so that a close that makes a tty idle has no holder behind it
whose open was not merged; and a tty of no command has no past, which is
why a command that is added finds its client served. Neither the number of
clients nor the inputs of the monitor are restricted.

**CmdOutput**. `RingInv` says that the bytes owed are the last ones of the ring
and that `bufstart` is not after their beginning unless the line has overflowed; while the promise is in force
(`settled`), it is exactly there. The first two parts hold whatever the monitor
does, and are what the weaker promise (`Weaker`) rests on: the line that is
written ends with the owed bytes (`LineEnds`); with the third it is exactly
them (`LineExact`). The difficulty is arithmetic: an index is a count modulo the
size of the buffer, and the prover's arithmetic is linear, so that the facts
about remainders are lemmas of their own (`DivMod` and those after it, and `Lag`,
the distance from `bufstart` to `bufn` in the ring). The refinement then maps
each step to a step of `BcstLine` or to a stutter. `ReadyHeard` is proved from
`HeardAt`: what has been matched so far is what was printed last.

**Control**. `MonInv` adds to `InStep` only that the line and what was typed are
sequences of bytes.

**Relay** (`RelayAssumption`). `SlowestPaced` needs, beside the property, only
the shape of `cmd`: a byte of its own client is held back by the guard of
`CltttyEvent`, a broadcast byte by that of `BcstttyEvent`, both look at the same
`lastwrite`, and no other step relays a byte to it; `cmdStop` leaves a
`lastwrite` that is a delay old. The same is
false of the other commands. The rest is `RelayInv`. Per tty, `First` is
`DiscardsFirst`, whose proof is that the conversions to `int` in `ttyWriteBuf`
change nothing as long as the count is an `int`; `Tracked` says that until
inotify merges events the queue alternates, and that `opens` differs from the
real number of holders by exactly what the queue will still do to it
(`Pending`). Per command, `Balanced` is `Accounting` and that an open process is
one of the holders of its tty. `Sound(T, P)` states this of any state that a
handler passes through, because a handler that relays a byte may go on to stop
the command, and writes its stop string to the same tty. `BcstAccounting` is a
sum over the commands, taken in the order of `SetToSeq`; it is kept because a
step either leaves the read counts and the broadcast tty's written and discarded
counts alone (`Quiet`), or adds one to the count of one command and one to the
broadcast tty's (`Heard`), and a sum in which one term grows by one grows by one
(`SumBump`). This uses that there are finitely many commands.

**Resources** (`ResourceAssumption`). `ResInv` says of each descriptor whose it
is, of each name what it is, and of each field that its number is open for that
very field. It has to hold in the middle of `ttyCreate`, `cmdCreate` and
`cleanup`, where some fields are set and others are not (`Fits`, of the record
that these operators hand on), and says for each phase of `main` what exists
already (`Phased`).

**Fs and YarFs** (`TableAssumption`, with `Feasible`: a createfsfunc creates
items in the root or in directories that it has created before, as yarfsCreate
does). `FsInv` says for each phase what the table, the free list and the
directories are; during the build the free list is what is left of the inodes in
order, during the clean-up what the scan has passed is free or will be purged.
`StepsOfFs` carries it over to `YarFs`.

`SizeExact` is a fact about every list of commands (`LengthAssumption`: the
lengths are natural numbers, the base is more than 1, a request is not empty),
shown in `ContentsFilled`: each line is as long as what the size function counts
for it (`CmdsCounted`, `LcmdsCounted`, `TtysCounted`), and the length of the
lines is the sum of their lengths (`LinesLen`). `WholeRead` and
`AddsOnlyCutShort` are not inductive. `YarInv` adds to them that a size which the
kernel holds of this moment is right (`AttrInv`), that it is never older than the
one the reader began with (`SinceInv`), that a reader who is not done has a
beginning of the file while nothing comes or goes (`GotInv`), and that what is
open is one of yar's files, which stays in the table while it is open (`OpenInv`,
`NamesInv`). One request adds the next piece of the contents, and if it is the
last and the size was right, the rest of them (`NextPiece`, `BeginsNext`); a new
command only adds to `/cmds` and `/lcmds` at the end (`LinesAppend`).

Induction over a list or a number is by its least counterexample (`LeastOf`,
`UpTo`, `StepUpTo`), over a set instead of an operator, which is what the provers
can instantiate; that a recursive function exists is shown by the same argument
(`SumsExist`, `LinesExist`, `DigitsExist`).

Left to TLC, and why:

* The liveness properties: `ExitHandled`, `OpenStarts`, `AllClosedStops`,
  `HangupEnds`, `BytesTaken`, `CleanupEnds`. Fairness is out of the prover's
  reach.
* The four runs that are expected to fail.

## Not modelled

* Parsing of arguments and command specifications (`argsParse`,
  `cmdspecParse`): sequential, over text, run once per command. The one thing
  they do to the outside, the check that a link named in a specification does
  not exist, is in `Resources`.
* Logging and daemon mode, hexdump, usage text, and the monitor's commands that
  only print: they change no state that another part reads.
* `readlink` and `write` of the file system, which are `NYI` in the code and not
  reachable from the files that yarfs creates.
* Errors of `epoll_wait`, which the loop logs; system calls other than those in
  `ttyCreate`, `fsCreate` and `cmdStart` that fail.
* The order of a command line's restart delay and its `exec`; `exitstatus`,
  which only selects the length of that delay.
* The bytes of a monitor line in `Lifecycle` (one step per line there; the bytes
  are `Control`'s), and line buffering in `Relay` (`CmdOutput`'s).
* The demonstrations time.c and fuse_example, which the build leaves out.

## Plan

Every invariant and every property of steps that a passing run checks is proved.
What could be added is a model of the text of `cmdspecParse`, which the other
modules take as given, and the loop held up by `drain` as a property of time.

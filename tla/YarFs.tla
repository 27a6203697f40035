-------------------------------- MODULE YarFs --------------------------------
(***************************************************************************)
(* The files of yarfs.c over the file system of Fs.  Every request for a   *)
(* file's size or bytes is answered from the commands as they are when     *)
(* the request comes, while the kernel keeps a size it was told for a      *)
(* second, asks for long contents in several requests, and the monitor     *)
(* adds and deletes commands in between.                                   *)
(*                                                                         *)
(* A file's contents are a sequence of bytes in which the bytes of a field *)
(* are not told apart: only where a field begins and ends matters.         *)
(***************************************************************************)
EXTENDS Fs, SequencesExt, Sums

CONSTANTS
  Cmd,       \* the commands
  NameLen, LinkLen, LineLen,   \* strlen of a command's name, link, cmdline
  PidLen, BcstLen, MonLen,     \* strlen of yar's pid, the two other links
  Base,      \* the base numbers are printed in
  Request,   \* the bytes the kernel asks for in one request
  MaxOps     \* bound: commands added and deleted

ASSUME LengthAssumption ==
  /\ NameLen \in [Cmd -> Nat] /\ LinkLen \in [Cmd -> Nat]
  /\ LineLen \in [Cmd -> Nat]
  /\ {PidLen, BcstLen, MonLen} \subseteq Nat
  /\ Base \in Nat /\ Base > 1 /\ Request \in Nat /\ Request > 0
  /\ MaxOps \in Nat

VARIABLES
  list,    \* GBLS.cmds, in the order HASH_ITER visits it
  attr,    \* per file: the size the kernel holds, and of which moment it is
  rd,      \* the reader
  ops,     \* ghost: commands added and deleted so far
  deleted  \* ghost: ops at the last delete

vars == <<fsvars, list, attr, rd, ops, deleted>>

\* yarfsCreate
yarfsCreate ==
  [k \in 1..5 |-> [dir |-> ROOT_INO, type |-> "REGULAR",
                   name |-> <<"pid", "cmds", "lcmds", "ttys", "bcst">>[k]]]

\* yar is up: the file system is mounted, and it is yar's
Up == phase = "mounted" /\ build = yarfsCreate

Files == {"pid", "cmds", "lcmds", "ttys", "bcst"}
NoAttr == [size |-> 0, at |-> 0, valid |-> FALSE]

-----------------------------------------------------------------------------
(* What the stat functions answer *)

\* snprintf of a number
Digits(n) ==
  LET digits[k \in 0..n] == IF k < Base THEN 1 ELSE 1 + digits[k \div Base]
  IN  digits[n]

pidSize == PidLen
cmdNamesSize(l) == SumOver([c \in Cmd |-> NameLen[c] + 1], l)
cmdsInfoSize(l) ==
  SumOver([c \in Cmd |-> (NameLen[c] + 1) + (LinkLen[c] + 1) + (PidLen + 1)
                           + (LineLen[c] + 1)], l)

\* Mutant: one digit is assumed for the number of commands
ttysInfoSize_Digit(l) ==
  SumOver([c \in Cmd |-> (LinkLen[c] + 1) + (PidLen + 1) + (3 + 1)
                           + (NameLen[c] + 1) + (LineLen[c] + 1)], l)
    + (BcstLen + 1) + (PidLen + 1) + (4 + 1) + (1 + 2)
    + (MonLen + 1) + (PidLen + 1) + (3 + 3)

ttysInfoSize(l) ==
  SumOver([c \in Cmd |-> (LinkLen[c] + 1) + (PidLen + 1) + (3 + 1)
                           + (NameLen[c] + 1) + (LineLen[c] + 1)], l)
    + (BcstLen + 1) + (PidLen + 1) + (4 + 1) + (Digits(Len(l)) + 2)
    + (MonLen + 1) + (PidLen + 1) + (3 + 3)

bcstSize == BcstLen + 1

Size(f, l) ==
  CASE f = "pid"   -> pidSize
    [] f = "cmds"  -> cmdNamesSize(l)
    [] f = "lcmds" -> cmdsInfoSize(l)
    [] f = "ttys"  -> ttysInfoSize(l)
    [] f = "bcst"  -> bcstSize

-----------------------------------------------------------------------------
(* What the read functions put into the buffer they have allocated by size *)

Bytes(field, n) == [k \in 1..n |-> field]
Comma   == <<<<",">>>>
Newline == <<<<"NL">>>>
NUL     == <<<<"NUL">>>>

\* One line after another
Lines(line, l) ==
  LET lines[k \in 0..Len(l)] == IF k = 0 THEN <<>>
                                ELSE lines[k - 1] \o line[l[k]]
  IN  lines[Len(l)]

CName(c) == Bytes(<<"name", c>>, NameLen[c])
CLink(c) == Bytes(<<"link", c>>, LinkLen[c])
CLine(c) == Bytes(<<"line", c>>, LineLen[c])
Pid      == Bytes(<<"pid">>, PidLen)

fs_cmds_read(l) == Lines([c \in Cmd |-> CName(c) \o Newline], l)

fs_lcmds_read(l) ==
  Lines([c \in Cmd |-> CName(c) \o Comma \o CLink(c) \o Comma \o Pid \o Comma
                         \o CLine(c) \o Newline], l)

fs_ttys_read(l) ==
  Lines([c \in Cmd |-> CLink(c) \o Comma \o Pid \o Comma \o Bytes(<<"cmd">>, 3)
                         \o Comma \o CName(c) \o Comma \o CLine(c) \o Newline], l)
    \o Bytes(<<"bcstlink">>, BcstLen) \o Comma \o Pid \o Comma \o Bytes(<<"bcst">>, 4)
    \o Comma \o Bytes(<<"count", Len(l)>>, Digits(Len(l))) \o Comma \o Newline
    \o Bytes(<<"monlink">>, MonLen) \o Comma \o Pid \o Comma \o Bytes(<<"mon">>, 3)
    \o Comma \o Comma \o Newline

Contents(f, l) ==
  CASE f = "pid"   -> Pid
    [] f = "cmds"  -> fs_cmds_read(l)
    [] f = "lcmds" -> fs_lcmds_read(l)
    [] f = "ttys"  -> fs_ttys_read(l)
    [] f = "bcst"  -> Bytes(<<"bcstlink">>, BcstLen) \o NUL

Least(m, n) == IF m < n THEN m ELSE n

\* fsFuseReplyBufLimited
ReplyBufLimited(buf, off, size) ==
  IF off < Len(buf) THEN SubSeq(buf, off + 1, off + Least(Len(buf) - off, size))
  ELSE <<>>

-----------------------------------------------------------------------------
Closed == [st |-> "closed", ino |-> 0, got |-> <<>>, since |-> 0]

Init ==
  /\ FsInit
  /\ list = <<>>
  /\ attr = [f \in Files |-> NoAttr]
  /\ rd = Closed
  /\ ops = 0 /\ deleted = 0

\* The size of f the kernel goes by: the one it holds, or the one
\* fs_fuse_getattr gives it now
Attr(f) ==
  IF attr[f].valid THEN attr[f]
  ELSE [size |-> Size(f, list), at |-> ops, valid |-> TRUE]

\* A lookup answers with the attributes of the entry
Lookup(d, n) ==
  /\ fs_fuse_lookup(d, n)
  /\ attr' = [f \in Files |->
                IF f = n /\ d = ROOT_INO /\ build = yarfsCreate
                THEN [size |-> Size(f, list), at |-> ops, valid |-> TRUE]
                ELSE attr[f]]
  /\ UNCHANGED <<list, rd, ops, deleted>>

\* A file that is not open may be forgotten, its attributes with it
Forget(i) ==
  /\ fs_fuse_forget(i)
  /\ rd.st = "closed" \/ rd.ino # i
  /\ attr' = [f \in Files |-> IF f = table[i].name THEN NoAttr ELSE attr[f]]
  /\ UNCHANGED <<list, rd, ops, deleted>>

\* attr_timeout, one second, has passed
Expire(f) ==
  /\ Up /\ attr[f].valid
  /\ attr' = [attr EXCEPT ![f] = NoAttr]
  /\ UNCHANGED <<fsvars, list, rd, ops, deleted>>

\* A process opens a file it has looked up; opening a directory is refused
Open(i) ==
  /\ Up /\ i \in known /\ rd.st = "closed"
  /\ Allocated(i) /\ ~IsDir(i)
  /\ rd' = [st |-> "open", ino |-> i, got |-> <<>>, since |-> 0]
  /\ UNCHANGED <<fsvars, list, attr, ops, deleted>>

\* Mutant: the offset is not used
Reply_Start(f, off) == ReplyBufLimited(Contents(f, list), 0, Request)

\* fs_fuse_read of one request's length
Reply(f, off) == ReplyBufLimited(Contents(f, list), off, Request)

\* The process reads on.  The kernel clips what it is sent to the size it
\* holds, and takes a short answer for the end of the file.
Read ==
  /\ Up /\ rd.st = "open"
  /\ LET f    == table[rd.ino].name
         a    == Attr(f)
         off  == Len(rd.got)
         want == IF off >= a.size THEN 0 ELSE Least(Request, a.size - off)
         sent == SubSeq(Reply(f, off), 1, Least(want, Len(Reply(f, off))))
     IN  /\ attr' = [attr EXCEPT ![f] = a]
         /\ rd' = [rd EXCEPT !.got = @ \o sent,
                             !.since = IF off = 0 THEN a.at ELSE @,
                             !.st = IF Len(sent) < Request THEN "done"
                                    ELSE @]
  /\ UNCHANGED <<fsvars, list, ops, deleted>>

Close ==
  /\ rd.st = "done"
  /\ rd' = Closed
  /\ UNCHANGED <<fsvars, list, attr, ops, deleted>>

\* Mutant: a new command is put first
MonAdd_First(c) ==
  /\ Up /\ ops < MaxOps
  /\ c \notin ToSet(list)
  /\ list' = <<c>> \o list
  /\ ops' = ops + 1
  /\ UNCHANGED <<fsvars, attr, rd, deleted>>

\* Mutant: the name is not looked for
MonAdd_Twice(c) ==
  /\ Up /\ ops < MaxOps
  /\ list' = Append(list, c)
  /\ ops' = ops + 1
  /\ UNCHANGED <<fsvars, attr, rd, deleted>>

\* HASH_ADD_KEYPTR appends
MonAdd(c) ==
  /\ Up /\ ops < MaxOps
  /\ c \notin ToSet(list)
  /\ list' = Append(list, c)
  /\ ops' = ops + 1
  /\ UNCHANGED <<fsvars, attr, rd, deleted>>

\* HASH_DEL keeps the order of the others
MonDel(c) ==
  /\ Up /\ ops < MaxOps
  /\ \E k \in DOMAIN list : list[k] = c /\ list' = RemoveAt(list, k)
  /\ ops' = ops + 1 /\ deleted' = ops + 1
  /\ UNCHANGED <<fsvars, attr, rd>>

\* cleanup: the commands go first, then the file system is unmounted
Cleanup ==
  /\ Unmount
  /\ list' = <<>> /\ rd' = Closed
  /\ attr' = [f \in Files |-> NoAttr]
  /\ UNCHANGED <<ops, deleted>>

FsStep ==
  /\ \/ MkdirFails \/ MakeRoot \/ Create \/ Mount \/ MountFails
     \/ \E i \in known : fs_fuse_getattr(i) \/ fs_fuse_request(i)
     \/ FsCleanup
  /\ UNCHANGED <<list, attr, rd, ops, deleted>>

Next ==
  \/ FsStep
  \/ \E d \in known, n \in Name : Lookup(d, n)
  \/ \E f \in Files : Expire(f)
  \/ \E i \in known : Forget(i) \/ Open(i)
  \/ Read \/ Close
  \/ \E c \in Cmd : MonAdd(c) \/ MonDel(c)
  \/ Cleanup

\* fsCleanup is one call of yar's
Spec == Init /\ [][Next]_vars
        /\ WF_vars(FsCleanup /\ UNCHANGED <<list, attr, rd, ops, deleted>>)

-----------------------------------------------------------------------------
(* Properties *)

\* The shape of the state; no command is listed twice
TypeOK ==
  /\ FsTypeOK
  /\ list \in Seq(Cmd) /\ IsInjective(list)
  /\ attr \in [Files -> [size : Nat, at : Nat, valid : BOOLEAN]]
  /\ rd.st \in {"closed", "open", "done"} /\ rd.ino \in Ino
  /\ rd.since \in Nat
  /\ ops \in 0..MaxOps /\ deleted \in 0..MaxOps

\* The buffer every read function allocates is filled exactly: the size
\* functions (yarfs.c:73-143, 203-237, 333) count what the read functions
\* write, for any list of commands and when its length takes one more digit.
SizeExact == \A f \in Files : Len(Contents(f, list)) = Size(f, list)

\* A reader gets the whole file in any number of requests, provided no command
\* came or went since the size the kernel held for it was fetched.
WholeRead ==
  rd.st = "done" /\ rd.since = ops =>
    rd.got = Contents(table[rd.ino].name, list)

\* A reader of /cmds or /lcmds that commands are added under gets a beginning
\* of the list as it is now: commands are listed in the order of their addition,
\* so that the size it holds cuts the end off, never the middle out.
AddsOnlyCutShort ==
  rd.got # <<>> /\ table[rd.ino].name \in {"cmds", "lcmds"}
    /\ deleted <= rd.since
    => IsPrefix(rd.got, Contents(table[rd.ino].name, list))
=============================================================================

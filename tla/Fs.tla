--------------------------------- MODULE Fs ---------------------------------
(***************************************************************************)
(* The synthetic file system of fs.c: the inode table with its free list,  *)
(* the directories a createfsfunc builds in it, the requests the kernel    *)
(* sends through FUSE, and fsCleanup, which takes everything down by a     *)
(* scan of the table.                                                      *)
(*                                                                         *)
(* Three things make the table delicate.  A null next pointer stands for   *)
(* "allocated", but the last inode of the free list has one too.  inofree  *)
(* leaves the file pointer of the inode behind, dangling.  And             *)
(* fsCreatefile and fsCreatedir ignore a refusal of dir_add, so an item    *)
(* can exist that its directory does not list.                             *)
(***************************************************************************)
EXTENDS Integers, Sequences, FiniteSets

CONSTANTS
  NIno,   \* ino_num: the inodes of the table
  Name,   \* the names given to files and directories
  Builds, \* the createfsfuncs: what each creates, in order
  MaxKnown  \* bound: the inodes the kernel holds at a time

INVALID_INO == 0
ROOT_INO    == 1
Ino         == 0..NIno - 1

\* A createfsfunc creates items in the root or in a directory it has created
\* before: the k-th call gets inode k + 1
Feasible(b) ==
  \A k \in DOMAIN b :
    \/ b[k].dir = ROOT_INO
    \/ /\ b[k].dir - 1 \in 1..k - 1
       /\ b[b[k].dir - 1].type = "DIRECTORY"

ASSUME TableAssumption ==
  /\ NIno \in Nat /\ NIno >= 3
  /\ \A b \in Builds :
       /\ b \in Seq([dir : Nat, name : Name, type : {"REGULAR", "DIRECTORY"}])
       /\ Feasible(b)

Dot         == "."

VARIABLES
  build,    \* the createfsfunc given to fsCreate
  phase,    \* how far the file system has come
  table,    \* ino_table with the items it points to
  free,     \* ino_freelist, from its head
  known,    \* the inodes the kernel has been told of
  scan,     \* the inode fsCleanup has come to
  todo,     \* the item fsRemoveitem is called on, INVALID_INO if none
  removed   \* fsCleanup's count

fsvars == <<build, phase, table, free, known, scan, todo, removed>>

Phases == {"start", "build", "mounted", "scan", "exited", "aborted"}

\* An inode and its item.  file is the inode's pointer: null, pointing to an
\* item, or left over from an item that was freed; kids are the inodes the two
\* hash tables of a directory list.
Item == [file : {"null", "live", "freed"}, type : {"REGULAR", "DIRECTORY"},
         name : Name \cup {Dot}, dir : Ino, kids : SUBSET Ino]

FsTypeOK ==
  /\ phase \in Phases
  /\ table \in [Ino -> Item]
  /\ free \in Seq(Ino)
  /\ known \subseteq Ino
  /\ scan \in 0..NIno /\ todo \in Ino /\ removed \in Nat

Unused == [file |-> "null", type |-> "REGULAR", name |-> Dot, dir |-> 0,
           kids |-> {}]

\* id->next == NULL
NextNull(i) ==
  \/ \A k \in DOMAIN free : free[k] # i
  \/ free # <<>> /\ free[Len(free)] = i

\* An inode the asserts accept: allocated, and with its item
Allocated(i) == table[i].file = "live" /\ NextNull(i)

IsDir(i) == table[i].type = "DIRECTORY"
Live     == {i \in Ino : table[i].file = "live"}

\* init_inotable
FsInit ==
  /\ build \in Builds
  /\ phase = "start"
  /\ table = [i \in Ino |-> Unused]
  /\ free = [k \in 1..NIno |-> k - 1]
  /\ known = {} /\ scan = 0 /\ todo = INVALID_INO /\ removed = 0

\* The inode inoalloc hands out; the rest stays on the free list
inoalloc == Head(free)

\* Mutant: the head of the free list is not set
inofree_Lost(i) == free

inofree(i) == <<i>> \o free

FsAbort ==
  /\ phase' = "aborted"
  /\ UNCHANGED <<build, table, free, known, scan, todo, removed>>

-----------------------------------------------------------------------------
(* fsCreate *)

\* mkdir fails: main exits and fsCleanup finds nothing it made
MkdirFails ==
  /\ phase = "start"
  /\ phase' = "exited"
  /\ UNCHANGED <<build, table, free, known, scan, todo, removed>>

\* mkdir, the reserved inode 0 and the root directory
MakeRoot ==
  /\ phase = "start"
  /\ phase' = "build"
  /\ table' = [table EXCEPT ![ROOT_INO] =
                 [file |-> "live", type |-> "DIRECTORY", name |-> Dot,
                  dir |-> INVALID_INO, kids |-> {}]]
  /\ free' = Tail(Tail(free))
  /\ UNCHANGED <<build, known, scan, todo, removed>>

\* Mutant: the name is not looked for
dir_add_Twice(d, i, n) == TRUE

\* The directory does not list the name yet
dir_add(d, i, n) ==
  /\ i \notin table[d].kids
  /\ \A k \in table[d].kids : table[k].name # n

\* The calls of createfsfunc that have returned; the root is not one of them
Created == Cardinality(Live) - 1

\* fsCreatefile and fsCreatedir.  The item is entered in the table whether or
\* not dir_add has taken it; a full table ends in grow_inotable's NYI.
Create ==
  /\ phase = "build" /\ Created < Len(build)
  /\ LET call == build[Created + 1]
         d    == call.dir
         i    == inoalloc
         item == [file |-> "live", type |-> call.type, name |-> call.name,
                  dir |-> d, kids |-> {}]
     IN  IF free = <<>> THEN FsAbort
         ELSE IF table[i].file # "null" \/ ~(Allocated(d) /\ IsDir(d))
         THEN FsAbort
         ELSE /\ free' = Tail(free)
              /\ table' = [[table EXCEPT ![i] = item] EXCEPT
                             ![d].kids = IF dir_add(d, i, call.name)
                                         THEN @ \cup {i} ELSE @]
              /\ UNCHANGED <<build, phase, known, scan, todo, removed>>

\* createfsfunc has returned; the kernel knows the root once it is mounted
Mount ==
  /\ phase = "build" /\ Created = Len(build)
  /\ phase' = "mounted" /\ known' = {ROOT_INO}
  /\ UNCHANGED <<build, table, free, scan, todo, removed>>

\* fuse_session_mount fails: main exits, and fsCleanup removes what was built
MountFails ==
  /\ phase = "build" /\ Created = Len(build)
  /\ phase' = "scan"
  /\ UNCHANGED <<build, table, free, known, scan, todo, removed>>

-----------------------------------------------------------------------------
(* Requests of the kernel, which names only inodes it was told of *)

\* HASH_FIND in nm_files
Entry(d, n) == {i \in table[d].kids : table[i].name = n}

\* ENOENT unless d is an allocated directory that lists n
fs_fuse_lookup(d, n) ==
  /\ phase = "mounted" /\ d \in known
  /\ NextNull(d) /\ IsDir(d)
  /\ known' = known \cup Entry(d, n)
  /\ Cardinality(known') <= MaxKnown
  /\ UNCHANGED <<build, phase, table, free, scan, todo, removed>>

\* The kernel forgets an inode it does not need to reach another (forget is
\* left to libfuse)
fs_fuse_forget(i) ==
  /\ phase = "mounted" /\ i \in known \ {ROOT_INO}
  /\ \A k \in known : table[k].dir # i
  /\ known' = known \ {i}
  /\ UNCHANGED <<build, phase, table, free, scan, todo, removed>>

\* getattr and readdir: ENOENT for an inode of the free list; an answer
\* changes nothing here
fs_fuse_getattr(i) ==
  /\ phase = "mounted" /\ i \in known
  /\ IF NextNull(i) /\ table[i].file # "live" THEN FsAbort
     ELSE UNCHANGED fsvars

\* open, read and the extended attributes: an assert, then an answer
fs_fuse_request(i) ==
  /\ phase = "mounted" /\ i \in known
  /\ IF Allocated(i) THEN UNCHANGED fsvars ELSE FsAbort

-----------------------------------------------------------------------------
(* fsCleanup: yar exits, the session is unmounted, the table is scanned *)

Unmount ==
  /\ phase = "mounted"
  /\ phase' = "scan" /\ known' = {}
  /\ UNCHANGED <<build, table, free, scan, todo, removed>>

Scan == phase = "scan" /\ todo = INVALID_INO

\* Mutant: the scan stops at an inode that has no item
ScanItem_Stops ==
  /\ Scan /\ scan < NIno
  /\ table[scan].file # "null" \/ scan = INVALID_INO
  /\ IF table[scan].file = "null"
     THEN scan' = scan + 1 /\ UNCHANGED <<phase, todo, removed>>
     ELSE /\ scan' = scan + 1 /\ todo' = scan /\ removed' = removed + 1
          /\ UNCHANGED phase
  /\ UNCHANGED <<build, table, free, known>>

\* fsCleanup calls fsRemoveitem on the item it meets and counts it removed,
\* whatever fsRemoveitem answers
ScanItem ==
  /\ Scan /\ scan < NIno
  /\ IF table[scan].file = "null"
     THEN /\ scan' = scan + 1
          /\ UNCHANGED <<phase, todo, removed>>
     ELSE IF ~Allocated(scan)
     THEN /\ phase' = "aborted"
          /\ UNCHANGED <<scan, todo, removed>>
     ELSE /\ scan' = scan + 1 /\ todo' = scan /\ removed' = removed + 1
          /\ UNCHANGED phase
  /\ UNCHANGED <<build, table, free, known>>

\* Mutant: an emptied directory is left to the scan, which has passed it
Purged_Never(d) == INVALID_INO

\* The containing directory, if it is to be removed because it is now empty
Purged(d) == IF table[d].kids = {todo} THEN d ELSE INVALID_INO

\* One call of fsRemoveitem, with purgeemptydir
fsRemoveitem ==
  /\ phase = "scan" /\ todo # INVALID_INO
  /\ LET d == table[todo].dir
     IN  \/ /\ table[todo].kids # {}
            /\ todo' = INVALID_INO
            /\ UNCHANGED <<phase, table, free>>
         \/ /\ table[todo].kids = {}
            /\ todo # ROOT_INO
            /\ ~(Allocated(d) /\ IsDir(d) /\ todo \in table[d].kids)
            /\ phase' = "aborted"
            /\ UNCHANGED <<table, free, todo>>
         \/ /\ table[todo].kids = {}
            /\ todo # ROOT_INO
            /\ Allocated(d) /\ IsDir(d) /\ todo \in table[d].kids
            /\ table' = [table EXCEPT ![d].kids = @ \ {todo},
                                      ![todo].file = "freed"]
            /\ free' = inofree(todo)
            /\ todo' = Purged(d)
            /\ UNCHANGED phase
         \/ /\ table[todo].kids = {}
            /\ todo = ROOT_INO
            /\ table' = [table EXCEPT ![todo].file = "freed"]
            /\ free' = inofree(todo)
            /\ todo' = INVALID_INO
            /\ UNCHANGED phase
  /\ UNCHANGED <<build, known, scan, removed>>

\* The inodes in use when the scan began
allocated ==
  NIno - Len(free) + Cardinality({i \in Ino : table[i].file = "freed"})

\* inofree(INVALID_INO) and the closing asserts
ScanEnd ==
  /\ Scan /\ scan = NIno
  /\ free' = inofree(INVALID_INO)
  /\ removed' = removed + 1
  /\ phase' = IF removed' = allocated /\ Len(free') = NIno
              THEN "exited" ELSE "aborted"
  /\ UNCHANGED <<build, table, known, scan, todo>>

FsCleanup == ScanItem \/ fsRemoveitem \/ ScanEnd

FsNext ==
  \/ MkdirFails \/ MakeRoot \/ Create \/ Mount \/ MountFails
  \/ \E d \in known, n \in Name : fs_fuse_lookup(d, n)
  \/ \E i \in known : \/ fs_fuse_forget(i)
                      \/ fs_fuse_getattr(i) \/ fs_fuse_request(i)
  \/ Unmount \/ FsCleanup

\* fsCleanup runs to its end in one call: nothing can come between its steps
FsSpec == FsInit /\ [][FsNext]_fsvars /\ WF_fsvars(FsCleanup)

-----------------------------------------------------------------------------
(* Properties *)

\* The free list holds every inode that has no item, once, and no other but
\* the reserved one: what inoalloc hands out is never in use (fs.c:103-129).
FreeListSound ==
  /\ \A j, k \in DOMAIN free : free[j] = free[k] => j = k
  /\ \A i \in Ino \ {INVALID_INO} :
       (\E k \in DOMAIN free : free[k] = i) <=> i \notin Live

\* A directory lists live items that name it as theirs, each under a name of
\* its own, so a lookup is never ambiguous (dir_add, fs.c:132); and what the
\* kernel knows it has come to by such entries.
DirsAgree ==
  /\ \A d \in Live : \A i \in table[d].kids :
       /\ i \in Live /\ table[i].dir = d
       /\ \A j \in table[d].kids : table[i].name = table[j].name => i = j
  /\ phase = "mounted" =>
       \A i \in known \ {ROOT_INO} : table[i].dir \in known
                                     /\ i \in table[table[i].dir].kids

\* Items a refusal of dir_add has left without an entry
Orphans == {i \in Live \ {ROOT_INO} : i \notin table[table[i].dir].kids}

\* Why the scan of fsCleanup (fs.c:769) may run upwards and count what it
\* could not remove: behind it live only directories that an item ahead of it
\* will purge, and ahead of it no inode has been freed, so that it never
\* follows a file pointer inofree has left behind (fs.c:121).
BehindScan ==
  phase = "scan" /\ todo = INVALID_INO /\ Orphans = {} =>
    /\ \A i \in Live : i < scan => /\ IsDir(i)
                                   /\ \E k \in table[i].kids : TRUE
    /\ \A i \in Ino : i >= scan => table[i].file # "freed"

\* fsCleanup leaves nothing, and its asserts hold unless an item was created
\* under a name its directory already had; the table ends yar only when full.
CleanupSound ==
  /\ phase = "exited" => Live = {}
  /\ phase = "aborted" => Orphans # {} \/ free = <<>>

\* A clean-up that has begun comes to its end.
CleanupEnds == phase = "scan" ~> phase \in {"exited", "aborted"}
=============================================================================

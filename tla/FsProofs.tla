------------------------------ MODULE FsProofs ------------------------------
(***************************************************************************)
(* The inode table, the directories and the clean-up of fs.c are sound for *)
(* every size of the table and every createfsfunc.                         *)
(***************************************************************************)
EXTENDS Fs, SumProofs, FiniteSetTheorems

-----------------------------------------------------------------------------
(* The inductive invariant *)

\* The free list as init_inotable and inoalloc leave it: what is left of the
\* inodes in their order.
CountFrom(a, m) == [k \in 1..m |-> a + k]

\* fsCleanup has not begun
Before == phase \in {"start", "build", "mounted"}

StartInv ==
  phase = "start" => /\ table = [i \in Ino |-> Unused]
                     /\ free = CountFrom(-1, NIno)

\* While createfsfunc runs, the table holds the root and the items of the
\* first c calls, in that order.
Built(c) ==
  /\ c \in 0..Len(build) /\ c + 2 <= NIno
  /\ Live = 1..(c + 1)
  /\ free = CountFrom(c + 1, NIno - 2 - c)
  /\ table[ROOT_INO].type = "DIRECTORY"
  /\ \A k \in 1..c : table[k + 1].type = build[k].type

BuildInv == phase = "build" => \E c \in 0..NIno : Built(c)

\* Inode 0 has no item, and is on the free list only before MakeRoot and after
\* the scan; before the scan nothing is freed.
ReservedInv ==
  /\ table[INVALID_INO].file = "null"
  /\ phase \in {"build", "mounted", "scan"} =>
       \A k \in DOMAIN free : free[k] # INVALID_INO
  /\ Before => /\ scan = 0 /\ todo = INVALID_INO /\ removed = 0
               /\ \A i \in Ino : table[i].file # "freed"

\* A directory is older than what it contains, and outlives it unless an item
\* was left without an entry.
TreeInv ==
  /\ table[ROOT_INO].dir = INVALID_INO
  /\ \A i \in Live : table[i].kids # {} => IsDir(i)
  /\ \A i \in Live \ {ROOT_INO} : table[i].dir < i
  /\ phase \in {"build", "mounted"} \/ Orphans = {} =>
       \A i \in Live \ {ROOT_INO} : table[i].dir \in Live

\* The kernel only knows live items.
KnownInv == phase = "mounted" => known \subseteq Live /\ ROOT_INO \in Live

\* What the scan has met.
Met == {i \in Ino : i < scan /\ table[i].file # "null"}

\* BehindScan while fsRemoveitem is at work on todo as well; and fsCleanup's
\* count is that of the items it has met.
ScanInv ==
  phase = "scan" =>
    /\ removed = Cardinality(Met)
    /\ todo # INVALID_INO => todo \in Live /\ todo < scan
    /\ Orphans = {} =>
         /\ \A i \in Live : i < scan /\ i # todo => IsDir(i) /\ table[i].kids # {}
         /\ \A i \in Ino : i >= scan => table[i].file # "freed"

FsInv ==
  /\ FsTypeOK /\ build \in Builds
  /\ StartInv /\ BuildInv /\ ReservedInv
  /\ FreeListSound
  /\ TreeInv /\ DirsAgree /\ KnownInv
  /\ ScanInv /\ CleanupSound

-----------------------------------------------------------------------------
(* Numbers and sequences *)

\* A bounded set of natural numbers that is not empty has a greatest element.
LEMMA GreatestOf ==
  ASSUME NEW n \in Nat, NEW T, T \subseteq 0..n, T # {}
  PROVE  \E x \in T : \A y \in T : y <= x
<1> DEFINE U == {i \in 0..n : n - i \in T}
<1>1. U \in SUBSET Nat
  OBVIOUS
<1>2. U # {}
  <2>1. PICK t : t \in T
    OBVIOUS
  <2>2. t \in 0..n
    BY <2>1
  <2>3. n - t \in 0..n /\ n - (n - t) = t
    BY <2>2
  <2>4. n - t \in U
    BY <2>1, <2>3
  <2> QED BY <2>4
<1>3. PICK x \in U : \A y \in U : x <= y
  <2> HIDE DEF U
  <2> QED BY <1>1, <1>2, LeastOf
<1>4. n - x \in T /\ x \in Int
  OBVIOUS
<1>5. ASSUME NEW y \in T PROVE y <= n - x
  <2>1. y \in 0..n
    OBVIOUS
  <2>2. n - y \in 0..n /\ n - (n - y) = y
    BY <2>1
  <2>3. n - y \in U
    BY <2>2
  <2>4. x <= n - y
    BY <1>3, <2>3
  <2> QED BY <1>4, <2>1, <2>4
<1> QED BY <1>4, <1>5

\* inoalloc on a list that is in order.
LEMMA CountTail ==
  ASSUME NEW a \in Int, NEW m \in Nat
  PROVE  /\ CountFrom(a, m) \in Seq(Int) /\ Len(CountFrom(a, m)) = m
         /\ DOMAIN CountFrom(a, m) = 1..m
         /\ \A k \in 1..m : CountFrom(a, m)[k] = a + k
         /\ m = 0 <=> CountFrom(a, m) = <<>>
         /\ m # 0 => /\ Head(CountFrom(a, m)) = a + 1
                     /\ Tail(CountFrom(a, m)) = CountFrom(a + 1, m - 1)
<1> DEFINE f == CountFrom(a, m)
           g == CountFrom(a + 1, m - 1)
<1>1. f \in [1..m -> Int] /\ \A k \in 1..m : f[k] = a + k
  BY DEF CountFrom
<1>2. f \in Seq(Int) /\ Len(f) = m /\ DOMAIN f = 1..m
  BY <1>1
<1>3. m = 0 <=> f = <<>>
  BY <1>2, EmptySeq
<1>4. ASSUME m # 0 PROVE Head(f) = a + 1 /\ Tail(f) = g
  <2>1. m - 1 \in Nat
    BY <1>4
  <2>2. g \in [1..(m - 1) -> Int] /\ \A k \in 1..(m - 1) : g[k] = (a + 1) + k
    BY DEF CountFrom
  <2>3. g \in Seq(Int) /\ Len(g) = m - 1
    BY <2>1, <2>2
  <2>4. /\ Head(f) \in Int /\ Tail(f) \in Seq(Int)
        /\ Len(Tail(f)) = m - 1 /\ Head(f) = f[1]
        /\ \A i \in 1..(m - 1) : Tail(f)[i] = f[i + 1]
    <3> HIDE DEF f
    <3> QED BY <1>2, <1>3, <1>4, HeadTailProperties, LenProperties
  <2>5. ASSUME NEW i \in 1..(m - 1) PROVE Tail(f)[i] = g[i]
    <3>1. i + 1 \in 1..m /\ a + (i + 1) = (a + 1) + i
      BY <2>1
    <3>2. Tail(f)[i] = f[i + 1]
      BY <2>4
    <3>3. f[i + 1] = a + (i + 1)
      BY <1>1, <3>1
    <3>4. g[i] = (a + 1) + i
      BY <2>2
    <3> QED BY <3>1, <3>2, <3>3, <3>4
  <2>6. Tail(f) = g
    <3> HIDE DEF f, g
    <3> QED BY <2>3, <2>4, <2>5, SeqEqual
  <2>7. 1 \in 1..m
    BY <1>4
  <2>8. Head(f) = a + 1
    BY <1>1, <2>4, <2>7
  <2> QED BY <2>6, <2>8
<1> QED BY <1>1, <1>2, <1>3, <1>4

\* inofree puts an inode at the head of the list.
LEMMA Prepended ==
  ASSUME NEW S, NEW f \in Seq(S), NEW i \in S, NEW g, g = <<i>> \o f
  PROVE  /\ g \in Seq(S) /\ Len(g) = Len(f) + 1 /\ DOMAIN g = 1..(Len(f) + 1)
         /\ g[1] = i /\ \A k \in 1..Len(f) : g[k + 1] = f[k]
         /\ \A k \in 2..(Len(f) + 1) : k - 1 \in 1..Len(f) /\ g[k] = f[k - 1]
<1>1. <<i>> \in Seq(S) /\ Len(<<i>>) = 1 /\ Len(f) \in Nat
  BY LenProperties
<1>2. /\ g \in Seq(S) /\ Len(g) = 1 + Len(f)
      /\ \A k \in 1..(1 + Len(f)) : g[k] = IF k <= 1 THEN <<i>>[k] ELSE f[k - 1]
  BY <1>1, ConcatProperties
<1>3. DOMAIN g = 1..(Len(f) + 1) /\ Len(g) = Len(f) + 1
  BY <1>1, <1>2, LenProperties
<1>4. g[1] = i
  BY <1>1, <1>2
<1>5. ASSUME NEW k \in 2..(Len(f) + 1) PROVE k - 1 \in 1..Len(f) /\ g[k] = f[k - 1]
  <2>1. k - 1 \in 1..Len(f) /\ k \in 1..(1 + Len(f)) /\ ~(k <= 1)
    BY <1>1
  <2> QED BY <1>2, <2>1
<1>6. ASSUME NEW k \in 1..Len(f) PROVE g[k + 1] = f[k]
  <2>1. k + 1 \in 2..(Len(f) + 1) /\ (k + 1) - 1 = k
    BY <1>1
  <2>2. g[k + 1] = f[(k + 1) - 1]
    BY <1>5, <2>1
  <2> QED BY <2>1, <2>2
<1> QED BY <1>2, <1>3, <1>4, <1>5, <1>6

-----------------------------------------------------------------------------
(* The free list *)

\* No inode is listed twice.
Once(f) == \A j, k \in DOMAIN f : f[j] = f[k] => j = k

\* Whether an inode is listed.
On(f, i) == \E k \in DOMAIN f : f[k] = i

\* In order, the free list is what the items leave.
LEMMA InOrder ==
  ASSUME NEW c \in Int, c >= -2, c + 2 <= NIno, NEW f,
         f = CountFrom(c + 1, NIno - 2 - c)
  PROVE  /\ f \in Seq(Ino) /\ Once(f)
         /\ \A i \in Ino : On(f, i) <=> i > c + 1
<1>1. NIno \in Nat /\ NIno - 2 - c \in Nat /\ c + 1 \in Int
  BY TableAssumption
<1> DEFINE m == NIno - 2 - c
<1>2. f \in Seq(Int) /\ Len(f) = m /\ DOMAIN f = 1..m /\ \A k \in 1..m : f[k] = (c + 1) + k
  <2> HIDE DEF m
  <2> QED BY <1>1, CountTail DEF m
<1>3. \A k \in 1..m : f[k] \in Ino
  BY <1>1, <1>2 DEF Ino
<1>4. f \in Seq(Ino)
  <2> HIDE DEF m
  <2>1. \A k \in 1..Len(f) : f[k] \in Ino
    BY <1>2, <1>3
  <2> QED BY <1>1, <1>2, <1>3, LenProperties, IsASeq DEF m
<1>5. Once(f)
  BY <1>1, <1>2 DEF Once
<1>6. ASSUME NEW i \in Ino PROVE On(f, i) <=> i > c + 1
  <2>1. On(f, i) => i > c + 1
    BY <1>1, <1>2 DEF On
  <2>2. ASSUME i > c + 1 PROVE On(f, i)
    <3>1. i - (c + 1) \in 1..m /\ (c + 1) + (i - (c + 1)) = i
      BY <1>1, <2>2 DEF Ino
    <3>2. f[i - (c + 1)] = (c + 1) + (i - (c + 1))
      <4> DEFINE k == i - (c + 1)
      <4>1. k \in 1..m
        BY <3>1
      <4> HIDE DEF k
      <4>2. f[k] = (c + 1) + k
        BY <1>2, <4>1
      <4> QED BY <4>2 DEF k
    <3> QED BY <1>2, <3>1, <3>2 DEF On
  <2> QED BY <2>1, <2>2
<1> QED BY <1>4, <1>5, <1>6

\* inofree of an inode that is not on the list.
LEMMA Freed ==
  ASSUME NEW S, NEW f \in Seq(S), Once(f), NEW i \in S, ~On(f, i),
         NEW g, g = <<i>> \o f
  PROVE  /\ g \in Seq(S) /\ Once(g) /\ Len(g) = Len(f) + 1
         /\ \A x : On(g, x) <=> x = i \/ On(f, x)
<1>1. /\ g \in Seq(S) /\ Len(g) = Len(f) + 1 /\ DOMAIN g = 1..(Len(f) + 1)
      /\ g[1] = i /\ \A k \in 1..Len(f) : g[k + 1] = f[k]
      /\ \A k \in 2..(Len(f) + 1) : k - 1 \in 1..Len(f) /\ g[k] = f[k - 1]
  BY Prepended
<1>2. Len(f) \in Nat /\ DOMAIN f = 1..Len(f)
  BY LenProperties
<1>3. \A k \in 1..(Len(f) + 1) : k = 1 \/ k \in 2..(Len(f) + 1)
  BY <1>2
<1>4. ASSUME NEW k \in 2..(Len(f) + 1) PROVE g[k] # i
  BY <1>1, <1>2, <1>4 DEF On
<1>5. ASSUME NEW j \in 2..(Len(f) + 1), NEW k \in 2..(Len(f) + 1), g[j] = g[k]
      PROVE  j = k
  <2>1. j - 1 \in DOMAIN f /\ k - 1 \in DOMAIN f /\ f[j - 1] = f[k - 1]
    BY <1>1, <1>2, <1>5
  <2>2. j - 1 = k - 1
    <3> DEFINE jj == j - 1
               kk == k - 1
    <3>1. jj \in DOMAIN f /\ kk \in DOMAIN f /\ f[jj] = f[kk]
      BY <2>1
    <3> HIDE DEF jj, kk
    <3>2. jj = kk
      BY <3>1 DEF Once
    <3> QED BY <3>2 DEF jj, kk
  <2> QED BY <1>2, <2>2
<1>6. Once(g)
  BY <1>1, <1>3, <1>4, <1>5 DEF Once
<1>7. ASSUME NEW x PROVE On(g, x) <=> x = i \/ On(f, x)
  <2>1. ASSUME On(g, x) PROVE x = i \/ On(f, x)
    <3>1. PICK k \in 1..(Len(f) + 1) : g[k] = x
      BY <1>1, <2>1 DEF On
    <3>2. CASE k = 1
      BY <1>1, <3>1, <3>2
    <3>3. CASE k \in 2..(Len(f) + 1)
      BY <1>1, <1>2, <3>1, <3>3 DEF On
    <3> QED BY <1>3, <3>2, <3>3
  <2>2. On(g, i)
    <3>1. 1 \in DOMAIN g
      BY <1>1, <1>2
    <3> QED BY <1>1, <3>1 DEF On
  <2>3. ASSUME On(f, x) PROVE On(g, x)
    <3>1. PICK k \in 1..Len(f) : f[k] = x
      BY <1>2, <2>3 DEF On
    <3>2. k + 1 \in DOMAIN g /\ g[k + 1] = x
      BY <1>1, <1>2, <3>1
    <3> QED BY <3>2 DEF On
  <2> QED BY <2>1, <2>2, <2>3
<1> QED BY <1>1, <1>6, <1>7

\* A list of distinct inodes is no longer than the set it is from, and is as
\* long only if it has them all.
LEMMA ListLength ==
  ASSUME NEW f \in Seq(Ino), Once(f), NEW S \in SUBSET Ino,
         \A i \in Ino : On(f, i) <=> i \in S
  PROVE  IsFiniteSet(S) /\ Len(f) = Cardinality(S)
<1>1. Len(f) \in Nat /\ DOMAIN f = 1..Len(f) /\ f \in [1..Len(f) -> Ino]
  BY LenProperties
<1>2. f \in [1..Len(f) -> S]
  <2>1. \A k \in 1..Len(f) : f[k] \in S
    BY <1>1 DEF On
  <2> QED BY <1>1, <2>1
<1>3. f \in Injection(1..Len(f), S)
  BY <1>1, <1>2 DEF Injection, IsInjective, Once
<1>4. f \in Surjection(1..Len(f), S)
  BY <1>1, <1>2 DEF Surjection, On
<1>5. IsFiniteSet(1..Len(f)) /\ Cardinality(1..Len(f)) = Len(f)
  <2>1. Cardinality(1..Len(f)) = IF 1 > Len(f) THEN 0 ELSE Len(f) - 1 + 1
    BY <1>1, FS_Interval
  <2>2. IsFiniteSet(1..Len(f))
    BY <1>1, FS_Interval
  <2> QED BY <1>1, <2>1, <2>2
<1> QED BY <1>3, <1>4, <1>5, FS_Surjection

-----------------------------------------------------------------------------
(* fsCreate *)

\* The fields of an item.
LEMMA Fields ==
  ASSUME FsTypeOK, NEW i \in Ino
  PROVE  /\ table[i].file \in {"null", "live", "freed"}
         /\ table[i].type \in {"REGULAR", "DIRECTORY"}
         /\ table[i].name \in Name \cup {Dot}
         /\ table[i].dir \in Ino /\ table[i].kids \in SUBSET Ino
BY DEF FsTypeOK, Item

\* The two inodes with a meaning of their own.
LEMMA Inodes ==
  /\ NIno \in Nat /\ NIno >= 3
  /\ INVALID_INO \in Ino /\ ROOT_INO \in Ino /\ INVALID_INO # ROOT_INO
  /\ Ino \subseteq Nat /\ \A i \in Ino : i < NIno
BY TableAssumption DEF Ino, INVALID_INO, ROOT_INO

\* The invariant holds at first.
LEMMA FsInitHolds ==
  ASSUME FsInit
  PROVE  FsInv
<1>1. /\ table = [i \in Ino |-> Unused] /\ Unused \in Item
      /\ \A i \in Ino : table[i] = Unused /\ table[i].file = "null" /\ table[i].dir = 0
  BY Inodes DEF FsInit, Unused, Item, INVALID_INO
<1>2. Live = {} /\ Orphans = {}
  BY <1>1 DEF Live, Orphans
<1>3. free = CountFrom(-1, NIno)
  <2>1. \A k \in 1..NIno : k - 1 = -1 + k
    BY Inodes
  <2> QED BY <2>1 DEF FsInit, CountFrom
<1>4. free \in Seq(Ino) /\ Once(free) /\ \A i \in Ino : On(free, i)
  <2>1. free = CountFrom(-2 + 1, NIno - 2 - (-2)) /\ -2 \in Int /\ -2 >= -2 /\ -2 + 2 <= NIno
    BY <1>3, Inodes
  <2>2. free \in Seq(Ino) /\ Once(free) /\ \A i \in Ino : On(free, i) <=> i > -2 + 1
    <3> DEFINE c == -2
    <3> HIDE DEF c
    <3>1. free = CountFrom(c + 1, NIno - 2 - c) /\ c \in Int /\ c >= -2 /\ c + 2 <= NIno
      BY <2>1 DEF c
    <3>2. free \in Seq(Ino) /\ Once(free) /\ \A i \in Ino : On(free, i) <=> i > c + 1
      BY <3>1, InOrder
    <3> QED BY <3>2 DEF c
  <2>3. \A i \in Ino : i > -2 + 1
    BY Inodes
  <2> QED BY <2>2, <2>3
<1>5. FsTypeOK /\ build \in Builds
  BY <1>1, <1>4, Inodes DEF FsInit, FsTypeOK, Phases
<1>6. FreeListSound
  BY <1>2, <1>4 DEF FreeListSound, Once, On
<1>7. ReservedInv /\ StartInv /\ BuildInv /\ KnownInv /\ ScanInv /\ CleanupSound
  BY <1>1, <1>3, Inodes
  DEF FsInit, ReservedInv, StartInv, BuildInv, KnownInv, ScanInv, CleanupSound, Before
<1>8. TreeInv /\ DirsAgree
  BY <1>1, <1>2, Inodes DEF FsInit, TreeInv, DirsAgree, INVALID_INO
<1> QED BY <1>5, <1>6, <1>7, <1>8 DEF FsInv

\* A phase that only ends things: neither the table nor the free list changes.
LEMMA EndStep ==
  ASSUME FsInv, UNCHANGED <<build, table, free>>, FsTypeOK',
         phase' \in {"exited", "aborted"},
         phase' = "exited" => Live = {},
         phase' = "aborted" => Orphans # {} \/ free = <<>>
  PROVE  FsInv'
<1>1. Live' = Live /\ Orphans' = Orphans /\ FreeListSound'
  BY DEF FsInv, Live, Orphans, FreeListSound
<1>2. TreeInv'
  BY <1>1 DEF FsInv, TreeInv, IsDir
<1>3. DirsAgree'
  BY <1>1 DEF FsInv, DirsAgree
<1> QED
  BY <1>1, <1>2, <1>3
  DEF FsInv, StartInv, BuildInv, ReservedInv, Before, KnownInv, ScanInv, CleanupSound

\* The root directory: the first inode after the reserved one.
LEMMA MakeRootKeeps ==
  ASSUME FsInv, MakeRoot
  PROVE  FsInv'
<1> DEFINE root == [file |-> "live", type |-> "DIRECTORY", name |-> Dot,
                    dir |-> INVALID_INO, kids |-> {}]
<1>1. /\ table = [i \in Ino |-> Unused] /\ free = CountFrom(-1, NIno) /\ phase = "start"
      /\ scan = 0 /\ todo = INVALID_INO /\ removed = 0 /\ known \subseteq Ino
      /\ table' = [table EXCEPT ![ROOT_INO] = root]
  BY DEF FsInv, FsTypeOK, StartInv, ReservedInv, Before, MakeRoot
<1>2. free' = CountFrom(1, NIno - 2)
  <2>1. Tail(CountFrom(-1, NIno)) = CountFrom(0, NIno - 1)
    <3>1. Tail(CountFrom(-1, NIno)) = CountFrom(-1 + 1, NIno - 1)
      BY Inodes, CountTail
    <3> QED BY <3>1
  <2>2. Tail(CountFrom(0, NIno - 1)) = CountFrom(1, NIno - 2)
    <3> DEFINE m == NIno - 1
    <3>1. m \in Nat /\ m # 0 /\ m - 1 = NIno - 2
      BY Inodes
    <3> HIDE DEF m
    <3>2. Tail(CountFrom(0, m)) = CountFrom(0 + 1, m - 1)
      BY <3>1, CountTail
    <3> QED BY <3>1, <3>2 DEF m
  <2> QED BY <1>1, <2>1, <2>2 DEF MakeRoot
<1>3. /\ free' \in Seq(Ino) /\ Once(free') /\ \A i \in Ino : On(free', i) <=> i > 1
      /\ free' = CountFrom(0 + 1, NIno - 2 - 0)
  <2>1. NIno - 2 - 0 = NIno - 2 /\ 0 + 2 <= NIno /\ 0 + 1 = 1
    BY Inodes
  <2>2. free' = CountFrom(0 + 1, NIno - 2 - 0)
    BY <1>2, <2>1
  <2>3. free' \in Seq(Ino) /\ Once(free') /\ \A i \in Ino : On(free', i) <=> i > 0 + 1
    BY <2>1, <2>2, InOrder
  <2> QED BY <2>1, <2>2, <2>3
<1>4. /\ root \in Item /\ Unused \in Item
      /\ root.file = "live" /\ root.type = "DIRECTORY" /\ root.kids = {} /\ root.dir = 0
      /\ Unused.file = "null" /\ Unused.dir = 0
  BY Inodes DEF Item, Unused, INVALID_INO
<1>5. /\ table' \in [Ino -> Item] /\ table'[ROOT_INO] = root
      /\ \A i \in Ino \ {ROOT_INO} : table'[i] = Unused
  <2> HIDE DEF root
  <2> QED BY <1>1, <1>4, Inodes
<1> HIDE DEF root
<1>6. Live' = {ROOT_INO}
  BY <1>4, <1>5, Inodes DEF Live
<1>7. FsTypeOK' /\ build' \in Builds
  BY <1>1, <1>3, <1>5 DEF FsInv, FsTypeOK, MakeRoot, Phases
<1>8. FreeListSound'
  <2>1. \A i \in Ino \ {INVALID_INO} : i > 1 <=> i \notin {ROOT_INO}
    BY Inodes DEF ROOT_INO, INVALID_INO
  <2> QED BY <1>3, <1>6, <2>1 DEF FreeListSound, Once, On
<1>9. BuildInv'
  <2>1. {ROOT_INO} = 1..(0 + 1) /\ 1..0 = {} /\ 0 + 2 <= NIno /\ 0 \in 0..NIno
    BY Inodes DEF ROOT_INO
  <2>2. 0 \in 0..Len(build')
    <3>1. Len(build') \in Nat
      BY <1>7, TableAssumption, LenProperties
    <3> QED BY <3>1
  <2>3. Built(0)'
    BY <1>3, <1>4, <1>5, <1>6, <2>1, <2>2 DEF Built
  <2> QED BY <2>1, <2>3 DEF BuildInv
<1>10. ReservedInv'
  <2>1. ~On(free', INVALID_INO)
    BY <1>3, Inodes DEF INVALID_INO
  <2>2. \A k \in DOMAIN free' : free'[k] # INVALID_INO
    BY <2>1 DEF On
  <2>3. \A i \in Ino : table'[i].file # "freed"
    BY <1>4, <1>5
  <2> QED BY <1>1, <1>4, <1>5, <2>2, <2>3, Inodes DEF ReservedInv, MakeRoot
<1>11. TreeInv' /\ DirsAgree'
  BY <1>4, <1>5, <1>6, Inodes DEF TreeInv, DirsAgree, MakeRoot, INVALID_INO
<1> QED
  BY <1>7, <1>8, <1>9, <1>10, <1>11
  DEF FsInv, StartInv, KnownInv, ScanInv, CleanupSound, MakeRoot

\* What a call of createfsfunc finds: an inode of the free list that was never
\* used, unless the table is full, and a directory.
LEMMA CallFinds ==
  ASSUME FsInv, phase = "build", Created < Len(build),
         NEW d, d = build[Created + 1].dir
  PROVE  \E c \in 0..NIno :
           /\ Built(c) /\ Created = c /\ c + 1 \in 1..Len(build)
           /\ build[c + 1] \in [dir : Nat, name : Name, type : {"REGULAR", "DIRECTORY"}]
           /\ d \in Live /\ d \in Ino /\ d <= c + 1 /\ Allocated(d) /\ IsDir(d)
           /\ free # <<>> => /\ inoalloc = c + 2 /\ c + 3 <= NIno
                             /\ c + 2 \in Ino /\ c + 2 \notin Live
                             /\ table[c + 2].file = "null"
                             /\ Tail(free) = CountFrom(c + 2, NIno - 3 - c)
<1>1. PICK c \in 0..NIno : Built(c)
  BY DEF FsInv, BuildInv
<1>2. Created = c
  <2>1. Cardinality(1..(c + 1)) = c + 1
    <3>1. Cardinality(1..(c + 1)) = IF 1 > c + 1 THEN 0 ELSE (c + 1) - 1 + 1
      BY FS_Interval
    <3> QED BY <3>1
  <2> QED BY <1>1, <2>1 DEF Created, Built
<1>3. /\ build \in Seq([dir : Nat, name : Name, type : {"REGULAR", "DIRECTORY"}])
      /\ Feasible(build) /\ Len(build) \in Nat /\ DOMAIN build = 1..Len(build)
  BY TableAssumption, LenProperties DEF FsInv
<1>4. c + 1 \in 1..Len(build)
  BY <1>2, <1>3
<1>5. build[c + 1] \in [dir : Nat, name : Name, type : {"REGULAR", "DIRECTORY"}]
  BY <1>3, <1>4, ElementOfSeq
<1>6. d \in Nat /\ (d = 1 \/ (d - 1 \in 1..c /\ build[d - 1].type = "DIRECTORY"))
  <2>1. d = build[c + 1].dir /\ (c + 1) - 1 = c
    BY <1>2
  <2>2. d \in Nat
    BY <1>5, <2>1
  <2>3. \/ build[c + 1].dir = ROOT_INO
        \/ /\ build[c + 1].dir - 1 \in 1..((c + 1) - 1)
           /\ build[build[c + 1].dir - 1].type = "DIRECTORY"
    <3> DEFINE k == c + 1
    <3> HIDE DEF k
    <3>1. k \in DOMAIN build
      BY <1>3, <1>4 DEF k
    <3>2. \/ build[k].dir = ROOT_INO
          \/ /\ build[k].dir - 1 \in 1..(k - 1)
             /\ build[build[k].dir - 1].type = "DIRECTORY"
      BY <1>3, <3>1 DEF Feasible
    <3> QED BY <3>2 DEF k
  <2> QED BY <2>1, <2>2, <2>3 DEF ROOT_INO
<1>7. d \in 1..(c + 1) /\ d \in Live /\ d \in Ino
  <2>1. d \in 1..(c + 1)
    BY <1>6
  <2> QED BY <1>1, <2>1 DEF Built, Live
<1>8. table[d].type = "DIRECTORY"
  <2>1. CASE d = 1
    BY <1>1, <2>1 DEF Built, ROOT_INO
  <2>2. CASE d - 1 \in 1..c /\ build[d - 1].type = "DIRECTORY"
    <3> DEFINE k == d - 1
    <3>1. k \in 1..c /\ build[k].type = "DIRECTORY" /\ k + 1 = d
      BY <1>6, <2>2
    <3> HIDE DEF k
    <3>2. table[k + 1].type = build[k].type
      BY <1>1, <3>1 DEF Built
    <3> QED BY <3>1, <3>2
  <2> QED BY <1>6, <2>1, <2>2
<1>9. Allocated(d)
  <2>1. d # INVALID_INO
    BY <1>7 DEF INVALID_INO
  <2>2. ~\E k \in DOMAIN free : free[k] = d
    BY <1>7, <2>1 DEF FsInv, FreeListSound
  <2> QED BY <1>7, <2>2 DEF Allocated, NextNull, Live
<1>10. ASSUME free # <<>>
       PROVE  /\ inoalloc = c + 2 /\ c + 3 <= NIno
              /\ Tail(free) = CountFrom(c + 2, NIno - 3 - c)
  <2> DEFINE m == NIno - 2 - c
  <2>1. m \in Nat /\ c + 1 \in Int /\ free = CountFrom(c + 1, m)
    BY <1>1, Inodes DEF Built
  <2>2. m - 1 = NIno - 3 - c /\ (c + 1) + 1 = c + 2
    BY Inodes
  <2>3. m # 0 /\ Head(free) = (c + 1) + 1 /\ Tail(free) = CountFrom((c + 1) + 1, m - 1)
    <3> HIDE DEF m
    <3> QED BY <1>10, <2>1, CountTail
  <2>4. c + 3 <= NIno
    BY <2>1, <2>3, Inodes
  <2> HIDE DEF m
  <2> QED BY <2>2, <2>3, <2>4 DEF inoalloc
<1>11. ASSUME free # <<>>
       PROVE  c + 2 \in Ino /\ c + 2 \notin Live /\ table[c + 2].file = "null"
  <2>1. c + 2 \in Ino /\ c + 2 \notin 1..(c + 1)
    BY <1>10, <1>11, Inodes DEF Ino
  <2>2. c + 2 \notin Live
    BY <1>1, <2>1 DEF Built
  <2>3. table[c + 2].file # "freed"
    BY <2>1 DEF FsInv, ReservedInv, Before
  <2>4. table[c + 2].file \in {"null", "live", "freed"}
    BY <2>1, Fields DEF FsInv
  <2> QED BY <2>1, <2>2, <2>3, <2>4 DEF Live
<1>12. d <= c + 1
  BY <1>7
<1> QED
  BY <1>1, <1>2, <1>4, <1>5, <1>7, <1>8, <1>9, <1>10, <1>11, <1>12 DEF IsDir

\* The table after fsCreatefile or fsCreatedir of item i in directory d.
Enter(i, d, n, ty) ==
  [[table EXCEPT ![i] = [file |-> "live", type |-> ty, name |-> n, dir |-> d,
                         kids |-> {}]] EXCEPT
     ![d].kids = IF dir_add(d, i, n) THEN @ \cup {i} ELSE @]

\* What is in it.
IsEntered(t, i, d, n, ty) ==
  /\ t \in [Ino -> Item]
  /\ t[i].file = "live" /\ t[i].type = ty /\ t[i].name = n
  /\ t[i].dir = d /\ t[i].kids = {}
  /\ t[d].file = table[d].file /\ t[d].type = table[d].type
  /\ t[d].name = table[d].name /\ t[d].dir = table[d].dir
  /\ t[d].kids = IF dir_add(d, i, n) THEN table[d].kids \cup {i} ELSE table[d].kids
  /\ \A j \in Ino \ {i, d} : t[j] = table[j]

\* The one is the other.
LEMMA Entered ==
  ASSUME FsTypeOK, NEW i \in Ino, NEW d \in Ino, d # i, NEW n \in Name,
         NEW ty \in {"REGULAR", "DIRECTORY"}, NEW t, t = Enter(i, d, n, ty)
  PROVE  IsEntered(t, i, d, n, ty)
<1> DEFINE item == [file |-> "live", type |-> ty, name |-> n, dir |-> d, kids |-> {}]
           t1 == [table EXCEPT ![i] = item]
           K  == IF dir_add(d, i, n) THEN table[d].kids \cup {i} ELSE table[d].kids
<1>1. /\ item \in Item /\ item.file = "live" /\ item.type = ty /\ item.name = n
      /\ item.dir = d /\ item.kids = {}
  BY DEF Item
<1>2. table \in [Ino -> Item]
  BY DEF FsTypeOK
<1>3. /\ t1 \in [Ino -> Item] /\ t1[i] = item
      /\ \A j \in Ino \ {i} : t1[j] = table[j]
  BY <1>1, <1>2
<1>4. t1[d] = table[d]
  BY <1>3
<1>5. t = [t1 EXCEPT ![d].kids = K]
  <2>1. t = [t1 EXCEPT ![d].kids = IF dir_add(d, i, n) THEN t1[d].kids \cup {i}
                                   ELSE t1[d].kids]
    BY DEF Enter
  <2> QED BY <1>4, <2>1
<1>6. K \in SUBSET Ino
  BY Fields
<1> HIDE DEF item, t1, K
<1>7. t = [t1 EXCEPT ![d] = [t1[d] EXCEPT !.kids = K]]
  BY <1>5
<1> DEFINE e == [table[d] EXCEPT !.kids = K]
<1>8. /\ e \in Item /\ e.file = table[d].file /\ e.type = table[d].type
      /\ e.name = table[d].name /\ e.dir = table[d].dir /\ e.kids = K
  <2>1. table[d] \in Item
    BY <1>2
  <2> QED BY <1>6, <2>1 DEF Item
<1>9. t = [t1 EXCEPT ![d] = e]
  BY <1>4, <1>7
<1> HIDE DEF e
<1>10. /\ t \in [Ino -> Item] /\ t[d] = e
       /\ \A j \in Ino \ {d} : t[j] = t1[j]
  BY <1>3, <1>8, <1>9
<1>11. t[i] = item /\ \A j \in Ino \ {i, d} : t[j] = table[j]
  BY <1>3, <1>10
<1> QED BY <1>1, <1>8, <1>10, <1>11 DEF K, IsEntered

\* fsCreatefile and fsCreatedir keep the invariant.
LEMMA CreateKeeps ==
  ASSUME FsInv, Create
  PROVE  FsInv'
<1> DEFINE call == build[Created + 1]
           d == call.dir
           i == inoalloc
           item == [file |-> "live", type |-> call.type, name |-> call.name,
                    dir |-> d, kids |-> {}]
<1>1. PICK c \in 0..NIno :
           /\ Built(c) /\ Created = c /\ c + 1 \in 1..Len(build)
           /\ build[c + 1] \in [dir : Nat, name : Name, type : {"REGULAR", "DIRECTORY"}]
           /\ d \in Live /\ d \in Ino /\ d <= c + 1 /\ Allocated(d) /\ IsDir(d)
           /\ free # <<>> => /\ inoalloc = c + 2 /\ c + 3 <= NIno
                             /\ c + 2 \in Ino /\ c + 2 \notin Live
                             /\ table[c + 2].file = "null"
                             /\ Tail(free) = CountFrom(c + 2, NIno - 3 - c)
  BY CallFinds DEF Create
<1>2. CASE free = <<>>
  <2>1. FsAbort
    BY <1>2 DEF Create
  <2>2. FsTypeOK'
    BY <2>1 DEF FsInv, FsTypeOK, FsAbort, Phases
  <2> QED BY <1>2, <2>1, <2>2, EndStep DEF FsAbort
<1>3. CASE free # <<>>
  <2>1. /\ i = c + 2 /\ c + 3 <= NIno /\ i \in Ino /\ i \notin Live
        /\ table[i].file = "null" /\ Tail(free) = CountFrom(c + 2, NIno - 3 - c)
        /\ i # d /\ i # INVALID_INO /\ i # ROOT_INO /\ d < i
        /\ call.name \in Name /\ call.type \in {"REGULAR", "DIRECTORY"}
        /\ call = build[c + 1] /\ phase = "build"
    BY <1>1, <1>3 DEF INVALID_INO, ROOT_INO, Create
  <2>2. /\ free' = Tail(free)
        /\ table' = [[table EXCEPT ![i] = item] EXCEPT
                       ![d].kids = IF dir_add(d, i, call.name)
                                   THEN @ \cup {i} ELSE @]
        /\ UNCHANGED <<build, phase, known, scan, todo, removed>>
    BY <1>1, <1>3, <2>1 DEF Create
  <2>3. /\ table' \in [Ino -> Item]
        /\ table'[i].file = "live" /\ table'[i].type = call.type
        /\ table'[i].name = call.name
        /\ table'[i].dir = d /\ table'[i].kids = {}
        /\ table'[d].file = table[d].file /\ table'[d].type = table[d].type
        /\ table'[d].name = table[d].name /\ table'[d].dir = table[d].dir
        /\ table'[d].kids = IF dir_add(d, i, call.name) THEN table[d].kids \cup {i}
                            ELSE table[d].kids
        /\ \A j \in Ino \ {i, d} : table'[j] = table[j]
    <3>1. FsTypeOK
      BY DEF FsInv
    <3>2. i \in Ino /\ d \in Ino /\ d # i
      BY <1>1, <2>1
    <3> DEFINE n == call.name
               ty == call.type
    <3>3. /\ n \in Name /\ ty \in {"REGULAR", "DIRECTORY"}
          /\ table' = Enter(i, d, n, ty)
      BY <2>1, <2>2 DEF Enter
    <3>4. IsEntered(table', i, d, n, ty)
      <4> HIDE DEF n, ty, i, d, call
      <4> QED BY <3>1, <3>2, <3>3, Entered
    <3> HIDE DEF i, d, call
    <3> QED BY <3>4 DEF IsEntered
  <2> HIDE DEF item, i, d, call
  <2>4. Live' = Live \cup {i} /\ d \in Live /\ d \in Ino
    <3>1. d \in Live /\ d \in Ino /\ i \in Ino
      BY <1>1, <2>1
    <3>2. \A j \in Ino \ {i} : table'[j].file = table[j].file
      BY <2>3
    <3> QED BY <2>3, <3>1, <3>2 DEF Live
  <2>5. FsTypeOK' /\ build' \in Builds
    <3>1. free \in Seq(Ino)
      BY DEF FsInv, FsTypeOK
    <3>2. free' \in Seq(Ino)
      BY <1>3, <2>2, <3>1, HeadTailProperties
    <3> QED BY <2>2, <2>3, <3>2 DEF FsInv, FsTypeOK
  <2>6. c + 1 \in 0..Len(build) /\ (c + 1) + 2 <= NIno /\ c + 1 \in 0..NIno
    BY <1>1, <2>1, Inodes
  <2>7. free' = CountFrom((c + 1) + 1, NIno - 2 - (c + 1))
    <3>1. (c + 1) + 1 = c + 2 /\ NIno - 2 - (c + 1) = NIno - 3 - c
      BY Inodes
    <3> QED BY <2>1, <2>2, <3>1
  <2>8. Live' = 1..((c + 1) + 1)
    <3>1. 1..((c + 1) + 1) = 1..(c + 1) \cup {c + 2}
      OBVIOUS
    <3> QED BY <1>1, <2>1, <2>4, <3>1 DEF Built
  <2>9. BuildInv'
    <3>1. table'[ROOT_INO].type = "DIRECTORY"
      BY <1>1, <2>1, <2>3, Inodes DEF Built
    <3>2. ASSUME NEW k \in 1..(c + 1) PROVE table'[k + 1].type = build[k].type
      <4>1. CASE k = c + 1
        <5>1. k + 1 = i
          BY <2>1, <4>1
        <5> QED BY <2>1, <2>3, <4>1, <5>1
      <4>2. CASE k # c + 1
        <5>1. k \in 1..c /\ k + 1 \in Ino /\ k + 1 # i
          BY <2>1, <4>2, Inodes DEF Ino
        <5>2. table[k + 1].type = build[k].type
          BY <1>1, <5>1 DEF Built
        <5>3. table'[k + 1].type = table[k + 1].type
          <6> DEFINE j == k + 1
          <6>1. j \in Ino /\ j # i
            BY <5>1
          <6> HIDE DEF j
          <6>2. table'[j].type = table[j].type
            BY <2>3, <6>1
          <6> QED BY <6>2 DEF j
        <5> QED BY <5>2, <5>3
      <4> QED BY <4>1, <4>2
    <3>3. Built(c + 1)'
      BY <2>2, <2>6, <2>7, <2>8, <3>1, <3>2 DEF Built
    <3> QED BY <2>6, <3>3 DEF BuildInv
  <2>10. \A j \in Ino : On(free', j) <=> j > (c + 1) + 1
    <3> DEFINE e == c + 1
    <3>1. e \in Int /\ e >= -2 /\ e + 2 <= NIno /\ free' = CountFrom(e + 1, NIno - 2 - e)
      BY <2>6, <2>7
    <3> HIDE DEF e
    <3>2. \A j \in Ino : On(free', j) <=> j > e + 1
      BY <3>1, InOrder
    <3> QED BY <3>2 DEF e
  <2>11. FreeListSound'
    <3> DEFINE e == c + 1
    <3>1. e \in Int /\ e >= -2 /\ e + 2 <= NIno /\ free' = CountFrom(e + 1, NIno - 2 - e)
      BY <2>6, <2>7
    <3>2. Once(free')
      <4> HIDE DEF e
      <4> QED BY <3>1, InOrder
    <3>3. \A j \in Ino \ {INVALID_INO} : On(free', j) <=> j \notin Live'
      <4>1. \A j \in Ino \ {INVALID_INO} : j > (c + 1) + 1 <=> j \notin 1..((c + 1) + 1)
        BY Inodes DEF INVALID_INO
      <4> QED BY <2>8, <2>10, <4>1
    <3> QED BY <3>2, <3>3 DEF FreeListSound, Once, On
  <2>12. ReservedInv'
    <3>1. table'[INVALID_INO].file = "null"
      BY <2>1, <2>3, Inodes DEF FsInv, ReservedInv
    <3>2. ~On(free', INVALID_INO)
      <4>1. ~(INVALID_INO > (c + 1) + 1)
        BY DEF INVALID_INO
      <4> QED BY <2>10, <4>1, Inodes
    <3>3. \A j \in Ino : table'[j].file # "freed"
      BY <1>1, <2>1, <2>3 DEF FsInv, ReservedInv, Before, Live
    <3>4. scan' = 0 /\ todo' = INVALID_INO /\ removed' = 0
      BY <2>1, <2>2 DEF FsInv, ReservedInv, Before
    <3> QED BY <3>1, <3>2, <3>3, <3>4 DEF ReservedInv, On
  <2>13. TreeInv'
    <3>1. table'[ROOT_INO].dir = INVALID_INO
      BY <2>1, <2>3, Inodes DEF FsInv, TreeInv
    <3>2. \A j \in Live' : table'[j].kids # {} => table'[j].type = "DIRECTORY"
      BY <1>1, <2>3, <2>4 DEF FsInv, TreeInv, IsDir, Live
    <3>3. \A j \in Live' \ {ROOT_INO} : table'[j].dir < j /\ table'[j].dir \in Live'
      <4>1. \A j \in Live \ {ROOT_INO} : table[j].dir < j /\ table[j].dir \in Live
        BY <2>1 DEF FsInv, TreeInv
      <4>2. \A j \in Live : table'[j].dir = table[j].dir
        BY <2>1, <2>3 DEF Live
      <4> QED BY <2>1, <2>3, <2>4, <4>1, <4>2
    <3> QED BY <3>1, <3>2, <3>3 DEF TreeInv, IsDir
  <2>14. DirsAgree'
    <3>1. \A e \in Live : \A j \in table[e].kids :
            /\ j \in Live /\ table[j].dir = e
            /\ \A k \in table[e].kids : table[j].name = table[k].name => j = k
      BY DEF FsInv, DirsAgree
    <3>2. \A j \in Live : table'[j].dir = table[j].dir /\ table'[j].name = table[j].name
      BY <2>1, <2>3 DEF Live
    <3>3. ASSUME NEW e \in Live', NEW j \in table'[e].kids
          PROVE  /\ j \in Live' /\ table'[j].dir = e
                 /\ \A k \in table'[e].kids : table'[j].name = table'[k].name => j = k
      <4>1. CASE e = i
        BY <2>3, <4>1
      <4>2. CASE e # i /\ e # d
        <5>1. e \in Live /\ table'[e].kids = table[e].kids
          BY <2>3, <2>4, <4>2 DEF Live
        <5> QED BY <2>4, <3>1, <3>2, <5>1
      <4>3. CASE e = d /\ ~dir_add(d, i, call.name)
        <5>1. table'[e].kids = table[d].kids
          BY <2>3, <4>3
        <5> QED BY <2>4, <3>1, <3>2, <4>3, <5>1
      <4>4. CASE e = d /\ dir_add(d, i, call.name)
        <5>1. table'[e].kids = table[d].kids \cup {i}
          BY <2>3, <4>4
        <5>2. \A k \in table[d].kids : table'[k].name # call.name /\ k # i
          BY <2>4, <3>1, <3>2, <4>4 DEF dir_add
        <5> QED BY <2>3, <2>4, <3>1, <3>2, <4>4, <5>1, <5>2
      <4> QED BY <4>1, <4>2, <4>3, <4>4
    <3>4. phase' # "mounted"
      BY <2>1, <2>2
    <3> QED BY <3>3, <3>4 DEF DirsAgree
  <2> QED
    BY <2>1, <2>2, <2>5, <2>9, <2>11, <2>12, <2>13, <2>14
    DEF FsInv, StartInv, KnownInv, ScanInv, CleanupSound
<1> QED BY <1>2, <1>3

-----------------------------------------------------------------------------
(* The mounted file system *)

\* A step that leaves the table alone.
LEMMA SameTable ==
  ASSUME FsInv, UNCHANGED <<build, table, free>>
  PROVE  /\ Live' = Live /\ Orphans' = Orphans /\ FreeListSound' /\ build' \in Builds
         /\ \A i \in Ino : IsDir(i)' = IsDir(i)
         /\ \A d \in Live : \A i \in table[d].kids :
              /\ i \in Live /\ table[i].dir = d
              /\ \A j \in table[d].kids : table[i].name = table[j].name => i = j
BY DEF FsInv, Live, Orphans, FreeListSound, IsDir, DirsAgree

\* While createfsfunc runs, the root is there.
LEMMA RootBuilt ==
  ASSUME FsInv, phase = "build"
  PROVE  ROOT_INO \in Live
<1>1. PICK c \in 0..NIno : Built(c)
  BY DEF FsInv, BuildInv
<1>2. ROOT_INO \in 1..(c + 1)
  BY DEF ROOT_INO
<1> QED BY <1>1, <1>2 DEF Built

\* Mounting.
LEMMA MountKeeps ==
  ASSUME FsInv, Mount
  PROVE  FsInv'
<1>1. /\ Live' = Live /\ Orphans' = Orphans /\ FreeListSound' /\ build' \in Builds
      /\ ROOT_INO \in Live
  BY SameTable, RootBuilt DEF Mount
<1>2. FsTypeOK'
  BY Inodes DEF FsInv, FsTypeOK, Mount, Phases
<1>3. ReservedInv'
  BY DEF FsInv, ReservedInv, Mount, Before
<1>4. TreeInv'
  BY <1>1 DEF FsInv, TreeInv, Mount, IsDir
<1>5. DirsAgree' /\ KnownInv'
  BY <1>1 DEF FsInv, DirsAgree, Mount, KnownInv
<1> QED
  BY <1>1, <1>2, <1>3, <1>4, <1>5
  DEF FsInv, Mount, StartInv, BuildInv, ScanInv, CleanupSound

\* The scan begins: nothing has been met and nothing freed.
LEMMA ScanBegins ==
  ASSUME FsInv, phase \in {"build", "mounted"}, phase' = "scan",
         known' \in SUBSET Ino,
         UNCHANGED <<build, table, free, scan, todo, removed>>
  PROVE  FsInv'
<1>1. Live' = Live /\ Orphans' = Orphans /\ FreeListSound' /\ build' \in Builds
  BY SameTable
<1>2. FsTypeOK'
  BY DEF FsInv, FsTypeOK, Phases
<1>3. ReservedInv'
  BY DEF FsInv, ReservedInv, Before
<1>4. TreeInv'
  BY <1>1 DEF FsInv, TreeInv, IsDir
<1>5. DirsAgree'
  BY <1>1 DEF FsInv, DirsAgree
<1>6. /\ scan' = 0 /\ todo' = INVALID_INO /\ removed' = 0
      /\ \A i \in Ino : table'[i].file # "freed"
  BY DEF FsInv, ReservedInv, Before
<1>7. Met' = {} /\ \A i \in Ino : ~(i < scan')
  BY <1>6, Inodes DEF Met
<1>8. ScanInv'
  BY <1>6, <1>7, FS_EmptySet DEF ScanInv, Live
<1> QED
  BY <1>1, <1>2, <1>3, <1>4, <1>5, <1>8
  DEF FsInv, StartInv, BuildInv, KnownInv, CleanupSound

\* What the kernel knows only grows by entries of what it knows, and shrinks
\* by what it needs no more.
LEMMA KnownKeeps ==
  ASSUME FsInv, phase = "mounted",
         UNCHANGED <<build, phase, table, free, scan, todo, removed>>,
         known' \subseteq Live,
         \A i \in known' \ {ROOT_INO} : table[i].dir \in known'
                                        /\ i \in table[table[i].dir].kids
  PROVE  FsInv'
<1>1. Live' = Live /\ Orphans' = Orphans /\ FreeListSound' /\ build' \in Builds
  BY SameTable
<1>2. FsTypeOK'
  BY DEF FsInv, FsTypeOK, Live
<1>3. ReservedInv'
  BY DEF FsInv, ReservedInv, Before
<1>4. TreeInv'
  BY <1>1 DEF FsInv, TreeInv, IsDir
<1>5. DirsAgree' /\ KnownInv'
  BY <1>1 DEF FsInv, DirsAgree, KnownInv
<1> QED
  BY <1>1, <1>2, <1>3, <1>4, <1>5
  DEF FsInv, StartInv, BuildInv, ScanInv, CleanupSound

\* A lookup.
LEMMA LookupKeeps ==
  ASSUME FsInv, NEW d, NEW n, fs_fuse_lookup(d, n)
  PROVE  FsInv'
<1>1. /\ phase = "mounted" /\ d \in known /\ known' = known \cup Entry(d, n)
      /\ UNCHANGED <<build, phase, table, free, scan, todo, removed>>
  BY DEF fs_fuse_lookup
<1>2. known \subseteq Live /\ d \in Live
  BY <1>1 DEF FsInv, KnownInv
<1>3. \A i \in Entry(d, n) : i \in table[d].kids /\ i \in Live /\ table[i].dir = d
  BY <1>2 DEF FsInv, DirsAgree, Entry
<1>4. \A i \in known \ {ROOT_INO} : table[i].dir \in known
                                    /\ i \in table[table[i].dir].kids
  BY <1>1 DEF FsInv, DirsAgree
<1> QED BY <1>1, <1>2, <1>3, <1>4, KnownKeeps

\* The kernel forgets an inode.
LEMMA ForgetKeeps ==
  ASSUME FsInv, NEW x, fs_fuse_forget(x)
  PROVE  FsInv'
<1>1. /\ phase = "mounted" /\ known' = known \ {x} /\ \A k \in known : table[k].dir # x
      /\ UNCHANGED <<build, phase, table, free, scan, todo, removed>>
  BY DEF fs_fuse_forget
<1>2. known \subseteq Live
  BY <1>1 DEF FsInv, KnownInv
<1>3. \A i \in known \ {ROOT_INO} : table[i].dir \in known
                                    /\ i \in table[table[i].dir].kids
  BY <1>1 DEF FsInv, DirsAgree
<1> QED BY <1>1, <1>2, <1>3, KnownKeeps

\* A live item is one the asserts accept: it is not on the free list.
LEMMA LiveAllocated ==
  ASSUME FsInv, NEW i \in Live
  PROVE  Allocated(i) /\ i \in Ino /\ i # INVALID_INO
<1>1. i \in Ino /\ table[i].file = "live" /\ i # INVALID_INO
  BY DEF Live, FsInv, ReservedInv
<1>2. \A k \in DOMAIN free : free[k] # i
  BY <1>1 DEF FsInv, FreeListSound
<1> QED BY <1>1, <1>2 DEF Allocated, NextNull

\* No other request changes anything, or fails an assert.
LEMMA RequestKeeps ==
  ASSUME FsInv, NEW i, fs_fuse_getattr(i) \/ fs_fuse_request(i)
  PROVE  UNCHANGED fsvars
<1>1. i \in Live
  BY DEF FsInv, KnownInv, fs_fuse_getattr, fs_fuse_request
<1>2. Allocated(i)
  BY <1>1, LiveAllocated
<1> QED BY <1>2 DEF fs_fuse_getattr, fs_fuse_request, Allocated

-----------------------------------------------------------------------------
(* fsCleanup *)

\* Sets of inodes are finite.
LEMMA FiniteInodes ==
  ASSUME NEW S \in SUBSET Ino
  PROVE  IsFiniteSet(S) /\ Cardinality(S) \in Nat /\ Cardinality(S) <= NIno
<1>1. IsFiniteSet(Ino) /\ Cardinality(Ino) = NIno
  <2> DEFINE m == NIno - 1
  <2>1. m \in Int /\ 0 \in Int /\ ~(0 > m) /\ m - 0 + 1 = NIno
    BY Inodes
  <2> HIDE DEF m
  <2>2. IsFiniteSet(0..m) /\ Cardinality(0..m) = IF 0 > m THEN 0 ELSE m - 0 + 1
    BY <2>1, FS_Interval
  <2> QED BY <2>1, <2>2 DEF Ino, m
<1> QED BY <1>1, FS_Subset, FS_CardinalityType

\* fsCleanup comes to an inode.
LEMMA ScanItemKeeps ==
  ASSUME FsInv, ScanItem
  PROVE  FsInv'
<1>1. /\ phase = "scan" /\ todo = INVALID_INO /\ scan < NIno
      /\ UNCHANGED <<build, table, free, known>> /\ scan \in Ino
      /\ removed = Cardinality(Met)
  BY Inodes DEF FsInv, FsTypeOK, ScanItem, Scan, Ino, ScanInv
<1>2. /\ Live' = Live /\ Orphans' = Orphans /\ FreeListSound' /\ build' \in Builds
      /\ \A i \in Ino : IsDir(i)' = IsDir(i)
  BY <1>1, SameTable
<1>3. TreeInv' \/ phase' # phase
  BY <1>1, <1>2 DEF FsInv, TreeInv, IsDir
<1>4. DirsAgree' \/ phase' # phase
  BY <1>1, <1>2 DEF FsInv, DirsAgree
<1>5. table[scan].file \in {"null", "live", "freed"}
  BY <1>1, Fields DEF FsInv
<1>6. CASE table[scan].file # "null" /\ ~Allocated(scan)
  <2>1. phase' = "aborted" /\ UNCHANGED <<scan, todo, removed>>
    BY <1>6 DEF ScanItem
  <2>2. FsTypeOK'
    BY <1>1, <2>1 DEF FsInv, FsTypeOK, Phases
  <2>3. Orphans # {}
    <3> SUFFICES ASSUME Orphans = {} PROVE FALSE
      OBVIOUS
    <3>1. scan >= scan
      BY <1>1, Inodes
    <3>2. table[scan].file # "freed"
      BY <1>1, <3>1 DEF FsInv, ScanInv
    <3>3. scan \in Live
      BY <1>1, <1>5, <1>6, <3>2 DEF Live
    <3> QED BY <1>6, <3>3, LiveAllocated
  <2> QED BY <1>1, <2>1, <2>2, <2>3, EndStep
<1>7. CASE table[scan].file = "null" \/ Allocated(scan)
  <2>1. phase' = phase /\ scan' = scan + 1
    BY <1>7 DEF ScanItem
  <2>2. scan' \in 0..NIno /\ \A i \in Ino : (i < scan' <=> i < scan \/ i = scan)
                           /\ (i >= scan' => i >= scan)
    BY <1>1, <2>1, Inodes
  <2>3. FsTypeOK'
    <3>1. todo' \in Ino /\ removed' \in Nat
      <4>1. removed \in Nat
        BY DEF FsInv, FsTypeOK
      <4> QED BY <1>1, <1>7, <4>1, Inodes DEF ScanItem
    <3> QED BY <1>1, <2>1, <2>2, <3>1 DEF FsInv, FsTypeOK
  <2>4. ReservedInv'
    BY <1>1, <2>1 DEF FsInv, ReservedInv, Before
  <2>5. ScanInv'
    <3>1. CASE table[scan].file = "null"
      <4>1. UNCHANGED <<todo, removed>> /\ scan \notin Live
        BY <3>1 DEF ScanItem, Live
      <4>2. Met' = Met
        BY <1>1, <2>2, <3>1 DEF Met
      <4> QED BY <1>1, <1>2, <2>1, <2>2, <4>1, <4>2 DEF FsInv, ScanInv, Live
    <3>2. CASE table[scan].file # "null" /\ Allocated(scan)
      <4>1. todo' = scan /\ removed' = removed + 1 /\ scan \in Live /\ scan < scan'
        BY <1>1, <2>2, <3>2 DEF ScanItem, Live, Allocated
      <4>2. Met' = Met \cup {scan} /\ scan \notin Met
        BY <1>1, <2>2, <3>2, Inodes DEF Met
      <4>3. Cardinality(Met') = removed + 1
        <5>1. IsFiniteSet(Met)
          BY FiniteInodes DEF Met
        <5> QED BY <1>1, <4>2, <5>1, FS_AddElement
      <4>4. ASSUME Orphans = {}
            PROVE  /\ \A i \in Live : i < scan' /\ i # todo' => IsDir(i) /\ table[i].kids # {}
                   /\ \A i \in Ino : i >= scan' => table[i].file # "freed"
        <5>1. \A i \in Live : i # INVALID_INO /\ i \in Ino
          BY LiveAllocated
        <5> QED BY <1>1, <2>2, <4>1, <4>4, <5>1 DEF FsInv, ScanInv
      <4> QED BY <1>1, <1>2, <2>1, <4>1, <4>3, <4>4 DEF ScanInv, IsDir
    <3> QED BY <1>7, <3>1, <3>2
  <2> QED
    BY <1>1, <1>2, <1>3, <1>4, <2>1, <2>3, <2>4, <2>5
    DEF FsInv, StartInv, BuildInv, KnownInv, CleanupSound
<1> QED BY <1>6, <1>7

\* fsRemoveitem leaves the directory it is called on if it is not empty.
LEMMA RemoveNothing ==
  ASSUME FsInv, phase = "scan", todo # INVALID_INO, table[todo].kids # {},
         todo' = INVALID_INO, UNCHANGED <<build, phase, table, free, known, scan, removed>>
  PROVE  FsInv'
<1>1. /\ Live' = Live /\ Orphans' = Orphans /\ FreeListSound' /\ build' \in Builds
      /\ \A i \in Ino : IsDir(i)' = IsDir(i)
  BY SameTable
<1>2. FsTypeOK' /\ TreeInv' /\ DirsAgree' /\ ReservedInv'
  BY <1>1, Inodes DEF FsInv, FsTypeOK, TreeInv, IsDir, DirsAgree, ReservedInv, Before
<1>3. todo \in Live /\ IsDir(todo)
  BY DEF FsInv, ScanInv, TreeInv
<1>4. ScanInv'
  BY <1>1, <1>3 DEF FsInv, ScanInv, Met, IsDir
<1> QED
  BY <1>1, <1>2, <1>4 DEF FsInv, StartInv, BuildInv, KnownInv, CleanupSound

\* Without orphans its asserts hold.
LEMMA RemoveAsserts ==
  ASSUME FsInv, phase = "scan", todo # INVALID_INO, todo # ROOT_INO, Orphans = {}
  PROVE  /\ Allocated(table[todo].dir) /\ IsDir(table[todo].dir)
         /\ todo \in table[table[todo].dir].kids
<1>1. todo \in Live \ {ROOT_INO}
  BY DEF FsInv, ScanInv
<1>2. table[todo].dir \in Live /\ todo \in table[table[todo].dir].kids
  BY <1>1 DEF FsInv, TreeInv, Orphans
<1> QED BY <1>2, LiveAllocated DEF FsInv, TreeInv

\* What fsRemoveitem does when it frees todo, the root or not.
Removal ==
  /\ table' \in [Ino -> Item]
  /\ \A j \in Ino : /\ table'[j].name = table[j].name /\ table'[j].dir = table[j].dir
                    /\ table'[j].type = table[j].type
  /\ table'[todo].file = "freed"
  /\ \A j \in Ino \ {todo} : table'[j].file = table[j].file
  /\ \A j \in Live : table'[j].kids = table[j].kids \ {todo}
  /\ \A j \in Ino \ Live : table'[j].kids = table[j].kids
  /\ free' = <<todo>> \o free
  /\ UNCHANGED <<build, phase, known, scan, removed>>
  /\ todo' = INVALID_INO \/ (todo' \in Live /\ todo' < todo)
  /\ \A j \in Live : table[j].kids = {todo} => todo' = j

\* It keeps the invariant: the item leaves the table and its directory at
\* once, and a directory it has emptied is next.
LEMMA RemovalKeeps ==
  ASSUME FsInv, phase = "scan", todo # INVALID_INO, table[todo].kids = {},
         todo = ROOT_INO \/ todo \in table[table[todo].dir].kids, Removal
  PROVE  FsInv'
<1>1. /\ todo \in Live /\ todo \in Ino /\ todo < scan /\ phase' = "scan" /\ scan' = scan
      /\ removed' = removed /\ removed = Cardinality(Met)
  BY DEF FsInv, ScanInv, Removal, Live
<1>2. Live' = Live \ {todo}
  <2>1. \A j \in Ino : table'[j].file = "live" <=> table[j].file = "live" /\ j # todo
    BY <1>1 DEF Removal
  <2> QED BY <2>1 DEF Live
<1>3. ~On(free, todo) /\ ~On(free, INVALID_INO) /\ Once(free) /\ free \in Seq(Ino)
  BY <1>1 DEF FsInv, FreeListSound, FsTypeOK, ReservedInv, On, Once
<1>4. /\ free' \in Seq(Ino) /\ Once(free')
      /\ \A x : On(free', x) <=> x = todo \/ On(free, x)
  <2>1. free' = <<todo>> \o free
    BY DEF Removal
  <2> QED BY <1>1, <1>3, <2>1, Freed
<1>5. FreeListSound'
  <2>1. \A i \in Ino \ {INVALID_INO} : On(free, i) <=> i \notin Live
    BY DEF FsInv, FreeListSound, On
  <2>2. \A i \in Ino \ {INVALID_INO} : On(free', i) <=> i \notin Live'
    BY <1>1, <1>2, <1>4, <2>1
  <2> QED BY <1>4, <2>2 DEF FreeListSound, Once, On
<1>6. FsTypeOK' /\ build' \in Builds
  <2>1. todo' \in Ino
    BY Inodes DEF Removal, Live
  <2> QED BY <1>4, <2>1 DEF FsInv, FsTypeOK, Removal
<1>7. ReservedInv'
  <2>1. table'[INVALID_INO].file = "null"
    BY Inodes DEF FsInv, ReservedInv, Removal
  <2>2. ~On(free', INVALID_INO)
    BY <1>3, <1>4
  <2> QED BY <1>1, <2>1, <2>2 DEF ReservedInv, On, Before
<1>8. \A j \in Ino : table[j].dir \in Ino /\ table'[j].kids \subseteq table[j].kids
  BY Fields DEF FsInv, Removal
<1>9. Orphans' = {} => Orphans = {}
  <2> SUFFICES ASSUME NEW i \in Orphans PROVE i \in Orphans'
    OBVIOUS
  <2>1. i \in Live \ {ROOT_INO} /\ i \notin table[table[i].dir].kids /\ i \in Ino
    BY DEF Orphans, Live
  <2>2. i # todo
    BY <2>1
  <2>3. i \notin table'[table[i].dir].kids
    BY <1>8, <2>1
  <2>4. table'[i].dir = table[i].dir
    BY <2>1 DEF Removal
  <2> QED BY <1>2, <2>1, <2>2, <2>3, <2>4 DEF Orphans
<1>10. TreeInv'
  <2>1. table'[ROOT_INO].dir = INVALID_INO
    BY Inodes DEF FsInv, TreeInv, Removal
  <2>2. \A i \in Live' : table'[i].kids # {} => table'[i].type = "DIRECTORY"
    <3>1. \A i \in Live' : i \in Live /\ i \in Ino
      BY <1>2 DEF Live
    <3> QED BY <1>8, <3>1 DEF FsInv, TreeInv, IsDir, Removal
  <2>3. \A i \in Live' \ {ROOT_INO} : table'[i].dir < i
    BY <1>2 DEF FsInv, TreeInv, Removal, Live
  <2>4. ASSUME Orphans' = {}, NEW i \in Live' \ {ROOT_INO} PROVE table'[i].dir \in Live'
    <3>1. Orphans = {} /\ i \in Live \ {ROOT_INO} /\ i \in Ino
      BY <1>2, <1>9, <2>4 DEF Live
    <3>2. table[i].dir \in Live /\ i \in table[table[i].dir].kids
      BY <3>1 DEF FsInv, TreeInv, Orphans
    <3>3. table[i].dir # todo
      BY <3>2
    <3> QED BY <1>2, <3>1, <3>2, <3>3 DEF Removal
  <2> QED BY <1>1, <2>1, <2>2, <2>3, <2>4 DEF TreeInv, IsDir
<1>11. DirsAgree'
  <2>1. \A e \in Live : \A j \in table[e].kids :
          /\ j \in Live /\ table[j].dir = e
          /\ \A k \in table[e].kids : table[j].name = table[k].name => j = k
    BY DEF FsInv, DirsAgree
  <2>2. ASSUME NEW e \in Live', NEW j \in table'[e].kids
        PROVE  /\ j \in Live' /\ table'[j].dir = e
               /\ \A k \in table'[e].kids : table'[j].name = table'[k].name => j = k
    <3>1. e \in Live /\ table'[e].kids = table[e].kids \ {todo}
      BY <1>2 DEF Removal
    <3>2. \A k \in table'[e].kids : k \in table[e].kids /\ k # todo /\ k \in Live /\ k \in Ino
      BY <2>1, <3>1 DEF Live
    <3>3. \A k \in Ino : table'[k].name = table[k].name /\ table'[k].dir = table[k].dir
      BY DEF Removal
    <3> QED BY <1>2, <2>1, <3>1, <3>2, <3>3
  <2> QED BY <1>1, <2>2 DEF DirsAgree
<1>12. ScanInv'
  <2>1. Met' = Met
    <3>1. \A j \in Ino : table'[j].file # "null" <=> table[j].file # "null"
      BY <1>1 DEF Removal, Live
    <3> QED BY <1>1, <3>1 DEF Met
  <2>2. todo' # INVALID_INO => todo' \in Live' /\ todo' < scan'
    <3>1. ASSUME todo' # INVALID_INO PROVE todo' \in Live' /\ todo' < scan'
      <4>1. todo' \in Live /\ todo' < todo /\ todo' \in Ino
        BY <3>1 DEF Removal, Live
      <4>2. todo' \in Nat /\ todo \in Nat /\ scan \in Nat
        BY <1>1, <4>1, Inodes DEF FsInv, FsTypeOK
      <4> QED BY <1>1, <1>2, <4>1, <4>2
    <3> QED BY <3>1
  <2>3. ASSUME Orphans' = {}, NEW i \in Live', i < scan', i # todo'
        PROVE  table'[i].type = "DIRECTORY" /\ table'[i].kids # {}
    <3>1. i \in Live /\ i # todo /\ i < scan /\ i \in Ino /\ Orphans = {}
      BY <1>1, <1>2, <1>9, <2>3 DEF Live
    <3>2. IsDir(i) /\ table[i].kids # {}
      BY <1>1, <3>1 DEF FsInv, ScanInv
    <3>3. table[i].kids # {todo}
      BY <2>3, <3>1 DEF Removal
    <3>4. table'[i].kids = table[i].kids \ {todo}
      BY <3>1 DEF Removal
    <3> QED BY <3>1, <3>2, <3>3, <3>4 DEF Removal, IsDir
  <2>4. ASSUME Orphans' = {}, NEW i \in Ino, i >= scan' PROVE table'[i].file # "freed"
    <3>1. i # todo /\ i >= scan /\ Orphans = {}
      BY <1>1, <1>9, <2>4, Inodes DEF FsInv, FsTypeOK
    <3>2. table[i].file # "freed"
      BY <3>1 DEF FsInv, ScanInv
    <3> QED BY <3>1, <3>2 DEF Removal
  <2> QED BY <1>1, <2>1, <2>2, <2>3, <2>4 DEF ScanInv, IsDir
<1> QED
  BY <1>1, <1>5, <1>6, <1>7, <1>10, <1>11, <1>12
  DEF FsInv, StartInv, BuildInv, KnownInv, CleanupSound

\* One call of fsRemoveitem.
LEMMA RemoveKeeps ==
  ASSUME FsInv, fsRemoveitem
  PROVE  FsInv'
<1> DEFINE d == table[todo].dir
<1>1. /\ phase = "scan" /\ todo # INVALID_INO /\ todo \in Live /\ todo \in Ino
      /\ UNCHANGED <<build, known, scan, removed>> /\ d \in Ino
  <2>1. phase = "scan" /\ todo # INVALID_INO /\ UNCHANGED <<build, known, scan, removed>>
    BY DEF fsRemoveitem
  <2>2. todo \in Live /\ todo \in Ino
    BY <2>1 DEF FsInv, ScanInv, Live
  <2> QED BY <2>1, <2>2, Fields DEF FsInv
<1>2. table \in [Ino -> Item]
  BY DEF FsInv, FsTypeOK
<1>3. \A e \in Live : \A j \in table[e].kids : j \in Live /\ table[j].dir = e
  BY DEF FsInv, DirsAgree
<1>4. CASE table[todo].kids # {}
  <2>1. todo' = INVALID_INO /\ UNCHANGED <<phase, table, free>>
    BY <1>4 DEF fsRemoveitem
  <2> QED BY <1>1, <1>4, <2>1, RemoveNothing
<1>5. CASE /\ table[todo].kids = {} /\ todo # ROOT_INO
           /\ ~(Allocated(d) /\ IsDir(d) /\ todo \in table[d].kids)
  <2>1. phase' = "aborted" /\ UNCHANGED <<table, free, todo>>
    BY <1>5 DEF fsRemoveitem
  <2>2. FsTypeOK'
    BY <1>1, <2>1 DEF FsInv, FsTypeOK, Phases
  <2>3. Orphans # {}
    BY <1>1, <1>5, RemoveAsserts
  <2> QED BY <1>1, <2>1, <2>2, <2>3, EndStep
<1>6. CASE /\ table[todo].kids = {} /\ todo # ROOT_INO
           /\ Allocated(d) /\ IsDir(d) /\ todo \in table[d].kids
  <2> DEFINE K == table[d].kids \ {todo}
             e == [table[d] EXCEPT !.kids = K]
             f == [table[todo] EXCEPT !.file = "freed"]
             t1 == [table EXCEPT ![d] = e]
  <2>1. /\ table' = [table EXCEPT ![d].kids = @ \ {todo}, ![todo].file = "freed"]
        /\ free' = inofree(todo) /\ todo' = Purged(d) /\ UNCHANGED phase
    BY <1>6 DEF fsRemoveitem
  <2>2. d \in Live /\ d # todo /\ d < todo
    <3>1. d \in Live /\ d # todo
      BY <1>1, <1>6 DEF Allocated, Live
    <3> QED BY <1>1, <1>6, <3>1 DEF FsInv, TreeInv
  <2>3. table' = [t1 EXCEPT ![todo] = [t1[todo] EXCEPT !.file = "freed"]]
    BY <2>1
  <2>4. /\ e \in Item /\ e.file = table[d].file /\ e.type = table[d].type
        /\ e.name = table[d].name /\ e.dir = table[d].dir /\ e.kids = K
    <3>1. table[d] \in Item /\ K \in SUBSET Ino
      BY <1>1, <1>2, Fields DEF FsInv
    <3> HIDE DEF K, d
    <3> QED BY <3>1 DEF Item
  <2>5. /\ f \in Item /\ f.file = "freed" /\ f.type = table[todo].type
        /\ f.name = table[todo].name /\ f.dir = table[todo].dir
        /\ f.kids = table[todo].kids
    <3>1. table[todo] \in Item
      BY <1>1, <1>2
    <3> QED BY <3>1 DEF Item
  <2>6. t1 \in [Ino -> Item] /\ t1[d] = e /\ \A j \in Ino \ {d} : t1[j] = table[j]
    <3> HIDE DEF e, d
    <3> QED BY <1>1, <1>2, <2>4
  <2>7. table' = [t1 EXCEPT ![todo] = f]
    <3>1. t1[todo] = table[todo]
      BY <1>1, <2>2, <2>6
    <3> HIDE DEF t1
    <3> QED BY <2>3, <3>1
  <2> HIDE DEF t1, e, f
  <2>8. /\ table' \in [Ino -> Item] /\ table'[todo] = f /\ table'[d] = e
        /\ \A j \in Ino \ {d, todo} : table'[j] = table[j]
    <3> HIDE DEF d
    <3> QED BY <1>1, <2>2, <2>5, <2>6, <2>7
  <2>9. \A j \in Live : todo \in table[j].kids => j = d
    BY <1>3
  <2>10. todo' = INVALID_INO \/ (todo' = d /\ table[d].kids = {todo})
    BY <2>1 DEF Purged
  <2>11. \A j \in Live : table[j].kids = {todo} => todo' = j
    BY <2>1, <2>9 DEF Purged
  <2>12. \A j \in Live : table'[j].kids = table[j].kids \ {todo}
    <3>1. \A j \in Live : j \in Ino
      BY DEF Live
    <3>2. ASSUME NEW j \in Live PROVE table'[j].kids = table[j].kids \ {todo}
      <4>1. CASE j = d
        BY <2>4, <2>8, <4>1
      <4>2. CASE j = todo
        BY <1>6, <2>5, <2>8, <4>2
      <4>3. CASE j # d /\ j # todo
        BY <2>8, <2>9, <3>1, <4>3
      <4> QED BY <4>1, <4>2, <4>3
    <3> QED BY <3>2
  <2>13. /\ \A j \in Ino : /\ table'[j].name = table[j].name /\ table'[j].dir = table[j].dir
                           /\ table'[j].type = table[j].type
         /\ table'[todo].file = "freed"
         /\ \A j \in Ino \ {todo} : table'[j].file = table[j].file
         /\ \A j \in Ino \ Live : table'[j].kids = table[j].kids
    <3> HIDE DEF d
    <3> QED BY <1>1, <2>2, <2>4, <2>5, <2>8
  <2>14. Removal
    <3> HIDE DEF d
    <3> QED BY <1>1, <2>1, <2>2, <2>8, <2>10, <2>11, <2>12, <2>13 DEF Removal, inofree
  <2> QED BY <1>1, <1>6, <2>14, RemovalKeeps
<1>7. CASE table[todo].kids = {} /\ todo = ROOT_INO
  <2> DEFINE f == [table[todo] EXCEPT !.file = "freed"]
  <2>1. /\ table' = [table EXCEPT ![todo] = f]
        /\ free' = inofree(todo) /\ todo' = INVALID_INO /\ UNCHANGED phase
    BY <1>7 DEF fsRemoveitem
  <2>2. /\ f \in Item /\ f.file = "freed" /\ f.type = table[todo].type
        /\ f.name = table[todo].name /\ f.dir = table[todo].dir
        /\ f.kids = table[todo].kids
    <3>1. table[todo] \in Item
      BY <1>1, <1>2
    <3> QED BY <3>1 DEF Item
  <2> HIDE DEF f
  <2>3. /\ table' \in [Ino -> Item] /\ table'[todo] = f
        /\ \A j \in Ino \ {todo} : table'[j] = table[j]
    BY <1>1, <1>2, <2>1, <2>2
  <2>4. \A j \in Live : todo \notin table[j].kids
    <3>1. \A j \in Live : j # INVALID_INO
      BY LiveAllocated
    <3> QED BY <1>3, <1>7, <3>1 DEF FsInv, TreeInv
  <2>5. \A j \in Ino : table'[j].kids = table[j].kids
    BY <1>1, <2>2, <2>3
  <2>6. \A j \in Live : table'[j].kids = table[j].kids \ {todo} /\ j \in Ino
    BY <2>4, <2>5 DEF Live
  <2>7. \A j \in Ino : /\ table'[j].name = table[j].name /\ table'[j].dir = table[j].dir
                       /\ table'[j].type = table[j].type
    BY <2>2, <2>3
  <2>8. \A j \in Live : table[j].kids # {todo}
    BY <2>4
  <2>9. Removal
    BY <1>1, <2>1, <2>2, <2>3, <2>5, <2>6, <2>7, <2>8 DEF Removal, inofree
  <2> QED BY <1>1, <1>7, <2>9, RemovalKeeps
<1> QED BY <1>4, <1>5, <1>6, <1>7

\* If no item lacks its entry, the scan leaves nothing: the youngest item left
\* would be a directory with something younger in it.
LEMMA NothingLeft ==
  ASSUME FsInv, phase = "scan", scan = NIno, todo = INVALID_INO, Orphans = {}
  PROVE  Live = {}
<1> SUFFICES ASSUME Live # {} PROVE FALSE
  OBVIOUS
<1> DEFINE m == NIno - 1
<1>1. m \in Nat /\ Live \subseteq 0..m
  BY Inodes DEF Live, Ino
<1>2. PICK x \in Live : \A y \in Live : y <= x
  <2> HIDE DEF m
  <2> QED BY <1>1, GreatestOf
<1>3. x \in Ino /\ x # INVALID_INO /\ x < scan
  BY LiveAllocated, Inodes
<1>4. PICK k : k \in table[x].kids
  BY <1>3 DEF FsInv, ScanInv
<1>5. k \in Live /\ table[k].dir = x
  BY <1>4 DEF FsInv, DirsAgree
<1>6. k # ROOT_INO
  BY <1>3, <1>5 DEF FsInv, TreeInv
<1>7. x < k /\ k \in Ino
  BY <1>5, <1>6 DEF FsInv, TreeInv, Live
<1>8. k <= x
  BY <1>2, <1>5
<1> QED BY <1>3, <1>7, <1>8, Inodes

\* The closing asserts of fsCleanup, both ways.
LEMMA ScanEndKeeps ==
  ASSUME FsInv, ScanEnd
  PROVE  FsInv'
<1>1. /\ phase = "scan" /\ scan = NIno /\ todo = INVALID_INO
      /\ free' = <<INVALID_INO>> \o free /\ removed' = removed + 1
      /\ UNCHANGED <<build, table, known, scan, todo>>
      /\ phase' = IF removed' = allocated /\ Len(free') = NIno
                  THEN "exited" ELSE "aborted"
  BY DEF ScanEnd, Scan, inofree
<1>2. ~On(free, INVALID_INO) /\ Once(free) /\ free \in Seq(Ino)
  BY <1>1 DEF FsInv, FreeListSound, FsTypeOK, ReservedInv, On, Once
<1>3. /\ free' \in Seq(Ino) /\ Once(free') /\ Len(free') = Len(free) + 1
      /\ \A x : On(free', x) <=> x = INVALID_INO \/ On(free, x)
  BY <1>1, <1>2, Freed, Inodes
<1>4. \A i \in Ino \ {INVALID_INO} : On(free, i) <=> i \notin Live
  BY DEF FsInv, FreeListSound, On
<1>5. INVALID_INO \notin Live /\ Live \subseteq Ino
  BY DEF FsInv, ReservedInv, Live
<1>6. Live' = Live /\ Orphans' = Orphans
  BY <1>1 DEF Live, Orphans
<1>7. Cardinality(Ino) = NIno /\ IsFiniteSet(Ino)
  <2> DEFINE m == NIno - 1
  <2>1. m \in Int /\ 0 \in Int /\ ~(0 > m) /\ m - 0 + 1 = NIno
    BY Inodes
  <2> HIDE DEF m
  <2>2. IsFiniteSet(0..m) /\ Cardinality(0..m) = IF 0 > m THEN 0 ELSE m - 0 + 1
    BY <2>1, FS_Interval
  <2> QED BY <2>1, <2>2 DEF Ino, m
<1>8. ASSUME Len(free') = NIno PROVE Live = {}
  <2> DEFINE S == {i \in Ino : On(free', i)}
  <2>1. S \in SUBSET Ino /\ \A i \in Ino : On(free', i) <=> i \in S
    OBVIOUS
  <2>2. Cardinality(S) = NIno
    <3> HIDE DEF S
    <3> QED BY <1>3, <1>8, <2>1, ListLength
  <2>3. S = Ino
    <3> HIDE DEF S
    <3> QED BY <1>7, <2>1, <2>2, FS_Subset
  <2>4. \A i \in Ino \ {INVALID_INO} : On(free, i)
    BY <1>3, <2>3
  <2> QED BY <1>4, <1>5, <2>4
<1>9. ASSUME Orphans = {} PROVE removed' = allocated /\ Len(free') = NIno
  <2>1. Live = {}
    BY <1>1, <1>9, NothingLeft
  <2> DEFINE S == Ino \ {INVALID_INO}
  <2>2. S \in SUBSET Ino /\ \A i \in Ino : On(free, i) <=> i \in S
    BY <1>2, <1>4, <2>1
  <2>3. Len(free) = Cardinality(S)
    <3> HIDE DEF S
    <3> QED BY <1>2, <2>2, ListLength
  <2>4. Cardinality(S) = NIno - 1
    BY <1>7, Inodes, FS_RemoveElement
  <2>5. Len(free) = NIno - 1 /\ Len(free') = NIno
    BY <1>3, <2>3, <2>4, Inodes
  <2>6. Met = {i \in Ino : table[i].file = "freed"}
    <3>1. \A i \in Ino : i < scan
      BY <1>1, Inodes
    <3>2. \A i \in Ino : table[i].file # "null" <=> table[i].file = "freed"
      BY <2>1, Fields DEF FsInv, Live
    <3> QED BY <3>1, <3>2 DEF Met
  <2>7. removed = Cardinality({i \in Ino : table[i].file = "freed"}) /\ removed \in Nat
    BY <1>1, <2>6 DEF FsInv, ScanInv, FsTypeOK
  <2>8. allocated = NIno - (NIno - 1) + removed
    BY <2>5, <2>7 DEF allocated
  <2> QED BY <1>1, <2>5, <2>7, <2>8, Inodes
<1>10. CleanupSound'
  BY <1>1, <1>6, <1>8, <1>9 DEF CleanupSound
<1>11. FsTypeOK' /\ build' \in Builds
  <2>1. removed' \in Nat
    BY <1>1 DEF FsInv, FsTypeOK
  <2> QED BY <1>1, <1>3, <2>1 DEF FsInv, FsTypeOK, Phases
<1>12. FreeListSound'
  BY <1>3, <1>4, <1>6 DEF FreeListSound, Once, On
<1>13. TreeInv' /\ DirsAgree'
  BY <1>1, <1>6 DEF FsInv, TreeInv, DirsAgree, IsDir
<1>14. phase' \in {"exited", "aborted"}
  BY <1>1
<1> QED
  BY <1>1, <1>10, <1>11, <1>12, <1>13, <1>14
  DEF FsInv, StartInv, BuildInv, ReservedInv, Before, KnownInv, ScanInv

-----------------------------------------------------------------------------
(* The theorems *)

\* Every step keeps the invariant.
LEMMA FsStepKeeps ==
  ASSUME FsInv, [FsNext]_fsvars
  PROVE  FsInv'
<1>1. CASE MkdirFails
  <2>1. phase' = "exited" /\ UNCHANGED <<build, table, free, known, scan, todo, removed>>
    BY <1>1 DEF MkdirFails
  <2>2. FsTypeOK'
    BY <2>1 DEF FsInv, FsTypeOK, Phases
  <2>3. Live = {}
    <3>1. \A i \in Ino : table[i].file = "null"
      BY <1>1 DEF FsInv, StartInv, MkdirFails, Unused
    <3> QED BY <3>1 DEF Live
  <2> QED BY <2>1, <2>2, <2>3, EndStep
<1>2. CASE MountFails
  <2>1. known \in SUBSET Ino
    BY DEF FsInv, FsTypeOK
  <2> QED BY <1>2, <2>1, ScanBegins DEF MountFails
<1>3. CASE Unmount
  BY <1>3, ScanBegins DEF Unmount
<1>4. CASE \E d \in known, n \in Name : fs_fuse_lookup(d, n)
  BY <1>4, LookupKeeps
<1>5. CASE \E i \in known : fs_fuse_forget(i)
  BY <1>5, ForgetKeeps
<1>6. CASE UNCHANGED fsvars
  <2>1. UNCHANGED <<build, phase, table, free, known, scan, todo, removed>>
    BY <1>6 DEF fsvars
  <2>2. Live' = Live /\ Orphans' = Orphans /\ FreeListSound' /\ build' \in Builds
    BY <2>1, SameTable
  <2>3. TreeInv' /\ DirsAgree' /\ ScanInv' /\ BuildInv'
    BY <2>1, <2>2 DEF FsInv, TreeInv, DirsAgree, ScanInv, BuildInv, Built, IsDir, Met
  <2> QED
    BY <2>1, <2>2, <2>3
    DEF FsInv, FsTypeOK, StartInv, ReservedInv, Before, KnownInv, CleanupSound
<1>7. CASE \E i \in known : fs_fuse_getattr(i) \/ fs_fuse_request(i)
  BY <1>6, <1>7, RequestKeeps
<1> QED
  BY <1>1, <1>2, <1>3, <1>4, <1>5, <1>6, <1>7, MakeRootKeeps, CreateKeeps, MountKeeps,
     ScanItemKeeps, RemoveKeeps, ScanEndKeeps
  DEF FsNext, FsCleanup

\* The file system of fs.c, whatever the size of its table and whatever
\* createfsfunc builds in it.
THEOREM FsSound == FsInit /\ [][FsNext]_fsvars => []FsInv
<1>1. FsInit => FsInv
  BY FsInitHolds
<1>2. FsInv /\ [FsNext]_fsvars => FsInv'
  BY FsStepKeeps
<1> QED
  BY <1>1, <1>2, PTL

\* BehindScan is what the invariant says between two calls of fsRemoveitem.
LEMMA ScanBehind ==
  ASSUME FsInv
  PROVE  BehindScan
<1>1. \A i \in Live : i # INVALID_INO
  BY LiveAllocated
<1> QED BY <1>1 DEF FsInv, ScanInv, BehindScan
=============================================================================

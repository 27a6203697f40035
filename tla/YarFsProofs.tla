----------------------------- MODULE YarFsProofs -----------------------------
(***************************************************************************)
(* What FsProofs shows of the file system holds of yar's use of it, and    *)
(* what processes read from yar's files is what the commands are.          *)
(***************************************************************************)
EXTENDS YarFs, FsProofs

\* yarfs.c only moves the file system by the steps of fs.c.
LEMMA StepsOfFs ==
  ASSUME [Next]_vars
  PROVE  [FsNext]_fsvars
<1>1. CASE FsStep
  BY <1>1 DEF FsStep, FsNext
<1>2. CASE \E d \in known, n \in Name : Lookup(d, n)
  BY <1>2 DEF Lookup, FsNext
<1>3. CASE \E i \in known : Forget(i)
  BY <1>3 DEF Forget, FsNext
<1>4. CASE Cleanup
  BY <1>4 DEF Cleanup, FsNext
<1>5. CASE \/ \E f \in Files : Expire(f)
           \/ \E i \in known : Open(i)
           \/ Read \/ Close
           \/ \E c \in Cmd : MonAdd(c) \/ MonDel(c)
           \/ UNCHANGED vars
  BY <1>5 DEF Expire, Open, Read, Close, MonAdd, MonDel, vars
<1> QED
  BY <1>1, <1>2, <1>3, <1>4, <1>5 DEF Next

\* The invariant of fs.c, while the monitor adds and deletes commands and
\* processes look up, read and forget the files.
THEOREM FilesSound == Spec => []FsInv
<1>1. Init => FsInit
  BY DEF Init
<1>2. [Next]_vars => [FsNext]_fsvars
  BY StepsOfFs
<1> QED
  BY <1>1, <1>2, FsSound, PTL DEF Spec

\* The free list holds every inode that has no item, once, and no other but
\* the reserved one: what inoalloc hands out is never in use (fs.c:103-129).
THEOREM InodesNotReused == Spec => []FreeListSound
<1>1. FsInv => FreeListSound
  BY DEF FsInv
<1> QED BY <1>1, FilesSound, PTL

\* A directory lists live items that name it as theirs, each under a name of
\* its own, and what the kernel knows it has come to by such entries (dir_add).
THEOREM LookupsUnambiguous == Spec => []DirsAgree
<1>1. FsInv => DirsAgree
  BY DEF FsInv
<1> QED BY <1>1, FilesSound, PTL

\* Unless an item was left without an entry, the scan of fsCleanup has left
\* behind it only directories that an item ahead of it will purge, and never
\* meets a file pointer that inofree has left behind.
THEOREM ScanNeverDangles == Spec => []BehindScan
<1>1. FsInv => BehindScan
  BY ScanBehind
<1> QED BY <1>1, FilesSound, PTL

\* fsCleanup leaves nothing, and no assert of fs.c fails unless an item was
\* created under a name its directory already had, or the table is full.
THEOREM CleanupLeavesNothing == Spec => []CleanupSound
<1>1. FsInv => CleanupSound
  BY DEF FsInv
<1> QED BY <1>1, FilesSound, PTL

-----------------------------------------------------------------------------
(* Lines and numbers *)

\* h holds the first k lines, for k up to n.
PartialLines(h, line, l, n) ==
  h = [k \in 0..n |-> IF k = 0 THEN <<>> ELSE h[k - 1] \o line[l[k]]]

\* They exist: n - 1 lines are extended by one.
LEMMA LinesExist ==
  ASSUME NEW S, NEW B, NEW line \in [S -> Seq(B)], NEW l \in Seq(S)
  PROVE  \E h \in [0..Len(l) -> Seq(B)] : PartialLines(h, line, l, Len(l))
<1> DEFINE P == {n \in 0..Len(l) :
                   \E h \in [0..n -> Seq(B)] : PartialLines(h, line, l, n)}
<1>1. Len(l) \in Nat
  OBVIOUS
<1>2. 0 \in P
  <2> DEFINE h == [k \in 0..0 |-> <<>>]
  <2>1. h \in [0..0 -> Seq(B)] /\ PartialLines(h, line, l, 0)
    BY DEF PartialLines
  <2>2. 0 \in 0..Len(l)
    BY <1>1
  <2> HIDE DEF h
  <2> QED BY <2>1, <2>2
<1>3. ASSUME NEW n \in 1..Len(l), n - 1 \in P PROVE n \in P
  <2>1. PICK g \in [0..n - 1 -> Seq(B)] : PartialLines(g, line, l, n - 1)
    BY <1>3
  <2>2. line[l[n]] \in Seq(B) /\ g[n - 1] \in Seq(B)
    OBVIOUS
  <2>3. g[n - 1] \o line[l[n]] \in Seq(B)
    BY <2>2, ConcatProperties
  <2> DEFINE h == [k \in 0..n |-> IF k = n THEN g[n - 1] \o line[l[n]] ELSE g[k]]
  <2>4. h \in [0..n -> Seq(B)]
    BY <2>3
  <2>5. ASSUME NEW k \in 0..n
        PROVE  h[k] = IF k = 0 THEN <<>> ELSE h[k - 1] \o line[l[k]]
    <3>1. CASE k = n
      <4>1. n # 0 /\ n - 1 # n /\ n - 1 \in 0..n
        OBVIOUS
      <4>2. h[n - 1] = g[n - 1]
        BY <4>1
      <4>3. h[n] = g[n - 1] \o line[l[n]]
        BY n \in 0..n
      <4> HIDE DEF h
      <4> QED BY <3>1, <4>1, <4>2, <4>3
    <3>2. CASE k # n
      <4>1. k \in 0..n - 1
        BY <3>2
      <4>2. g[k] = IF k = 0 THEN <<>> ELSE g[k - 1] \o line[l[k]]
        BY <2>1, <4>1 DEF PartialLines
      <4>3. k # 0 => k - 1 \in 0..n - 1 /\ k - 1 # n /\ k - 1 \in 0..n
        BY <4>1
      <4> QED BY <3>2, <4>2, <4>3
    <3> QED BY <3>1, <3>2
  <2>6. PartialLines(h, line, l, n)
    BY <2>4, <2>5 DEF PartialLines
  <2>7. n \in 0..Len(l)
    OBVIOUS
  <2> QED BY <2>4, <2>6, <2>7
<1>4. Len(l) \in P
  <2> HIDE DEF P
  <2>1. \A n \in 0..Len(l) : n \in P
    BY <1>1, <1>2, <1>3, StepUpTo
  <2> QED BY <2>1, <1>1
<1> QED BY <1>4

\* h holds the first k lines of l, and Lines(line, l) is the last of them.
AreLines(h, line, l) ==
  /\ h[0] = <<>>
  /\ \A k \in 1..Len(l) : h[k] = h[k - 1] \o line[l[k]]
  /\ Lines(line, l) = h[Len(l)]

\* Lines is what its recursive function says.
LEMMA LinesSteps ==
  ASSUME NEW S, NEW B, NEW line \in [S -> Seq(B)], NEW l \in Seq(S)
  PROVE  \E h \in [0..Len(l) -> Seq(B)] : AreLines(h, line, l)
<1> DEFINE h == CHOOSE h : PartialLines(h, line, l, Len(l))
<1>1. PICK g \in [0..Len(l) -> Seq(B)] : PartialLines(g, line, l, Len(l))
  BY LinesExist
<1>2. PartialLines(h, line, l, Len(l))
  BY <1>1
<1>3. Lines(line, l) = h[Len(l)]
  BY DEF Lines, PartialLines
<1> HIDE DEF h
<1>4. Len(l) \in Nat
  OBVIOUS
<1>5. h[0] = <<>> /\ \A k \in 1..Len(l) : h[k] = h[k - 1] \o line[l[k]]
  <2>1. 0 \in 0..Len(l) /\ \A k \in 1..Len(l) : k \in 0..Len(l) /\ k # 0
    BY <1>4
  <2> QED BY <1>2, <2>1 DEF PartialLines
<1>6. \A k \in 1..Len(l) : line[l[k]] \in Seq(B)
  OBVIOUS
<1> DEFINE P == {k \in 0..Len(l) : h[k] \in Seq(B)}
<1>7. \A k \in 0..Len(l) : k \in P
  <2>1. 0 \in P
    <3>1. 0 \in 0..Len(l) /\ <<>> \in Seq(B)
      BY <1>4
    <3> QED BY <1>5, <3>1
  <2>2. ASSUME NEW n \in 1..Len(l), n - 1 \in P PROVE n \in P
    <3>1. h[n - 1] \in Seq(B) /\ line[l[n]] \in Seq(B)
      BY <1>6, <2>2
    <3>2. h[n - 1] \o line[l[n]] \in Seq(B)
      BY <3>1, ConcatProperties
    <3>3. h[n] = h[n - 1] \o line[l[n]]
      BY <1>5
    <3>4. n \in 0..Len(l)
      OBVIOUS
    <3> QED BY <3>2, <3>3, <3>4
  <2> HIDE DEF P
  <2> QED BY <2>1, <2>2, <1>4, StepUpTo
<1>8. h \in [0..Len(l) -> Seq(B)]
  <2>1. DOMAIN h = 0..Len(l) /\ h = [k \in 0..Len(l) |-> h[k]]
    BY <1>2 DEF PartialLines
  <2> QED BY <2>1, <1>7
<1> QED BY <1>3, <1>5, <1>8 DEF AreLines

\* The line of each c in S is a sequence of num[c] elements of B.
Counted(S, B, line, num) ==
  /\ line \in [S -> Seq(B)] /\ num \in [S -> Nat]
  /\ \A c \in S : Len(line[c]) = num[c]

\* The length of the lines is the sum of their lengths.
LEMMA LinesLen ==
  ASSUME NEW S, NEW B, NEW line, NEW num, Counted(S, B, line, num),
         NEW l \in Seq(S)
  PROVE  Lines(line, l) \in Seq(B) /\ Len(Lines(line, l)) = SumOver(num, l)
<1> USE DEF Counted
<1>1. PICK h \in [0..Len(l) -> Seq(B)] : AreLines(h, line, l)
  BY LinesSteps
<1>2. PICK g \in [0..Len(l) -> Nat] :
        /\ g[0] = 0
        /\ \A k \in 1..Len(l) : g[k] = g[k - 1] + num[l[k]]
        /\ SumOver(num, l) = g[Len(l)]
  BY SumSteps
<1>3. Len(l) \in Nat
  OBVIOUS
<1> DEFINE P == {k \in 0..Len(l) : Len(h[k]) = g[k]}
<1>4. 0 \in P
  BY <1>1, <1>2, <1>3 DEF AreLines
<1>5. ASSUME NEW n \in 1..Len(l), n - 1 \in P PROVE n \in P
  <2>1. n - 1 \in 0..Len(l) /\ n \in 0..Len(l) /\ l[n] \in S
    OBVIOUS
  <2>2. /\ h[n - 1] \in Seq(B) /\ line[l[n]] \in Seq(B)
        /\ Len(h[n - 1]) = g[n - 1] /\ Len(line[l[n]]) = num[l[n]]
    BY <1>5, <2>1
  <2>3. h[n] = h[n - 1] \o line[l[n]] /\ g[n] = g[n - 1] + num[l[n]]
    BY <1>1, <1>2 DEF AreLines
  <2>4. Len(h[n - 1] \o line[l[n]]) = Len(h[n - 1]) + Len(line[l[n]])
    BY <2>2, ConcatProperties
  <2>5. Len(h[n]) = g[n]
    BY <2>2, <2>3, <2>4
  <2> QED BY <2>1, <2>5
<1>6. Len(l) \in P
  <2> HIDE DEF P
  <2>1. \A k \in 0..Len(l) : k \in P
    BY <1>3, <1>4, <1>5, StepUpTo
  <2> QED BY <2>1, <1>3
<1> QED BY <1>1, <1>2, <1>3, <1>6 DEF AreLines

\* A command that is added last has its line last.
LEMMA LinesAppend ==
  ASSUME NEW S, NEW B, NEW line \in [S -> Seq(B)], NEW l \in Seq(S), NEW c \in S
  PROVE  Lines(line, Append(l, c)) = Lines(line, l) \o line[c]
<1> DEFINE m == Append(l, c)
<1>1. /\ m \in Seq(S) /\ Len(m) = Len(l) + 1 /\ m[Len(l) + 1] = c
      /\ \A k \in 1..Len(l) : m[k] = l[k]
  BY AppendProperties
<1>2. Len(l) \in Nat
  OBVIOUS
<1> HIDE DEF m
<1>3. PICK h \in [0..Len(l) -> Seq(B)] : AreLines(h, line, l)
  BY LinesSteps
<1>4. PICK g \in [0..Len(m) -> Seq(B)] : AreLines(g, line, m)
  BY <1>1, LinesSteps
<1> DEFINE P == {k \in 0..Len(l) : g[k] = h[k]}
<1>5. 0 \in P
  BY <1>2, <1>3, <1>4 DEF AreLines
<1>6. ASSUME NEW n \in 1..Len(l), n - 1 \in P PROVE n \in P
  <2>1. n \in 1..Len(m) /\ m[n] = l[n] /\ n \in 0..Len(l)
    BY <1>1, <1>2
  <2>2. g[n] = g[n - 1] \o line[m[n]] /\ h[n] = h[n - 1] \o line[l[n]]
    BY <1>3, <1>4, <2>1 DEF AreLines
  <2>3. g[n - 1] = h[n - 1]
    BY <1>6
  <2> QED BY <2>1, <2>2, <2>3
<1>7. Len(l) \in P
  <2> HIDE DEF P
  <2>1. \A k \in 0..Len(l) : k \in P
    BY <1>2, <1>5, <1>6, StepUpTo
  <2> QED BY <2>1, <1>2
<1>8. /\ Len(m) \in 1..Len(m) /\ Len(m) - 1 = Len(l)
  BY <1>1, <1>2
<1>9. g[Len(m)] = g[Len(l)] \o line[c]
  BY <1>1, <1>4, <1>8 DEF AreLines
<1> QED BY <1>3, <1>4, <1>7, <1>9 DEF AreLines, m

\* A number of more than one digit has fewer without its last.
LEMMA LastDigit ==
  ASSUME NEW n \in Nat, NEW b \in Nat, b > 1, n >= b
  PROVE  n \div b \in 0..n - 1
<1> DEFINE q == n \div b
           r == n % b
<1>1. q \in Nat /\ r \in Nat /\ n = b * q + r
  BY Z3
<1> HIDE DEF q, r
<1>2. ASSUME q >= n PROVE FALSE
  <2>1. b * q >= 2 * q
    BY <1>1
  <2> QED BY <1>1, <1>2, <2>1
<1>3. q \in 0..n - 1
  BY <1>1, <1>2
<1> QED BY <1>3 DEF q

\* d holds the numbers of digits of the numbers up to n.
PartialDigits(d, n) ==
  d = [k \in 0..n |-> IF k < Base THEN 1 ELSE 1 + d[k \div Base]]

\* They exist: the digits of n are one more than those of n without its last.
LEMMA DigitsExist ==
  ASSUME NEW m \in Nat
  PROVE  \E d \in [0..m -> Nat] : PartialDigits(d, m)
<1> DEFINE P == {n \in 0..m : \E d \in [0..n -> Nat] : PartialDigits(d, n)}
<1>1. Base \in Nat /\ Base > 1
  BY LengthAssumption
<1>2. 0 \in P
  <2> DEFINE d == [k \in 0..0 |-> 1]
  <2>1. d \in [0..0 -> Nat] /\ PartialDigits(d, 0)
    BY <1>1 DEF PartialDigits
  <2>2. 0 \in 0..m
    OBVIOUS
  <2> HIDE DEF d
  <2> QED BY <2>1, <2>2
<1>3. ASSUME NEW n \in 1..m, n - 1 \in P PROVE n \in P
  <2>1. PICK g \in [0..n - 1 -> Nat] : PartialDigits(g, n - 1)
    BY <1>3
  <2> DEFINE v == IF n < Base THEN 1 ELSE 1 + g[n \div Base]
             d == [k \in 0..n |-> IF k = n THEN v ELSE g[k]]
  <2>2. ASSUME NEW k \in 0..n, k >= Base PROVE k \div Base \in 0..k - 1
    <3>1. k \in Nat
      OBVIOUS
    <3> QED BY <1>1, <2>2, <3>1, LastDigit, Zenon
  <2>3. v \in Nat
    <3>1. n >= Base => n \div Base \in 0..n - 1
      BY <2>2
    <3> QED BY <1>1, <3>1
  <2>4. d \in [0..n -> Nat]
    BY <2>3
  <2>5. ASSUME NEW k \in 0..n
        PROVE  d[k] = IF k < Base THEN 1 ELSE 1 + d[k \div Base]
    <3> DEFINE j == k \div Base
    <3>1. k >= Base => j \in 0..k - 1
      BY <2>2
    <3> HIDE DEF j
    <3>2. k >= Base => j \in 0..n /\ j # n /\ j \in 0..n - 1
      BY <1>1, <3>1
    <3>3. k >= Base => d[j] = g[j]
      BY <3>2
    <3>4. CASE k = n
      <4>1. d[k] = v
        BY <3>4
      <4>2. v = IF k < Base THEN 1 ELSE 1 + g[j]
        BY <3>4 DEF j
      <4> HIDE DEF d, v
      <4> QED BY <1>1, <3>3, <4>1, <4>2 DEF j
    <3>5. CASE k # n
      <4>1. k \in 0..n - 1
        BY <3>5
      <4>2. g[k] = IF k < Base THEN 1 ELSE 1 + g[j]
        BY <2>1, <4>1 DEF PartialDigits, j
      <4>3. d[k] = g[k]
        BY <3>5
      <4> HIDE DEF d, v
      <4> QED BY <1>1, <3>3, <4>2, <4>3 DEF j
    <3> QED BY <3>4, <3>5
  <2>6. PartialDigits(d, n)
    <3>1. d = [k \in 0..n |-> d[k]]
      OBVIOUS
    <3> HIDE DEF d
    <3> QED BY <2>5, <3>1 DEF PartialDigits
  <2>7. n \in 0..m
    OBVIOUS
  <2> HIDE DEF d
  <2> QED BY <2>4, <2>6, <2>7
<1>4. m \in P
  <2> HIDE DEF P
  <2>1. \A n \in 0..m : n \in P
    BY <1>2, <1>3, StepUpTo
  <2> QED BY <2>1
<1> QED BY <1>4

\* Every number has a number of digits.
LEMMA DigitsNat ==
  ASSUME NEW m \in Nat
  PROVE  Digits(m) \in Nat
<1> DEFINE d == CHOOSE d : PartialDigits(d, m)
<1>1. \E h \in [0..m -> Nat] : PartialDigits(h, m)
  BY DigitsExist
<1>2. PartialDigits(d, m)
  BY <1>1
<1>3. Digits(m) = d[m]
  BY DEF Digits, PartialDigits
<1> HIDE DEF d
<1>4. Base \in Nat /\ Base > 1
  BY LengthAssumption
<1> DEFINE P == {k \in 0..m : d[k] \in Nat}
<1>5. ASSUME NEW n \in 0..m, \A k \in 0..m : k < n => k \in P
      PROVE  n \in P
  <2>1. d[n] = IF n < Base THEN 1 ELSE 1 + d[n \div Base]
    BY <1>2 DEF PartialDigits
  <2>2. n >= Base => n \div Base \in 0..n - 1
    <3>1. n \in Nat
      OBVIOUS
    <3> QED BY <1>4, <3>1, LastDigit, Zenon
  <2> DEFINE j == n \div Base
  <2>3. n >= Base => j \in 0..m /\ j < n
    <3> HIDE DEF j
    <3> QED BY <2>2 DEF j
  <2>4. n >= Base => d[j] \in Nat
    BY <1>5, <2>3
  <2>5. d[n] \in Nat
    BY <1>4, <2>1, <2>4
  <2> QED BY <2>5
<1>6. m \in P
  <2> HIDE DEF P
  <2>1. \A n \in 0..m : n \in P
    BY <1>5, UpTo
  <2> QED BY <2>1
<1> QED BY <1>3, <1>6

-----------------------------------------------------------------------------
(* The size functions count what the read functions write *)

\* The bytes of all files
Byte ==
  {<<",">>, <<"NL">>, <<"NUL">>, <<"pid">>, <<"cmd">>, <<"bcst">>, <<"mon">>,
   <<"bcstlink">>, <<"monlink">>}
    \cup ({"name", "link", "line"} \X Cmd) \cup ({"count"} \X Nat)

\* s is a sequence of n bytes
Filled(s, n) == s \in Seq(Byte) /\ Len(s) = n /\ n \in Nat

\* Two fields one after the other.
LEMMA FilledCat ==
  ASSUME NEW s, NEW t, NEW m, NEW n, Filled(s, m), Filled(t, n)
  PROVE  Filled(s \o t, m + n)
<1>1. s \in Seq(Byte) /\ t \in Seq(Byte) /\ Len(s) = m /\ Len(t) = n
      /\ m \in Nat /\ n \in Nat
  BY DEF Filled
<1>2. s \o t \in Seq(Byte) /\ Len(s \o t) = Len(s) + Len(t)
  BY <1>1, ConcatProperties
<1>3. m + n \in Nat
  BY <1>1
<1> QED BY <1>1, <1>2, <1>3 DEF Filled

\* A field of n bytes.
LEMMA BytesFilled ==
  ASSUME NEW f \in Byte, NEW n \in Nat
  PROVE  Filled(Bytes(f, n), n)
BY DEF Bytes, Filled

\* The separators, and the NUL that ends /bcst.
LEMMA MarksFilled == Filled(Comma, 1) /\ Filled(Newline, 1) /\ Filled(NUL, 1)
<1>1. <<",">> \in Byte /\ <<"NL">> \in Byte /\ <<"NUL">> \in Byte
  BY DEF Byte
<1>2. ASSUME NEW b \in Byte PROVE Filled(<<b>>, 1)
  BY DEF Filled
<1> QED BY <1>1, <1>2 DEF Comma, Newline, NUL

\* The fields of a line are of the lengths the size functions count.
LEMMA FieldsFilled ==
  /\ Filled(Pid, PidLen)
  /\ \A c \in Cmd : /\ Filled(CName(c), NameLen[c])
                    /\ Filled(CLink(c), LinkLen[c])
                    /\ Filled(CLine(c), LineLen[c])
<1>1. PidLen \in Nat
  BY LengthAssumption
<1>2. Filled(Pid, PidLen)
  <2>1. <<"pid">> \in Byte
    BY DEF Byte
  <2> QED BY <1>1, <2>1, BytesFilled DEF Pid
<1>3. ASSUME NEW c \in Cmd
      PROVE  /\ Filled(CName(c), NameLen[c])
             /\ Filled(CLink(c), LinkLen[c])
             /\ Filled(CLine(c), LineLen[c])
  <2>1. <<"name", c>> \in Byte /\ <<"link", c>> \in Byte /\ <<"line", c>> \in Byte
    BY DEF Byte
  <2>2. NameLen[c] \in Nat /\ LinkLen[c] \in Nat /\ LineLen[c] \in Nat
    BY LengthAssumption
  <2> QED BY <2>1, <2>2, BytesFilled DEF CName, CLink, CLine
<1> QED BY <1>2, <1>3

\* What the loops write for each command, and count for it
cmdsLine == [c \in Cmd |-> CName(c) \o Newline]
cmdsNum == [c \in Cmd |-> NameLen[c] + 1]
lcmdsLine == [c \in Cmd |-> CName(c) \o Comma \o CLink(c) \o Comma \o Pid \o Comma
                              \o CLine(c) \o Newline]
lcmdsNum == [c \in Cmd |-> (NameLen[c] + 1) + (LinkLen[c] + 1) + (PidLen + 1)
                             + (LineLen[c] + 1)]
ttysLine == [c \in Cmd |-> CLink(c) \o Comma \o Pid \o Comma \o Bytes(<<"cmd">>, 3)
                             \o Comma \o CName(c) \o Comma \o CLine(c) \o Newline]
ttysNum == [c \in Cmd |-> (LinkLen[c] + 1) + (PidLen + 1) + (3 + 1)
                            + (NameLen[c] + 1) + (LineLen[c] + 1)]

\* A line of /cmds: cmdNamesSize counts a name and its newline.
LEMMA CmdsCounted == Counted(Cmd, Byte, cmdsLine, cmdsNum)
<1>1. ASSUME NEW c \in Cmd PROVE Filled(CName(c) \o Newline, NameLen[c] + 1)
  BY MarksFilled, FieldsFilled, FilledCat
<1> QED BY <1>1 DEF Counted, cmdsLine, cmdsNum, Filled

\* A line of /lcmds: cmdsInfoSize counts four fields, each with its separator.
LEMMA LcmdsCounted == Counted(Cmd, Byte, lcmdsLine, lcmdsNum)
<1>1. ASSUME NEW c \in Cmd PROVE Filled(lcmdsLine[c], lcmdsNum[c])
  <2> DEFINE s1 == CName(c) \o Comma
             s2 == s1 \o CLink(c)
             s3 == s2 \o Comma
             s4 == s3 \o Pid
             s5 == s4 \o Comma
             s6 == s5 \o CLine(c)
             s7 == s6 \o Newline
             n1 == NameLen[c] + 1
             n2 == n1 + LinkLen[c]
             n3 == n2 + 1
             n4 == n3 + PidLen
             n5 == n4 + 1
             n6 == n5 + LineLen[c]
             n7 == n6 + 1
  <2>1. /\ Filled(CName(c), NameLen[c]) /\ Filled(CLink(c), LinkLen[c])
        /\ Filled(CLine(c), LineLen[c]) /\ Filled(Pid, PidLen)
        /\ Filled(Comma, 1) /\ Filled(Newline, 1)
    BY MarksFilled, FieldsFilled
  <2>2. lcmdsLine[c] = s7 /\ lcmdsNum[c] = n7
    <3>1. lcmdsLine[c] = s7
      BY DEF lcmdsLine
    <3>2. /\ NameLen[c] \in Nat /\ LinkLen[c] \in Nat /\ LineLen[c] \in Nat
          /\ PidLen \in Nat
      BY <2>1 DEF Filled
    <3>3. lcmdsNum[c] = (NameLen[c] + 1) + (LinkLen[c] + 1) + (PidLen + 1)
                          + (LineLen[c] + 1)
      BY DEF lcmdsNum
    <3>4. lcmdsNum[c] = n7
      BY ONLY <3>2, <3>3
    <3> QED BY <3>1, <3>4
  <2>3. Filled(s1, n1)
    BY <2>1, FilledCat
  <2> HIDE DEF s1, n1
  <2>4. Filled(s2, n2)
    BY <2>1, <2>3, FilledCat
  <2> HIDE DEF s2, n2
  <2>5. Filled(s3, n3)
    BY <2>1, <2>4, FilledCat
  <2> HIDE DEF s3, n3
  <2>6. Filled(s4, n4)
    BY <2>1, <2>5, FilledCat
  <2> HIDE DEF s4, n4
  <2>7. Filled(s5, n5)
    BY <2>1, <2>6, FilledCat
  <2> HIDE DEF s5, n5
  <2>8. Filled(s6, n6)
    BY <2>1, <2>7, FilledCat
  <2> HIDE DEF s6, n6
  <2>9. Filled(s7, n7)
    BY <2>1, <2>8, FilledCat
  <2> HIDE DEF s7, n7
  <2> QED BY <2>2, <2>9
<1>2. lcmdsLine = [c \in Cmd |-> lcmdsLine[c]] /\ lcmdsNum = [c \in Cmd |-> lcmdsNum[c]]
  BY DEF lcmdsLine, lcmdsNum
<1> QED BY <1>1, <1>2 DEF Counted, Filled

\* A line of /ttys: ttysInfoSize counts five fields, each with its separator.
LEMMA TtysCounted == Counted(Cmd, Byte, ttysLine, ttysNum)
<1>1. ASSUME NEW c \in Cmd PROVE Filled(ttysLine[c], ttysNum[c])
  <2> DEFINE s1 == CLink(c) \o Comma
             s2 == s1 \o Pid
             s3 == s2 \o Comma
             s4 == s3 \o Bytes(<<"cmd">>, 3)
             s5 == s4 \o Comma
             s6 == s5 \o CName(c)
             s7 == s6 \o Comma
             s8 == s7 \o CLine(c)
             s9 == s8 \o Newline
             n1 == LinkLen[c] + 1
             n2 == n1 + PidLen
             n3 == n2 + 1
             n4 == n3 + 3
             n5 == n4 + 1
             n6 == n5 + NameLen[c]
             n7 == n6 + 1
             n8 == n7 + LineLen[c]
             n9 == n8 + 1
  <2>1. /\ Filled(CName(c), NameLen[c]) /\ Filled(CLink(c), LinkLen[c])
        /\ Filled(CLine(c), LineLen[c]) /\ Filled(Pid, PidLen)
        /\ Filled(Comma, 1) /\ Filled(Newline, 1)
        /\ Filled(Bytes(<<"cmd">>, 3), 3)
    <3>1. <<"cmd">> \in Byte
      BY DEF Byte
    <3>2. Filled(Bytes(<<"cmd">>, 3), 3)
      BY <3>1, BytesFilled
    <3> QED BY <3>2, MarksFilled, FieldsFilled
  <2>2. ttysLine[c] = s9 /\ ttysNum[c] = n9
    <3>1. ttysLine[c] = s9
      BY DEF ttysLine
    <3>2. /\ NameLen[c] \in Nat /\ LinkLen[c] \in Nat /\ LineLen[c] \in Nat
          /\ PidLen \in Nat
      BY <2>1 DEF Filled
    <3>3. ttysNum[c] = (LinkLen[c] + 1) + (PidLen + 1) + (3 + 1)
                         + (NameLen[c] + 1) + (LineLen[c] + 1)
      BY DEF ttysNum
    <3>4. ttysNum[c] = n9
      BY ONLY <3>2, <3>3
    <3> QED BY <3>1, <3>4
  <2>3. Filled(s1, n1)
    BY <2>1, FilledCat
  <2> HIDE DEF s1, n1
  <2>4. Filled(s2, n2)
    BY <2>1, <2>3, FilledCat
  <2> HIDE DEF s2, n2
  <2>5. Filled(s3, n3)
    BY <2>1, <2>4, FilledCat
  <2> HIDE DEF s3, n3
  <2>6. Filled(s4, n4)
    BY <2>1, <2>5, FilledCat
  <2> HIDE DEF s4, n4
  <2>7. Filled(s5, n5)
    BY <2>1, <2>6, FilledCat
  <2> HIDE DEF s5, n5
  <2>8. Filled(s6, n6)
    BY <2>1, <2>7, FilledCat
  <2> HIDE DEF s6, n6
  <2>9. Filled(s7, n7)
    BY <2>1, <2>8, FilledCat
  <2> HIDE DEF s7, n7
  <2>10. Filled(s8, n8)
    BY <2>1, <2>9, FilledCat
  <2> HIDE DEF s8, n8
  <2>11. Filled(s9, n9)
    BY <2>1, <2>10, FilledCat
  <2> HIDE DEF s9, n9
  <2> QED BY <2>2, <2>11
<1>2. ttysLine = [c \in Cmd |-> ttysLine[c]] /\ ttysNum = [c \in Cmd |-> ttysNum[c]]
  BY DEF ttysLine, ttysNum
<1> QED BY <1>1, <1>2 DEF Counted, Filled

\* What a loop over the commands writes is as long as what one counts
LEMMA LoopFilled ==
  ASSUME NEW line, NEW num, Counted(Cmd, Byte, line, num), NEW l \in Seq(Cmd)
  PROVE  Filled(Lines(line, l), SumOver(num, l))
<1>1. Lines(line, l) \in Seq(Byte) /\ Len(Lines(line, l)) = SumOver(num, l)
  BY LinesLen
<1>2. num \in [Cmd -> Nat]
  BY DEF Counted
<1>3. SumOver(num, l) \in Nat
  BY <1>2, SumNat
<1> QED BY <1>1, <1>3 DEF Filled

\* The lines of the broadcast tty and of the monitor, after those of the
\* commands
LEMMA TtysFilled ==
  ASSUME NEW l \in Seq(Cmd)
  PROVE  Filled(fs_ttys_read(l), ttysInfoSize(l))
<1> DEFINE L == Lines(ttysLine, l)
           N == SumOver(ttysNum, l)
           D == Digits(Len(l))
           bl == Bytes(<<"bcstlink">>, BcstLen)
           bw == Bytes(<<"bcst">>, 4)
           ml == Bytes(<<"monlink">>, MonLen)
           mw == Bytes(<<"mon">>, 3)
           cw == Bytes(<<"count", Len(l)>>, D)
<1>1. fs_ttys_read(l) = L \o bl \o Comma \o Pid \o Comma \o bw \o Comma \o cw
                          \o Comma \o Newline \o ml \o Comma \o Pid \o Comma
                          \o mw \o Comma \o Comma \o Newline
  BY DEF fs_ttys_read, ttysLine
<1>2. ttysInfoSize(l) = N + (BcstLen + 1) + (PidLen + 1) + (4 + 1) + (D + 2)
                          + (MonLen + 1) + (PidLen + 1) + (3 + 3)
  BY DEF ttysInfoSize, ttysNum
<1>3. /\ Filled(L, N) /\ Filled(Comma, 1) /\ Filled(Newline, 1)
      /\ Filled(Pid, PidLen) /\ Filled(bl, BcstLen) /\ Filled(bw, 4)
      /\ Filled(ml, MonLen) /\ Filled(mw, 3) /\ Filled(cw, D)
  <2>1. Filled(L, N)
    BY TtysCounted, LoopFilled
  <2>2. Len(l) \in Nat /\ D \in Nat /\ BcstLen \in Nat /\ MonLen \in Nat
    BY DigitsNat, LengthAssumption
  <2>3. /\ <<"bcstlink">> \in Byte /\ <<"bcst">> \in Byte
        /\ <<"monlink">> \in Byte /\ <<"mon">> \in Byte
    BY DEF Byte
  <2>4. <<"count", Len(l)>> \in Byte
    BY <2>2 DEF Byte
  <2> HIDE DEF L, N, D
  <2>5. /\ Filled(bl, BcstLen) /\ Filled(bw, 4)
        /\ Filled(ml, MonLen) /\ Filled(mw, 3) /\ Filled(cw, D)
    BY <2>2, <2>3, <2>4, BytesFilled
  <2> QED BY <2>1, <2>5, MarksFilled, FieldsFilled
<1> HIDE DEF L, N, D, bl, bw, ml, mw, cw
<1> DEFINE s1 == L \o bl \o Comma
           s2 == s1 \o Pid \o Comma
           s3 == s2 \o bw \o Comma
           s4 == s3 \o cw \o Comma
           s5 == s4 \o Newline \o ml
           s6 == s5 \o Comma \o Pid
           s7 == s6 \o Comma \o mw
           s8 == s7 \o Comma \o Comma
           s9 == s8 \o Newline
           n1 == (N + BcstLen) + 1
           n2 == (n1 + PidLen) + 1
           n3 == (n2 + 4) + 1
           n4 == (n3 + D) + 1
           n5 == (n4 + 1) + MonLen
           n6 == (n5 + 1) + PidLen
           n7 == (n6 + 1) + 3
           n8 == (n7 + 1) + 1
           n9 == n8 + 1
<1>4. fs_ttys_read(l) = s9
  BY <1>1
<1>5. ttysInfoSize(l) = n9
  <2>1. /\ N \in Nat /\ BcstLen \in Nat /\ PidLen \in Nat /\ D \in Nat
        /\ MonLen \in Nat
    BY <1>3 DEF Filled
  <2> QED BY ONLY <1>2, <2>1
<1>6. Filled(s1, n1)
  BY <1>3, FilledCat
<1> HIDE DEF s1, n1
<1>7. Filled(s2, n2)
  BY <1>3, <1>6, FilledCat
<1> HIDE DEF s2, n2
<1>8. Filled(s3, n3)
  BY <1>3, <1>7, FilledCat
<1> HIDE DEF s3, n3
<1>9. Filled(s4, n4)
  BY <1>3, <1>8, FilledCat
<1> HIDE DEF s4, n4
<1>10. Filled(s5, n5)
  BY <1>3, <1>9, FilledCat
<1> HIDE DEF s5, n5
<1>11. Filled(s6, n6)
  BY <1>3, <1>10, FilledCat
<1> HIDE DEF s6, n6
<1>12. Filled(s7, n7)
  BY <1>3, <1>11, FilledCat
<1> HIDE DEF s7, n7
<1>13. Filled(s8, n8)
  BY <1>3, <1>12, FilledCat
<1> HIDE DEF s8, n8
<1>14. Filled(s9, n9)
  BY <1>3, <1>13, FilledCat
<1> HIDE DEF s9, n9
<1> QED BY <1>4, <1>5, <1>14

\* The buffer of each file is filled exactly, whatever the commands
LEMMA ContentsFilled ==
  ASSUME NEW f \in Files, NEW l \in Seq(Cmd)
  PROVE  Filled(Contents(f, l), Size(f, l))
<1>1. CASE f = "pid"
  BY <1>1, FieldsFilled DEF Contents, Size, pidSize
<1>2. CASE f = "cmds"
  <2>1. Filled(Lines(cmdsLine, l), SumOver(cmdsNum, l))
    BY CmdsCounted, LoopFilled
  <2> QED BY <1>2, <2>1 DEF Contents, Size, fs_cmds_read, cmdNamesSize,
                            cmdsLine, cmdsNum
<1>3. CASE f = "lcmds"
  <2>1. Filled(Lines(lcmdsLine, l), SumOver(lcmdsNum, l))
    BY LcmdsCounted, LoopFilled
  <2> QED BY <1>3, <2>1 DEF Contents, Size, fs_lcmds_read, cmdsInfoSize,
                            lcmdsLine, lcmdsNum
<1>4. CASE f = "ttys"
  BY <1>4, TtysFilled DEF Contents, Size
<1>5. CASE f = "bcst"
  <2>1. <<"bcstlink">> \in Byte /\ BcstLen \in Nat
    BY LengthAssumption DEF Byte
  <2>2. Filled(Bytes(<<"bcstlink">>, BcstLen) \o NUL, BcstLen + 1)
    BY <2>1, BytesFilled, MarksFilled, FilledCat
  <2> QED BY <1>5, <2>2 DEF Contents, Size, bcstSize
<1> QED BY <1>1, <1>2, <1>3, <1>4, <1>5 DEF Files

-----------------------------------------------------------------------------
(* One request of a reader *)

\* The m elements of C from position off on, and no more.
Window(C, off, m, s) ==
  /\ Len(s) = m /\ off + m <= Len(C)
  /\ \A i \in 1..m : s[i] = C[off + i]

\* SubSeq takes such a piece.
LEMMA WindowOf ==
  ASSUME NEW B, NEW C \in Seq(B), NEW off \in Nat, NEW m \in Nat,
         off + m <= Len(C)
  PROVE  /\ SubSeq(C, off + 1, off + m) \in Seq(B)
         /\ Window(C, off, m, SubSeq(C, off + 1, off + m))
<1> DEFINE s == SubSeq(C, off + 1, off + m)
<1>1. \A i \in off + 1..off + m : C[i] \in B
  OBVIOUS
<1>2. off + 1 \in Int /\ off + m \in Int
  OBVIOUS
<1>3. /\ s \in Seq(B)
      /\ Len(s) = IF off + 1 <= off + m THEN (off + m) - (off + 1) + 1 ELSE 0
      /\ \A i \in 1..(off + m) - (off + 1) + 1 : s[i] = C[(off + 1) + i - 1]
  BY <1>1, <1>2, SubSeqProperties
<1> HIDE DEF s
<1>4. Len(s) = m
  BY <1>3
<1>5. ASSUME NEW i \in 1..m PROVE s[i] = C[off + i]
  <2>1. i \in 1..(off + m) - (off + 1) + 1 /\ (off + 1) + i - 1 = off + i
    OBVIOUS
  <2> QED BY <1>3, <2>1
<1> QED BY <1>3, <1>4, <1>5 DEF Window, s

\* What the kernel asks for and passes on, of contents C from position off on,
\* going by the size it holds
Want(off, size) == IF off >= size THEN 0 ELSE Least(Request, size - off)
Sent(C, off, size) ==
  LET reply == ReplyBufLimited(C, off, Request)
  IN  SubSeq(reply, 1, Least(Want(off, size), Len(reply)))

\* It is the next piece of the contents; and if it is not of full length
\* although the size was right, it is the last.
LEMMA NextPiece ==
  ASSUME NEW B, NEW C \in Seq(B), NEW off \in Nat, NEW size \in Nat
  PROVE  \E m \in Nat :
           /\ Sent(C, off, size) \in Seq(B) /\ Len(Sent(C, off, size)) = m
           /\ m > 0 => Window(C, off, m, Sent(C, off, size))
           /\ size = Len(C) /\ m < Request /\ off <= Len(C) => off + m = Len(C)
<1> DEFINE w == Want(off, size)
           reply == ReplyBufLimited(C, off, Request)
           s == Sent(C, off, size)
<1>1. Request \in Nat /\ Request > 0 /\ Len(C) \in Nat
  BY LengthAssumption
<1>2. w \in Nat
  BY <1>1 DEF Want, Least
<1>3. s = SubSeq(reply, 1, Least(w, Len(reply)))
  BY DEF Sent
<1> HIDE DEF w, s, reply
<1>4. CASE off < Len(C)
  <2> DEFINE n == Least(Len(C) - off, Request)
             m == Least(w, n)
  <2>1. n \in Nat /\ off + n <= Len(C) /\ m \in Nat /\ m <= n
    BY <1>1, <1>2, <1>4 DEF Least
  <2>2. reply = SubSeq(C, off + 1, off + n)
    BY <1>4 DEF reply, ReplyBufLimited
  <2>3. size = Len(C) => m = n
    BY <1>1, <1>4 DEF Least, Want, w
  <2>4. n < Request => off + n = Len(C)
    BY <1>1, <1>4 DEF Least
  <2> HIDE DEF n
  <2>5. reply \in Seq(B) /\ Window(C, off, n, reply)
    BY <2>1, <2>2, WindowOf
  <2>6. Len(reply) = n
    BY <2>5 DEF Window
  <2>7. s = SubSeq(reply, 0 + 1, 0 + m)
    BY <1>3, <2>1, <2>6
  <2> HIDE DEF m
  <2>8. s \in Seq(B) /\ Window(reply, 0, m, s)
    BY <2>1, <2>5, <2>6, <2>7, WindowOf
  <2>9. Window(C, off, m, s)
    <3>1. ASSUME NEW i \in 1..m PROVE s[i] = C[off + i]
      <4>1. i \in 1..n /\ 0 + i = i
        BY <2>1
      <4>2. s[i] = reply[i]
        BY <2>8, <4>1 DEF Window
      <4>3. reply[i] = C[off + i]
        BY <2>5, <4>1 DEF Window
      <4> QED BY <4>2, <4>3
    <3>2. off + m <= Len(C) /\ Len(s) = m
      BY <1>1, <2>1, <2>8 DEF Window
    <3> QED BY <3>1, <3>2 DEF Window
  <2>10. Len(s) = m
    BY <2>8 DEF Window
  <2>11. size = Len(C) /\ m < Request /\ off <= Len(C) => off + m = Len(C)
    BY <2>3, <2>4
  <2> QED BY <2>1, <2>8, <2>9, <2>10, <2>11 DEF s
<1>5. CASE ~(off < Len(C))
  <2>1. reply = <<>>
    BY <1>5 DEF reply, ReplyBufLimited
  <2>2. Least(w, Len(reply)) = 0
    BY <1>2, <2>1 DEF Least
  <2>3. s = <<>>
    BY <1>3, <2>1, <2>2
  <2>4. s \in Seq(B) /\ Len(s) = 0
    BY <2>3
  <2>5. off <= Len(C) => off + 0 = Len(C)
    BY <1>1, <1>5
  <2> QED BY <2>4, <2>5 DEF s
<1> QED BY <1>4, <1>5

\* g is a beginning of C
Begins(g, C) == Len(g) <= Len(C) /\ \A i \in 1..Len(g) : g[i] = C[i]

\* It is what IsPrefix says.
LEMMA BeginsPrefix ==
  ASSUME NEW B, NEW g \in Seq(B), NEW C \in Seq(B)
  PROVE  IsPrefix(g, C) <=> Begins(g, C)
<1>1. Len(g) \in Nat /\ Len(C) \in Nat
  OBVIOUS
<1> SUFFICES ASSUME Len(g) <= Len(C)
             PROVE  SubSeq(g, 1, Len(g)) = SubSeq(C, 1, Len(g))
                      <=> \A i \in 1..Len(g) : g[i] = C[i]
  BY DEF IsPrefix, Begins
<1> DEFINE n == Len(g)
           s == SubSeq(C, 0 + 1, 0 + n)
<1>2. SubSeq(g, 1, n) = g
  BY SubSeqFull
<1>3. s \in Seq(B) /\ Window(C, 0, n, s)
  BY <1>1, WindowOf
<1>4. Len(s) = n /\ \A i \in 1..n : s[i] = C[i]
  <2>1. \A i \in 1..n : 0 + i = i
    OBVIOUS
  <2> HIDE DEF s
  <2> QED BY <1>3, <2>1 DEF Window
<1>5. SubSeq(C, 1, n) = s
  BY <1>1
<1> HIDE DEF s
<1>6. ASSUME \A i \in 1..n : g[i] = C[i] PROVE g = s
  BY <1>3, <1>4, <1>6, SeqEqual
<1> QED BY <1>2, <1>4, <1>5, <1>6

\* A beginning stays one when more is written after it.
LEMMA BeginsCat ==
  ASSUME NEW B, NEW g \in Seq(B), NEW C \in Seq(B), NEW t \in Seq(B), Begins(g, C)
  PROVE  Begins(g, C \o t)
<1>1. /\ Len(C \o t) = Len(C) + Len(t)
      /\ \A i \in 1..Len(C) + Len(t) : (C \o t)[i] =
            IF i <= Len(C) THEN C[i] ELSE t[i - Len(C)]
  BY ConcatProperties
<1>2. Len(g) \in Nat /\ Len(C) \in Nat /\ Len(t) \in Nat
  OBVIOUS
<1> DEFINE D == C \o t
<1> HIDE DEF D
<1>3. Len(g) <= Len(D)
  BY <1>1, <1>2 DEF Begins, D
<1>4. ASSUME NEW i \in 1..Len(g) PROVE g[i] = D[i]
  <2>1. i \in 1..Len(C) + Len(t) /\ i <= Len(C)
    BY <1>2 DEF Begins
  <2>2. D[i] = C[i]
    BY <1>1, <2>1 DEF D
  <2> QED BY <2>2 DEF Begins
<1> QED BY <1>3, <1>4 DEF Begins, D

\* A beginning with the next piece after it is a beginning, and all of the
\* contents if nothing follows the piece.
LEMMA BeginsNext ==
  ASSUME NEW B, NEW g \in Seq(B), NEW C \in Seq(B), NEW s \in Seq(B),
         Begins(g, C), Len(s) > 0 => Window(C, Len(g), Len(s), s)
  PROVE  /\ g \o s \in Seq(B) /\ Begins(g \o s, C)
         /\ Len(g) + Len(s) = Len(C) => g \o s = C
<1> DEFINE u == g \o s
<1>1. /\ u \in Seq(B) /\ Len(u) = Len(g) + Len(s)
      /\ \A i \in 1..Len(g) + Len(s) : u[i] =
            IF i <= Len(g) THEN g[i] ELSE s[i - Len(g)]
  BY ConcatProperties
<1>2. Len(g) \in Nat /\ Len(C) \in Nat /\ Len(s) \in Nat
  OBVIOUS
<1> HIDE DEF u
<1>3. Len(u) <= Len(C)
  BY <1>1, <1>2 DEF Begins, Window
<1>4. ASSUME NEW i \in 1..Len(u) PROVE u[i] = C[i]
  <2>1. i \in 1..Len(g) + Len(s)
    BY <1>1
  <2>2. CASE i <= Len(g)
    <3>1. i \in 1..Len(g)
      BY <1>2, <2>1, <2>2
    <3>2. u[i] = g[i]
      BY <1>1, <2>1, <2>2
    <3> QED BY <3>1, <3>2 DEF Begins
  <2>3. CASE ~(i <= Len(g))
    <3> DEFINE j == i - Len(g)
    <3>1. j \in 1..Len(s) /\ Len(g) + j = i /\ Len(s) > 0
      BY <1>2, <2>1, <2>3
    <3>2. u[i] = s[j]
      BY <1>1, <2>1, <2>3
    <3> HIDE DEF j
    <3>3. s[j] = C[Len(g) + j]
      BY <3>1 DEF Window
    <3> QED BY <3>1, <3>2, <3>3
  <2> QED BY <2>2, <2>3
<1>5. ASSUME Len(g) + Len(s) = Len(C) PROVE u = C
  BY <1>1, <1>4, <1>5, SeqEqual
<1> QED BY <1>1, <1>3, <1>4, <1>5 DEF Begins, u

-----------------------------------------------------------------------------
(* The list of commands *)

\* A command that is not listed is listed once after HASH_ADD_KEYPTR.
LEMMA ListAppend ==
  ASSUME NEW l \in Seq(Cmd), IsInjective(l), NEW c \in Cmd, c \notin ToSet(l)
  PROVE  Append(l, c) \in Seq(Cmd) /\ IsInjective(Append(l, c))
<1> DEFINE m == Append(l, c)
<1>1. /\ m \in Seq(Cmd) /\ Len(m) = Len(l) + 1 /\ m[Len(l) + 1] = c
      /\ \A k \in 1..Len(l) : m[k] = l[k]
  BY AppendProperties
<1>2. Len(l) \in Nat /\ DOMAIN l = 1..Len(l)
  OBVIOUS
<1>3. \A k \in 1..Len(l) : l[k] # c
  BY <1>2 DEF ToSet
<1> HIDE DEF m
<1>4. DOMAIN m = 1..Len(l) + 1
  BY <1>1
<1>5. ASSUME NEW a \in DOMAIN m, NEW b \in DOMAIN m, m[a] = m[b]
      PROVE  a = b
  <2>1. /\ a \in 1..Len(l) \/ a = Len(l) + 1
        /\ b \in 1..Len(l) \/ b = Len(l) + 1
    BY <1>2, <1>4
  <2>2. CASE a \in 1..Len(l) /\ b \in 1..Len(l)
    BY <1>1, <1>2, <1>5, <2>2 DEF IsInjective
  <2> QED BY <1>1, <1>3, <1>5, <2>1, <2>2
<1> QED BY <1>1, <1>5 DEF IsInjective, m

\* HASH_DEL of one command leaves each of the others listed once.
LEMMA ListRemove ==
  ASSUME NEW l \in Seq(Cmd), IsInjective(l), NEW k \in DOMAIN l
  PROVE  RemoveAt(l, k) \in Seq(Cmd) /\ IsInjective(RemoveAt(l, k))
<1> DEFINE n == Len(l)
           s == SubSeq(l, 0 + 1, 0 + (k - 1))
           t == SubSeq(l, k + 1, k + (n - k))
           m == s \o t
<1>1. n \in Nat /\ k \in 1..n /\ DOMAIN l = 1..n
  OBVIOUS
<1> HIDE DEF n
<1>2. k - 1 \in Nat /\ n - k \in Nat /\ k \in Nat /\ 0 + (k - 1) <= n
      /\ k + (n - k) <= n
  BY <1>1
<1>3. s \in Seq(Cmd) /\ Window(l, 0, k - 1, s)
  BY <1>2, WindowOf DEF n
<1>4. t \in Seq(Cmd) /\ Window(l, k, n - k, t)
  BY <1>2, WindowOf DEF n
<1>5. RemoveAt(l, k) = m
  <2>1. 0 + 1 = 1 /\ 0 + (k - 1) = k - 1 /\ k + (n - k) = n
    BY <1>1
  <2> QED BY <2>1 DEF RemoveAt, n
<1> HIDE DEF s, t
<1>6. /\ m \in Seq(Cmd) /\ Len(m) = Len(s) + Len(t)
      /\ \A i \in 1..Len(s) + Len(t) : m[i] =
            IF i <= Len(s) THEN s[i] ELSE t[i - Len(s)]
  BY <1>3, <1>4, ConcatProperties
<1> DEFINE at(i) == IF i < k THEN i ELSE i + 1
<1> HIDE DEF m
<1>7. Len(s) = k - 1 /\ Len(t) = n - k
  BY <1>3, <1>4 DEF Window
<1>8. DOMAIN m = 1..n - 1
  BY <1>1, <1>6, <1>7
<1>9. ASSUME NEW i \in 1..n - 1 PROVE m[i] = l[at(i)] /\ at(i) \in 1..n
  <2>1. i \in 1..Len(s) + Len(t) /\ at(i) \in 1..n
    BY <1>1, <1>7
  <2>2. m[i] = IF i <= Len(s) THEN s[i] ELSE t[i - Len(s)]
    BY <1>6, <2>1
  <2>3. CASE i < k
    <3>1. i <= Len(s) /\ i \in 1..k - 1 /\ 0 + i = i
      BY <1>1, <1>7, <2>3
    <3>2. m[i] = s[i]
      BY <2>2, <3>1
    <3>3. s[i] = l[i]
      BY <1>3, <3>1 DEF Window
    <3> QED BY <2>1, <2>3, <3>2, <3>3
  <2>4. CASE ~(i < k)
    <3> DEFINE j == i - (k - 1)
    <3>1. ~(i <= Len(s)) /\ j \in 1..n - k /\ k + j = i + 1 /\ i - Len(s) = j
      BY <1>1, <1>7, <2>4
    <3>2. m[i] = t[j]
      BY <2>2, <3>1
    <3> HIDE DEF j
    <3>3. t[j] = l[k + j]
      BY <1>4, <3>1 DEF Window
    <3> QED BY <2>1, <2>4, <3>1, <3>2, <3>3
  <2> QED BY <2>3, <2>4
<1>10. ASSUME NEW a \in DOMAIN m, NEW b \in DOMAIN m, m[a] = m[b]
       PROVE  a = b
  <2>1. a \in 1..n - 1 /\ b \in 1..n - 1
    BY <1>8
  <2>2. at(a) \in 1..n /\ at(b) \in 1..n /\ l[at(a)] = l[at(b)]
    BY <1>9, <1>10, <2>1
  <2>3. at(a) = at(b)
    BY <1>1, <2>2 DEF IsInjective
  <2> QED BY <1>1, <2>1, <2>3
<1> QED BY <1>5, <1>6, <1>10 DEF IsInjective

-----------------------------------------------------------------------------
(* The invariant of the readers *)

\* What a reader is: TypeOK with the bytes it has got
Reader == [st : {"closed", "open", "done"}, ino : Ino, got : Seq(Byte),
           since : Nat]

AttrType == [size : Nat, at : Nat, valid : BOOLEAN]

ShapeInv ==
  /\ list \in Seq(Cmd) /\ IsInjective(list)
  /\ attr \in [Files -> AttrType]
  /\ rd \in Reader
  /\ ops \in 0..MaxOps /\ deleted \in 0..ops

\* In yar's file system everything that is not a directory is one of its files
NamesInv ==
  build = yarfsCreate => \A i \in Live : IsDir(i) \/ table[i].name \in Files

\* What is open is a file of yar's that stays as it is while it is open
OpenInv ==
  IF rd.st = "closed" THEN rd = Closed
  ELSE /\ phase \in {"mounted", "aborted"} /\ build = yarfsCreate
       /\ rd.ino \in Live /\ ~IsDir(rd.ino)

\* A size the kernel holds of this moment is right
AttrInv ==
  \A f \in Files :
    /\ attr[f].at <= ops
    /\ attr[f].valid /\ attr[f].at = ops => attr[f].size = Size(f, list)

FileOf == table[rd.ino].name

\* The size the kernel holds is at least as recent as the one a reader of the
\* file began with
SinceInv ==
  /\ rd.since <= ops
  /\ rd.got # <<>> /\ attr[FileOf].valid => rd.since <= attr[FileOf].at

\* What a reader has got, while nothing has come or gone and while commands
\* are only added
GotInv ==
  /\ rd.st = "open" /\ rd.got # <<>> /\ rd.since = ops =>
       Begins(rd.got, Contents(FileOf, list))
  /\ rd.st = "done" /\ rd.since = ops => rd.got = Contents(FileOf, list)
  /\ rd.got # <<>> /\ FileOf \in {"cmds", "lcmds"} /\ deleted <= rd.since =>
       Begins(rd.got, Contents(FileOf, list))

YarInv == ShapeInv /\ NamesInv /\ OpenInv /\ AttrInv /\ SinceInv /\ GotInv

\* Nothing is open or listed when yar starts.
LEMMA YarInitHolds == Init => YarInv
<1> SUFFICES ASSUME Init PROVE YarInv
  OBVIOUS
<1>1. NIno \in Nat /\ NIno >= 3 /\ MaxOps \in Nat
  BY TableAssumption, LengthAssumption
<1>2. ShapeInv
  <2>1. list \in Seq(Cmd) /\ IsInjective(list)
    BY DEF Init, IsInjective
  <2>2. attr \in [Files -> AttrType]
    BY DEF Init, NoAttr, AttrType
  <2>3. rd \in Reader
    BY <1>1 DEF Init, Closed, Reader, Ino
  <2> QED BY <1>1, <2>1, <2>2, <2>3 DEF Init, ShapeInv
<1>3. NamesInv
  BY DEF Init, FsInit, NamesInv, Live, Unused
<1>4. OpenInv
  BY DEF Init, OpenInv, Closed
<1>5. AttrInv
  BY DEF Init, AttrInv, NoAttr
<1>6. SinceInv
  BY DEF Init, SinceInv, Closed
<1>7. GotInv
  BY DEF Init, GotInv, Closed
<1> QED BY <1>2, <1>3, <1>4, <1>5, <1>6, <1>7 DEF YarInv

\* Items get their names from createfsfunc and keep them (fsCreatefile).
LEMMA NamesKept ==
  ASSUME FsInv, NamesInv, [FsNext]_fsvars
  PROVE  NamesInv'
<1> USE DEF NamesInv
<1>1. table \in [Ino -> Item] /\ ROOT_INO \in Ino
  BY TableAssumption DEF FsInv, FsTypeOK, Ino, ROOT_INO
<1>2. CASE table' = table /\ build' = build
  BY <1>2 DEF Live, IsDir
<1>3. CASE MakeRoot
  BY <1>1, <1>3 DEF MakeRoot, Live, IsDir
<1>4. CASE Create
  <2> DEFINE call == build[Created + 1]
             i == inoalloc
             item == [file |-> "live", type |-> call.type, name |-> call.name,
                      dir |-> call.dir, kids |-> {}]
  <2>1. CASE FsAbort
    BY <1>2, <2>1 DEF FsAbort
  <2>2. CASE ~FsAbort
    <3>1. PICK d, K : /\ table' = [[table EXCEPT ![i] = item] EXCEPT ![d].kids = K]
                      /\ build' = build
      BY <1>4, <2>2 DEF Create
    <3>2. ASSUME build = yarfsCreate PROVE call.name \in Files
      <4>1. PICK c : Created = c /\ c + 1 \in 1..Len(build)
        BY <1>4, CallFinds DEF Create
      <4>2. Len(build) = 5
        BY <3>2 DEF yarfsCreate
      <4>3. Created + 1 \in 1..5
        BY <4>1, <4>2
      <4> QED BY <3>2, <4>3 DEF yarfsCreate, Files
    <3>3. ASSUME NEW j \in Live', j # i
          PROVE  j \in Live /\ table'[j].name = table[j].name
                   /\ table'[j].type = table[j].type
      BY <1>1, <3>1, <3>3 DEF Live, Item
    <3>4. i \in Live' => table'[i].name = call.name
      BY <1>1, <3>1 DEF Live, Item
    <3> QED BY <3>1, <3>2, <3>3, <3>4 DEF IsDir
  <2> QED BY <2>1, <2>2
<1>5. CASE fsRemoveitem
  <2>1. build' = build
    BY <1>5 DEF fsRemoveitem
  <2>2. \/ table' = table
        \/ \E d : table' = [table EXCEPT ![d].kids = @ \ {todo},
                                         ![todo].file = "freed"]
        \/ table' = [table EXCEPT ![todo].file = "freed"]
    BY <1>5 DEF fsRemoveitem
  <2>3. ASSUME NEW j \in Live'
        PROVE  j \in Live /\ table'[j].name = table[j].name
                 /\ table'[j].type = table[j].type
    <3>1. ASSUME NEW T \in [Ino -> Item], NEW d
          PROVE  \A K : /\ DOMAIN [T EXCEPT ![d].kids = K] = Ino
                       /\ \A k \in Ino :
                            /\ [T EXCEPT ![d].kids = K][k].file = T[k].file
                            /\ [T EXCEPT ![d].kids = K][k].name = T[k].name
                            /\ [T EXCEPT ![d].kids = K][k].type = T[k].type
      BY DEF Item
    <3>2. CASE table' = table
      BY <3>2 DEF Live
    <3>3. CASE \E d : table' = [table EXCEPT ![d].kids = @ \ {todo},
                                            ![todo].file = "freed"]
      <4>1. PICK d : table' = [table EXCEPT ![d].kids = @ \ {todo},
                                            ![todo].file = "freed"]
        BY <3>3
      <4> DEFINE T == [table EXCEPT ![d].kids = table[d].kids \ {todo}]
      <4>2. table' = [T EXCEPT ![todo].file = "freed"]
        BY <4>1
      <4>3. /\ DOMAIN T = Ino
            /\ \A k \in Ino : /\ T[k].file = table[k].file
                              /\ T[k].name = table[k].name
                              /\ T[k].type = table[k].type
        BY <1>1, <3>1
      <4> HIDE DEF T
      <4>4. \A k \in Ino : /\ table'[k].file = "live" => T[k].file = "live"
                           /\ table'[k].name = T[k].name
                           /\ table'[k].type = T[k].type
        BY <4>2, <4>3
      <4> QED BY <4>3, <4>4 DEF Live
    <3>4. CASE table' = [table EXCEPT ![todo].file = "freed"]
      BY <1>1, <3>4 DEF Live, Item
    <3> QED BY <2>2, <3>2, <3>3, <3>4
  <2> QED BY <2>1, <2>3 DEF IsDir
<1>6. CASE \/ MkdirFails \/ Mount \/ MountFails
           \/ \E d \in known, n \in Name : fs_fuse_lookup(d, n)
           \/ \E i \in known : \/ fs_fuse_forget(i)
                               \/ fs_fuse_getattr(i) \/ fs_fuse_request(i)
           \/ Unmount \/ ScanItem \/ ScanEnd
           \/ UNCHANGED fsvars
  <2>1. table' = table /\ build' = build
    BY <1>6 DEF MkdirFails, Mount, MountFails, fs_fuse_lookup, fs_fuse_forget,
                fs_fuse_getattr, fs_fuse_request, Unmount, ScanItem, ScanEnd,
                FsAbort, fsvars
  <2> QED BY <1>2, <2>1
<1> QED BY <1>3, <1>4, <1>5, <1>6 DEF FsNext, FsCleanup

\* While a file is open the items stay as they are: they are removed only
\* after the unmount, at which every reader is gone.
LEMMA ItemsStay ==
  ASSUME YarInv, [FsNext]_fsvars, rd.st # "closed", ~Unmount
  PROVE  table' = table /\ build' = build /\ phase' \in {"mounted", "aborted"}
<1>1. phase \in {"mounted", "aborted"}
  BY DEF YarInv, OpenInv
<1> QED
  BY <1>1 DEF FsNext, MkdirFails, MakeRoot, Create, Mount, MountFails,
              fs_fuse_lookup, fs_fuse_forget, fs_fuse_getattr, fs_fuse_request,
              FsCleanup, Scan, ScanItem, ScanEnd, fsRemoveitem, FsAbort, fsvars

\* The attributes fs_fuse_getattr gives of f now
Fresh(f) == [size |-> Size(f, list), at |-> ops, valid |-> TRUE]

\* They are attributes, and right.
LEMMA FreshRight ==
  ASSUME YarInv, NEW f \in Files
  PROVE  /\ Fresh(f) \in AttrType /\ Fresh(f).valid
         /\ Fresh(f).at = ops /\ Fresh(f).size = Size(f, list)
<1>1. Size(f, list) \in Nat
  BY ContentsFilled DEF YarInv, ShapeInv, Filled
<1>2. ops \in Nat
  BY LengthAssumption DEF YarInv, ShapeInv
<1> QED BY <1>1, <1>2 DEF Fresh, AttrType

\* What changes nothing but the file system while no file is open, and the
\* sizes the kernel holds, keeps the invariant.
LEMMA AttrKeeps ==
  ASSUME YarInv, NamesInv', UNCHANGED <<list, rd, ops, deleted>>,
         rd.st # "closed" =>
           table' = table /\ build' = build /\ phase' \in {"mounted", "aborted"},
         NEW A, A = attr', A = [f \in Files |-> A[f]],
         \A f \in Files : A[f] \in {attr[f], NoAttr, Fresh(f)}
  PROVE  YarInv'
<1>1. /\ ops \in Nat /\ attr \in [Files -> AttrType] /\ rd \in Reader
      /\ rd.since \in Nat
  BY LengthAssumption DEF YarInv, ShapeInv, Reader
<1>2. ASSUME NEW f \in Files
      PROVE  /\ A[f] \in AttrType /\ A[f].at <= ops
             /\ A[f].valid /\ A[f].at = ops => A[f].size = Size(f, list)
             /\ A[f].valid => A[f] = attr[f] \/ A[f].at = ops
  <2>1. CASE A[f] = attr[f]
    BY <1>1, <2>1 DEF YarInv, AttrInv
  <2>2. CASE A[f] = NoAttr
    <3>1. ~NoAttr.valid /\ NoAttr.at = 0 /\ NoAttr \in AttrType
      BY DEF NoAttr, AttrType
    <3> QED BY <1>1, <2>2, <3>1
  <2>3. CASE A[f] = Fresh(f)
    BY <1>1, <2>3, FreshRight
  <2> QED BY <2>1, <2>2, <2>3
<1>3. ShapeInv'
  <2>1. A \in [Files -> AttrType]
    BY <1>2
  <2> QED BY <2>1 DEF YarInv, ShapeInv
<1>4. OpenInv'
  BY DEF YarInv, OpenInv, Live, IsDir
<1>5. AttrInv'
  BY <1>2 DEF AttrInv
<1>6. CASE rd.st = "closed"
  <2>1. rd' = Closed
    BY <1>6 DEF YarInv, OpenInv
  <2>2. rd'.got = <<>> /\ rd'.st = "closed" /\ rd'.since = 0
    BY <2>1 DEF Closed
  <2> QED BY <1>1, <1>3, <1>4, <1>5, <2>2 DEF YarInv, SinceInv, GotInv
<1>7. CASE rd.st # "closed"
  <2>1. table' = table /\ FileOf' = FileOf
    BY <1>7 DEF FileOf
  <2>2. GotInv'
    BY <2>1 DEF YarInv, GotInv
  <2>3. FileOf \in Files
    BY <1>7 DEF YarInv, OpenInv, NamesInv, FileOf
  <2>4. A[FileOf].valid /\ rd.got # <<>> => rd.since <= A[FileOf].at
    BY <1>1, <1>2, <2>3 DEF YarInv, SinceInv
  <2>5. SinceInv'
    BY <2>1, <2>4 DEF YarInv, SinceInv
  <2> QED BY <1>3, <1>4, <1>5, <2>2, <2>5 DEF YarInv
<1> QED BY <1>6, <1>7

\* The steps of the file system alone, and the answers that carry attributes.
LEMMA AttrStepsKeep ==
  ASSUME FsInv, YarInv, [Next]_vars,
         \/ FsStep
         \/ \E d \in known, n \in Name : Lookup(d, n)
         \/ \E f \in Files : Expire(f)
         \/ \E i \in known : Forget(i)
         \/ UNCHANGED vars
  PROVE  YarInv'
<1>1. [FsNext]_fsvars
  BY StepsOfFs
<1>2. NamesInv'
  BY <1>1, NamesKept DEF YarInv
<1>3. UNCHANGED <<list, rd, ops, deleted>>
  BY DEF FsStep, Lookup, Expire, Forget, vars
<1>4. ~Unmount
  <2>1. SUFFICES ASSUME Unmount PROVE FALSE
    OBVIOUS
  <2>2. phase = "mounted" /\ phase' = "scan"
    BY <2>1 DEF Unmount
  <2> QED
    BY <2>2 DEF FsStep, MkdirFails, MakeRoot, Create, Mount, MountFails,
                fs_fuse_getattr, fs_fuse_request, FsAbort, FsCleanup, Scan,
                ScanItem, ScanEnd, fsRemoveitem, Lookup, fs_fuse_lookup, Expire,
                Forget, fs_fuse_forget, fsvars, vars
<1>5. rd.st # "closed" =>
        table' = table /\ build' = build /\ phase' \in {"mounted", "aborted"}
  BY <1>1, <1>4, ItemsStay
<1>6. attr \in [Files -> AttrType]
  BY DEF YarInv, ShapeInv
<1>7. /\ attr' = [f \in Files |-> attr'[f]]
      /\ \A f \in Files : attr'[f] \in {attr[f], NoAttr, Fresh(f)}
  <2>1. CASE FsStep \/ UNCHANGED vars
    BY <1>6, <2>1 DEF FsStep, vars
  <2>2. CASE \E d \in known, n \in Name : Lookup(d, n)
    BY <2>2 DEF Lookup, Fresh
  <2>3. CASE \E f \in Files : Expire(f)
    BY <1>6, <2>3 DEF Expire
  <2>4. CASE \E i \in known : Forget(i)
    BY <2>4 DEF Forget
  <2> QED BY <2>1, <2>2, <2>3, <2>4
<1> QED BY <1>2, <1>3, <1>5, <1>7, AttrKeeps

\* A file that is opened has not been read from; one that is closed is gone.
LEMMA OpenKeeps ==
  ASSUME FsInv, YarInv, NEW i \in known, Open(i)
  PROVE  YarInv'
<1>1. /\ rd' = [st |-> "open", ino |-> i, got |-> <<>>, since |-> 0]
      /\ UNCHANGED <<fsvars, list, attr, ops, deleted>>
      /\ Up /\ Allocated(i) /\ ~IsDir(i)
  BY DEF Open
<1>2. i \in Ino /\ i \in Live
  BY <1>1 DEF FsInv, FsTypeOK, Allocated, Live
<1>3. /\ rd'.st = "open" /\ rd'.ino = i /\ rd'.got = <<>> /\ rd'.since = 0
      /\ rd' \in Reader
  BY <1>1, <1>2 DEF Reader
<1>4. UNCHANGED <<phase, build, table>> /\ ops \in Nat
  BY <1>1, LengthAssumption DEF fsvars, YarInv, ShapeInv
<1>5. ShapeInv'
  BY <1>1, <1>3 DEF YarInv, ShapeInv
<1>6. OpenInv'
  BY <1>1, <1>2, <1>3, <1>4 DEF OpenInv, Up, IsDir, Live
<1>7. NamesInv' /\ AttrInv'
  BY <1>1, <1>4 DEF YarInv, NamesInv, AttrInv, Live, IsDir
<1>8. SinceInv' /\ GotInv'
  BY <1>1, <1>3, <1>4 DEF SinceInv, GotInv
<1> QED BY <1>5, <1>6, <1>7, <1>8 DEF YarInv

\* The reader closes the file; or yar unmounts, when the commands are gone.
LEMMA CloseKeeps ==
  ASSUME FsInv, YarInv, [Next]_vars, Close \/ Cleanup
  PROVE  YarInv'
<1>1. NamesInv'
  BY StepsOfFs, NamesKept DEF YarInv
<1>2. rd' = Closed /\ ops' = ops /\ deleted' = deleted
  BY DEF Close, Cleanup
<1>3. NIno \in Nat /\ NIno >= 3 /\ MaxOps \in Nat /\ ops \in Nat
  BY TableAssumption, LengthAssumption DEF YarInv, ShapeInv
<1>4. /\ rd' \in Reader
      /\ rd'.got = <<>> /\ rd'.st = "closed" /\ rd'.since = 0
  BY <1>2, <1>3 DEF Closed, Reader, Ino
<1>5. /\ list' \in Seq(Cmd) /\ IsInjective(list')
      /\ attr' \in [Files -> AttrType] /\ AttrInv'
  <2>1. CASE Close
    BY <2>1 DEF Close, YarInv, ShapeInv, AttrInv
  <2>2. CASE Cleanup
    <3>1. ~NoAttr.valid /\ NoAttr.at = 0 /\ NoAttr \in AttrType
      BY DEF NoAttr, AttrType
    <3>2. list' = <<>> /\ attr' = [f \in Files |-> NoAttr]
      BY <2>2 DEF Cleanup
    <3>3. list' \in Seq(Cmd) /\ IsInjective(list')
      BY <3>2 DEF IsInjective
    <3>4. \A f \in Files : attr'[f] = NoAttr
      BY <3>2
    <3> QED BY <1>2, <1>3, <3>1, <3>2, <3>3, <3>4 DEF AttrInv
  <2> QED BY <2>1, <2>2
<1>6. ShapeInv'
  BY <1>2, <1>4, <1>5 DEF YarInv, ShapeInv
<1>7. OpenInv'
  BY <1>2, <1>4 DEF OpenInv, Closed
<1>8. SinceInv' /\ GotInv'
  BY <1>2, <1>3, <1>4 DEF SinceInv, GotInv
<1> QED BY <1>1, <1>5, <1>6, <1>7, <1>8 DEF YarInv

\* A new command is written after those that were there (fs_cmds_read,
\* fs_lcmds_read).
LEMMA ContentsGrow ==
  ASSUME NEW f \in {"cmds", "lcmds"}, NEW l \in Seq(Cmd), NEW c \in Cmd,
         NEW g \in Seq(Byte), Begins(g, Contents(f, l))
  PROVE  Begins(g, Contents(f, Append(l, c)))
<1>1. /\ cmdsLine \in [Cmd -> Seq(Byte)] /\ lcmdsLine \in [Cmd -> Seq(Byte)]
      /\ Lines(cmdsLine, l) \in Seq(Byte) /\ Lines(lcmdsLine, l) \in Seq(Byte)
  BY CmdsCounted, LcmdsCounted, LoopFilled DEF Counted, Filled
<1>2. CASE f = "cmds"
  <2>1. \A m : Contents(f, m) = Lines(cmdsLine, m)
    BY <1>2 DEF Contents, fs_cmds_read, cmdsLine
  <2>2. Contents(f, Append(l, c)) = Contents(f, l) \o cmdsLine[c]
    BY <1>1, <2>1, LinesAppend
  <2>3. cmdsLine[c] \in Seq(Byte) /\ Contents(f, l) \in Seq(Byte)
    BY <1>1, <2>1
  <2> QED BY <2>2, <2>3, BeginsCat
<1>3. CASE f = "lcmds"
  <2>1. \A m : Contents(f, m) = Lines(lcmdsLine, m)
    BY <1>3 DEF Contents, fs_lcmds_read, lcmdsLine
  <2>2. Contents(f, Append(l, c)) = Contents(f, l) \o lcmdsLine[c]
    BY <1>1, <2>1, LinesAppend
  <2>3. lcmdsLine[c] \in Seq(Byte) /\ Contents(f, l) \in Seq(Byte)
    BY <1>1, <2>1
  <2> QED BY <2>2, <2>3, BeginsCat
<1> QED BY <1>2, <1>3

\* The monitor adds or deletes a command: no size and no reader is of this
\* moment any more, and only a reader that began before a delete has lost.
LEMMA MonKeeps ==
  ASSUME YarInv, NEW c \in Cmd, MonAdd(c) \/ MonDel(c)
  PROVE  YarInv'
<1>1. UNCHANGED <<fsvars, attr, rd>> /\ ops' = ops + 1 /\ ops < MaxOps
  BY DEF MonAdd, MonDel
<1>2. UNCHANGED <<phase, build, table>> /\ FileOf' = FileOf
  BY <1>1 DEF fsvars, FileOf
<1>3. /\ ops \in Nat /\ MaxOps \in Nat /\ rd \in Reader /\ rd.since \in Nat
      /\ rd.since <= ops /\ deleted \in 0..ops
      /\ list \in Seq(Cmd) /\ IsInjective(list) /\ rd.got \in Seq(Byte)
      /\ attr \in [Files -> AttrType]
  BY LengthAssumption DEF YarInv, ShapeInv, SinceInv, Reader
<1>4. /\ list' \in Seq(Cmd) /\ IsInjective(list')
  <2>1. CASE MonAdd(c)
    BY <1>3, <2>1, ListAppend DEF MonAdd
  <2>2. CASE MonDel(c)
    BY <1>3, <2>2, ListRemove DEF MonDel
  <2> QED BY <2>1, <2>2
<1>5. deleted' \in 0..ops' /\ ops' \in 0..MaxOps
  <2>1. deleted' = deleted \/ deleted' = ops + 1
    BY DEF MonAdd, MonDel
  <2> QED BY <1>1, <1>3, <2>1
<1>6. ShapeInv'
  BY <1>1, <1>3, <1>4, <1>5 DEF ShapeInv
<1>7. NamesInv' /\ OpenInv'
  BY <1>1, <1>2 DEF YarInv, NamesInv, OpenInv, Live, IsDir
<1>8. AttrInv'
  <2>1. ASSUME NEW f \in Files PROVE attr[f].at <= ops' /\ attr[f].at # ops'
    <3>1. attr[f].at \in Nat /\ attr[f].at <= ops
      BY <1>3 DEF YarInv, AttrInv, AttrType
    <3> QED BY <1>1, <1>3, <3>1
  <2> QED BY <1>1, <2>1 DEF AttrInv
<1>9. rd.since # ops' /\ rd.since <= ops'
  BY <1>1, <1>3
<1>10. SinceInv'
  BY <1>1, <1>2, <1>9 DEF YarInv, SinceInv
<1>11. GotInv'
  <2>1. SUFFICES ASSUME rd.got # <<>>, FileOf \in {"cmds", "lcmds"},
                        deleted' <= rd.since
                 PROVE  Begins(rd.got, Contents(FileOf, list'))
    BY <1>1, <1>2, <1>9 DEF GotInv
  <2>2. ~MonDel(c)
    BY <1>3, <2>1 DEF MonDel
  <2>3. list' = Append(list, c) /\ deleted' = deleted
    BY <2>2 DEF MonAdd
  <2>4. Begins(rd.got, Contents(FileOf, list))
    BY <2>1, <2>3 DEF YarInv, GotInv
  <2> HIDE DEF FileOf
  <2> QED BY <1>3, <2>1, <2>3, <2>4, ContentsGrow
<1> QED BY <1>6, <1>7, <1>8, <1>10, <1>11 DEF YarInv

\* The size a reader goes by is one the kernel holds or one it is given now:
\* it is right if it is of this moment, and not older than the reader's first.
LEMMA AttrRight ==
  ASSUME YarInv, NEW f \in Files
  PROVE  /\ Attr(f) \in AttrType /\ Attr(f).valid /\ Attr(f).at <= ops
         /\ Attr(f).at = ops => Attr(f).size = Size(f, list)
         /\ rd.got # <<>> /\ f = FileOf => rd.since <= Attr(f).at
<1>1. /\ ops \in Nat /\ attr \in [Files -> AttrType] /\ rd.since <= ops
  BY LengthAssumption DEF YarInv, ShapeInv, SinceInv
<1>2. CASE attr[f].valid
  <2>1. Attr(f) = attr[f]
    BY <1>2 DEF Attr
  <2> QED BY <1>1, <1>2, <2>1 DEF YarInv, AttrInv, SinceInv
<1>3. CASE ~attr[f].valid
  <2>1. Attr(f) = Fresh(f)
    BY <1>3 DEF Attr, Fresh
  <2> QED BY <1>1, <2>1, FreshRight
<1> QED BY <1>2, <1>3

\* One request of a reader (fs_fuse_read, fsFuseReplyBufLimited): what it has
\* got is still a beginning of the file, and all of it if the request was the
\* last and the size was right.
LEMMA ReadKeeps ==
  ASSUME YarInv, Read
  PROVE  YarInv'
<1> DEFINE f == FileOf
           C == Contents(f, list)
           a == Attr(f)
           g == rd.got
           off == Len(g)
           s == Sent(C, off, a.size)
           u == g \o s
<1>1. /\ rd.st = "open" /\ attr' = [attr EXCEPT ![f] = a]
      /\ rd' = [rd EXCEPT !.got = u,
                          !.since = IF off = 0 THEN a.at ELSE rd.since,
                          !.st = IF Len(s) < Request THEN "done" ELSE rd.st]
      /\ UNCHANGED <<fsvars, list, ops, deleted>>
  BY DEF Read, FileOf, Sent, Want, Reply
<1>2. UNCHANGED <<phase, build, table>>
  BY <1>1 DEF fsvars
<1>3. /\ ops \in Nat /\ rd \in Reader /\ rd.since \in Nat /\ g \in Seq(Byte)
      /\ rd.since <= ops /\ list \in Seq(Cmd) /\ attr \in [Files -> AttrType]
      /\ off \in Nat /\ rd.ino \in Ino
  BY LengthAssumption DEF YarInv, ShapeInv, SinceInv, Reader
<1>4. f \in Files
  BY <1>1 DEF YarInv, OpenInv, NamesInv, FileOf
<1>5. C \in Seq(Byte) /\ Len(C) = Size(f, list) /\ Len(C) \in Nat
  <2> HIDE DEF f
  <2> QED BY <1>3, <1>4, ContentsFilled DEF Filled
<1>6. /\ a \in AttrType /\ a.valid /\ a.at <= ops
      /\ a.at = ops => a.size = Len(C)
      /\ g # <<>> => rd.since <= a.at
  <2> HIDE DEF f
  <2>1. /\ a \in AttrType /\ a.valid /\ a.at <= ops
        /\ a.at = ops => a.size = Size(f, list)
        /\ g # <<>> /\ f = FileOf => rd.since <= a.at
    BY <1>4, AttrRight
  <2> QED BY <1>5, <2>1 DEF f
<1>7. a.size \in Nat /\ a.at \in Nat
  BY <1>6 DEF AttrType
<1>8. g = <<>> <=> off = 0
  BY <1>3, EmptySeq
<1> HIDE DEF f, a, C
<1>9. PICK m \in Nat :
        /\ s \in Seq(Byte) /\ Len(s) = m
        /\ m > 0 => Window(C, off, m, s)
        /\ a.size = Len(C) /\ m < Request /\ off <= Len(C) => off + m = Len(C)
  <2> DEFINE sz == a.size
  <2>1. sz \in Nat /\ off \in Nat /\ C \in Seq(Byte)
    BY <1>3, <1>5, <1>7
  <2> HIDE DEF sz, off, g
  <2>2. \E m \in Nat :
          /\ Sent(C, off, sz) \in Seq(Byte) /\ Len(Sent(C, off, sz)) = m
          /\ m > 0 => Window(C, off, m, Sent(C, off, sz))
          /\ sz = Len(C) /\ m < Request /\ off <= Len(C) => off + m = Len(C)
    BY ONLY <2>1, NextPiece
  <2> QED BY <2>2 DEF sz
<1> HIDE DEF s
<1>10. Begins(g, C) => /\ Begins(u, C) /\ off <= Len(C)
                       /\ off + m = Len(C) => u = C
  <2>1. ASSUME Begins(g, C) PROVE /\ Begins(u, C) /\ off <= Len(C)
                                  /\ off + m = Len(C) => u = C
    <3>1. Len(s) > 0 => Window(C, Len(g), Len(s), s)
      BY <1>9
    <3>2. /\ Begins(g \o s, C)
          /\ Len(g) + Len(s) = Len(C) => g \o s = C
      <4> HIDE DEF g
      <4>1. g \in Seq(Byte) /\ C \in Seq(Byte) /\ s \in Seq(Byte)
        BY <1>3, <1>5, <1>9
      <4> QED BY <2>1, <3>1, <4>1, BeginsNext
    <3>3. off <= Len(C)
      BY <2>1 DEF Begins
    <3> QED BY <1>9, <3>2, <3>3
  <2> QED BY <2>1
<1>11. u \in Seq(Byte)
  BY <1>3, <1>9, ConcatProperties
<1>12. off = 0 => Begins(g, C)
  BY <1>5, <1>8 DEF Begins
<1> HIDE DEF u
<1> DEFINE since == IF off = 0 THEN a.at ELSE rd.since
           st == IF Len(s) < Request THEN "done" ELSE rd.st
<1>13. since \in Nat /\ since <= ops /\ since <= a.at
  BY <1>3, <1>6, <1>7, <1>8
<1>14. st \in {"open", "done"} /\ (st = "done" => m < Request)
  BY <1>1, <1>9
<1>15. since = ops => Begins(g, C)
  BY <1>1, <1>8, <1>12 DEF YarInv, GotInv, f, C
<1>16. since = ops => a.size = Len(C)
  <2>1. since = ops => a.at = ops
    BY <1>3, <1>6, <1>7, <1>13
  <2> QED BY <1>6, <2>1
<1>17. f \in {"cmds", "lcmds"} /\ deleted <= since => Begins(g, C)
  BY <1>1, <1>8, <1>12 DEF YarInv, GotInv, f, C
<1>18. rd' = [rd EXCEPT !.got = u, !.since = since, !.st = st]
  BY <1>1
<1> HIDE DEF since, st, off
<1>19. /\ rd' \in Reader /\ rd'.ino = rd.ino /\ rd'.got = u
       /\ rd'.since = since /\ rd'.st = st
  BY <1>3, <1>11, <1>13, <1>14, <1>18 DEF Reader
<1>20. FileOf' = f /\ Contents(f, list)' = C
  BY <1>1, <1>2, <1>19 DEF FileOf, f, C
<1>21. ShapeInv'
  <2>1. attr' \in [Files -> AttrType]
    BY <1>1, <1>3, <1>4, <1>6
  <2> QED BY <1>1, <1>19, <2>1 DEF YarInv, ShapeInv
<1>22. NamesInv' /\ OpenInv'
  <2>1. NamesInv'
    BY <1>2 DEF YarInv, NamesInv, Live, IsDir
  <2>2. st # "closed" /\ rd.st # "closed"
    BY <1>1, <1>14
  <2> QED BY <1>2, <1>19, <2>1, <2>2 DEF YarInv, OpenInv, Live, IsDir
<1>23. attr'[f] = a /\ \A h \in Files : h # f => attr'[h] = attr[h]
  BY <1>1, <1>3, <1>4
<1>24. AttrInv'
  <2>1. ASSUME NEW h \in Files
        PROVE  /\ attr'[h].at <= ops
               /\ attr'[h].valid /\ attr'[h].at = ops => attr'[h].size = Size(h, list)
    <3>1. CASE h = f
      BY <1>5, <1>6, <1>23, <3>1
    <3>2. CASE h # f
      BY <1>23, <3>2 DEF YarInv, AttrInv
    <3> QED BY <3>1, <3>2
  <2> QED BY <1>1, <2>1 DEF AttrInv
<1>25. SinceInv'
  BY <1>1, <1>13, <1>19, <1>20, <1>23 DEF SinceInv
<1>26. GotInv'
  <2>1. ASSUME since = ops PROVE Begins(u, C) /\ (st = "done" => u = C)
    BY <1>9, <1>10, <1>14, <1>15, <1>16, <2>1
  <2>2. ASSUME f \in {"cmds", "lcmds"}, deleted <= since PROVE Begins(u, C)
    BY <1>10, <1>17, <2>2
  <2>3. Contents(FileOf, list)' = C
    BY <1>1, <1>20 DEF C
  <2> QED BY <1>1, <1>19, <1>20, <2>1, <2>2, <2>3 DEF GotInv
<1> QED BY <1>21, <1>22, <1>24, <1>25, <1>26 DEF YarInv

\* Every step of yar and of the processes that read its files.
LEMMA YarStepKeeps ==
  ASSUME FsInv, YarInv, [Next]_vars
  PROVE  YarInv'
<1>1. CASE \/ FsStep
           \/ \E d \in known, n \in Name : Lookup(d, n)
           \/ \E f \in Files : Expire(f)
           \/ \E i \in known : Forget(i)
           \/ UNCHANGED vars
  BY <1>1, AttrStepsKeep
<1>2. CASE \E i \in known : Open(i)
  BY <1>2, OpenKeeps
<1>3. CASE Read
  BY <1>3, ReadKeeps
<1>4. CASE Close \/ Cleanup
  BY <1>4, CloseKeeps
<1>5. CASE \E c \in Cmd : MonAdd(c) \/ MonDel(c)
  BY <1>5, MonKeeps
<1> QED BY <1>1, <1>2, <1>3, <1>4, <1>5 DEF Next

\* The invariant of the readers of yar's files: it relates the size the kernel
\* holds, the commands and what each reader has got.
THEOREM ReadersSound == Spec => []YarInv
<1>1. Init => YarInv
  BY YarInitHolds
<1>2. FsInv /\ YarInv /\ [Next]_vars => YarInv'
  BY YarStepKeeps
<1> QED BY <1>1, <1>2, FilesSound, PTL DEF Spec

\* Everything is of its type, and no command is listed twice.
THEOREM FilesTyped == Spec => []TypeOK
<1>1. FsInv /\ YarInv => TypeOK
  <2> SUFFICES ASSUME FsInv, YarInv PROVE TypeOK
    OBVIOUS
  <2>1. FsTypeOK
    BY DEF FsInv
  <2>2. /\ rd.st \in {"closed", "open", "done"} /\ rd.ino \in Ino
        /\ rd.since \in Nat
    BY DEF YarInv, ShapeInv, Reader
  <2>3. ops \in 0..MaxOps /\ deleted \in 0..MaxOps
    BY LengthAssumption DEF YarInv, ShapeInv
  <2> QED BY <2>1, <2>2, <2>3 DEF YarInv, ShapeInv, TypeOK, AttrType
<1> QED BY <1>1, FilesSound, ReadersSound, PTL

\* The buffer every read function allocates by the size function is filled
\* exactly, whatever the commands, the lengths of their names, links and
\* command lines, and the number of digits of their count.
THEOREM BuffersFilled == Spec => []SizeExact
<1>1. YarInv => SizeExact
  BY ContentsFilled DEF YarInv, ShapeInv, SizeExact, Filled
<1> QED BY <1>1, ReadersSound, PTL

\* A reader gets the whole file in any number of requests of any length,
\* provided no command came or went since the size it goes by was fetched.
THEOREM WholeFileRead == Spec => []WholeRead
<1>1. YarInv => WholeRead
  BY DEF YarInv, GotInv, WholeRead, FileOf
<1> QED BY <1>1, ReadersSound, PTL

\* A reader of /cmds or /lcmds under which commands are only added has got a
\* beginning of the list as it is now, however often it asks and whatever
\* sizes the kernel holds.
THEOREM AddsCutShort == Spec => []AddsOnlyCutShort
<1>1. YarInv => AddsOnlyCutShort
  <2> SUFFICES ASSUME YarInv, rd.got # <<>>, FileOf \in {"cmds", "lcmds"},
                      deleted <= rd.since
               PROVE  IsPrefix(rd.got, Contents(FileOf, list))
    BY DEF AddsOnlyCutShort, FileOf
  <2> DEFINE g == rd.got
             f == FileOf
             C == Contents(f, list)
  <2>1. g \in Seq(Byte) /\ f \in Files /\ list \in Seq(Cmd)
    BY DEF YarInv, ShapeInv, Reader, Files
  <2>2. Begins(g, C)
    BY DEF YarInv, GotInv
  <2> HIDE DEF g, f
  <2>3. C \in Seq(Byte)
    BY <2>1, ContentsFilled DEF Filled
  <2> HIDE DEF C
  <2>4. IsPrefix(g, C)
    BY <2>1, <2>2, <2>3, BeginsPrefix
  <2> QED BY <2>4 DEF g, f, C
<1> QED BY <1>1, ReadersSound, PTL
=============================================================================

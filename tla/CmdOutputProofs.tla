--------------------------- MODULE CmdOutputProofs ---------------------------
(***************************************************************************)
(* The circular buffer of cmdttyProcessOutput keeps the promise of         *)
(* BcstLine, for every size of the buffer, every alphabet and every ready  *)
(* string.                                                                 *)
(***************************************************************************)
EXTENDS CmdOutput, TLAPS, SequenceTheorems

-----------------------------------------------------------------------------
(* Remainders.  The prover's arithmetic is linear; these lemmas are where  *)
(* the products are.                                                       *)

\* Division with remainder.
LEMMA DivMod ==
  ASSUME NEW s \in Nat \ {0}, NEW n \in Int
  PROVE  /\ n = s * (n \div s) + (n % s)
         /\ n \div s \in Int /\ n % s \in 0..(s - 1)
BY Z3

\* The remainder is unique.
LEMMA ModUnique ==
  ASSUME NEW s \in Nat \ {0}, NEW p \in Int, NEW q \in Int,
         NEW r \in 0..(s - 1), NEW t \in 0..(s - 1), s * p + r = s * q + t
  PROVE  r = t
OBVIOUS

\* How to recognise it.
LEMMA ModOf ==
  ASSUME NEW s \in Nat \ {0}, NEW n \in Int, NEW q \in Int,
         NEW r \in 0..(s - 1), n = s * q + r
  PROVE  n % s = r
BY DivMod, ModUnique

\* Going on by less than one turn.
LEMMA ModAdd ==
  ASSUME NEW s \in Nat \ {0}, NEW n \in Int, NEW j \in 0..(s - 1)
  PROVE  (n + j) % s = IF (n % s) + j < s THEN (n % s) + j ELSE (n % s) + j - s
<1> DEFINE q == n \div s
           r == n % s
<1>1. n = s * q + r /\ q \in Int /\ r \in 0..(s - 1)
  BY DivMod
<1> HIDE DEF q, r
<1>2. CASE r + j < s
  <2>1. n + j = s * q + (r + j) /\ r + j \in 0..(s - 1)
    BY <1>1, <1>2
  <2>2. n + j \in Int
    OBVIOUS
  <2>3. (n + j) % s = r + j
    BY <1>1, <2>1, <2>2, ModOf
  <2> QED BY <1>2, <2>3 DEF r
<1>3. CASE ~(r + j < s)
  <2>1. s * (q + 1) = s * q + s
    BY <1>1
  <2>2. n + j = s * (q + 1) + (r + j - s) /\ r + j - s \in 0..(s - 1)
    BY <1>1, <1>3, <2>1
  <2>3. n + j \in Int /\ q + 1 \in Int
    BY <1>1
  <2>4. (n + j) % s = r + j - s
    BY <2>2, <2>3, ModOf
  <2> QED BY <1>3, <2>4 DEF r
<1> QED
  BY <1>2, <1>3 DEF r

\* A whole turn back is where one was.
LEMMA ModTurn ==
  ASSUME NEW s \in Nat \ {0}, NEW n \in Int
  PROVE  (n - s) % s = n % s
<1> DEFINE q == n \div s
           r == n % s
<1>1. n = s * q + r /\ q \in Int /\ r \in 0..(s - 1)
  BY DivMod
<1> HIDE DEF q, r
<1>2. s * (q - 1) = s * q - s
  BY <1>1
<1>3. n - s = s * (q - 1) + r /\ n - s \in Int /\ q - 1 \in Int
  BY <1>1, <1>2
<1>4. (n - s) % s = r
  BY <1>1, <1>3, ModOf
<1> QED
  BY <1>4 DEF r

-----------------------------------------------------------------------------
(* Sequences *)

\* The last n elements.
LEMMA LastNLemma ==
  ASSUME NEW C, NEW s \in Seq(C), NEW n \in Nat
  PROVE  /\ Promise!LastN(s, n) \in Seq(C)
         /\ Len(Promise!LastN(s, n)) = IF Len(s) <= n THEN Len(s) ELSE n
         /\ \A k \in 1..Len(Promise!LastN(s, n)) :
              Promise!LastN(s, n)[k] = s[Len(s) - Len(Promise!LastN(s, n)) + k]
<1>1. Len(s) \in Nat /\ \A i \in 1..Len(s) : s[i] \in C
  BY ElementOfSeq, LenProperties
<1>2. CASE Len(s) <= n
  <2>1. Promise!LastN(s, n) = s
    BY <1>2 DEF Promise!LastN
  <2>2. \A k \in 1..Len(s) : Len(s) - Len(s) + k = k
    BY <1>1
  <2> QED BY <1>2, <2>1, <2>2
<1>3. CASE ~(Len(s) <= n)
  <2> DEFINE m == Len(s) - n + 1
             u == SubSeq(s, m, Len(s))
  <2>1. Promise!LastN(s, n) = u
    BY <1>3 DEF Promise!LastN
  <2>2. m \in Int /\ Len(s) \in Int /\ \A i \in m..Len(s) : i \in 1..Len(s)
    BY <1>1, <1>3
  <2>3. \A i \in m..Len(s) : s[i] \in C
    BY <1>1, <2>2
  <2>4. /\ u \in Seq(C)
        /\ Len(u) = IF m <= Len(s) THEN Len(s) - m + 1 ELSE 0
        /\ \A i \in 1..(Len(s) - m + 1) : u[i] = s[m + i - 1]
    <3> HIDE DEF m
    <3> QED BY <2>2, <2>3, SubSeqProperties
  <2>5. Len(s) - m + 1 = n /\ Len(u) = n
    BY <1>1, <1>3, <2>4
  <2>6. \A k \in 1..n : m + k - 1 = Len(s) - n + k
    BY <1>1
  <2>7. \A k \in 1..n : u[k] = s[Len(s) - n + k]
    BY <2>4, <2>5, <2>6
  <2> HIDE DEF u, m
  <2> QED BY <1>3, <2>1, <2>4, <2>5, <2>7
<1> QED
  BY <1>2, <1>3

\* A slice of the buffer.
LEMMA SliceLemma ==
  ASSUME NEW D, NEW b \in [0..(Size - 1) -> D], NEW from \in Nat, NEW len \in Nat,
         from + len <= Size
  PROVE  Slice(b, from, len) \in Seq(D) /\ Len(Slice(b, from, len)) = len
<1>1. ASSUME NEW k \in 1..len PROVE b[from + k - 1] \in D
  <2>1. from + k - 1 \in 0..(Size - 1)
    BY BufAssumption
  <2> QED BY <2>1
<1>2. Slice(b, from, len) \in [1..len -> D]
  BY <1>1 DEF Slice
<1>3. Slice(b, from, len) \in Seq(D)
  BY <1>2
<1>4. Len(Slice(b, from, len)) = len
  BY <1>2
<1> QED
  BY <1>3, <1>4

\* How far the end of the line is behind its start, going round the ring once.
Lag(n, start) ==
  LET s == cmdbufNtoI(start)
      end == cmdbufNtoI(n)
  IN  IF s <= end THEN end - s ELSE end - s + Size

\* It is the length of the stream in between if that is less than one turn.
LEMMA LagShort ==
  ASSUME NEW n \in Nat, NEW start \in 0..n, n - start < Size
  PROVE  Lag(n, start) = n - start
<1> DEFINE s == start % Size
           end == n % Size
           j == n - start
<1>1. /\ Size \in Nat \ {0} /\ start \in Int /\ j \in 0..(Size - 1)
      /\ start + j = n /\ s \in 0..(Size - 1)
  BY BufAssumption, DivMod
<1>2. (start + j) % Size = IF s + j < Size THEN s + j ELSE s + j - Size
  <2> HIDE DEF j
  <2> QED BY <1>1, ModAdd, Zenon
<1>3. end = IF s + j < Size THEN s + j ELSE s + j - Size
  BY <1>1, <1>2
<1>4. Lag(n, start) = IF s <= end THEN end - s ELSE end - s + Size
  BY DEF Lag, cmdbufNtoI
<1> HIDE DEF s, end
<1>5. Lag(n, start) = j
  <2> HIDE DEF j
  <2> QED BY <1>1, <1>3, <1>4
<1> QED
  BY <1>5

\* One character more puts it one further off, unless that closes the circle.
LEMMA LagStep ==
  ASSUME NEW n \in Nat, NEW start \in Nat,
         cmdbufNtoI(n + 1) # cmdbufNtoI(start)
  PROVE  Lag(n + 1, start) = Lag(n, start) + 1
<1> DEFINE s == start % Size
           end == n % Size
           next == (n + 1) % Size
<1>0. Size \in Nat \ {0} /\ n \in Int /\ start \in Int /\ n + 1 \in Int
  BY BufAssumption
<1>1. /\ Size \in Nat \ {0} /\ n \in Int /\ start \in Int
      /\ s \in 0..(Size - 1) /\ end \in 0..(Size - 1) /\ next \in 0..(Size - 1)
  <2> DEFINE m == n + 1
  <2>1. m \in Int
    BY <1>0
  <2> HIDE DEF m
  <2>2. m % Size \in 0..(Size - 1)
    BY <1>0, <2>1, DivMod
  <2>3. s \in 0..(Size - 1) /\ end \in 0..(Size - 1)
    BY <1>0, DivMod
  <2> QED BY <1>0, <2>2, <2>3 DEF m
<1>2. s # next
  BY DEF cmdbufNtoI
<1>3. 1 \in 0..(Size - 1)
  <2> HIDE DEF s, next
  <2> QED BY <1>1, <1>2
<1>4. next = IF end + 1 < Size THEN end + 1 ELSE end + 1 - Size
  BY <1>1, <1>3, ModAdd, Zenon
<1>5. /\ Lag(n, start) = IF s <= end THEN end - s ELSE end - s + Size
      /\ Lag(n + 1, start) = IF s <= next THEN next - s ELSE next - s + Size
  BY DEF Lag, cmdbufNtoI
<1> HIDE DEF s, end, next
<1> QED
  BY <1>1, <1>2, <1>4, <1>5

\* It is a number.
LEMMA LagNat ==
  ASSUME NEW n \in Nat, NEW start \in Nat
  PROVE  Lag(n, start) \in 0..(Size - 1)
<1> DEFINE s == start % Size
           end == n % Size
<1>1. Size \in Nat \ {0} /\ s \in 0..(Size - 1) /\ end \in 0..(Size - 1)
  BY BufAssumption, DivMod
<1>2. Lag(n, start) = IF s <= end THEN end - s ELSE end - s + Size
  BY DEF Lag, cmdbufNtoI
<1> HIDE DEF s, end
<1> QED
  BY <1>1, <1>2

\* What a line out of the ring is.
LineIs(D, b, n, start, of, text) ==
  /\ text \in Seq(D) /\ Len(text) <= Size
  /\ Len(text) = IF of = 0 THEN Lag(n, start) + 1 ELSE Size
  /\ \A k \in 1..Len(text) : text[k] = b[cmdbufNtoI(n - Len(text) + k)]

\* The buffered line is never longer than the buffer, and fills it once it has
\* overflowed.  Its bytes are the last ones up to index n of the stream, in
\* order, whether it takes one write or two.
LEMMA LineText ==
  ASSUME NEW D, NEW b \in [0..(Size - 1) -> D], NEW n \in Nat,
         NEW start \in 0..n, NEW of \in Nat,
         NEW text, text = BufferedLine(b, n, start, of)
  PROVE  LineIs(D, b, n, start, of, text)
<1> DEFINE s == start % Size
           end == n % Size
           q == n \div Size
<1>1. /\ Size \in Nat \ {0} /\ start \in Nat /\ start <= n
      /\ s \in 0..(Size - 1) /\ end \in 0..(Size - 1)
  BY BufAssumption, DivMod
<1>2. n = Size * q + end /\ q \in Int
  BY BufAssumption, DivMod
<1>l. Lag(n, start) = IF s <= end THEN end - s ELSE end - s + Size
  BY DEF Lag, cmdbufNtoI
<1>i. n \in Int /\ start \in Int
  OBVIOUS
<1>3. CASE of = 0 /\ s <= end
  <2>1. text = Slice(b, s, end - s + 1)
    BY <1>3 DEF BufferedLine, cmdbufNtoI
  <2>2. s \in Nat /\ end - s + 1 \in Nat /\ s + (end - s + 1) <= Size
    BY <1>1, <1>3
  <2>3. /\ text \in Seq(D) /\ Len(text) = end - s + 1
        /\ \A k \in 1..(end - s + 1) : text[k] = b[s + k - 1]
    <3> DEFINE w == end - s + 1
    <3>1. text = Slice(b, s, w) /\ s \in Nat /\ w \in Nat /\ s + w <= Size
      BY <2>1, <2>2
    <3> HIDE DEF s, w
    <3>2. text \in Seq(D) /\ Len(text) = w
      BY <3>1, SliceLemma
    <3>3. \A k \in 1..w : text[k] = b[s + k - 1]
      BY <3>1 DEF Slice
    <3> QED BY <3>2, <3>3 DEF w
  <2>4. Len(text) <= Size
    BY <1>1, <2>3
  <2>5. Len(text) = Lag(n, start) + 1
    <3> HIDE DEF s, end
    <3> QED BY <1>l, <1>3, <2>3
  <2>6. ASSUME NEW k \in 1..Len(text)
        PROVE  text[k] = b[cmdbufNtoI(n - Len(text) + k)]
    <3> DEFINE r == s + k - 1
               m == n - Len(text) + k
    <3> HIDE DEF s, end, q
    <3>0. k \in 1..(end - s + 1) /\ r \in 0..(Size - 1) /\ m \in Int
      BY <1>1, <1>3, <2>3, <2>6
    <3>1. m = Size * q + r
      <4> DEFINE t == Size * q
      <4>1. t \in Int /\ n = t + end
        BY <1>1, <1>2
      <4> HIDE DEF t
      <4>2. m = t + r
        BY <1>1, <2>3, <3>0, <4>1
      <4> QED BY <4>2 DEF t
    <3> HIDE DEF r, m
    <3>2. m % Size = r
      BY <1>1, <1>2, <3>0, <3>1, ModOf
    <3>3. text[k] = b[r]
      BY <2>3, <3>0 DEF r
    <3> QED BY <3>2, <3>3 DEF cmdbufNtoI, m
  <2> QED BY <1>3, <2>3, <2>4, <2>5, <2>6 DEF LineIs
<1>4. CASE of = 0 /\ ~(s <= end)
  <2> DEFINE a == Slice(b, s, Size - s)
             z == Slice(b, 0, end + 1)
  <2>1. text = a \o z
    BY <1>4 DEF BufferedLine, cmdbufNtoI
  <2>2. /\ s \in Nat /\ Size - s \in Nat /\ s + (Size - s) <= Size
        /\ 0 + (end + 1) <= Size /\ end + 1 \in Nat /\ 0 \in Nat
    BY <1>1
  <2>3. /\ a \in Seq(D) /\ Len(a) = Size - s
        /\ \A k \in 1..(Size - s) : a[k] = b[s + k - 1]
    <3> DEFINE w == Size - s
    <3>1. s \in Nat /\ w \in Nat /\ s + w <= Size
      BY <2>2
    <3> HIDE DEF s, w
    <3>2. Slice(b, s, w) \in Seq(D) /\ Len(Slice(b, s, w)) = w
      BY <3>1, SliceLemma
    <3>3. \A k \in 1..w : Slice(b, s, w)[k] = b[s + k - 1]
      BY <3>1 DEF Slice
    <3> QED BY <3>2, <3>3 DEF w
  <2>4. /\ z \in Seq(D) /\ Len(z) = end + 1
        /\ \A k \in 1..(end + 1) : z[k] = b[0 + k - 1]
    <3> DEFINE w == end + 1
    <3>1. 0 \in Nat /\ w \in Nat /\ 0 + w <= Size
      BY <2>2
    <3> HIDE DEF w
    <3>2. Slice(b, 0, w) \in Seq(D) /\ Len(Slice(b, 0, w)) = w
      BY <3>1, SliceLemma
    <3>3. \A k \in 1..w : Slice(b, 0, w)[k] = b[0 + k - 1]
      BY <3>1 DEF Slice
    <3> QED BY <3>2, <3>3 DEF w
  <2> HIDE DEF a, z
  <2>5. /\ text \in Seq(D) /\ Len(text) = Len(a) + Len(z)
        /\ \A i \in 1..(Len(a) + Len(z)) :
             text[i] = IF i <= Len(a) THEN a[i] ELSE z[i - Len(a)]
    <3>1. /\ a \o z \in Seq(D) /\ Len(a \o z) = Len(a) + Len(z)
          /\ \A i \in 1..(Len(a) + Len(z)) :
               (a \o z)[i] = IF i <= Len(a) THEN a[i] ELSE z[i - Len(a)]
      BY <2>3, <2>4, ConcatProperties
    <3> QED BY <2>1, <3>1, Zenon
  <2>6. Len(text) = Size - s + end + 1 /\ Len(text) <= Size
    <3> HIDE DEF s, end
    <3> QED BY <1>1, <1>4, <2>3, <2>4, <2>5
  <2>7. Len(text) = Lag(n, start) + 1
    <3> HIDE DEF s, end
    <3> QED BY <1>1, <1>l, <1>4, <2>6
  <2>8. ASSUME NEW k \in 1..Len(text)
        PROVE  text[k] = b[cmdbufNtoI(n - Len(text) + k)]
    <3> DEFINE m == n - Len(text) + k
    <3> HIDE DEF s, end, q
    <3>1. /\ k \in 1..(Size - s + end + 1) /\ m \in Int
          /\ Len(a) = Size - s /\ Len(z) = end + 1
          /\ k \in 1..(Len(a) + Len(z))
      BY <1>1, <2>3, <2>4, <2>5, <2>6, <2>8
    <3>2. m = (Size * q + (s + k - 1)) - Size
      BY <1>1, <1>2, <2>6, <3>1
    <3>3. CASE k <= Size - s
      <4> DEFINE r == s + k - 1
                 p == q - 1
      <4>1. r \in 0..(Size - 1) /\ p \in Int /\ k \in 1..(Size - s) /\ k <= Len(a)
        BY <1>1, <1>2, <3>1, <3>3
      <4>2. Size * p = Size * q - Size
        BY <1>1, <1>2
      <4>3. m = Size * p + r
        <5> DEFINE t == Size * q
                   u == Size * p
        <5>1. t \in Int /\ m = (t + r) - Size /\ u = t - Size /\ r \in Int
          BY <1>1, <1>2, <3>2, <4>1, <4>2
        <5> HIDE DEF t, u, m, r
        <5>2. m = u + r
          BY <1>1, <5>1
        <5> QED BY <5>2 DEF u
      <4> HIDE DEF p
      <4> HIDE DEF r, m
      <4>4. m % Size = r
        BY <1>1, <3>1, <4>1, <4>3, ModOf
      <4>5. text[k] = b[r]
        BY <2>3, <2>5, <3>1, <4>1 DEF r
      <4> QED BY <4>4, <4>5 DEF cmdbufNtoI, m
    <3>4. CASE ~(k <= Size - s)
      <4> DEFINE r == s + k - 1 - Size
      <4>1. /\ r \in 0..(Size - 1) /\ k - Len(a) \in 1..(end + 1)
            /\ 0 + (k - Len(a)) - 1 = r /\ ~(k <= Len(a)) /\ m = Size * q + r
        BY <1>1, <1>2, <3>1, <3>2, <3>4
      <4> HIDE DEF r, m
      <4>4. m % Size = r
        BY <1>1, <1>2, <3>1, <4>1, ModOf
      <4>5. text[k] = b[r]
        BY <2>4, <2>5, <3>1, <4>1
      <4> QED BY <4>4, <4>5 DEF cmdbufNtoI, m
    <3> QED BY <3>3, <3>4
  <2> QED BY <1>4, <2>5, <2>6, <2>7, <2>8 DEF LineIs
<1>5. CASE of # 0
  <2> DEFINE a == Slice(b, end + 1, Size - (end + 1))
             z == Slice(b, 0, end + 1)
  <2>1. text = a \o z
    BY <1>5 DEF BufferedLine, cmdbufNtoI
  <2>2. /\ end + 1 \in Nat /\ Size - (end + 1) \in Nat
        /\ (end + 1) + (Size - (end + 1)) <= Size
        /\ 0 + (end + 1) <= Size /\ 0 \in Nat
    BY <1>1
  <2>3. /\ a \in Seq(D) /\ Len(a) = Size - (end + 1)
        /\ \A k \in 1..(Size - (end + 1)) : a[k] = b[(end + 1) + k - 1]
    <3> DEFINE f == end + 1
               w == Size - (end + 1)
    <3>1. f \in Nat /\ w \in Nat /\ f + w <= Size
      BY <2>2
    <3> HIDE DEF f, w
    <3>2. Slice(b, f, w) \in Seq(D) /\ Len(Slice(b, f, w)) = w
      BY <3>1, SliceLemma
    <3>3. \A k \in 1..w : Slice(b, f, w)[k] = b[f + k - 1]
      BY <3>1 DEF Slice
    <3> QED BY <3>2, <3>3 DEF f, w
  <2>4. /\ z \in Seq(D) /\ Len(z) = end + 1
        /\ \A k \in 1..(end + 1) : z[k] = b[0 + k - 1]
    <3> DEFINE w == end + 1
    <3>1. 0 \in Nat /\ w \in Nat /\ 0 + w <= Size
      BY <2>2
    <3> HIDE DEF w
    <3>2. Slice(b, 0, w) \in Seq(D) /\ Len(Slice(b, 0, w)) = w
      BY <3>1, SliceLemma
    <3>3. \A k \in 1..w : Slice(b, 0, w)[k] = b[0 + k - 1]
      BY <3>1 DEF Slice
    <3> QED BY <3>2, <3>3 DEF w
  <2> HIDE DEF a, z
  <2>5. /\ text \in Seq(D) /\ Len(text) = Len(a) + Len(z)
        /\ \A i \in 1..(Len(a) + Len(z)) :
             text[i] = IF i <= Len(a) THEN a[i] ELSE z[i - Len(a)]
    <3>1. /\ a \o z \in Seq(D) /\ Len(a \o z) = Len(a) + Len(z)
          /\ \A i \in 1..(Len(a) + Len(z)) :
               (a \o z)[i] = IF i <= Len(a) THEN a[i] ELSE z[i - Len(a)]
      BY <2>3, <2>4, ConcatProperties
    <3> QED BY <2>1, <3>1, Zenon
  <2>6. Len(text) = Size
    <3> HIDE DEF end
    <3> QED BY <1>1, <2>3, <2>4, <2>5
  <2>7. ASSUME NEW k \in 1..Len(text)
        PROVE  text[k] = b[cmdbufNtoI(n - Len(text) + k)]
    <3>1. CASE k = Size
      <4>1. n - Len(text) + k = n
        BY <1>1, <2>6, <3>1
      <4> HIDE DEF end
      <4>2. /\ k \in 1..(Len(a) + Len(z)) /\ ~(k <= Len(a))
            /\ k - Len(a) = end + 1 /\ end + 1 \in 1..(end + 1)
            /\ 0 + (end + 1) - 1 = end
        BY <1>1, <2>3, <2>4, <2>6, <3>1
      <4>3. text[k] = b[end]
        BY <2>4, <2>5, <4>2
      <4> QED BY <4>1, <4>3 DEF cmdbufNtoI, end
    <3>2. CASE k # Size
      <4>1. k \in 0..(Size - 1) /\ n - Len(text) + k = (n + k) - Size
            /\ n + k \in Int
        BY <1>1, <2>6, <3>2
      <4>2. ((n + k) - Size) % Size = (n + k) % Size
        <5> DEFINE m == n + k
        <5>1. m \in Int
          BY <4>1
        <5> HIDE DEF m
        <5>2. (m - Size) % Size = m % Size
          BY <1>1, <5>1, ModTurn
        <5> QED BY <5>2 DEF m
      <4>3. (n + k) % Size = IF end + k < Size THEN end + k ELSE end + k - Size
        BY <1>1, <4>1, <1>i, ModAdd, Zenon
      <4> HIDE DEF end
      <4>4. CASE end + k < Size
        <5>1. /\ k \in 1..(Size - (end + 1)) /\ (end + 1) + k - 1 = end + k
              /\ k \in 1..(Len(a) + Len(z)) /\ k <= Len(a)
          <6>1. /\ k \in 1..Size
                /\ Len(a) = Size - (end + 1) /\ Len(z) = end + 1
            BY <2>3, <2>4, <2>6
          <6> QED BY <1>1, <4>4, <6>1
        <5> QED BY <2>3, <2>5, <4>1, <4>2, <4>3, <4>4, <5>1 DEF cmdbufNtoI
      <4>5. CASE ~(end + k < Size)
        <5>1. /\ k - Len(a) \in 1..(end + 1)
              /\ 0 + (k - Len(a)) - 1 = end + k - Size
              /\ k \in 1..(Len(a) + Len(z)) /\ ~(k <= Len(a))
          <6>1. /\ k \in 1..Size
                /\ Len(a) = Size - (end + 1) /\ Len(z) = end + 1
            BY <2>3, <2>4, <2>6
          <6> QED BY <1>1, <4>5, <6>1
        <5> QED BY <2>4, <2>5, <4>1, <4>2, <4>3, <4>5, <5>1 DEF cmdbufNtoI
      <4> QED BY <4>4, <4>5
    <3> QED BY <3>1, <3>2
  <2>8. Len(text) <= Size
    BY <1>1, <2>6
  <2> QED BY <1>5, <2>5, <2>6, <2>7, <2>8 DEF LineIs
<1> QED
  BY <1>3, <1>4, <1>5

-----------------------------------------------------------------------------
(* The ring *)

\* What the promise rests on.  The bytes owed are always the last ones of the
\* ring, and unless the line has overflowed bufstart is not after them; while the
\* promise is in force bufstart is where they began, and bufof says whether they
\* fill the ring.
RingInv ==
  /\ \A k \in 1..Len(line) :
       line[k] = buf[cmdbufNtoI(bufn - Len(line) + k - 1)]
  /\ bufof = 0 => Len(line) <= Lag(bufn, bufstart)
  /\ settled => IF bufof = 0
                THEN Len(line) < Size /\ bufn - bufstart = Len(line)
                ELSE Len(line) = Size

\* The numbers of a state.
LEMMA Numbers ==
  ASSUME TypeOK
  PROVE  /\ Size \in Nat \ {0} /\ bufn \in Nat /\ bufstart \in Nat
         /\ bufstart <= bufn /\ bufof \in Nat /\ Len(line) \in Nat
         /\ bufn \in Int /\ bufstart \in Int
         /\ cmdbufNtoI(bufn) \in 0..(Size - 1)
<1>1. Size \in Nat \ {0} /\ MaxN \in Nat /\ MaxOf \in Nat
  BY BufAssumption
<1>2. bufn \in Nat /\ bufstart \in Nat /\ bufstart <= bufn /\ bufof \in Nat
  BY <1>1 DEF TypeOK
<1>3. Len(line) \in Nat
  BY DEF TypeOK
<1>4. cmdbufNtoI(bufn) \in 0..(Size - 1)
  BY <1>1, <1>2, DivMod DEF cmdbufNtoI
<1> QED
  BY <1>1, <1>2, <1>3, <1>4

\* Storing one more character overwrites nothing that is owed.
LEMMA RingWrite ==
  ASSUME TypeOK, RingInv, NEW ch \in Char
  PROVE  LET owed == Promise!LastN(Append(line, ch), Size)
             b    == [buf EXCEPT ![cmdbufNtoI(bufn)] = ch]
         IN  /\ owed \in Seq(Char)
             /\ Len(owed) = IF Len(line) < Size THEN Len(line) + 1 ELSE Size
             /\ \A k \in 1..Len(owed) :
                  owed[k] = b[cmdbufNtoI(bufn - Len(owed) + k)]
<1> DEFINE a    == Append(line, ch)
           owed == Promise!LastN(a, Size)
           b    == [buf EXCEPT ![cmdbufNtoI(bufn)] = ch]
           L    == Len(line)
           M    == Len(owed)
<1>1. /\ Size \in Nat \ {0} /\ bufn \in Int /\ L \in Nat
      /\ cmdbufNtoI(bufn) \in 0..(Size - 1)
      /\ buf \in [0..(Size - 1) -> Char \cup {Zero}] /\ line \in Seq(Char)
      /\ L <= Size
  BY Numbers DEF TypeOK
<1>2. /\ a \in Seq(Char) /\ Len(a) = L + 1 /\ a[L + 1] = ch
      /\ \A i \in 1..L : a[i] = line[i]
  BY <1>1, AppendProperties
<1>3. /\ owed \in Seq(Char)
      /\ Len(owed) = IF Len(a) <= Size THEN Len(a) ELSE Size
      /\ \A k \in 1..Len(owed) : owed[k] = a[Len(a) - Len(owed) + k]
  <2> HIDE DEF a
  <2>1. Size \in Nat
    BY <1>1
  <2> QED BY <1>2, <2>1, LastNLemma
<1> HIDE DEF a, owed
<1>4. M \in Nat /\ M = IF L < Size THEN L + 1 ELSE Size
  BY <1>1, <1>2, <1>3
<1>5. ASSUME NEW k \in 1..M
      PROVE  owed[k] = b[cmdbufNtoI(bufn - M + k)]
  <2>1. owed[k] = a[L + 1 - M + k]
    BY <1>2, <1>3, <1>5
  <2>2. CASE k = M
    <3>1. L + 1 - M + k = L + 1 /\ bufn - M + k = bufn
      BY <1>1, <1>4, <2>2
    <3> QED BY <1>1, <1>2, <2>1, <3>1
  <2>3. CASE k # M
    <3> DEFINE i == L + 1 - M + k
               m == bufn - M + k
               j == M - k
    <3>1. i \in 1..L /\ bufn - L + i - 1 = m
      BY <1>1, <1>4, <2>3
    <3>2. m \in Int /\ j \in 1..(Size - 1) /\ m + j = bufn /\ j \in 0..(Size - 1)
      BY <1>1, <1>4, <2>3
    <3>3. a[i] = line[i] /\ line[i] = buf[cmdbufNtoI(m)]
      <4> HIDE DEF i
      <4>1. a[i] = line[i]
        BY <1>2, <3>1
      <4>2. line[i] = buf[cmdbufNtoI(bufn - L + i - 1)]
        BY <3>1 DEF RingInv
      <4> QED BY <3>1, <4>1, <4>2
    <3> HIDE DEF i, m, j
    <3>4. m % Size \in 0..(Size - 1)
      BY <1>1, <3>2, DivMod
    <3>5. (m + j) % Size = IF (m % Size) + j < Size THEN (m % Size) + j
                           ELSE (m % Size) + j - Size
      BY <1>1, <3>2, ModAdd, Zenon
    <3>6. bufn % Size # m % Size
      <4> DEFINE r == m % Size
      <4>1. bufn % Size = IF r + j < Size THEN r + j ELSE r + j - Size
        BY <3>2, <3>5
      <4>2. r \in 0..(Size - 1)
        BY <3>4
      <4> HIDE DEF r
      <4>3. bufn % Size # r
        BY <1>1, <3>2, <4>1, <4>2
      <4> QED BY <4>3 DEF r
    <3>7. b[cmdbufNtoI(m)] = buf[cmdbufNtoI(m)]
      BY <1>1, <3>4, <3>6 DEF cmdbufNtoI
    <3> QED BY <2>1, <3>3, <3>7 DEF i, m
  <2> QED BY <2>2, <2>3
<1> QED
  BY <1>3, <1>4, <1>5 DEF owed, a

\* bufof counts the wraps.
LEMMA OverflowType ==
  ASSUME TypeOK
  PROVE  Overflow \in Nat /\ (Overflow = bufof \/ Overflow = bufof + 1)
BY Numbers DEF Overflow

\* It becomes positive when the line, with the character just stored, fills the
\* buffer, and not before.
LEMMA OverflowExact ==
  ASSUME TypeOK, RingInv, settled
  PROVE  Overflow = 0 <=> Len(line) + 1 < Size
<1> DEFINE L == Len(line)
<1>1. /\ Size \in Nat \ {0} /\ bufn \in Int /\ bufstart \in Int /\ L \in Nat
      /\ bufof \in Nat
  BY Numbers
<1>2. CASE bufof # 0
  BY <1>1, <1>2, OverflowType DEF RingInv
<1>3. CASE bufof = 0 /\ L + 1 < Size
  <2>1. bufn + 1 = bufstart + (L + 1) /\ L + 1 \in 1..(Size - 1)
        /\ L + 1 \in 0..(Size - 1)
    BY <1>1, <1>3 DEF RingInv
  <2>2. bufstart % Size \in 0..(Size - 1)
    BY <1>1, DivMod
  <2>3. (bufstart + (L + 1)) % Size
          = IF (bufstart % Size) + (L + 1) < Size THEN (bufstart % Size) + (L + 1)
            ELSE (bufstart % Size) + (L + 1) - Size
    BY <1>1, <2>1, ModAdd, Zenon
  <2>4. (bufn + 1) % Size # bufstart % Size
    BY <1>1, <2>1, <2>2, <2>3
  <2> QED BY <1>1, <1>3, <2>4 DEF Overflow, cmdbufNtoI
<1>4. CASE bufof = 0 /\ ~(L + 1 < Size)
  <2> DEFINE m == bufn + 1
  <2>1. m - Size = bufstart /\ m \in Int
    BY <1>1, <1>4 DEF RingInv
  <2> HIDE DEF m
  <2>2. m % Size = bufstart % Size
    BY <1>1, <2>1, ModTurn
  <2> QED BY <1>1, <1>4, <2>2 DEF Overflow, cmdbufNtoI, m
<1> QED
  BY <1>2, <1>3, <1>4

\* The line written out of the ring ends in the line that is owed.
LEMMA LineEnds ==
  ASSUME TypeOK, RingInv, NEW ch \in Char,
         NEW b, b = [buf EXCEPT ![cmdbufNtoI(bufn)] = ch],
         NEW text, text = BufferedLine(b, bufn, bufstart, Overflow),
         NEW owed, owed = Promise!LastN(Append(line, ch), Size)
  PROVE  /\ Len(text) \in Nat /\ Len(owed) \in Nat
         /\ Len(text) = IF Overflow = 0 THEN Lag(bufn, bufstart) + 1 ELSE Size
         /\ Len(owed) = IF Len(line) < Size THEN Len(line) + 1 ELSE Size
         /\ Len(text) <= Size
         /\ Promise!LastN(text, Len(owed)) = owed
<1> DEFINE L   == Len(line)
           D   == Char \cup {Zero}
           lag == Lag(bufn, bufstart)
           of  == Overflow
           M   == Len(owed)
           N   == Len(text)
           tail == Promise!LastN(text, M)
<1>1. /\ Size \in Nat \ {0} /\ bufn \in Nat /\ bufstart \in 0..bufn
      /\ L \in Nat /\ bufof \in Nat /\ of \in Nat /\ L <= Size
      /\ lag \in 0..(Size - 1)
  BY Numbers, OverflowType, LagNat DEF TypeOK
<1>2. b \in [0..(Size - 1) -> D]
  BY DEF TypeOK
<1>3. /\ owed \in Seq(Char) /\ M = IF L < Size THEN L + 1 ELSE Size
      /\ \A k \in 1..M : owed[k] = b[cmdbufNtoI(bufn - M + k)]
  BY RingWrite
<1>4. /\ text \in Seq(D) /\ N <= Size
      /\ N = IF of = 0 THEN lag + 1 ELSE Size
      /\ \A k \in 1..N : text[k] = b[cmdbufNtoI(bufn - N + k)]
  <2>1. text = BufferedLine(b, bufn, bufstart, of)
    OBVIOUS
  <2>2. bufn \in Nat /\ bufstart \in 0..bufn /\ of \in Nat
    BY <1>1
  <2> HIDE DEF D, of
  <2>3. LineIs(D, b, bufn, bufstart, of, text)
    BY ONLY <1>2, <2>1, <2>2, LineText, Zenon
  <2> QED BY <2>3 DEF LineIs
<1>5. of = 0 => L <= lag
  BY <1>1, OverflowType DEF RingInv
<1> HIDE DEF L, lag, of
<1>6. M \in Nat /\ N \in Nat /\ M <= N
  BY <1>1, <1>3, <1>4, <1>5
<1>7. /\ tail \in Seq(D) /\ Len(tail) = IF N <= M THEN N ELSE M
      /\ \A k \in 1..Len(tail) : tail[k] = text[N - Len(tail) + k]
  <2>1. text \in Seq(D) /\ M \in Nat
    BY <1>4, <1>6
  <2> HIDE DEF D, M
  <2> QED BY ONLY <2>1, LastNLemma
<1>8. Len(tail) = M
  BY <1>6, <1>7
<1>9. ASSUME NEW k \in 1..M PROVE tail[k] = owed[k]
  <2> HIDE DEF tail, M, N
  <2>1. N - M + k \in 1..N /\ bufn - N + (N - M + k) = bufn - M + k
    BY <1>1, <1>6
  <2>2. tail[k] = text[N - M + k]
    BY <1>7, <1>8
  <2>3. text[N - M + k] = b[cmdbufNtoI(bufn - N + (N - M + k))]
    BY <1>4, <2>1
  <2> QED BY <1>3, <2>1, <2>2, <2>3
<1>10. owed \in Seq(D)
  BY <1>3
<1>11. tail = owed
  <2> HIDE DEF D, tail
  <2> QED BY <1>7, <1>8, <1>9, <1>10, SeqEqual
<1> QED
  BY <1>3, <1>4, <1>6, <1>11 DEF L, lag, of

\* While the promise is in force, it is that line and nothing else.
LEMMA LineExact ==
  ASSUME TypeOK, RingInv, settled, NEW ch \in Char
  PROVE  BufferedLine([buf EXCEPT ![cmdbufNtoI(bufn)] = ch], bufn, bufstart,
                      Overflow)
           = Promise!LastN(Append(line, ch), Size)
<1> DEFINE owed == Promise!LastN(Append(line, ch), Size)
           b    == [buf EXCEPT ![cmdbufNtoI(bufn)] = ch]
           text == BufferedLine(b, bufn, bufstart, Overflow)
<1>1. /\ Size \in Nat \ {0} /\ bufn \in Nat /\ bufstart \in 0..bufn
      /\ Len(line) \in Nat /\ bufof \in Nat /\ Overflow \in Nat /\ Len(line) <= Size
  BY Numbers, OverflowType DEF TypeOK
<1>2. /\ Len(text) \in Nat /\ Len(owed) \in Nat
      /\ Len(text) = IF Overflow = 0 THEN Lag(bufn, bufstart) + 1 ELSE Size
      /\ Len(owed) = IF Len(line) < Size THEN Len(line) + 1 ELSE Size
      /\ Promise!LastN(text, Len(owed)) = owed
  BY LineEnds
<1> HIDE DEF owed, text
<1>3. Overflow = 0 <=> Len(line) + 1 < Size
  BY OverflowExact
<1>4. Overflow = 0 => bufn - bufstart = Len(line) /\ Len(line) < Size
  BY <1>1, OverflowType DEF RingInv
<1>5. Overflow = 0 => Lag(bufn, bufstart) = Len(line)
  BY <1>1, <1>4, LagShort
<1>6. Len(text) <= Len(owed)
  BY <1>1, <1>2, <1>3, <1>5
<1>7. Promise!LastN(text, Len(owed)) = text
  BY <1>6 DEF Promise!LastN
<1> QED
  BY <1>2, <1>7 DEF text, owed, b

-----------------------------------------------------------------------------
(* The invariants *)

\* A record of a write.
LEMMA WriteFields ==
  ASSUME NEW p, NEW x
  PROVE  Promise!Write(p, x).prefix = p /\ Promise!Write(p, x).text = x
BY DEF Promise!Write

\* A character read keeps every variable in its type; that a line written out
\* fits the buffer is LineText.
LEMMA TypeOutput ==
  ASSUME TypeOK, NEW ch \in Char, cmdttyProcessOutput(ch)
  PROVE  TypeOK'
<1> DEFINE D == Char \cup {Zero}
           b == [buf EXCEPT ![cmdbufNtoI(bufn)] = ch]
<1>1. /\ Size \in Nat \ {0} /\ MaxN \in Nat /\ MaxOf \in Nat
      /\ bufn \in Nat /\ bufstart \in 0..bufn /\ bufof \in Nat
      /\ RLen \in Nat /\ Size \in Nat /\ NL \in Char
  BY BufAssumption DEF TypeOK, RLen
<1>2. buf' = b /\ bufn' = bufn + 1 /\ bufn < MaxN /\ bufof < MaxOf
  BY DEF cmdttyProcessOutput
<1>3. b \in [0..(Size - 1) -> D]
  BY DEF TypeOK
<1>4. bufn' \in 0..MaxN
  BY <1>1, <1>2
<1>5. readycnt' \in 0..RLen
  BY <1>1 DEF cmdttyProcessOutput, ReadyMatch, TypeOK
<1>6. UNCHANGED <<bcstflg, linebufferbcst, prefixbcst>>
  BY DEF cmdttyProcessOutput, modes
<1>7. Append(line, ch) \in Seq(Char) /\ Append(heard, ch) \in Seq(Char)
  BY DEF TypeOK
<1>8. line' \in Seq(Char) /\ Len(line') <= Size
  <2> DEFINE x == Append(line, ch)
  <2>1. line' = Promise!LastN(x, Size) \/ line' = <<>>
    BY DEF cmdttyProcessOutput, Promise!Owed
  <2>2. x \in Seq(Char)
    BY <1>7
  <2> HIDE DEF x
  <2>3. /\ Promise!LastN(x, Size) \in Seq(Char)
        /\ Len(Promise!LastN(x, Size)) = IF Len(x) <= Size THEN Len(x) ELSE Size
    BY <1>1, <2>2, LastNLemma
  <2>4. Len(Promise!LastN(x, Size)) <= Size
    BY <1>1, <2>3
  <2>5. <<>> \in Seq(Char) /\ Len(<<>>) = 0 /\ 0 <= Size
    BY <1>1
  <2> QED BY <2>1, <2>3, <2>4, <2>5
<1>9. heard' \in Seq(Char) /\ Len(heard') <= RLen
  <2> DEFINE x == Append(heard, ch)
  <2>1. heard' = Promise!LastN(x, RLen) \/ heard' = heard
    BY DEF cmdttyProcessOutput
  <2>2. x \in Seq(Char)
    BY <1>7
  <2> HIDE DEF x
  <2>3. /\ Promise!LastN(x, RLen) \in Seq(Char)
        /\ Len(Promise!LastN(x, RLen)) = IF Len(x) <= RLen THEN Len(x) ELSE RLen
    BY <1>1, <2>2, LastNLemma
  <2>4. Len(Promise!LastN(x, RLen)) <= RLen
    BY <1>1, <2>3
  <2> QED BY <2>1, <2>3, <2>4 DEF TypeOK
<1>10. settled' \in BOOLEAN
  BY Zenon DEF cmdttyProcessOutput, Promise!Settled, Promise!Buffering, TypeOK
<1>11. /\ bufstart' \in 0..bufn' /\ bufof' \in 0..MaxOf
  <2>1. Overflow \in 0..MaxOf
    BY <1>1, <1>2, OverflowType
  <2>2. bufof' \in {bufof, Overflow, 0} /\ bufstart' \in {bufstart, bufn + 1}
    BY DEF cmdttyProcessOutput, BufferLine
  <2>3. bufof' \in 0..MaxOf
    BY <1>1, <1>2, <2>1, <2>2
  <2>4. bufstart' \in 0..bufn'
    BY <1>1, <1>2, <2>2
  <2> QED BY <2>3, <2>4
<1>12. /\ sent'.prefix \in BOOLEAN /\ sent'.text \in Seq(D)
       /\ Len(sent'.text) <= Size
  <2>1. CASE sent' = sent
    BY <2>1 DEF TypeOK
  <2>2. CASE sent' = Promise!Write(FALSE, <<ch>>)
    <3>1. sent'.prefix = FALSE /\ sent'.text = <<ch>>
      BY <2>2, WriteFields
    <3>2. <<ch>> \in Seq(D) /\ Len(<<ch>>) = 1 /\ 1 <= Size
      BY <1>1
    <3>3. FALSE \in BOOLEAN
      OBVIOUS
    <3> QED BY <3>1, <3>2, <3>3, Zenon
  <2>3. CASE sent' = Promise!Write(prefixbcst,
                                   BufferedLine(b, bufn, bufstart, Overflow))
    <3> DEFINE of == Overflow
               text == BufferedLine(b, bufn, bufstart, of)
    <3>1. sent'.prefix = prefixbcst /\ sent'.text = text
      BY <2>3, WriteFields
    <3>2. of \in Nat
      BY OverflowType
    <3>3. text = BufferedLine(b, bufn, bufstart, of)
      OBVIOUS
    <3> HIDE DEF D, b, of, text
    <3>4. text \in Seq(D) /\ Len(text) <= Size
      BY <1>1, <1>3, <3>2, <3>3, LineText DEF LineIs
    <3> QED BY <3>1, <3>4 DEF TypeOK
  <2> QED
    BY <1>2, <2>1, <2>2, <2>3 DEF cmdttyProcessOutput, BufferLine
<1> QED
  BY <1>2, <1>3, <1>4, <1>5, <1>6, <1>8, <1>9, <1>10, <1>11, <1>12 DEF TypeOK

\* The monitor's commands keep the types.
LEMMA TypeControl ==
  ASSUME TypeOK, \/ monToggleLB \/ monTogglePrefix \/ monAdd \/ monDrain
                 \/ UNCHANGED vars
  PROVE  TypeOK'
<1>1. CASE monToggleLB \/ monTogglePrefix \/ monAdd
  <2>1. UNCHANGED <<buf, bufn, bufstart, bufof, readycnt, sent, line, settled, heard>>
    BY <1>1 DEF monToggleLB, monTogglePrefix, monAdd, Toggle, ring
  <2>2. bcstflg' \in BOOLEAN /\ linebufferbcst' \in BOOLEAN /\ prefixbcst' \in BOOLEAN
    <3>1. bcstflg' = bcstflg \/ bcstflg' = TRUE
      BY <1>1 DEF monToggleLB, monTogglePrefix, monAdd
    <3>2. linebufferbcst' = linebufferbcst \/ linebufferbcst' = ~linebufferbcst
      BY <1>1 DEF monToggleLB, monTogglePrefix, monAdd
    <3>3. prefixbcst' = prefixbcst \/ prefixbcst' = ~prefixbcst
      BY <1>1 DEF monToggleLB, monTogglePrefix, monAdd
    <3> QED BY <3>1, <3>2, <3>3 DEF TypeOK
  <2> QED BY <2>1, <2>2 DEF TypeOK
<1>2. CASE monDrain
  <2>1. /\ bufstart' = 0 /\ bufn' = 0 /\ line' = <<>>
        /\ UNCHANGED <<buf, bufof, readycnt, bcstflg, linebufferbcst, prefixbcst,
                       sent, heard>>
    BY <1>2 DEF monDrain, modes
  <2>2. settled' \in BOOLEAN
    BY <1>2, Zenon DEF monDrain
  <2>3. <<>> \in Seq(Char) /\ Len(<<>>) <= Size /\ 0 \in 0..MaxN /\ 0 \in 0..0
    BY BufAssumption
  <2> QED BY <2>1, <2>2, <2>3 DEF TypeOK
<1>3. CASE UNCHANGED vars
  BY <1>3 DEF vars, ring, modes, TypeOK
<1> QED
  BY <1>1, <1>2, <1>3

\* The initial state is well typed.
LEMMA TypeInit == Init => TypeOK
<1> SUFFICES ASSUME Init PROVE TypeOK
  OBVIOUS
<1>1. RLen \in Nat /\ Size \in Nat /\ MaxN \in Nat /\ MaxOf \in Nat
  BY BufAssumption DEF RLen
<1>2. sent.prefix = FALSE /\ sent.text = <<>>
  BY WriteFields DEF Init
<1>3. <<>> \in Seq(Char) /\ <<>> \in Seq(Char \cup {Zero}) /\ Len(<<>>) = 0
  OBVIOUS
<1>4. buf \in [0..(Size - 1) -> Char \cup {Zero}]
  BY DEF Init
<1>5. settled \in BOOLEAN
  BY Zenon DEF Init
<1>6. /\ bufn \in 0..MaxN /\ bufstart \in 0..bufn /\ bufof \in 0..MaxOf
      /\ readycnt \in 0..RLen
  BY <1>1 DEF Init
<1>7. /\ bcstflg \in BOOLEAN /\ linebufferbcst \in BOOLEAN
      /\ prefixbcst \in BOOLEAN /\ sent.prefix \in BOOLEAN
  BY <1>2 DEF Init
<1>8. /\ sent.text \in Seq(Char \cup {Zero}) /\ Len(sent.text) <= Size
      /\ line \in Seq(Char) /\ Len(line) <= Size
      /\ heard \in Seq(Char) /\ Len(heard) <= RLen
  <2>1. line = <<>> /\ heard = <<>>
    BY DEF Init
  <2>2. Len(<<>>) <= Size /\ Len(<<>>) <= RLen
    BY <1>1, <1>3
  <2> QED BY <1>2, <1>3, <2>1, <2>2, Zenon
<1> QED
  BY <1>4, <1>5, <1>6, <1>7, <1>8 DEF TypeOK

\* Every variable of cmdttyProcessOutput keeps its type: no index leaves the
\* ring, bufstart never passes bufn, and no write is longer than the buffer.
THEOREM TypeCorrect == Spec => []TypeOK
<1>1. TypeOK /\ [Next]_vars => TypeOK'
  BY TypeOutput, TypeControl DEF Next
<1> QED
  BY <1>1, TypeInit, PTL DEF Spec

\* A character read keeps the ring in step with what is owed: a line that has
\* been written out starts afresh, and nothing is owed when nobody collects.
LEMMA RingOutput ==
  ASSUME TypeOK, RingInv, NEW ch \in Char, cmdttyProcessOutput(ch)
  PROVE  RingInv'
<1> DEFINE owed == Promise!LastN(Append(line, ch), Size)
           b    == [buf EXCEPT ![cmdbufNtoI(bufn)] = ch]
<1>1. /\ buf' = b /\ bufn' = bufn + 1 /\ line' = Promise!Owed(ch)
      /\ settled' = Promise!Settled(ch)
  BY DEF cmdttyProcessOutput
<1>2. /\ Size \in Nat \ {0} /\ bufn \in Nat /\ bufstart \in Nat /\ bufof \in Nat
      /\ Len(line) \in Nat /\ Overflow \in Nat /\ Len(line) <= Size
  BY Numbers, OverflowType DEF TypeOK
<1>3. CASE ~(Promise!Buffering /\ ch # NL)
  <2>1. line' = <<>>
    BY <1>1, <1>3 DEF Promise!Owed
  <2>2. Len(line') = 0 /\ 1..0 = {}
    BY <2>1
  <2>3. bufn' \in Nat /\ bufstart' \in Nat
    <3>1. bufstart' \in {bufstart, bufn + 1}
      BY DEF cmdttyProcessOutput, BufferLine
    <3> QED BY <1>1, <1>2, <3>1
  <2>4. Lag(bufn', bufstart') \in 0..(Size - 1)
    BY <2>3, LagNat
  <2>5. Lag(bufn, bufstart)' = Lag(bufn', bufstart')
    BY DEF Lag, cmdbufNtoI
  <2>6. settled' => bufof' = 0 /\ bufstart' = bufn + 1
    BY <1>1, <1>3 DEF cmdttyProcessOutput, BufferLine, Promise!Settled,
                      Promise!Buffering
  <2>7. settled' => bufof' = 0 /\ bufn' - bufstart' = 0 /\ 0 < Size
    BY <1>1, <1>2, <2>6
  <2>8. bufof' = 0 => Len(line') <= Lag(bufn, bufstart)'
    BY <1>2, <2>2, <2>4, <2>5
  <2> QED BY <2>2, <2>7, <2>8 DEF RingInv
<1>4. CASE Promise!Buffering /\ ch # NL
  <2>1. /\ bufof' = Overflow /\ bufstart' = bufstart /\ line' = owed
        /\ settled' => settled
    BY <1>1, <1>4 DEF cmdttyProcessOutput, BufferLine, Promise!Settled,
                      Promise!Buffering, Promise!Owed
  <2>2. /\ Len(owed) = IF Len(line) < Size THEN Len(line) + 1 ELSE Size
        /\ \A k \in 1..Len(owed) :
             owed[k] = b[cmdbufNtoI(bufn - Len(owed) + k)]
        /\ owed \in Seq(Char)
    BY RingWrite
  <2>3. settled' => (Overflow = 0 <=> Len(line) + 1 < Size)
    BY <2>1, OverflowExact
  <2> HIDE DEF owed, b
  <2>4. ASSUME NEW k \in 1..Len(owed)
        PROVE  owed[k] = b[cmdbufNtoI(bufn' - Len(owed) + k - 1)]
    <3>1. Len(owed) \in Nat
      BY <1>2, <2>2
    <3>2. bufn' - Len(owed) + k - 1 = bufn - Len(owed) + k
      BY <1>1, <1>2, <3>1
    <3> QED BY <2>2, <3>2
  <2>5. ASSUME Overflow = 0 PROVE Len(owed) <= Lag(bufn', bufstart')
    <3>1. bufof = 0 /\ cmdbufNtoI(bufn + 1) # cmdbufNtoI(bufstart)
      BY <1>2, <2>5 DEF Overflow
    <3>2. Len(line) <= Lag(bufn, bufstart)
      BY <3>1 DEF RingInv
    <3>3. Lag(bufn + 1, bufstart) = Lag(bufn, bufstart) + 1
      BY <1>2, <3>1, LagStep
    <3>4. Lag(bufn, bufstart) \in 0..(Size - 1)
      BY <1>2, LagNat
    <3>5. Len(owed) <= Lag(bufn + 1, bufstart)
      BY <1>2, <2>2, <3>2, <3>3, <3>4
    <3> QED BY <1>1, <2>1, <3>5
  <2>6. Lag(bufn, bufstart)' = Lag(bufn', bufstart')
    BY DEF Lag, cmdbufNtoI
  <2>7. ASSUME settled', Overflow = 0
        PROVE  Len(owed) < Size /\ bufn' - bufstart' = Len(owed)
    <3>1. bufof = 0
      BY <1>2, <2>7, OverflowType
    <3>2. bufn - bufstart = Len(line)
      BY <2>1, <2>7, <3>1 DEF RingInv
    <3> QED BY <1>1, <1>2, <2>1, <2>2, <2>3, <2>7, <3>2
  <2>8. ASSUME settled', Overflow # 0 PROVE Len(owed) = Size
    BY <1>2, <2>2, <2>3, <2>8
  <2> QED
    BY <1>1, <2>1, <2>4, <2>5, <2>6, <2>7, <2>8 DEF RingInv, cmdbufNtoI
<1> QED
  BY <1>3, <1>4

\* The monitor leaves the ring alone, or empties it.
LEMMA RingControl ==
  ASSUME TypeOK, RingInv,
         \/ monToggleLB \/ monTogglePrefix \/ monAdd \/ monDrain
         \/ UNCHANGED vars
  PROVE  RingInv'
<1>1. CASE monToggleLB \/ monTogglePrefix \/ monAdd \/ UNCHANGED vars
  <2>1. UNCHANGED <<buf, bufn, bufstart, bufof, line, settled>>
    BY <1>1 DEF monToggleLB, monTogglePrefix, monAdd, Toggle, ring, vars
  <2> QED BY <2>1 DEF RingInv, Lag, cmdbufNtoI
<1>2. CASE monDrain
  <2>1. /\ bufn' = 0 /\ bufstart' = 0 /\ line' = <<>> /\ bufof' = bufof
        /\ settled' = (settled /\ bufof = 0)
    BY <1>2 DEF monDrain
  <2>2. Len(line') = 0 /\ 0 < Size /\ 1..0 = {} /\ 0 - 0 = 0
    BY <2>1, BufAssumption
  <2>3. Lag(bufn, bufstart)' = Lag(0, 0)
    BY <2>1 DEF Lag, cmdbufNtoI
  <2>4. Lag(0, 0) \in 0..(Size - 1)
    BY LagNat
  <2>5. Len(line') <= Lag(bufn, bufstart)'
    BY <2>2, <2>3, <2>4, BufAssumption
  <2> QED BY <2>1, <2>2, <2>5 DEF RingInv
<1> QED
  BY <1>1, <1>2

\* The ring holds what is owed in every reachable state.
THEOREM RingHolds == Spec => [](TypeOK /\ RingInv)
<1>1. Init => RingInv
  <2> SUFFICES ASSUME Init PROVE RingInv
    OBVIOUS
  <2>1. line = <<>> /\ bufn = 0 /\ bufstart = 0 /\ bufof = 0
    BY DEF Init
  <2>2. Len(line) = 0 /\ 0 < Size /\ 1..0 = {} /\ 0 - 0 = 0
    BY <2>1, BufAssumption
  <2>3. Lag(bufn, bufstart) \in 0..(Size - 1)
    BY <2>1, LagNat
  <2>4. Len(line) <= Lag(bufn, bufstart)
    BY <2>2, <2>3, BufAssumption
  <2> QED BY <2>1, <2>2, <2>4 DEF RingInv
<1>2. TypeOK /\ RingInv /\ [Next]_vars => RingInv'
  BY RingOutput, RingControl DEF Next
<1> QED
  BY <1>1, <1>2, TypeCorrect, PTL DEF Spec

-----------------------------------------------------------------------------
(* The refinement *)

\* A character read is a step of the promise.
LEMMA StepOutput ==
  ASSUME TypeOK, RingInv, NEW ch \in Char, cmdttyProcessOutput(ch)
  PROVE  Promise!Next
<1> DEFINE b == [buf EXCEPT ![cmdbufNtoI(bufn)] = ch]
<1>1. Promise!Printed(ch) /\ buf' = b
  BY DEF cmdttyProcessOutput, Promise!Printed, Promise!modes, modes
<1>2. CASE ~Promise!Buffering
  <2>1. Promise!Exact(ch)
    BY <1>2 DEF cmdttyProcessOutput, Promise!Exact, Promise!Buffering
  <2> QED BY <1>1, <2>1 DEF Promise!Next
<1>3. CASE Promise!Buffering /\ ch # NL
  <2>1. Promise!Exact(ch)
    BY <1>3 DEF cmdttyProcessOutput, BufferLine, Promise!Exact, Promise!Buffering
  <2> QED BY <1>1, <2>1 DEF Promise!Next
<1>4. CASE Promise!Buffering /\ ch = NL /\ settled
  <2>1. sent' = Promise!Write(prefixbcst,
                              BufferedLine(buf', bufn, bufstart, Overflow))
    BY <1>4 DEF cmdttyProcessOutput, BufferLine, Promise!Buffering
  <2>2. BufferedLine(buf', bufn, bufstart, Overflow)
          = Promise!LastN(Append(line, ch), Size)
    BY <1>1, <1>4, LineExact
  <2>3. Promise!Exact(ch)
    BY <1>4, <2>1, <2>2 DEF Promise!Exact
  <2> QED BY <1>1, <2>3 DEF Promise!Next
<1>5. CASE Promise!Buffering /\ ch = NL /\ ~settled
  <2> DEFINE text == BufferedLine(b, bufn, bufstart, Overflow)
             owed == Promise!LastN(Append(line, ch), Size)
  <2>1. sent' = Promise!Write(prefixbcst, text)
    BY <1>1, <1>5 DEF cmdttyProcessOutput, BufferLine, Promise!Buffering
  <2>2. Len(text) <= Size /\ Promise!LastN(text, Len(owed)) = owed
    BY LineEnds
  <2> HIDE DEF text
  <2>3. sent'.prefix = prefixbcst /\ sent'.text = text
    BY <2>1, WriteFields
  <2>4. Promise!Weaker(ch)
    BY <1>5, <2>2, <2>3 DEF Promise!Weaker
  <2> QED BY <1>1, <2>4 DEF Promise!Next
<1> QED
  BY <1>2, <1>3, <1>4, <1>5

\* So is what the monitor does.
LEMMA StepControl ==
  ASSUME TypeOK, RingInv, monToggleLB \/ monTogglePrefix \/ monAdd \/ monDrain
  PROVE  Promise!Next
<1>1. CASE monToggleLB \/ monTogglePrefix \/ monAdd
  <2>1. UNCHANGED <<line, settled, sent>> /\ (bcstflg => bcstflg')
    BY <1>1 DEF monToggleLB, monTogglePrefix, monAdd, Toggle
  <2>2. TypeOK'
    BY <1>1, TypeControl
  <2>3. Promise!modes' \in BOOLEAN \X BOOLEAN \X BOOLEAN
    BY <2>2 DEF TypeOK, Promise!modes
  <2> QED BY <2>1, <2>3 DEF Promise!Next, Promise!ChangeModes
<1>2. CASE monDrain
  <2>1. settled => (bufof = 0 <=> Len(line) < Size)
    BY Numbers DEF RingInv
  <2>2. settled' = (settled /\ Len(line) < Size)
    BY <1>2, <2>1 DEF monDrain, TypeOK
  <2>3. line' = <<>> /\ UNCHANGED <<sent, Promise!modes>>
    BY <1>2 DEF monDrain, modes, Promise!modes
  <2> QED BY <2>2, <2>3 DEF Promise!Next, Promise!Drain
<1> QED
  BY <1>1, <1>2

\* cmdttyProcessOutput implements BcstLine: for every size of the buffer and
\* every output, each line reaches the broadcast tty exactly, or exactly its
\* last Size bytes, however it lies in the ring; and whatever the monitor
\* toggles, adds or drains, and whenever, the first line that is buffered
\* afterwards is still written whole, at worst behind older bytes.
THEOREM OutputImplementsPromise == Spec => PromiseKept
<1>1. Init => Promise!Init
  BY DEF Init, Promise!Init
<1>2. TypeOK /\ RingInv /\ [Next]_vars => [Promise!Next]_(Promise!vars)
  <2>1. CASE UNCHANGED vars
    BY <2>1 DEF vars, modes, Promise!vars, Promise!modes
  <2> QED BY <2>1, StepOutput, StepControl DEF Next
<1> QED
  BY <1>1, <1>2, RingHolds, PTL DEF Spec, PromiseKept, Promise!Spec

-----------------------------------------------------------------------------
(* The ready string *)

\* What readycnt counts, character by character.
HeardAt ==
  /\ readycnt <= Len(heard)
  /\ \A k \in 1..readycnt : heard[Len(heard) - readycnt + k] = ReadyStr[k]

\* A character of the output keeps it: it goes on with the match, or the match
\* starts again.
LEMMA HeardOutput ==
  ASSUME TypeOK, HeardAt, NEW ch \in Char, cmdttyProcessOutput(ch)
  PROVE  HeardAt'
<1> DEFINE a == Append(heard, ch)
           w == Promise!LastN(a, RLen)
           n == Len(heard)
<1>1. RLen \in Nat /\ readycnt \in 0..RLen /\ heard \in Seq(Char) /\ n \in Nat /\ n <= RLen
  BY BufAssumption, LenProperties DEF TypeOK, RLen
<1>2. /\ a \in Seq(Char) /\ Len(a) = n + 1 /\ a[n + 1] = ch
      /\ \A i \in 1..n : a[i] = heard[i]
  BY <1>1, AppendProperties
<1>3. CASE readycnt = RLen
  BY <1>3 DEF cmdttyProcessOutput, ReadyMatch, HeardAt
<1>4. CASE readycnt # RLen
  <2>1. heard' = w /\ readycnt' = IF ReadyStr[readycnt + 1] = ch THEN readycnt + 1 ELSE 0
    BY <1>4 DEF cmdttyProcessOutput, ReadyMatch
  <2> HIDE DEF a
  <2>2. /\ Len(w) = IF Len(a) <= RLen THEN Len(a) ELSE RLen
        /\ w \in Seq(Char)
        /\ \A k \in 1..Len(w) : w[k] = a[Len(a) - Len(w) + k]
    BY <1>1, <1>2, LastNLemma
  <2> DEFINE l == Len(w)
  <2>3. l \in Nat
    BY <1>1, <1>2, <2>2
  <2> HIDE DEF w, n, l
  <2>4. CASE ReadyStr[readycnt + 1] = ch
    <3>1. readycnt <= n /\ readycnt + 1 <= l /\ l <= n + 1
      BY <1>1, <1>2, <1>4, <2>2 DEF HeardAt, l, n
    <3>2. ASSUME NEW k \in 1..(readycnt + 1)
          PROVE  w[l - (readycnt + 1) + k] = ReadyStr[k]
      <4> DEFINE i == l - (readycnt + 1) + k
      <4>1. i \in 1..l /\ n + 1 - l + i = n - readycnt + k
        BY <1>1, <2>3, <3>1
      <4>2. w[i] = a[n + 1 - l + i]
        <5> HIDE DEF i
        <5>1. i \in 1..Len(w)
          BY <4>1 DEF l
        <5>2. w[i] = a[Len(a) - Len(w) + i]
          BY <2>2, <5>1, Zenon
        <5>3. Len(a) = n + 1 /\ Len(w) = l
          BY <1>2 DEF l
        <5>4. Len(a) - Len(w) + i = n + 1 - l + i
          BY <1>1, <2>3, <4>1, <5>3
        <5> QED BY <5>2, <5>4, Zenon
      <4>3. w[i] = a[n - readycnt + k]
        BY <4>1, <4>2
      <4>4. CASE k = readycnt + 1
        <5>1. n - readycnt + k = n + 1
          BY <1>1, <4>4
        <5> QED BY <1>2, <2>4, <4>3, <4>4, <5>1
      <4>5. CASE k # readycnt + 1
        <5>1. k \in 1..readycnt /\ n - readycnt + k \in 1..n
          BY <1>1, <3>1, <4>5
        <5>2. heard[n - readycnt + k] = ReadyStr[k]
          BY <5>1 DEF HeardAt, n
        <5> QED BY <1>2, <4>3, <5>1, <5>2
      <4> QED BY <4>4, <4>5
    <3>3. readycnt' = readycnt + 1 /\ Len(heard') = l
      BY <2>1, <2>4 DEF l
    <3> QED BY <2>1, <3>1, <3>2, <3>3 DEF HeardAt
  <2>5. CASE ReadyStr[readycnt + 1] # ch
    <3>1. readycnt' = 0 /\ Len(heard') \in Nat
      BY <2>1, <2>3, <2>5 DEF l
    <3> QED BY <3>1 DEF HeardAt
  <2> QED BY <2>4, <2>5
<1> QED BY <1>3, <1>4

\* A command is only taken to be ready when it has printed the whole ready
\* string without a gap (cmdttyProcessOutput), whatever the string, the output
\* and the monitor's commands in between.
THEOREM ReadyMeansHeard == Spec => []ReadyHeard
<1>1. Init => HeardAt
  BY DEF Init, HeardAt
<1>2. TypeOK /\ HeardAt /\ [Next]_vars => HeardAt'
  <2> SUFFICES ASSUME TypeOK, HeardAt, [Next]_vars PROVE HeardAt'
    OBVIOUS
  <2>1. CASE UNCHANGED <<readycnt, heard>>
    BY <2>1 DEF HeardAt
  <2>2. CASE \E ch \in Char : cmdttyProcessOutput(ch)
    BY <2>2, HeardOutput
  <2> QED BY <2>1, <2>2 DEF Next, vars, monToggleLB, monTogglePrefix, monAdd,
                            monDrain, Toggle
<1>3. TypeOK /\ HeardAt => ReadyHeard
  <2> SUFFICES ASSUME TypeOK, HeardAt PROVE ReadyHeard
    OBVIOUS
  <2> DEFINE n == Len(heard)
             m == n - readycnt + 1
             s == SubSeq(heard, m, n)
             t == SubSeq(ReadyStr, 1, readycnt)
  <2>1. /\ RLen \in Nat /\ readycnt \in 0..RLen /\ n \in Nat /\ readycnt <= n
        /\ \A i \in 1..n : heard[i] \in Char
        /\ \A i \in 1..RLen : ReadyStr[i] \in Char
    BY BufAssumption, LenProperties, ElementOfSeq DEF TypeOK, RLen, HeardAt
  <2>2. m \in Int /\ n \in Int /\ \A i \in m..n : i \in 1..n
    BY <2>1
  <2>3. s \in Seq(Char) /\ Len(s) = (IF m <= n THEN n - m + 1 ELSE 0)
        /\ \A i \in 1..(n - m + 1) : s[i] = heard[m + i - 1]
    <3>1. \A i \in m..n : heard[i] \in Char
      BY <2>1, <2>2
    <3> HIDE DEF m, n
    <3> QED BY <2>2, <3>1, SubSeqProperties
  <2>4. t \in Seq(Char) /\ Len(t) = (IF 1 <= readycnt THEN readycnt - 1 + 1 ELSE 0)
        /\ \A i \in 1..(readycnt - 1 + 1) : t[i] = ReadyStr[1 + i - 1]
    <3>1. \A i \in 1..readycnt : ReadyStr[i] \in Char
      BY <2>1
    <3> QED BY <2>1, <3>1, SubSeqProperties
  <2>5. n - m + 1 = readycnt /\ readycnt - 1 + 1 = readycnt /\ Len(s) = readycnt /\ Len(t) = readycnt
    BY <2>1, <2>3, <2>4
  <2>6. ASSUME NEW i \in 1..readycnt PROVE s[i] = t[i]
    <3>1. m + i - 1 = n - readycnt + i /\ 1 + i - 1 = i
      BY <2>1
    <3>2. s[i] = heard[n - readycnt + i] /\ t[i] = ReadyStr[i]
      <4> HIDE DEF s, t, m, n
      <4> QED BY <2>3, <2>4, <2>5, <3>1
    <3> QED BY <3>2 DEF HeardAt
  <2>7. s = t
    <3> HIDE DEF s, t
    <3> QED BY <2>3, <2>4, <2>5, <2>6, SeqEqual
  <2> QED BY <2>1, <2>7 DEF ReadyHeard
<1> QED
  BY <1>1, <1>2, <1>3, TypeCorrect, PTL DEF Spec
=============================================================================

--------------------------- MODULE ResourcesProofs ---------------------------
(***************************************************************************)
(* yar's descriptors and names are accounted for whatever fails, whatever  *)
(* the ttys are called and however many descriptors there are.             *)
(***************************************************************************)
EXTENDS Resources, TLAPS, FiniteSetTheorems, SequenceTheorems, WellFoundedInduction

-----------------------------------------------------------------------------
(* The inductive invariant *)

\* What a descriptor was opened for
Lab(t, f) == <<t, f>>
PLab(c)   == <<<<"cmd", c>>, "pidfd">>
Label == {Unused} \cup {Lab(t, f) : t \in Tty, f \in {"dfd", "sfd", "ifd"}}
                  \cup {PLab(c) : c \in Cmd}

\* What a name may be
What == {Gone, File, Broken, Mount} \cup
          UNION {{Link(t, k) : k \in DOMAIN Links[t]} : t \in Tty}

TtyRec  == [linked : BOOLEAN, dfd : Fd \cup {-1}, sfd : Fd \cup {-1},
            ifd : Fd \cup {-1}]
ProcRec == [died : BOOLEAN, pidfd : Fd \cup {-1}]
Res == [fds : [Fd -> Label], path : [Path -> What], tty : [Tty -> TtyRec],
        proc : [Cmd -> ProcRec], lost : SUBSET Fd]

\* The numbers a field holds
InTty(y, n)  == \E t \in Tty : n \in Fields(y[t])
InProc(p, n) == \E c \in Cmd : p[c].pidfd = n

\* The descriptor table f agrees with the ttys y, the processes p and the
\* numbers l that are lost.
GoodFds(f, y, p, l) ==
  /\ \A t \in Tty : /\ y[t].dfd # -1 => f[y[t].dfd] = Lab(t, "dfd")
                    /\ y[t].sfd # -1 => f[y[t].sfd] = Lab(t, "sfd")
                    /\ y[t].ifd # -1 => f[y[t].ifd] = Lab(t, "ifd")
  /\ \A c \in Cmd : p[c].pidfd # -1 => f[p[c].pidfd] = PLab(c)
  /\ \A n \in Fd : f[n] # Unused <=> n \in l \/ InTty(y, n) \/ InProc(p, n)
  /\ \A n \in l : ~InTty(y, n) /\ ~InProc(p, n)

\* A link is one of the names of a tty that will unlink it.
GoodPath(pa, y) ==
  \A p \in Path, t \in Tty : \A k \in DOMAIN Links[t] :
    pa[p] = Link(t, k) => y[t].linked /\ Links[t][k] = p

\* S are the numbers that only a local variable of ttyCreate holds.
GoodBut(r, S) ==
  /\ r \in Res
  /\ GoodFds(r.fds, r.tty, r.proc, r.lost \cup S) /\ GoodPath(r.path, r.tty)

Good(r) ==
  /\ r \in Res
  /\ GoodFds(r.fds, r.tty, r.proc, r.lost) /\ GoodPath(r.path, r.tty)

\* A command that is not there has nothing
Absent(r, C) ==
  \A c \in Cmd \ C : /\ r.proc[c] = NoProc
                     /\ r.tty[Clt(c)] = NoTty /\ r.tty[Cmdt(c)] = NoTty

\* The mount point is a directory only if fsCreate has made it
GoodMount(pa, m) == \A p \in Path : pa[p] = Mount => p = MntPt /\ m

\* The broadcast tty is there only if bcstflg says so
NoBcst(r) ==
  /\ r.tty[Bcst].dfd = -1 /\ r.tty[Bcst].sfd = -1 /\ r.tty[Bcst].ifd = -1
  /\ \A p \in Path : \A k \in DOMAIN Links[Bcst] : r.path[p] # Link(Bcst, k)

\* The resources r fit the commands C, and the flags mkdir and bcstflg.
Fits(r, C, m, b) ==
  /\ Good(r) /\ Absent(r, C)
  /\ \A c \in Cmd : r.proc[c].died => r.proc[c].pidfd # -1
  /\ GoodMount(r.path, m) /\ (~b => NoBcst(r))

Phased ==
  /\ phase = "mon" => tty[Mon] = NoTty
  /\ phase \in {"mon", "fs"} => ~mkdir
  /\ phase \in {"mon", "fs", "cmds"} => tty[Bcst] = NoTty
  /\ phase = "loop" => tty[Bcst].linked
  /\ phase # "exited" => logfree = 0

Others ==
  /\ phase \in {"mon", "fs", "cmds", "loop", "exited", "aborted"}
  /\ next \in 1..Len(Initial) + 1
  /\ cmds \subseteq Cmd /\ delonexit \subseteq Cmd
  /\ mkdir \in BOOLEAN /\ bcstflg \in BOOLEAN /\ exitonidle \in BOOLEAN
  /\ logfree \in 0..2 /\ user \in 0..MaxUser /\ ops \in 0..MaxOps

ResInv ==
  /\ Fits(R, cmds, mkdir, bcstflg) /\ Others
  /\ Phased /\ CleanExit

-----------------------------------------------------------------------------
(* Descriptors *)

\* The labels are told apart.
LEMMA Labels ==
  /\ \A t, u, f, g : Lab(t, f) = Lab(u, g) => t = u /\ f = g
  /\ \A t, f : Lab(t, f) # Unused
  /\ \A c, d : PLab(c) = PLab(d) => c = d
  /\ \A c : PLab(c) # Unused
  /\ \A t, c : /\ Lab(t, "dfd") # PLab(c) /\ Lab(t, "sfd") # PLab(c)
               /\ Lab(t, "ifd") # PLab(c)
BY DEF Lab, PLab, Unused

\* -1 is not a descriptor, and the fields of a tty_t hold descriptors.
LEMMA Numbers ==
  /\ Fd \subseteq Nat /\ -1 \notin Fd
  /\ \A x \in TtyRec : Fields(x) \subseteq Fd
  /\ \A x \in TtyRec : \A n : n \in Fields(x) <=> n # -1 /\ (n = x.dfd \/ n = x.sfd \/ n = x.ifd)
  /\ NoTty \in TtyRec /\ Fields(NoTty) = {} /\ NoProc \in ProcRec
  /\ NoTty.dfd = -1 /\ NoTty.sfd = -1 /\ NoTty.ifd = -1 /\ NoTty.linked = FALSE
  /\ NoProc.pidfd = -1 /\ NoProc.died = FALSE
<1>1. Fd \subseteq Nat /\ -1 \notin Fd
  BY ResourceAssumption DEF Fd
<1>2. \A x \in TtyRec : \A n : n \in Fields(x) <=> n # -1 /\ (n = x.dfd \/ n = x.sfd \/ n = x.ifd)
  BY DEF Fields
<1>3. \A x \in TtyRec : x.dfd \in Fd \cup {-1} /\ x.sfd \in Fd \cup {-1} /\ x.ifd \in Fd \cup {-1}
  BY DEF TtyRec
<1>4. NoTty \in TtyRec /\ NoTty.dfd = -1 /\ NoTty.sfd = -1 /\ NoTty.ifd = -1 /\ NoTty.linked = FALSE
  BY DEF NoTty, TtyRec
<1>5. NoProc \in ProcRec /\ NoProc.pidfd = -1 /\ NoProc.died = FALSE
  BY DEF NoProc, ProcRec
<1>6. Fields(NoTty) = {}
  BY <1>4 DEF Fields
<1> QED BY <1>1, <1>2, <1>3, <1>4, <1>5, <1>6

\* A number that is unused is in no field and not lost.
LEMMA UnusedFree ==
  ASSUME NEW f, NEW y, NEW p, NEW l, GoodFds(f, y, p, l), NEW n \in Fd, f[n] = Unused
  PROVE  n \notin l /\ ~InTty(y, n) /\ ~InProc(p, n)
BY DEF GoodFds

\* From f and y to g and z the number n is opened and put into a field of t.
TtyGets(f, y, t, n, g, z) ==
  /\ g[n] # Unused /\ \A m \in Fd \ {n} : g[m] = f[m]
  /\ \A u \in Tty \ {t} : z[u] = y[u]
  /\ \A m : m \in Fields(z[t]) <=> m \in Fields(y[t]) \/ m = n
  /\ z[t].dfd # -1 => g[z[t].dfd] = Lab(t, "dfd")
  /\ z[t].sfd # -1 => g[z[t].sfd] = Lab(t, "sfd")
  /\ z[t].ifd # -1 => g[z[t].ifd] = Lab(t, "ifd")

\* A number that is opened and put into a field of t.
LEMMA Assigned ==
  ASSUME NEW f \in [Fd -> Label], NEW y \in [Tty -> TtyRec], NEW p \in [Cmd -> ProcRec],
         NEW l \in SUBSET Fd, GoodFds(f, y, p, l), NEW n \in Fd, f[n] = Unused,
         NEW t \in Tty, NEW g, NEW z \in [Tty -> TtyRec], TtyGets(f, y, t, n, g, z)
  PROVE  GoodFds(g, z, p, l)
<1>1. n \notin l /\ ~InTty(y, n) /\ ~InProc(p, n)
  BY UnusedFree
<1>2. g[n] # Unused /\ \A m \in Fd \ {n} : g[m] = f[m]
  BY DEF TtyGets
<1>3. \A m : InTty(z, m) <=> InTty(y, m) \/ m = n
  BY DEF InTty, TtyGets
<1>4. ASSUME NEW u \in Tty
      PROVE  /\ z[u].dfd # -1 => g[z[u].dfd] = Lab(u, "dfd")
             /\ z[u].sfd # -1 => g[z[u].sfd] = Lab(u, "sfd")
             /\ z[u].ifd # -1 => g[z[u].ifd] = Lab(u, "ifd")
  <2>1. CASE u = t
    BY <2>1 DEF TtyGets
  <2>2. CASE u # t
    <3>1. z[u] = y[u] /\ y[u] \in TtyRec
      BY <2>2 DEF TtyGets
    <3>2. \A m \in Fields(y[u]) : m \in Fd /\ m # n
      BY <1>1, <3>1, Numbers DEF InTty
    <3>3. \A m \in Fields(y[u]) : g[m] = f[m]
      BY <1>2, <3>2
    <3>4. /\ y[u].dfd # -1 => f[y[u].dfd] = Lab(u, "dfd")
          /\ y[u].sfd # -1 => f[y[u].sfd] = Lab(u, "sfd")
          /\ y[u].ifd # -1 => f[y[u].ifd] = Lab(u, "ifd")
      BY DEF GoodFds
    <3> QED BY <3>1, <3>3, <3>4, Numbers
  <2> QED BY <2>1, <2>2
<1>5. \A c \in Cmd : p[c].pidfd # -1 => g[p[c].pidfd] = PLab(c)
  <2>1. \A c \in Cmd : p[c].pidfd # n /\ p[c].pidfd \in Fd \cup {-1}
    BY <1>1 DEF InProc, ProcRec
  <2> QED BY <1>2, <2>1 DEF GoodFds
<1>6. \A m \in Fd : g[m] # Unused <=> m \in l \/ InTty(z, m) \/ InProc(p, m)
  BY <1>2, <1>3 DEF GoodFds
<1>7. \A m \in l : ~InTty(z, m) /\ ~InProc(p, m)
  BY <1>1, <1>3 DEF GoodFds
<1> QED BY <1>4, <1>5, <1>6, <1>7 DEF GoodFds

\* A number that is opened and kept in a local variable only.
LEMMA OpenedLost ==
  ASSUME NEW f \in [Fd -> Label], NEW y \in [Tty -> TtyRec], NEW p \in [Cmd -> ProcRec],
         NEW l \in SUBSET Fd, GoodFds(f, y, p, l),
         NEW n \in Fd, f[n] = Unused, NEW lb, lb # Unused,
         NEW g, g = [f EXCEPT ![n] = lb]
  PROVE  GoodFds(g, y, p, l \cup {n})
<1>1. n \notin l /\ ~InTty(y, n) /\ ~InProc(p, n)
  BY UnusedFree
<1>2. g[n] = lb /\ \A m \in Fd \ {n} : g[m] = f[m]
  OBVIOUS
<1>3. ASSUME NEW u \in Tty
      PROVE  /\ y[u].dfd # -1 => g[y[u].dfd] = Lab(u, "dfd")
             /\ y[u].sfd # -1 => g[y[u].sfd] = Lab(u, "sfd")
             /\ y[u].ifd # -1 => g[y[u].ifd] = Lab(u, "ifd")
  <2>1. y[u] \in TtyRec
    OBVIOUS
  <2>2. \A m \in Fields(y[u]) : m \in Fd /\ m # n
    BY <1>1, <2>1, Numbers DEF InTty
  <2>3. \A m \in Fields(y[u]) : g[m] = f[m]
    BY <1>2, <2>2
  <2>4. /\ y[u].dfd # -1 => f[y[u].dfd] = Lab(u, "dfd")
        /\ y[u].sfd # -1 => f[y[u].sfd] = Lab(u, "sfd")
        /\ y[u].ifd # -1 => f[y[u].ifd] = Lab(u, "ifd")
    BY DEF GoodFds
  <2> QED BY <2>1, <2>3, <2>4, Numbers
<1>4. \A c \in Cmd : p[c].pidfd # -1 => g[p[c].pidfd] = PLab(c)
  <2>1. \A c \in Cmd : p[c].pidfd # n /\ p[c].pidfd \in Fd \cup {-1}
    BY <1>1 DEF InProc, ProcRec
  <2> QED BY <1>2, <2>1 DEF GoodFds
<1>5. \A m \in Fd : g[m] # Unused <=> m \in l \cup {n} \/ InTty(y, m) \/ InProc(p, m)
  BY <1>2 DEF GoodFds
<1> QED BY <1>1, <1>3, <1>4, <1>5 DEF GoodFds

\* What was kept in a local variable gets into the field after all.
LEMMA Found ==
  ASSUME NEW f \in [Fd -> Label], NEW y \in [Tty -> TtyRec], NEW p \in [Cmd -> ProcRec],
         NEW l \in SUBSET Fd, NEW s \in Fd \ l, GoodFds(f, y, p, l \cup {s}),
         NEW t \in Tty, f[s] = Lab(t, "sfd"), y[t].sfd = -1,
         NEW z \in [Tty -> TtyRec], \A u \in Tty \ {t} : z[u] = y[u],
         z[t].sfd = s, z[t].dfd = y[t].dfd, z[t].ifd = y[t].ifd
  PROVE  GoodFds(f, z, p, l)
<1>1. ~InTty(y, s) /\ ~InProc(p, s)
  BY DEF GoodFds
<1>2. y[t] \in TtyRec /\ z[t] \in TtyRec /\ s # -1
  BY Numbers
<1>3. \A m : m \in Fields(z[t]) <=> m \in Fields(y[t]) \/ m = s
  BY <1>2, Numbers
<1>4. \A m : InTty(z, m) <=> InTty(y, m) \/ m = s
  BY <1>3 DEF InTty
<1>5. \A u \in Tty : /\ z[u].dfd # -1 => f[z[u].dfd] = Lab(u, "dfd")
                     /\ z[u].sfd # -1 => f[z[u].sfd] = Lab(u, "sfd")
                     /\ z[u].ifd # -1 => f[z[u].ifd] = Lab(u, "ifd")
  BY DEF GoodFds
<1>6. \A m \in Fd : f[m] # Unused <=> m \in l \/ InTty(z, m) \/ InProc(p, m)
  BY <1>4 DEF GoodFds
<1>7. \A m \in l : ~InTty(z, m) /\ ~InProc(p, m)
  BY <1>4 DEF GoodFds
<1>8. \A c \in Cmd : p[c].pidfd # -1 => f[p[c].pidfd] = PLab(c)
  BY DEF GoodFds
<1> QED BY <1>5, <1>6, <1>7, <1>8 DEF GoodFds

\* Different fields hold different numbers.
LEMMA Apart ==
  ASSUME NEW f \in [Fd -> Label], NEW y \in [Tty -> TtyRec], NEW p \in [Cmd -> ProcRec],
         NEW l, GoodFds(f, y, p, l)
  PROVE  /\ \A t \in Tty, u \in Tty : \A n : n \in Fields(y[t]) /\ n \in Fields(y[u]) => t = u
         /\ \A c \in Cmd, d \in Cmd : p[c].pidfd = p[d].pidfd /\ p[c].pidfd # -1 => c = d
         /\ \A t \in Tty, c \in Cmd : p[c].pidfd \notin Fields(y[t])
<1>1. \A t \in Tty : \A n \in Fields(y[t]) :
        /\ n # -1
        /\ f[n] = Lab(t, "dfd") \/ f[n] = Lab(t, "sfd") \/ f[n] = Lab(t, "ifd")
  BY Numbers DEF GoodFds
<1>2. \A c \in Cmd : p[c].pidfd # -1 => f[p[c].pidfd] = PLab(c)
  BY DEF GoodFds
<1>3. ASSUME NEW t \in Tty, NEW u \in Tty, NEW n, n \in Fields(y[t]), n \in Fields(y[u])
      PROVE  t = u
  BY <1>1, <1>3, Labels
<1>4. ASSUME NEW c \in Cmd, NEW d \in Cmd, p[c].pidfd = p[d].pidfd, p[c].pidfd # -1
      PROVE  c = d
  BY <1>2, <1>4, Labels
<1>5. ASSUME NEW t \in Tty, NEW c \in Cmd, p[c].pidfd \in Fields(y[t])
      PROVE  FALSE
  BY <1>1, <1>2, <1>5, Labels
<1> QED BY <1>3, <1>4, <1>5

\* A pidfd is opened.
LEMMA OpenedProc ==
  ASSUME NEW f \in [Fd -> Label], NEW y \in [Tty -> TtyRec], NEW p \in [Cmd -> ProcRec],
         NEW l \in SUBSET Fd, GoodFds(f, y, p, l),
         NEW n \in Fd, f[n] = Unused, NEW c \in Cmd, p[c].pidfd = -1,
         NEW g, g = [f EXCEPT ![n] = PLab(c)],
         NEW q \in [Cmd -> ProcRec], \A d \in Cmd \ {c} : q[d] = p[d], q[c].pidfd = n
  PROVE  GoodFds(g, y, q, l)
<1>1. n \notin l /\ ~InTty(y, n) /\ ~InProc(p, n)
  BY UnusedFree
<1>2. g[n] = PLab(c) /\ \A m \in Fd \ {n} : g[m] = f[m]
  OBVIOUS
<1>3. \A m \in Fd : InProc(q, m) <=> InProc(p, m) \/ m = n
  BY Numbers DEF InProc
<1>4. ASSUME NEW u \in Tty
      PROVE  /\ y[u].dfd # -1 => g[y[u].dfd] = Lab(u, "dfd")
             /\ y[u].sfd # -1 => g[y[u].sfd] = Lab(u, "sfd")
             /\ y[u].ifd # -1 => g[y[u].ifd] = Lab(u, "ifd")
  <2>1. y[u] \in TtyRec
    OBVIOUS
  <2>2. \A m \in Fields(y[u]) : m \in Fd /\ m # n
    BY <1>1, <2>1, Numbers DEF InTty
  <2>3. \A m \in Fields(y[u]) : g[m] = f[m]
    BY <1>2, <2>2
  <2>4. /\ y[u].dfd # -1 => f[y[u].dfd] = Lab(u, "dfd")
        /\ y[u].sfd # -1 => f[y[u].sfd] = Lab(u, "sfd")
        /\ y[u].ifd # -1 => f[y[u].ifd] = Lab(u, "ifd")
    BY DEF GoodFds
  <2> QED BY <2>1, <2>3, <2>4, Numbers
<1>5. \A d \in Cmd : q[d].pidfd # -1 => g[q[d].pidfd] = PLab(d)
  <2>1. \A d \in Cmd : p[d].pidfd # n /\ p[d].pidfd \in Fd \cup {-1}
    BY <1>1 DEF InProc, ProcRec
  <2> QED BY <1>2, <2>1 DEF GoodFds
<1>6. \A m \in Fd : g[m] # Unused <=> m \in l \/ InTty(y, m) \/ InProc(q, m)
  BY <1>2, <1>3, Labels DEF GoodFds
<1>7. \A m \in l : ~InTty(y, m) /\ ~InProc(q, m)
  BY <1>1, <1>3 DEF GoodFds
<1> QED BY <1>4, <1>5, <1>6, <1>7 DEF GoodFds

\* A pidfd is forgotten.
LEMMA LostProc ==
  ASSUME NEW f \in [Fd -> Label], NEW y \in [Tty -> TtyRec], NEW p \in [Cmd -> ProcRec],
         NEW l \in SUBSET Fd, GoodFds(f, y, p, l), NEW c \in Cmd, p[c].pidfd # -1,
         NEW q, q = [p EXCEPT ![c] = NoProc]
  PROVE  GoodFds(f, y, q, l \cup {p[c].pidfd}) /\ q \in [Cmd -> ProcRec] /\ p[c].pidfd \in Fd
<1>1. p[c].pidfd \in Fd /\ q \in [Cmd -> ProcRec]
  BY Numbers DEF ProcRec
<1>2. \A d \in Cmd : q[d] = IF d = c THEN NoProc ELSE p[d]
  OBVIOUS
<1>3. \A m \in Fd : InProc(q, m) <=> InProc(p, m) /\ m # p[c].pidfd
  <2>1. \A d \in Cmd : p[d].pidfd = p[c].pidfd => c = d
    BY Apart
  <2> QED BY <1>2, <2>1, Numbers DEF InProc
<1>4. ~InTty(y, p[c].pidfd)
  <2>1. \A t \in Tty, d \in Cmd : p[d].pidfd \notin Fields(y[t])
    BY Apart
  <2> QED BY <2>1 DEF InTty
<1>5. \A d \in Cmd : q[d].pidfd # -1 => f[q[d].pidfd] = PLab(d)
  BY <1>2, Numbers DEF GoodFds
<1>6. \A m \in Fd : f[m] # Unused <=> m \in l \cup {p[c].pidfd} \/ InTty(y, m) \/ InProc(q, m)
  <2>1. InProc(p, p[c].pidfd)
    BY DEF InProc
  <2> QED BY <1>1, <1>3, <2>1 DEF GoodFds
<1>7. \A m \in l \cup {p[c].pidfd} : ~InTty(y, m) /\ ~InProc(q, m)
  BY <1>1, <1>3, <1>4 DEF GoodFds
<1> QED BY <1>1, <1>5, <1>6, <1>7 DEF GoodFds

\* From f and y to g and z the fields of the ttys of T are closed and reset,
\* and from p to q those of the processes of C.
TtysClose(f, y, T, g, z) ==
  /\ \A n \in Fd : g[n] = IF \E t \in T : n \in Fields(y[t]) THEN Unused ELSE f[n]
  /\ \A t \in Tty : z[t] = IF t \in T THEN NoTty ELSE y[t]
ProcsClose(f, p, C, g, q) ==
  /\ \A n \in Fd : g[n] = IF \E c \in C : p[c].pidfd = n THEN Unused ELSE f[n]
  /\ \A c \in Cmd : q[c] = IF c \in C THEN NoProc ELSE p[c]

\* ttyCleanup closes what the ttys of T hold and nothing else.
LEMMA ClosedTtys ==
  ASSUME NEW f \in [Fd -> Label], NEW y \in [Tty -> TtyRec], NEW p \in [Cmd -> ProcRec],
         NEW l \in SUBSET Fd, GoodFds(f, y, p, l), NEW T \in SUBSET Tty,
         NEW g, NEW z \in [Tty -> TtyRec], TtysClose(f, y, T, g, z)
  PROVE  GoodFds(g, z, p, l)
<1>2. \A t \in Tty : z[t] = IF t \in T THEN NoTty ELSE y[t]
  BY DEF TtysClose
<1>3. \A n \in Fd : g[n] = IF \E t \in T : n \in Fields(y[t]) THEN Unused ELSE f[n]
  BY DEF TtysClose
<1>4. \A n \in Fd : InTty(z, n) <=> InTty(y, n) /\ ~\E t \in T : n \in Fields(y[t])
  <2>1. \A t \in Tty, u \in Tty : \A n : n \in Fields(y[t]) /\ n \in Fields(y[u]) => t = u
    BY Apart
  <2> QED BY <1>2, <2>1, Numbers DEF InTty
<1>5. ASSUME NEW u \in Tty
      PROVE  /\ z[u].dfd # -1 => g[z[u].dfd] = Lab(u, "dfd")
             /\ z[u].sfd # -1 => g[z[u].sfd] = Lab(u, "sfd")
             /\ z[u].ifd # -1 => g[z[u].ifd] = Lab(u, "ifd")
  <2>1. CASE u \in T
    BY <1>2, <2>1, Numbers
  <2>2. CASE u \notin T
    <3>1. z[u] = y[u] /\ y[u] \in TtyRec
      BY <1>2, <2>2
    <3>2. \A m \in Fields(y[u]) : m \in Fd /\ ~\E t \in T : m \in Fields(y[t])
      BY <2>2, <3>1, Apart, Numbers
    <3>3. \A m \in Fields(y[u]) : g[m] = f[m]
      BY <1>3, <3>2
    <3>4. /\ y[u].dfd # -1 => f[y[u].dfd] = Lab(u, "dfd")
          /\ y[u].sfd # -1 => f[y[u].sfd] = Lab(u, "sfd")
          /\ y[u].ifd # -1 => f[y[u].ifd] = Lab(u, "ifd")
      BY DEF GoodFds
    <3> QED BY <3>1, <3>3, <3>4, Numbers
  <2> QED BY <2>1, <2>2
<1>6. \A c \in Cmd : p[c].pidfd # -1 => g[p[c].pidfd] = PLab(c)
  <2>1. \A c \in Cmd : \A t \in T : p[c].pidfd \notin Fields(y[t])
    BY Apart
  <2>2. \A c \in Cmd : p[c].pidfd \in Fd \cup {-1}
    BY DEF ProcRec
  <2> QED BY <1>3, <2>1, <2>2 DEF GoodFds
<1>7. \A n \in Fd : InTty(y, n) => n \notin l /\ ~InProc(p, n)
  <2>1. \A t \in Tty, c \in Cmd : p[c].pidfd \notin Fields(y[t])
    BY Apart
  <2> QED BY <2>1 DEF GoodFds, InTty, InProc
<1>8. \A n \in Fd : g[n] # Unused <=> n \in l \/ InTty(z, n) \/ InProc(p, n)
  <2>1. \A n \in Fd : (\E t \in T : n \in Fields(y[t])) => InTty(y, n)
    BY DEF InTty
  <2> QED BY <1>3, <1>4, <1>7, <2>1 DEF GoodFds
<1>9. \A n \in l : ~InTty(z, n) /\ ~InProc(p, n)
  BY <1>4 DEF GoodFds
<1> QED BY <1>5, <1>6, <1>8, <1>9 DEF GoodFds

\* cmdStop closes the pidfds of the commands in C and nothing else.
LEMMA ClosedProcs ==
  ASSUME NEW f \in [Fd -> Label], NEW y \in [Tty -> TtyRec], NEW p \in [Cmd -> ProcRec],
         NEW l \in SUBSET Fd, GoodFds(f, y, p, l), NEW C \in SUBSET Cmd,
         NEW g, NEW q \in [Cmd -> ProcRec], ProcsClose(f, p, C, g, q)
  PROVE  GoodFds(g, y, q, l)
<1>2. \A c \in Cmd : q[c] = IF c \in C THEN NoProc ELSE p[c]
  BY DEF ProcsClose
<1>3. \A n \in Fd : g[n] = IF \E c \in C : p[c].pidfd = n THEN Unused ELSE f[n]
  BY DEF ProcsClose
<1>4. \A n \in Fd : n # -1
  BY Numbers
<1>5. \A c \in Cmd, d \in Cmd : p[c].pidfd = p[d].pidfd /\ p[c].pidfd # -1 => c = d
  BY Apart
<1>6. \A n \in Fd : InProc(q, n) <=> InProc(p, n) /\ ~\E c \in C : p[c].pidfd = n
  BY <1>2, <1>4, <1>5, Numbers DEF InProc
<1>7. ASSUME NEW u \in Tty
      PROVE  /\ y[u].dfd # -1 => g[y[u].dfd] = Lab(u, "dfd")
             /\ y[u].sfd # -1 => g[y[u].sfd] = Lab(u, "sfd")
             /\ y[u].ifd # -1 => g[y[u].ifd] = Lab(u, "ifd")
  <2>1. y[u] \in TtyRec
    OBVIOUS
  <2>2. \A m \in Fields(y[u]) : m \in Fd /\ ~\E c \in C : p[c].pidfd = m
    <3>1. \A t \in Tty, c \in Cmd : p[c].pidfd \notin Fields(y[t])
      BY Apart
    <3> QED BY <2>1, <3>1, Numbers
  <2>3. \A m \in Fields(y[u]) : g[m] = f[m]
    BY <1>3, <2>2
  <2>4. /\ y[u].dfd # -1 => f[y[u].dfd] = Lab(u, "dfd")
        /\ y[u].sfd # -1 => f[y[u].sfd] = Lab(u, "sfd")
        /\ y[u].ifd # -1 => f[y[u].ifd] = Lab(u, "ifd")
    BY DEF GoodFds
  <2> QED BY <2>1, <2>3, <2>4, Numbers
<1>8. \A d \in Cmd : q[d].pidfd # -1 => g[q[d].pidfd] = PLab(d)
  <2>1. \A d \in Cmd : p[d].pidfd \in Fd \cup {-1}
    BY DEF ProcRec
  <2>2. \A d \in Cmd : q[d].pidfd # -1 => d \notin C /\ q[d] = p[d]
    BY <1>2, Numbers
  <2> QED BY <1>3, <1>5, <2>1, <2>2 DEF GoodFds
<1>9. \A n \in Fd : InProc(p, n) => n \notin l /\ ~InTty(y, n)
  <2>1. \A t \in Tty, c \in Cmd : p[c].pidfd \notin Fields(y[t])
    BY Apart
  <2> QED BY <2>1 DEF GoodFds, InTty, InProc
<1>10. \A n \in Fd : g[n] # Unused <=> n \in l \/ InTty(y, n) \/ InProc(q, n)
  <2>1. \A n \in Fd : (\E c \in C : p[c].pidfd = n) => InProc(p, n)
    BY DEF InProc
  <2> QED BY <1>3, <1>6, <1>9, <2>1 DEF GoodFds
<1>11. \A n \in l : ~InTty(y, n) /\ ~InProc(q, n)
  BY <1>6 DEF GoodFds
<1> QED BY <1>7, <1>8, <1>10, <1>11 DEF GoodFds

-----------------------------------------------------------------------------
(* The operations of tty.c *)

\* The fields of the resource part of the state.
LEMMA ResFields ==
  ASSUME NEW r \in Res
  PROVE  /\ r.fds \in [Fd -> Label] /\ r.path \in [Path -> What]
         /\ r.tty \in [Tty -> TtyRec] /\ r.proc \in [Cmd -> ProcRec]
         /\ r.lost \in SUBSET Fd
BY DEF Res

\* A link is nothing else, and tells whose it is.
LEMMA Whats ==
  /\ \A t, k : Link(t, k) # Gone /\ Link(t, k) # Mount
               /\ Link(t, k) # File /\ Link(t, k) # Broken
  /\ \A t, k, u, j : Link(t, k) = Link(u, j) => t = u /\ k = j
  /\ Gone # Mount /\ File # Mount /\ Broken # Mount
  /\ {Gone, File, Broken, Mount} \subseteq What
  /\ \A t \in Tty : \A k \in DOMAIN Links[t] : Link(t, k) \in What
  /\ \A w \in What : w \in {Gone, File, Broken, Mount}
                     \/ \E t \in Tty : \E k \in DOMAIN Links[t] : w = Link(t, k)
BY DEF Link, Gone, Mount, File, Broken, What

\* Names are in the file system.
LEMMA NamesAre ==
  ASSUME NEW t \in Tty
  PROVE  /\ Names(t) \subseteq Path
         /\ \A k \in DOMAIN Links[t] : Links[t][k] \in Names(t)
<1>1. Links[t] \in Seq(Path)
  BY ResourceAssumption
<1>2. \A k \in DOMAIN Links[t] : Links[t][k] \in Path
  BY <1>1, ElementOfSeq, LenProperties
<1> QED BY <1>2 DEF Names

\* The lowest number that is not in use, as open() finds it.
LEMMA LowestFree ==
  ASSUME NEW r \in Res, ~Full(r)
  PROVE  Lowest(r) \in Fd /\ r.fds[Lowest(r)] = Unused
<1> DEFINE S == {n \in Fd : r.fds[n] = Unused}
           below == {p \in Nat \X Nat : p[1] < p[2]}
<1>1. S # {} /\ S \subseteq Nat
  BY Numbers DEF Full
<1>2. IsWellFoundedOn(below, Nat)
  BY NatLessThanWellFounded DEF OpToRel
<1>3. PICK x \in S : \A y \in S : ~(<<y, x>> \in below)
  <2> HIDE DEF S, below
  <2> QED BY <1>1, <1>2, WFMin
<1>4. ASSUME NEW y \in S PROVE x <= y
  <2>1. x \in Nat /\ y \in Nat
    BY <1>1
  <2>2. ~(<<y, x>> \in below)
    BY <1>3
  <2>3. ~(y < x)
    BY <2>1, <2>2
  <2> QED BY <2>1, <2>3
<1>5. \E n \in Fd : r.fds[n] = Unused /\ \A m \in Fd : r.fds[m] = Unused => n <= m
  BY <1>4
<1> QED BY <1>5 DEF Lowest

\* ttyCleanup: the ttys of T have nothing any more, the others all they had.
LEMMA CleanupGood ==
  ASSUME NEW r, Good(r), NEW T \in SUBSET Tty, NEW q, q = ttyCleanup(r, T)
  PROVE  /\ Good(q) /\ q.proc = r.proc /\ q.lost = r.lost
         /\ \A t \in Tty : q.tty[t] = IF t \in T THEN NoTty ELSE r.tty[t]
         /\ \A p \in Path : q.path[p] = IF p \in NamesOf(r, T) /\ r.path[p] # Mount
                                        THEN Gone ELSE r.path[p]
<1> DEFINE g == Closed(r, T)
           a == Unlinked(r, NamesOf(r, T))
           z == [t \in Tty |-> IF t \in T THEN NoTty ELSE r.tty[t]]
<1>1. /\ r \in Res /\ GoodFds(r.fds, r.tty, r.proc, r.lost) /\ GoodPath(r.path, r.tty)
      /\ r.fds \in [Fd -> Label] /\ r.path \in [Path -> What]
      /\ r.tty \in [Tty -> TtyRec] /\ r.proc \in [Cmd -> ProcRec]
      /\ r.lost \in SUBSET Fd
  BY ResFields DEF Good
<1>2. q = [[[r EXCEPT !.fds = g] EXCEPT !.path = a] EXCEPT !.tty = z]
  BY DEF ttyCleanup
<1>3. GoodFds(g, z, r.proc, r.lost) /\ g \in [Fd -> Label] /\ z \in [Tty -> TtyRec]
  <2>1. /\ \A n \in Fd : g[n] = IF \E t \in T : n \in Fields(r.tty[t])
                              THEN Unused ELSE r.fds[n]
        /\ g \in [Fd -> Label]
    BY <1>1 DEF Closed, Label
  <2>2. z \in [Tty -> TtyRec] /\ \A t \in Tty : z[t] = IF t \in T THEN NoTty ELSE r.tty[t]
    BY <1>1, Numbers
  <2> HIDE DEF g, z
  <2>3. GoodFds(g, z, r.proc, r.lost)
    <3>1. TtysClose(r.fds, r.tty, T, g, z)
      BY <2>1, <2>2 DEF TtysClose
    <3> QED BY <1>1, <2>2, <3>1, ClosedTtys
  <2> QED BY <2>1, <2>2, <2>3
<1>4. \A p \in Path : a[p] = IF p \in NamesOf(r, T) /\ r.path[p] # Mount
                             THEN Gone ELSE r.path[p]
  BY DEF Unlinked
<1>5. a \in [Path -> What]
  BY <1>1, Whats DEF Unlinked
<1>6. \A t \in Tty : z[t] = IF t \in T THEN NoTty ELSE r.tty[t]
  OBVIOUS
<1> HIDE DEF g, a, z
<1>7. /\ q.fds = g /\ q.path = a /\ q.tty = z /\ q.proc = r.proc /\ q.lost = r.lost
      /\ q \in Res
  BY <1>1, <1>2, <1>3, <1>5 DEF Res
<1>8. GoodPath(a, z)
  <2> SUFFICES ASSUME NEW p \in Path, NEW t \in Tty, NEW k \in DOMAIN Links[t],
                      a[p] = Link(t, k)
               PROVE  z[t].linked /\ Links[t][k] = p
    BY DEF GoodPath
  <2>1. r.path[p] = Link(t, k) /\ ~(p \in NamesOf(r, T) /\ r.path[p] # Mount)
    BY <1>4, Whats
  <2>2. r.tty[t].linked /\ Links[t][k] = p
    BY <1>1, <2>1 DEF GoodPath
  <2>3. p \in Names(t) /\ p \notin NamesOf(r, T)
    BY <2>1, <2>2, NamesAre, Whats
  <2>4. t \notin T
    BY <2>2, <2>3 DEF NamesOf
  <2> QED BY <1>6, <2>2, <2>4
<1> QED BY <1>3, <1>4, <1>6, <1>7, <1>8 DEF Good

\* From r to q the tty t has been initialised.
Inited(r, t, q) ==
  /\ q.proc = r.proc /\ q.lost = r.lost /\ q.path = r.path
  /\ q.fds = r.fds /\ \A u \in Tty \ {t} : q.tty[u] = r.tty[u]
  /\ q.tty[t].linked
  /\ q.tty[t].dfd = -1 /\ q.tty[t].sfd = -1 /\ q.tty[t].ifd = -1

\* ttyInit of a tty that has nothing.
LEMMA InitGood ==
  ASSUME NEW r, Good(r), NEW t \in Tty, r.tty[t] = NoTty, NEW q, q = ttyInit(r, t)
  PROVE  Good(q) /\ Inited(r, t, q)
<1> DEFINE x == [NoTty EXCEPT !.linked = TRUE]
           z == [r.tty EXCEPT ![t] = x]
<1>1. /\ r \in Res /\ GoodFds(r.fds, r.tty, r.proc, r.lost) /\ GoodPath(r.path, r.tty)
      /\ r.tty \in [Tty -> TtyRec]
  BY ResFields DEF Good
<1>2. q = [r EXCEPT !.tty = z]
  BY DEF ttyInit
<1>3. x \in TtyRec /\ x.linked = TRUE /\ x.dfd = -1 /\ x.sfd = -1 /\ x.ifd = -1
  BY DEF NoTty, TtyRec
<1> HIDE DEF x
<1>4. z \in [Tty -> TtyRec] /\ z[t] = x /\ \A u \in Tty \ {t} : z[u] = r.tty[u]
  BY <1>1, <1>3
<1> HIDE DEF z
<1>5. /\ q \in Res /\ q.tty = z /\ q.proc = r.proc /\ q.lost = r.lost
      /\ q.path = r.path /\ q.fds = r.fds
  BY <1>1, <1>2, <1>4 DEF Res
<1>6. \A u \in Tty : Fields(z[u]) = Fields(r.tty[u])
  BY <1>3, <1>4, Numbers DEF Fields
<1>7. GoodFds(r.fds, z, r.proc, r.lost)
  <2>1. \A n : InTty(z, n) <=> InTty(r.tty, n)
    BY <1>6 DEF InTty
  <2> QED BY <1>1, <1>3, <1>4, <2>1 DEF GoodFds
<1>8. GoodPath(r.path, z)
  <2>1. \A u \in Tty : r.tty[u].linked => z[u].linked
    BY <1>3, <1>4
  <2> QED BY <1>1, <2>1 DEF GoodPath
<1> QED BY <1>3, <1>4, <1>5, <1>7, <1>8 DEF Good, Inited

\* From r to q the number n, labelled lb, goes into a field of t, which makes
\* its tty_t x.
Puts(r, t, n, lb, x, q) ==
  /\ x.linked = r.tty[t].linked
  /\ \A m : m \in Fields(x) <=> m \in Fields(r.tty[t]) \/ m = n
  /\ x.dfd = r.tty[t].dfd \/ (x.dfd = n /\ lb = Lab(t, "dfd"))
  /\ x.sfd = r.tty[t].sfd \/ (x.sfd = n /\ lb = Lab(t, "sfd"))
  /\ x.ifd = r.tty[t].ifd \/ (x.ifd = n /\ lb = Lab(t, "ifd"))
  /\ q = [[r EXCEPT !.fds = [r.fds EXCEPT ![n] = lb]]
                EXCEPT !.tty = [r.tty EXCEPT ![t] = x]]

\* A new descriptor n, labelled lb, goes into one field of t, which makes its
\* tty_t x; what is open stays as it is.
LEMMA FieldOpened ==
  ASSUME NEW r, NEW S \in SUBSET Fd, GoodBut(r, S), NEW t \in Tty,
         NEW n \in Fd, r.fds[n] = Unused, NEW lb \in Label, lb # Unused,
         NEW x \in TtyRec, NEW q, Puts(r, t, n, lb, x, q)
  PROVE  /\ GoodBut(q, S) /\ q.path = r.path /\ q.proc = r.proc /\ q.lost = r.lost
         /\ \A u \in Tty \ {t} : q.tty[u] = r.tty[u]
         /\ q.tty[t] = x
         /\ \A m \in Fd : r.fds[m] # Unused => q.fds[m] = r.fds[m]
<1> DEFINE g == [r.fds EXCEPT ![n] = lb]
           z == [r.tty EXCEPT ![t] = x]
<1>1. /\ r \in Res /\ GoodFds(r.fds, r.tty, r.proc, r.lost \cup S) /\ GoodPath(r.path, r.tty)
      /\ r.fds \in [Fd -> Label] /\ r.path \in [Path -> What]
      /\ r.tty \in [Tty -> TtyRec] /\ r.proc \in [Cmd -> ProcRec]
      /\ r.lost \in SUBSET Fd /\ r.lost \cup S \in SUBSET Fd
  BY ResFields DEF GoodBut
<1>2. n # -1
  BY Numbers
<1>3. q = [[r EXCEPT !.fds = g] EXCEPT !.tty = z]
  BY <1>1 DEF Res, Puts
<1>4. r.tty[t] \in TtyRec
  BY <1>1
<1>6. z \in [Tty -> TtyRec] /\ z[t] = x /\ \A u \in Tty \ {t} : z[u] = r.tty[u]
  BY <1>1
<1>8. g \in [Fd -> Label] /\ g[n] = lb /\ \A m \in Fd \ {n} : g[m] = r.fds[m]
  BY <1>1
<1> HIDE DEF g, z
<1>10. /\ q.fds = g /\ q.path = r.path /\ q.tty = z /\ q.proc = r.proc
       /\ q.lost = r.lost /\ q \in Res
  BY <1>1, <1>3, <1>6, <1>8 DEF Res
<1>12. /\ z[t].dfd # -1 => g[z[t].dfd] = Lab(t, "dfd")
       /\ z[t].sfd # -1 => g[z[t].sfd] = Lab(t, "sfd")
       /\ z[t].ifd # -1 => g[z[t].ifd] = Lab(t, "ifd")
  <2>1. \A m \in Fields(r.tty[t]) : m \in Fd /\ r.fds[m] # Unused
    BY <1>1, <1>4, Numbers DEF GoodFds, InTty
  <2>2. \A m \in Fields(r.tty[t]) : g[m] = r.fds[m]
    BY <1>2, <1>8, <2>1
  <2>3. /\ r.tty[t].dfd # -1 => r.fds[r.tty[t].dfd] = Lab(t, "dfd")
        /\ r.tty[t].sfd # -1 => r.fds[r.tty[t].sfd] = Lab(t, "sfd")
        /\ r.tty[t].ifd # -1 => r.fds[r.tty[t].ifd] = Lab(t, "ifd")
    BY <1>1 DEF GoodFds
  <2> QED BY <1>4, <1>6, <1>8, <2>2, <2>3, Numbers DEF Puts
<1>13. GoodFds(g, z, r.proc, r.lost \cup S)
  <2>1. TtyGets(r.fds, r.tty, t, n, g, z)
    BY <1>6, <1>8, <1>12 DEF TtyGets, Puts
  <2> QED BY <1>1, <1>6, <2>1, Assigned
<1>14. GoodPath(r.path, z)
  <2>1. \A u \in Tty : z[u].linked = r.tty[u].linked
    BY <1>6 DEF Puts
  <2> QED BY <1>1, <2>1 DEF GoodPath
<1> QED BY <1>6, <1>8, <1>10, <1>13, <1>14 DEF GoodBut


\* The dfd field of t gets the next descriptor.
LEMMA Opens_dfd ==
  ASSUME NEW r, NEW S \in SUBSET Fd, GoodBut(r, S), ~Full(r), NEW t \in Tty,
         r.tty[t].dfd = -1,
         NEW q, q = OpenDom(r, t)
  PROVE  /\ GoodBut(q, S) /\ q.path = r.path /\ q.proc = r.proc /\ q.lost = r.lost
         /\ \A u \in Tty \ {t} : q.tty[u] = r.tty[u]
         /\ q.tty[t].linked = r.tty[t].linked
         /\ q.tty[t].sfd = r.tty[t].sfd /\ q.tty[t].ifd = r.tty[t].ifd
         /\ \A m \in Fd : r.fds[m] # Unused => q.fds[m] = r.fds[m]
<1> DEFINE n == Lowest(r)
           lb == Lab(t, "dfd")
           x == [r.tty[t] EXCEPT !.dfd = n]
<1>1. r \in Res /\ r.tty \in [Tty -> TtyRec] /\ r.tty[t] \in TtyRec
  BY ResFields DEF GoodBut
<1>2. n \in Fd /\ r.fds[n] = Unused /\ n # -1
  BY <1>1, LowestFree, Numbers
<1>3. q = [[r EXCEPT !.fds = [r.fds EXCEPT ![n] = lb]]
               EXCEPT !.tty = [r.tty EXCEPT ![t] = x]]
  BY <1>1 DEF OpenDom, Opened, Lab, Res
<1>4. lb \in Label /\ lb # Unused
  BY Labels DEF Label
<1> HIDE DEF n
<1>5. /\ x \in TtyRec /\ x.linked = r.tty[t].linked /\ x.dfd = n
      /\ x.sfd = r.tty[t].sfd /\ x.ifd = r.tty[t].ifd
  BY <1>1, <1>2 DEF TtyRec
<1> HIDE DEF x
<1>6. \A m : m \in Fields(x) <=> m \in Fields(r.tty[t]) \/ m = n
  BY <1>1, <1>2, <1>5, Numbers
<1>7. x.dfd = n /\ lb = Lab(t, "dfd")
  BY <1>5
<1> HIDE DEF lb
<1>8. Puts(r, t, n, lb, x, q)
  <2>1. /\ x.dfd = r.tty[t].dfd \/ (x.dfd = n /\ lb = Lab(t, "dfd"))
        /\ x.sfd = r.tty[t].sfd \/ (x.sfd = n /\ lb = Lab(t, "sfd"))
        /\ x.ifd = r.tty[t].ifd \/ (x.ifd = n /\ lb = Lab(t, "ifd"))
    BY <1>5, <1>7
  <2> QED BY <1>3, <1>5, <1>6, <2>1, Zenon DEF Puts
<1>9. /\ GoodBut(q, S) /\ q.path = r.path /\ q.proc = r.proc /\ q.lost = r.lost
      /\ \A u \in Tty \ {t} : q.tty[u] = r.tty[u]
      /\ q.tty[t] = x
      /\ \A m \in Fd : r.fds[m] # Unused => q.fds[m] = r.fds[m]
  BY <1>2, <1>4, <1>5, <1>8, FieldOpened
<1> QED BY <1>5, <1>9


\* The ifd field of t gets the next descriptor.
LEMMA Opens_ifd ==
  ASSUME NEW r, NEW S \in SUBSET Fd, GoodBut(r, S), ~Full(r), NEW t \in Tty,
         r.tty[t].ifd = -1,
         NEW q, q = OpenIno(r, t)
  PROVE  /\ GoodBut(q, S) /\ q.path = r.path /\ q.proc = r.proc /\ q.lost = r.lost
         /\ \A u \in Tty \ {t} : q.tty[u] = r.tty[u]
         /\ q.tty[t].linked = r.tty[t].linked
         /\ q.tty[t].dfd = r.tty[t].dfd /\ q.tty[t].sfd = r.tty[t].sfd
         /\ \A m \in Fd : r.fds[m] # Unused => q.fds[m] = r.fds[m]
<1> DEFINE n == Lowest(r)
           lb == Lab(t, "ifd")
           x == [r.tty[t] EXCEPT !.ifd = n]
<1>1. r \in Res /\ r.tty \in [Tty -> TtyRec] /\ r.tty[t] \in TtyRec
  BY ResFields DEF GoodBut
<1>2. n \in Fd /\ r.fds[n] = Unused /\ n # -1
  BY <1>1, LowestFree, Numbers
<1>3. q = [[r EXCEPT !.fds = [r.fds EXCEPT ![n] = lb]]
               EXCEPT !.tty = [r.tty EXCEPT ![t] = x]]
  BY <1>1 DEF OpenIno, Opened, Lab, Res
<1>4. lb \in Label /\ lb # Unused
  BY Labels DEF Label
<1> HIDE DEF n
<1>5. /\ x \in TtyRec /\ x.linked = r.tty[t].linked /\ x.ifd = n
      /\ x.dfd = r.tty[t].dfd /\ x.sfd = r.tty[t].sfd
  BY <1>1, <1>2 DEF TtyRec
<1> HIDE DEF x
<1>6. \A m : m \in Fields(x) <=> m \in Fields(r.tty[t]) \/ m = n
  BY <1>1, <1>2, <1>5, Numbers
<1>7. x.ifd = n /\ lb = Lab(t, "ifd")
  BY <1>5
<1> HIDE DEF lb
<1>8. Puts(r, t, n, lb, x, q)
  <2>1. /\ x.dfd = r.tty[t].dfd \/ (x.dfd = n /\ lb = Lab(t, "dfd"))
        /\ x.sfd = r.tty[t].sfd \/ (x.sfd = n /\ lb = Lab(t, "sfd"))
        /\ x.ifd = r.tty[t].ifd \/ (x.ifd = n /\ lb = Lab(t, "ifd"))
    BY <1>5, <1>7
  <2> QED BY <1>3, <1>5, <1>6, <2>1, Zenon DEF Puts
<1>9. /\ GoodBut(q, S) /\ q.path = r.path /\ q.proc = r.proc /\ q.lost = r.lost
      /\ \A u \in Tty \ {t} : q.tty[u] = r.tty[u]
      /\ q.tty[t] = x
      /\ \A m \in Fd : r.fds[m] # Unused => q.fds[m] = r.fds[m]
  BY <1>2, <1>4, <1>5, <1>8, FieldOpened
<1> QED BY <1>5, <1>9

\* The sub side of t is open, in a local variable only.
LEMMA OpensLocal ==
  ASSUME NEW r, Good(r), ~Full(r), NEW t \in Tty,
         NEW q, q = Opened(r, <<t, "sfd">>), NEW s, s = Lowest(r)
  PROVE  /\ GoodBut(q, {s}) /\ q.path = r.path /\ q.proc = r.proc /\ q.lost = r.lost
         /\ q.tty = r.tty /\ s \in Fd \ r.lost /\ q.fds[s] = Lab(t, "sfd")
<1> DEFINE g == [r.fds EXCEPT ![s] = Lab(t, "sfd")]
<1>1. /\ r \in Res /\ GoodFds(r.fds, r.tty, r.proc, r.lost) /\ GoodPath(r.path, r.tty)
      /\ r.fds \in [Fd -> Label] /\ r.tty \in [Tty -> TtyRec]
      /\ r.proc \in [Cmd -> ProcRec] /\ r.lost \in SUBSET Fd
  BY ResFields DEF Good
<1>2. s \in Fd /\ r.fds[s] = Unused
  BY <1>1, LowestFree
<1>3. Lab(t, "sfd") \in Label /\ Lab(t, "sfd") # Unused
  BY Labels DEF Label
<1>4. q = [r EXCEPT !.fds = g]
  BY <1>1 DEF Opened, Lab, Res
<1>5. g \in [Fd -> Label] /\ g[s] = Lab(t, "sfd") /\ g = [r.fds EXCEPT ![s] = Lab(t, "sfd")]
  BY <1>1, <1>2, <1>3
<1> HIDE DEF g
<1>6. /\ q.fds = g /\ q.path = r.path /\ q.tty = r.tty /\ q.proc = r.proc
      /\ q.lost = r.lost /\ q \in Res
  BY <1>1, <1>4, <1>5 DEF Res
<1>7. s \notin r.lost
  BY <1>1, <1>2, UnusedFree
<1>8. GoodFds(g, r.tty, r.proc, r.lost \cup {s})
  BY <1>1, <1>2, <1>3, <1>5, OpenedLost
<1> QED BY <1>1, <1>2, <1>5, <1>6, <1>7, <1>8 DEF GoodBut

\* ttyCreate makes the links of t, and no others.
LEMMA LinksMade ==
  ASSUME NEW r, NEW S, GoodBut(r, S), NEW t \in Tty,
         r.tty[t].linked \/ Names(t) = {}, NEW q, q = MakeLinks(r, t)
  PROVE  /\ GoodBut(q, S) /\ q.fds = r.fds /\ q.proc = r.proc /\ q.lost = r.lost
         /\ q.tty = r.tty
         /\ \A p \in Path \ Names(t) : q.path[p] = r.path[p]
         /\ \A p \in Names(t) : \E k \in DOMAIN Links[t] : q.path[p] = Link(t, k)
<1> DEFINE a == [p \in Path |->
                  IF p \in Names(t)
                  THEN Link(t, CHOOSE k \in DOMAIN Links[t] : Links[t][k] = p)
                  ELSE r.path[p]]
<1>1. /\ r \in Res /\ GoodFds(r.fds, r.tty, r.proc, r.lost \cup S) /\ GoodPath(r.path, r.tty)
      /\ r.path \in [Path -> What]
  BY ResFields DEF GoodBut
<1>2. q = [r EXCEPT !.path = a]
  BY DEF MakeLinks
<1>3. /\ \A p \in Path \ Names(t) : a[p] = r.path[p]
      /\ Names(t) \subseteq Path
  BY NamesAre
<1>4. \A p \in Names(t) : \E k \in DOMAIN Links[t] : Links[t][k] = p /\ a[p] = Link(t, k)
  <2> SUFFICES ASSUME NEW p \in Names(t)
               PROVE  \E k \in DOMAIN Links[t] : Links[t][k] = p /\ a[p] = Link(t, k)
    OBVIOUS
  <2> DEFINE j == CHOOSE k \in DOMAIN Links[t] : Links[t][k] = p
  <2>1. j \in DOMAIN Links[t] /\ Links[t][j] = p
    BY DEF Names
  <2>2. a[p] = Link(t, j)
    BY <1>3
  <2> QED BY <2>1, <2>2
<1>5. a \in [Path -> What]
  <2>1. \A p \in Path : a[p] \in What
    BY <1>1, <1>3, <1>4, Whats
  <2> QED BY <2>1
<1> HIDE DEF a
<1>6. /\ q.fds = r.fds /\ q.path = a /\ q.tty = r.tty /\ q.proc = r.proc
      /\ q.lost = r.lost /\ q \in Res
  BY <1>1, <1>2, <1>5 DEF Res
<1>7. GoodPath(a, r.tty)
  <2> SUFFICES ASSUME NEW p \in Path, NEW u \in Tty, NEW k \in DOMAIN Links[u],
                      a[p] = Link(u, k)
               PROVE  r.tty[u].linked /\ Links[u][k] = p
    BY DEF GoodPath
  <2>1. CASE p \in Names(t)
    <3>1. PICK j \in DOMAIN Links[t] : Links[t][j] = p /\ a[p] = Link(t, j)
      BY <1>4, <2>1
    <3>2. u = t /\ k = j
      BY <3>1 DEF Link
    <3> QED BY <2>1, <3>1, <3>2
  <2>2. CASE p \notin Names(t)
    BY <1>1, <1>3, <2>2 DEF GoodPath
  <2> QED BY <2>1, <2>2
<1> QED BY <1>1, <1>3, <1>4, <1>6, <1>7 DEF GoodBut

\* The sub side s is stored in the tty_t of t
Stored(r, t, s) == [r EXCEPT !.tty[t].sfd = s]

\* At its very end ttyCreate stores the sub side.
LEMMA SubStored ==
  ASSUME NEW r, NEW s \in Fd, s \notin r.lost, GoodBut(r, {s}), NEW t \in Tty,
         r.fds[s] = Lab(t, "sfd"), r.tty[t].sfd = -1,
         NEW q, q = Stored(r, t, s)
  PROVE  /\ Good(q) /\ q.fds = r.fds /\ q.path = r.path /\ q.proc = r.proc
         /\ q.lost = r.lost /\ \A u \in Tty \ {t} : q.tty[u] = r.tty[u]
         /\ q.tty[t].linked = r.tty[t].linked
<1> DEFINE x == [r.tty[t] EXCEPT !.sfd = s]
           z == [r.tty EXCEPT ![t] = x]
<1>1. /\ r \in Res /\ GoodFds(r.fds, r.tty, r.proc, r.lost \cup {s}) /\ GoodPath(r.path, r.tty)
      /\ r.fds \in [Fd -> Label] /\ r.tty \in [Tty -> TtyRec]
      /\ r.proc \in [Cmd -> ProcRec] /\ r.lost \in SUBSET Fd
  BY ResFields DEF GoodBut
<1>2. r.tty[t] \in TtyRec
  BY <1>1
<1>3. q = [r EXCEPT !.tty = z]
  BY <1>1 DEF Res, Stored
<1>4. /\ x \in TtyRec /\ x.linked = r.tty[t].linked /\ x.sfd = s
      /\ x.dfd = r.tty[t].dfd /\ x.ifd = r.tty[t].ifd
  BY <1>2 DEF TtyRec
<1> HIDE DEF x
<1>5. z \in [Tty -> TtyRec] /\ z[t] = x /\ \A u \in Tty \ {t} : z[u] = r.tty[u]
  BY <1>1, <1>4
<1> HIDE DEF z
<1>6. /\ q.fds = r.fds /\ q.path = r.path /\ q.tty = z /\ q.proc = r.proc
      /\ q.lost = r.lost /\ q \in Res
  BY <1>1, <1>3, <1>5 DEF Res
<1>7. GoodFds(r.fds, z, r.proc, r.lost)
  BY <1>1, <1>4, <1>5, Found
<1>8. GoodPath(r.path, z)
  <2>1. \A u \in Tty : z[u].linked = r.tty[u].linked
    BY <1>4, <1>5
  <2> QED BY <1>1, <2>1 DEF GoodPath
<1> QED BY <1>4, <1>5, <1>6, <1>7, <1>8 DEF Good

\* A ttyCreate that fails late forgets the sub side.
LEMMA SubLost ==
  ASSUME NEW r, NEW s \in Fd, GoodBut(r, {s}), NEW q, q = [r EXCEPT !.lost = @ \cup {s}]
  PROVE  /\ Good(q) /\ q.path = r.path /\ q.proc = r.proc /\ q.tty = r.tty
<1>1. /\ r \in Res /\ GoodFds(r.fds, r.tty, r.proc, r.lost \cup {s}) /\ GoodPath(r.path, r.tty)
      /\ r.lost \in SUBSET Fd
  BY ResFields DEF GoodBut
<1>2. /\ q.fds = r.fds /\ q.path = r.path /\ q.tty = r.tty /\ q.proc = r.proc
      /\ q.lost = r.lost \cup {s} /\ q \in Res
  BY <1>1 DEF Res
<1> QED BY <1>1, <1>2 DEF Good

\* From r to q nothing has happened but to the ttys of T: no other tty has
\* changed, no name but theirs, none of another tty's links has appeared, and
\* the mount point is where it was.
Kept(r, q, T) ==
  /\ \A u \in Tty \ T : q.tty[u] = r.tty[u]
  /\ \A p \in Path : q.path[p] = Mount <=> r.path[p] = Mount
  /\ \A p \in Path : q.path[p] = r.path[p] \/ \E u \in T : p \in Names(u)
  /\ \A p \in Path : \A u \in Tty \ T : \A k \in DOMAIN Links[u] :
       q.path[p] = Link(u, k) => r.path[p] = Link(u, k)

\* What is kept by two steps.
LEMMA KeptTwice ==
  ASSUME NEW r, NEW q, NEW s, NEW T, NEW U, Kept(r, q, T), Kept(q, s, U)
  PROVE  Kept(r, s, T \cup U)
<1>1. \A u \in Tty \ (T \cup U) : s.tty[u] = r.tty[u]
  BY DEF Kept
<1>2. \A p \in Path : s.path[p] = Mount <=> r.path[p] = Mount
  BY DEF Kept
<1>3. \A p \in Path : s.path[p] = r.path[p] \/ \E u \in T \cup U : p \in Names(u)
  BY DEF Kept
<1>4. ASSUME NEW p \in Path, NEW u \in Tty \ (T \cup U), NEW k \in DOMAIN Links[u],
             s.path[p] = Link(u, k)
      PROVE  r.path[p] = Link(u, k)
  <2>1. q.path[p] = Link(u, k)
    BY <1>4 DEF Kept
  <2> QED BY <2>1 DEF Kept
<1> QED BY <1>1, <1>2, <1>3, <1>4 DEF Kept

\* ttyCleanup touches nothing but its ttys and their names.
LEMMA CleanupKept ==
  ASSUME NEW r, Good(r), NEW T \in SUBSET Tty, NEW q, q = ttyCleanup(r, T)
  PROVE  Kept(r, q, T)
<1>1. /\ \A t \in Tty : q.tty[t] = IF t \in T THEN NoTty ELSE r.tty[t]
      /\ \A p \in Path : q.path[p] = IF p \in NamesOf(r, T) /\ r.path[p] # Mount
                                     THEN Gone ELSE r.path[p]
  BY CleanupGood
<1>2. \A p \in Path : q.path[p] = Mount <=> r.path[p] = Mount
  BY <1>1, Whats
<1>3. \A p \in NamesOf(r, T) : \E u \in T : p \in Names(u)
  BY DEF NamesOf
<1>4. \A p \in Path : \A u \in Tty \ T : \A k \in DOMAIN Links[u] :
        q.path[p] = Link(u, k) => r.path[p] = Link(u, k)
  BY <1>1, Whats
<1> QED BY <1>1, <1>2, <1>3, <1>4 DEF Kept

\* What ttyCreate of t makes of r: all of t, or nothing.
Created(r, t, a) ==
  /\ Good(a.r) /\ a.r.proc = r.proc /\ Kept(r, a.r, {t})
  /\ a.ok \in BOOLEAN
  /\ ~a.ok => a.r.tty[t] = NoTty
  /\ a.ok => a.r.tty[t].linked = r.tty[t].linked

\* ttyCreate gives up after having done no more than touch t.
LEMMA GivesUp ==
  ASSUME NEW r, NEW t \in Tty, NEW x, Good(x), x.proc = r.proc, Kept(r, x, {t}),
         NEW a, a = Failed(x, t)
  PROVE  Created(r, t, a)
<1> DEFINE q == ttyCleanup(x, {t})
<1>1. a.ok = FALSE /\ a.r = q
  BY DEF Failed
<1>2. {t} \in SUBSET Tty /\ q = ttyCleanup(x, {t})
  OBVIOUS
<1> HIDE DEF q
<1>3. /\ Good(q) /\ q.proc = x.proc
      /\ \A u \in Tty : q.tty[u] = IF u \in {t} THEN NoTty ELSE x.tty[u]
  BY <1>2, CleanupGood
<1>4. Kept(x, q, {t})
  BY <1>2, CleanupKept
<1>5. Kept(r, q, {t} \cup {t})
  BY <1>4, KeptTwice
<1>6. {t} \cup {t} = {t}
  OBVIOUS
<1> QED BY <1>1, <1>3, <1>5, <1>6 DEF Created

\* ttyCreate: whatever fails, it leaves the tty complete or without anything,
\* and loses at most the sub side.
LEMMA CreateGood ==
  ASSUME NEW r, Good(r), NEW t \in Tty, r.tty[t].dfd = -1, r.tty[t].sfd = -1,
         r.tty[t].ifd = -1, r.tty[t].linked \/ Names(t) = {},
         NEW fault, NEW a, a = ttyCreate(r, t, fault)
  PROVE  Created(r, t, a)
<1> DEFINE r1 == OpenDom(r, t)
           s  == Lowest(r1)
           r2 == Opened(r1, <<t, "sfd">>)
           r3 == MakeLinks(r2, t)
           r4 == OpenIno(r3, t)
           r5 == Stored(r4, t, s)
           l2 == [r2 EXCEPT !.lost = @ \cup {s}]
           l3 == [r3 EXCEPT !.lost = @ \cup {s}]
           l4 == [r4 EXCEPT !.lost = @ \cup {s}]
<1>1. a = IF \E p \in Names(t) : Exists(r, p) THEN Failed(r, t)
          ELSE IF Full(r) \/ fault = "pty" THEN Failed(r, t)
          ELSE IF Full(r1) \/ fault = "sub" THEN Failed(r1, t)
          ELSE IF \E p \in Names(t) : r.path[p] # Gone THEN Failed(l2, t)
          ELSE IF Full(r3) \/ fault = "inotify" THEN Failed(l3, t)
          ELSE IF fault = "watch" THEN Failed(l4, t)
          ELSE [ok |-> TRUE, r |-> r5]
  BY Zenon DEF ttyCreate, FailedLate, Stored
<1> SUFFICES Created(r, t, a)
  OBVIOUS
<1>2. Names(t) \subseteq Path
  BY NamesAre
<1>3. CASE (\E p \in Names(t) : Exists(r, p)) \/ Full(r) \/ fault = "pty"
  <2>1. a = Failed(r, t)
    BY <1>1, <1>3
  <2>2. Kept(r, r, {t})
    BY DEF Kept
  <2> QED BY <2>1, <2>2, GivesUp
<1>4. CASE ~((\E p \in Names(t) : Exists(r, p)) \/ Full(r) \/ fault = "pty")
  <2>1. /\ r1 = OpenDom(r, t) /\ s = Lowest(r1) /\ r2 = Opened(r1, <<t, "sfd">>)
        /\ r3 = MakeLinks(r2, t) /\ r4 = OpenIno(r3, t)
    OBVIOUS
  <2>2. /\ r5 = Stored(r4, t, s)
        /\ l2 = [r2 EXCEPT !.lost = @ \cup {s}] /\ l3 = [r3 EXCEPT !.lost = @ \cup {s}]
        /\ l4 = [r4 EXCEPT !.lost = @ \cup {s}]
    OBVIOUS
  <2> HIDE DEF r1, s, r2, r3, r4, r5, l2, l3, l4
  <2>3. GoodBut(r, {}) /\ {} \in SUBSET Fd
    BY DEF Good, GoodBut
  <2>4. /\ GoodBut(r1, {}) /\ r1.path = r.path /\ r1.proc = r.proc /\ r1.lost = r.lost
        /\ \A u \in Tty \ {t} : r1.tty[u] = r.tty[u]
        /\ r1.tty[t].linked = r.tty[t].linked
        /\ r1.tty[t].sfd = r.tty[t].sfd /\ r1.tty[t].ifd = r.tty[t].ifd
    BY <1>4, <2>1, <2>3, Opens_dfd
  <2>5. Good(r1)
    BY <2>4 DEF Good, GoodBut
  <2>6. CASE Full(r1) \/ fault = "sub"
    <3>1. a = Failed(r1, t)
      BY <1>1, <1>4, <2>6
    <3>2. Kept(r, r1, {t})
      BY <2>4 DEF Kept
    <3> QED BY <2>4, <2>5, <3>1, <3>2, GivesUp
  <2>7. CASE ~(Full(r1) \/ fault = "sub")
    <3>1. /\ GoodBut(r2, {s}) /\ r2.path = r1.path /\ r2.proc = r1.proc /\ r2.lost = r1.lost
          /\ r2.tty = r1.tty /\ s \in Fd \ r1.lost /\ r2.fds[s] = Lab(t, "sfd")
      BY <2>1, <2>5, <2>7, OpensLocal
    <3>2. CASE \E p \in Names(t) : r.path[p] # Gone
      <4>1. a = Failed(l2, t)
        BY <1>1, <1>4, <2>7, <3>2
      <4>2. Good(l2) /\ l2.path = r2.path /\ l2.proc = r2.proc /\ l2.tty = r2.tty
        BY <2>2, <3>1, SubLost
      <4>3. Kept(r, l2, {t})
        BY <2>4, <3>1, <4>2 DEF Kept
      <4> QED BY <2>4, <3>1, <4>1, <4>2, <4>3, GivesUp
    <3>3. CASE ~\E p \in Names(t) : r.path[p] # Gone
      <4>1. r2.tty[t].linked \/ Names(t) = {}
        BY <2>4, <3>1
      <4>2. /\ GoodBut(r3, {s}) /\ r3.fds = r2.fds /\ r3.proc = r2.proc /\ r3.lost = r2.lost
            /\ r3.tty = r2.tty
            /\ \A p \in Path \ Names(t) : r3.path[p] = r2.path[p]
            /\ \A p \in Names(t) : \E k \in DOMAIN Links[t] : r3.path[p] = Link(t, k)
        BY <2>1, <3>1, <4>1, LinksMade
      <4>3. ASSUME NEW q, q.path = r3.path, \A u \in Tty \ {t} : q.tty[u] = r3.tty[u]
            PROVE  Kept(r, q, {t})
        <5>1. \A u \in Tty \ {t} : q.tty[u] = r.tty[u]
          BY <2>4, <3>1, <4>2, <4>3
        <5>2. \A p \in Path \ Names(t) : q.path[p] = r.path[p]
          BY <2>4, <3>1, <4>2, <4>3
        <5>3. \A p \in Names(t) : r.path[p] = Gone /\ \E k : q.path[p] = Link(t, k)
          BY <3>3, <4>2, <4>3
        <5>4. \A p \in Path : q.path[p] = Mount <=> r.path[p] = Mount
          BY <5>2, <5>3, Whats
        <5>5. \A p \in Path : q.path[p] = r.path[p] \/ \E u \in {t} : p \in Names(u)
          BY <5>2
        <5>6. ASSUME NEW p \in Path, NEW u \in Tty \ {t}, NEW k \in DOMAIN Links[u],
                     q.path[p] = Link(u, k)
              PROVE  r.path[p] = Link(u, k)
          <6>1. p \notin Names(t)
            BY <5>3, <5>6 DEF Link
          <6> QED BY <5>2, <5>6, <6>1
        <5> QED BY <5>1, <5>4, <5>5, <5>6 DEF Kept
      <4>4. CASE Full(r3) \/ fault = "inotify"
        <5>1. a = Failed(l3, t)
          BY <1>1, <1>4, <2>7, <3>3, <4>4
        <5>2. Good(l3) /\ l3.path = r3.path /\ l3.proc = r3.proc /\ l3.tty = r3.tty
          BY <2>2, <3>1, <4>2, SubLost
        <5>3. Kept(r, l3, {t})
          BY <4>3, <5>2
        <5> QED BY <2>4, <3>1, <4>2, <5>1, <5>2, <5>3, GivesUp
      <4>5. CASE ~(Full(r3) \/ fault = "inotify")
        <5>1. {s} \in SUBSET Fd /\ r3.tty[t].ifd = -1 /\ r3.tty[t].sfd = -1
          BY <2>4, <3>1, <4>2
        <5>2. /\ GoodBut(r4, {s}) /\ r4.path = r3.path /\ r4.proc = r3.proc /\ r4.lost = r3.lost
              /\ \A u \in Tty \ {t} : r4.tty[u] = r3.tty[u]
              /\ r4.tty[t].linked = r3.tty[t].linked
              /\ r4.tty[t].dfd = r3.tty[t].dfd /\ r4.tty[t].sfd = r3.tty[t].sfd
              /\ \A m \in Fd : r3.fds[m] # Unused => r4.fds[m] = r3.fds[m]
          BY <2>1, <4>2, <4>5, <5>1, Opens_ifd
        <5>3. CASE fault = "watch"
          <6>1. a = Failed(l4, t)
            BY <1>1, <1>4, <2>7, <3>3, <4>5, <5>3
          <6>2. Good(l4) /\ l4.path = r4.path /\ l4.proc = r4.proc /\ l4.tty = r4.tty
            BY <2>2, <3>1, <5>2, SubLost
          <6>3. Kept(r, l4, {t})
            BY <4>3, <5>2, <6>2
          <6> QED BY <2>4, <3>1, <4>2, <5>2, <6>1, <6>2, <6>3, GivesUp
        <5>4. CASE fault # "watch"
          <6>1. a = [ok |-> TRUE, r |-> r5]
            BY <1>1, <1>4, <2>7, <3>3, <4>5, <5>4
          <6>2. r4.fds[s] = Lab(t, "sfd")
            BY <3>1, <4>2, <5>2, Labels
          <6>3. /\ s \in Fd /\ s \notin r4.lost /\ r4.tty[t].sfd = -1
                /\ GoodBut(r4, {s}) /\ r5 = Stored(r4, t, s)
            BY <2>2, <3>1, <4>2, <5>1, <5>2
          <6>4. /\ Good(r5) /\ r5.path = r4.path /\ r5.proc = r4.proc
                /\ \A u \in Tty \ {t} : r5.tty[u] = r4.tty[u]
                /\ r5.tty[t].linked = r4.tty[t].linked
            BY <6>2, <6>3, SubStored
          <6>5. Kept(r, r5, {t})
            BY <4>3, <5>2, <6>4
          <6>6. /\ a.ok = TRUE /\ a.r = r5
            BY <6>1
          <6>7. r5.proc = r.proc /\ r5.tty[t].linked = r.tty[t].linked
            BY <2>4, <3>1, <4>2, <5>2, <6>4
          <6> QED BY <6>4, <6>5, <6>6, <6>7 DEF Created
        <5> QED BY <5>3, <5>4
      <4> QED BY <4>4, <4>5
    <3> QED BY <3>2, <3>3
  <2> QED BY <2>6, <2>7
<1> QED BY <1>3, <1>4

-----------------------------------------------------------------------------
(* The operations of cmd.c *)

\* The ttys of the commands in C
TtysOf(C) == {Clt(c) : c \in C} \cup {Cmdt(c) : c \in C}

\* The ttys are told apart.
LEMMA Ttys ==
  /\ Mon \in Tty /\ Bcst \in Tty /\ Mon # Bcst
  /\ \A c \in Cmd : /\ Clt(c) \in Tty /\ Cmdt(c) \in Tty
                    /\ Clt(c) # Mon /\ Clt(c) # Bcst /\ Cmdt(c) # Mon /\ Cmdt(c) # Bcst
                    /\ Names(Cmdt(c)) = {}
  /\ \A c, d : Clt(c) # Cmdt(d)
  /\ \A c, d : Clt(c) = Clt(d) => c = d
  /\ \A c, d : Cmdt(c) = Cmdt(d) => c = d
  /\ \A t \in Tty : \/ t = Mon \/ t = Bcst
                    \/ \E c \in Cmd : t = Clt(c) \/ t = Cmdt(c)
<1>1. \A c \in Cmd : Names(Cmdt(c)) = {}
  <2> SUFFICES ASSUME NEW c \in Cmd PROVE Names(Cmdt(c)) = {}
    OBVIOUS
  <2>1. Links[Cmdt(c)] = <<>>
    BY ResourceAssumption
  <2> QED BY <2>1, EmptySeq DEF Names
<1> QED BY <1>1 DEF Tty, Mon, Bcst, Clt, Cmdt

\* What cmdCreate of c makes of r: both ttys, or none.
CmdCreated(r, c, a) ==
  /\ Good(a.r) /\ a.r.proc = r.proc /\ Kept(r, a.r, TtysOf({c}))
  /\ a.ok \in BOOLEAN
  /\ ~a.ok => a.r.tty[Clt(c)] = NoTty /\ a.r.tty[Cmdt(c)] = NoTty

\* cmdCreate: if one tty fails the other goes too.
LEMMA CmdCreateGood ==
  ASSUME NEW r, Good(r), NEW c \in Cmd, r.tty[Clt(c)] = NoTty, r.tty[Cmdt(c)] = NoTty,
         NEW fault, NEW x, x = cmdCreate(r, c, fault)
  PROVE  CmdCreated(r, c, x)
<1> DEFINE t == Clt(c)
           u == Cmdt(c)
           i == ttyInit(r, t)
           a == ttyCreate(i, t, At(fault, 1))
           b == ttyCreate(a.r, u, At(fault, 2))
           ca == ttyCleanup(a.r, {t, u})
           cb == ttyCleanup(b.r, {t, u})
<1>1. x = IF ~a.ok THEN [ok |-> FALSE, r |-> ca]
          ELSE IF ~b.ok THEN [ok |-> FALSE, r |-> cb] ELSE b
  BY DEF cmdCreate
<1>2. /\ t \in Tty /\ u \in Tty /\ t # u /\ Names(u) = {} /\ TtysOf({c}) = {t, u}
      /\ {t, u} \in SUBSET Tty /\ r.tty[t] = NoTty /\ r.tty[u] = NoTty
  BY Ttys DEF TtysOf
<1>3. /\ i = ttyInit(r, t) /\ a = ttyCreate(i, t, At(fault, 1))
      /\ b = ttyCreate(a.r, u, At(fault, 2))
      /\ ca = ttyCleanup(a.r, {t, u}) /\ cb = ttyCleanup(b.r, {t, u})
  OBVIOUS
<1> SUFFICES ASSUME TRUE
             PROVE  /\ Good(x.r) /\ x.r.proc = r.proc /\ Kept(r, x.r, {t, u})
                    /\ x.ok \in BOOLEAN
                    /\ ~x.ok => x.r.tty[t] = NoTty /\ x.r.tty[u] = NoTty
  BY <1>2 DEF CmdCreated
<1> HIDE DEF t, u, i, a, b, ca, cb
<1>4. /\ Good(i) /\ i.proc = r.proc /\ i.path = r.path
      /\ \A v \in Tty \ {t} : i.tty[v] = r.tty[v]
      /\ i.tty[t].linked
      /\ i.tty[t].dfd = -1 /\ i.tty[t].sfd = -1 /\ i.tty[t].ifd = -1
  <2>1. i = ttyInit(r, t)
    BY <1>3
  <2>2. Good(i) /\ Inited(r, t, i)
    BY <1>2, <2>1, InitGood
  <2> QED BY <2>2 DEF Inited
<1>5. Kept(r, i, {t})
  BY <1>4 DEF Kept
<1>6. Created(i, t, a)
  BY <1>2, <1>3, <1>4, CreateGood
<1>7. Good(a.r) /\ a.r.proc = r.proc /\ Kept(r, a.r, {t}) /\ a.ok \in BOOLEAN
  <2>1. Good(a.r) /\ a.r.proc = i.proc /\ Kept(i, a.r, {t}) /\ a.ok \in BOOLEAN
    BY <1>6 DEF Created
  <2>2. Kept(r, a.r, {t} \cup {t})
    BY <1>5, <2>1, KeptTwice
  <2>3. {t} \cup {t} = {t}
    OBVIOUS
  <2> QED BY <1>4, <2>1, <2>2, <2>3
<1>8. ASSUME NEW q, Good(q), q.proc = r.proc, Kept(r, q, {t, u}), NEW s, s = ttyCleanup(q, {t, u})
      PROVE  /\ Good(s) /\ s.proc = r.proc /\ Kept(r, s, {t, u})
             /\ s.tty[t] = NoTty /\ s.tty[u] = NoTty
  <2>1. /\ Good(s) /\ s.proc = q.proc
        /\ \A v \in Tty : s.tty[v] = IF v \in {t, u} THEN NoTty ELSE q.tty[v]
    BY <1>2, <1>8, CleanupGood
  <2>2. Kept(q, s, {t, u})
    BY <1>2, <1>8, CleanupKept
  <2>3. Kept(r, s, {t, u} \cup {t, u})
    BY <1>8, <2>2, KeptTwice
  <2>4. {t, u} \cup {t, u} = {t, u}
    OBVIOUS
  <2> QED BY <1>2, <1>8, <2>1, <2>3, <2>4
<1>9. Kept(r, a.r, {t, u})
  BY <1>7 DEF Kept
<1>10. CASE ~a.ok
  <2>1. x.ok = FALSE /\ x.r = ca
    BY <1>1, <1>10
  <2>2. ca = ttyCleanup(a.r, {t, u})
    BY <1>3
  <2>3. /\ Good(ca) /\ ca.proc = r.proc /\ Kept(r, ca, {t, u})
        /\ ca.tty[t] = NoTty /\ ca.tty[u] = NoTty
    BY <1>7, <1>8, <1>9, <2>2
  <2> QED BY <2>1, <2>3
<1>11. CASE a.ok
  <2>1. a.r.tty[u] = NoTty
    BY <1>2, <1>7 DEF Kept
  <2>2. Created(a.r, u, b)
    BY <1>2, <1>3, <1>7, <2>1, CreateGood, Numbers
  <2>3. Good(b.r) /\ b.r.proc = a.r.proc /\ Kept(a.r, b.r, {u}) /\ b.ok \in BOOLEAN
    BY <2>2 DEF Created
  <2>4. Kept(r, b.r, {t} \cup {u})
    BY <1>7, <2>3, KeptTwice
  <2>5. {t} \cup {u} = {t, u}
    OBVIOUS
  <2>6. Good(b.r) /\ b.r.proc = r.proc /\ Kept(r, b.r, {t, u}) /\ b.ok \in BOOLEAN
    BY <1>7, <2>3, <2>4, <2>5
  <2>7. CASE ~b.ok
    <3>1. x.ok = FALSE /\ x.r = cb
      BY <1>1, <1>11, <2>7
    <3>2. cb = ttyCleanup(b.r, {t, u})
      BY <1>3
    <3>3. /\ Good(cb) /\ cb.proc = r.proc /\ Kept(r, cb, {t, u})
          /\ cb.tty[t] = NoTty /\ cb.tty[u] = NoTty
      BY <1>8, <2>6, <3>2
    <3> QED BY <3>1, <3>3
  <2>8. CASE b.ok
    <3>1. x = b
      BY <1>1, <1>11, <2>8
    <3> QED BY <2>6, <2>8, <3>1
  <2> QED BY <2>6, <2>7, <2>8
<1> QED BY <1>7, <1>10, <1>11

\* A refusal by cmdspecParse is a creation that has come to nothing.
LEMMA AddGood ==
  ASSUME NEW r, Good(r), NEW c \in Cmd, NEW fault,
         r.tty[Clt(c)] = NoTty, r.tty[Cmdt(c)] = NoTty,
         NEW a, a = GBLSAddCmd(r, c, fault)
  PROVE  CmdCreated(r, c, a)
<1>1. CASE a = cmdCreate(r, c, fault)
  BY <1>1, CmdCreateGood
<1>2. CASE a = [ok |-> FALSE, r |-> r]
  <2>1. a.r = r /\ a.ok = FALSE
    BY <1>2
  <2>2. Kept(r, r, TtysOf({c}))
    BY DEF Kept
  <2> QED BY <2>1, <2>2 DEF CmdCreated
<1> QED
  BY <1>1, <1>2 DEF GBLSAddCmd

\* cmdStop of the commands in C.
LEMMA StopGood ==
  ASSUME NEW r, Good(r), NEW C \in SUBSET Cmd, NEW q, q = StopAll(r, C)
  PROVE  /\ Good(q) /\ q.tty = r.tty /\ q.path = r.path /\ q.lost = r.lost
         /\ \A c \in Cmd : q.proc[c] = IF c \in C THEN NoProc ELSE r.proc[c]
<1> DEFINE g == [n \in Fd |-> IF \E c \in C : r.proc[c].pidfd = n THEN Unused ELSE r.fds[n]]
           z == [c \in Cmd |-> IF c \in C THEN NoProc ELSE r.proc[c]]
<1>1. /\ r \in Res /\ GoodFds(r.fds, r.tty, r.proc, r.lost) /\ GoodPath(r.path, r.tty)
      /\ r.fds \in [Fd -> Label] /\ r.tty \in [Tty -> TtyRec]
      /\ r.proc \in [Cmd -> ProcRec] /\ r.lost \in SUBSET Fd
  BY ResFields DEF Good
<1>2. q = [[r EXCEPT !.fds = g] EXCEPT !.proc = z]
  BY DEF StopAll
<1>3. g \in [Fd -> Label] /\ \A n \in Fd : g[n] = IF \E c \in C : r.proc[c].pidfd = n
                                                  THEN Unused ELSE r.fds[n]
  BY <1>1 DEF Label
<1>4. z \in [Cmd -> ProcRec] /\ \A c \in Cmd : z[c] = IF c \in C THEN NoProc ELSE r.proc[c]
  BY <1>1, Numbers
<1> HIDE DEF g, z
<1>5. ProcsClose(r.fds, r.proc, C, g, z)
  BY <1>3, <1>4 DEF ProcsClose
<1>6. GoodFds(g, r.tty, z, r.lost)
  BY <1>1, <1>4, <1>5, ClosedProcs
<1>7. /\ q.fds = g /\ q.path = r.path /\ q.tty = r.tty /\ q.proc = z
      /\ q.lost = r.lost /\ q \in Res
  BY <1>1, <1>2, <1>3, <1>4 DEF Res
<1> QED BY <1>1, <1>4, <1>6, <1>7 DEF Good

\* cmdCleanup of the commands in C.
LEMMA CleanGood ==
  ASSUME NEW r, Good(r), NEW C \in SUBSET Cmd, NEW q, q = CleanCmds(r, C)
  PROVE  /\ Good(q) /\ Kept(r, q, TtysOf(C)) /\ q.lost = r.lost
         /\ \A t \in Tty : q.tty[t] = IF t \in TtysOf(C) THEN NoTty ELSE r.tty[t]
         /\ \A c \in Cmd : q.proc[c] = IF c \in C THEN NoProc ELSE r.proc[c]
<1> DEFINE s == StopAll(r, C)
           T == TtysOf(C)
<1>1. q = ttyCleanup(s, T) /\ s = StopAll(r, C)
  BY DEF CleanCmds, TtysOf
<1>2. T \in SUBSET Tty
  BY Ttys DEF TtysOf
<1> SUFFICES /\ Good(q) /\ Kept(r, q, T) /\ q.lost = r.lost
             /\ \A t \in Tty : q.tty[t] = IF t \in T THEN NoTty ELSE r.tty[t]
             /\ \A c \in Cmd : q.proc[c] = IF c \in C THEN NoProc ELSE r.proc[c]
  OBVIOUS
<1> HIDE DEF s, T
<1>3. /\ Good(s) /\ s.tty = r.tty /\ s.path = r.path /\ s.lost = r.lost
      /\ \A c \in Cmd : s.proc[c] = IF c \in C THEN NoProc ELSE r.proc[c]
  BY <1>1, StopGood
<1>4. /\ Good(q) /\ q.proc = s.proc /\ q.lost = s.lost
      /\ \A t \in Tty : q.tty[t] = IF t \in T THEN NoTty ELSE s.tty[t]
  BY <1>1, <1>2, <1>3, CleanupGood
<1>5. Kept(s, q, T)
  BY <1>1, <1>2, <1>3, CleanupKept
<1>6. Kept(r, q, T)
  BY <1>3, <1>5 DEF Kept
<1> QED BY <1>3, <1>4, <1>6

-----------------------------------------------------------------------------
(* The steps *)

\* From r to q the ttys of T have changed and processes may have ended; D are
\* then the commands and e is bcstflg.
Moves(r, q, T, C, D, b, e) ==
  /\ Kept(r, q, T)
  /\ \A c \in Cmd : q.proc[c] = r.proc[c] \/ q.proc[c] = NoProc
  /\ \A c \in Cmd \ D :
       \/ c \notin C /\ Clt(c) \notin T /\ Cmdt(c) \notin T
       \/ q.proc[c] = NoProc /\ q.tty[Clt(c)] = NoTty /\ q.tty[Cmdt(c)] = NoTty
  /\ ~e => ~b /\ (Bcst \notin T \/ q.tty[Bcst] = NoTty)

\* What fits still fits after such a move.
LEMMA FitsMoved ==
  ASSUME NEW r, NEW q, NEW T, NEW C, NEW D, NEW m, NEW b, NEW e,
         Fits(r, C, m, b), Good(q), Moves(r, q, T, C, D, b, e)
  PROVE  Fits(q, D, m, e)
<1>1. Absent(q, D)
  <2> SUFFICES ASSUME NEW c \in Cmd \ D
               PROVE  /\ q.proc[c] = NoProc /\ q.tty[Clt(c)] = NoTty
                      /\ q.tty[Cmdt(c)] = NoTty
    BY DEF Absent
  <2>1. CASE c \notin C /\ Clt(c) \notin T /\ Cmdt(c) \notin T
    <3>1. r.proc[c] = NoProc /\ r.tty[Clt(c)] = NoTty /\ r.tty[Cmdt(c)] = NoTty
      BY <2>1 DEF Fits, Absent
    <3>2. q.tty[Clt(c)] = r.tty[Clt(c)] /\ q.tty[Cmdt(c)] = r.tty[Cmdt(c)]
      BY <2>1, Ttys DEF Moves, Kept
    <3> QED BY <3>1, <3>2 DEF Moves
  <2> QED BY <2>1 DEF Moves
<1>2. \A c \in Cmd : q.proc[c].died => q.proc[c].pidfd # -1
  BY Numbers DEF Moves, Fits
<1>3. GoodMount(q.path, m)
  BY DEF Fits, Moves, Kept, GoodMount
<1>4. ASSUME ~e PROVE NoBcst(q)
  <2>1. ~b /\ (Bcst \notin T \/ q.tty[Bcst] = NoTty)
    BY <1>4 DEF Moves
  <2>2. NoBcst(r)
    BY <2>1 DEF Fits
  <2>3. CASE Bcst \notin T
    <3>1. q.tty[Bcst] = r.tty[Bcst]
      BY <2>3, Ttys DEF Moves, Kept
    <3>2. \A p \in Path : \A k \in DOMAIN Links[Bcst] :
            q.path[p] = Link(Bcst, k) => r.path[p] = Link(Bcst, k)
      BY <2>3, Ttys DEF Moves, Kept
    <3> QED BY <2>2, <3>1, <3>2 DEF NoBcst
  <2>4. CASE q.tty[Bcst] = NoTty
    <3>1. \A p \in Path : \A k \in DOMAIN Links[Bcst] : q.path[p] # Link(Bcst, k)
      BY <2>4, Ttys, Numbers DEF Good, GoodPath
    <3> QED BY <2>4, <3>1, Numbers DEF NoBcst
  <2> QED BY <2>1, <2>3, <2>4
<1> QED BY <1>1, <1>2, <1>3, <1>4 DEF Fits

\* What yar has left when cleanup has run: nothing with a number or a name.
Nothing(q) ==
  /\ Fits(q, {}, FALSE, FALSE)
  /\ \A t \in Tty : q.tty[t].dfd = -1
  /\ \A p \in Path : q.path[p] \in {Gone, File, Broken}

\* cleanup.
LEMMA CleanupComplete ==
  ASSUME NEW r, Fits(r, cmds, mkdir, bcstflg), cmds \subseteq Cmd,
         bcstflg \in BOOLEAN, mkdir \in BOOLEAN,
         NEW q, q = CleanedUp(r, IF bcstflg THEN {Bcst} ELSE {})
  PROVE  Nothing(q)
<1> DEFINE B == IF bcstflg THEN {Bcst} ELSE {}
           s == CleanCmds(r, cmds)
           T == TtysOf(cmds)
           U == B \cup {Mon}
           x == ttyCleanup(s, U)
<1>1. q = IF mkdir THEN [x EXCEPT !.path[MntPt] = Gone] ELSE x
  BY DEF CleanedUp
<1>2. s = CleanCmds(r, cmds) /\ x = ttyCleanup(s, U) /\ cmds \in SUBSET Cmd
  OBVIOUS
<1>3. U \in SUBSET Tty /\ Mon \in U /\ (Bcst \in U <=> bcstflg) /\ T = TtysOf(cmds)
  BY Ttys
<1>4. \A t \in Tty \ (T \cup U) :
        \/ t = Bcst /\ ~bcstflg
        \/ \E c \in Cmd \ cmds : t = Clt(c) \/ t = Cmdt(c)
  BY <1>3, Ttys DEF TtysOf
<1>5. \A c \in cmds : Clt(c) \in T /\ Cmdt(c) \in T
  BY DEF TtysOf
<1> HIDE DEF B, s, T, U, x
<1>6. Good(r) /\ Absent(r, cmds) /\ GoodMount(r.path, mkdir) /\ (~bcstflg => NoBcst(r))
  BY DEF Fits
<1>7. /\ Good(s) /\ Kept(r, s, T)
      /\ \A t \in Tty : s.tty[t] = IF t \in T THEN NoTty ELSE r.tty[t]
      /\ \A c \in Cmd : s.proc[c] = IF c \in cmds THEN NoProc ELSE r.proc[c]
  BY <1>2, <1>3, <1>6, CleanGood
<1>8. /\ Good(x) /\ x.proc = s.proc
      /\ \A t \in Tty : x.tty[t] = IF t \in U THEN NoTty ELSE s.tty[t]
  BY <1>2, <1>3, <1>7, CleanupGood
<1>9. Kept(s, x, U)
  BY <1>2, <1>3, <1>7, CleanupKept
<1>10. Kept(r, x, T \cup U)
  BY <1>7, <1>9, KeptTwice
<1>11. \A c \in Cmd : x.proc[c] = NoProc
  BY <1>6, <1>7, <1>8 DEF Absent
<1>12. \A t \in Tty : x.tty[t] = NoTty \/ (t = Bcst /\ ~bcstflg /\ x.tty[t] = r.tty[t])
  <2> SUFFICES ASSUME NEW t \in Tty
               PROVE  x.tty[t] = NoTty \/ (t = Bcst /\ ~bcstflg /\ x.tty[t] = r.tty[t])
    OBVIOUS
  <2>1. CASE t \in T \cup U
    BY <1>7, <1>8, <2>1
  <2>2. CASE t \notin T \cup U
    <3>1. x.tty[t] = r.tty[t]
      BY <1>7, <1>8, <2>2
    <3>2. CASE \E c \in Cmd \ cmds : t = Clt(c) \/ t = Cmdt(c)
      BY <1>6, <3>1, <3>2 DEF Absent
    <3>3. CASE t = Bcst /\ ~bcstflg
      BY <3>1, <3>3
    <3> QED BY <1>4, <2>2, <3>2, <3>3
  <2> QED BY <2>1, <2>2
<1>13. \A t \in Tty : x.tty[t].dfd = -1 /\ x.tty[t].sfd = -1 /\ x.tty[t].ifd = -1
  BY <1>6, <1>12, Numbers DEF NoBcst
<1>14. \A p \in Path : \A t \in Tty : \A k \in DOMAIN Links[t] : x.path[p] # Link(t, k)
  <2> SUFFICES ASSUME NEW p \in Path, NEW t \in Tty, NEW k \in DOMAIN Links[t],
                      x.path[p] = Link(t, k)
               PROVE  FALSE
    OBVIOUS
  <2>1. x.tty[t].linked
    BY <1>8 DEF Good, GoodPath
  <2>2. t = Bcst /\ ~bcstflg
    BY <1>12, <2>1, Numbers
  <2>3. Bcst \notin T \cup U
    BY <1>3, <2>2, Ttys DEF T, TtysOf
  <2>4. r.path[p] = Link(Bcst, k)
    BY <1>10, <2>2, <2>3 DEF Kept
  <2> QED BY <1>6, <2>2, <2>4 DEF NoBcst
<1>15. \A p \in Path : x.path[p] = Mount => p = MntPt /\ mkdir
  BY <1>6, <1>10 DEF Kept, GoodMount
<1>16. \A p \in Path : x.path[p] \in {Gone, File, Broken, Mount}
  <2>1. x.path \in [Path -> What]
    BY <1>8, ResFields DEF Good
  <2> QED BY <1>14, <2>1, Whats
<1>17. /\ Good(q) /\ q.proc = x.proc /\ q.tty = x.tty
       /\ \A p \in Path : q.path[p] \in {Gone, File, Broken}
  <2>1. CASE ~mkdir
    BY <1>1, <1>8, <1>15, <1>16, <2>1
  <2>2. CASE mkdir
    <3> DEFINE z == [x.path EXCEPT ![MntPt] = Gone]
    <3>1. x \in Res /\ x.path \in [Path -> What] /\ MntPt \in Path
      BY <1>8, ResFields, ResourceAssumption DEF Good
    <3>2. q = [x EXCEPT !.path = z]
      BY <1>1, <2>2, <3>1 DEF Res
    <3>3. /\ z \in [Path -> What]
          /\ \A p \in Path : z[p] = IF p = MntPt THEN Gone ELSE x.path[p]
      BY <3>1, Whats
    <3> HIDE DEF z
    <3>4. /\ q \in Res /\ q.path = z /\ q.fds = x.fds /\ q.tty = x.tty /\ q.proc = x.proc
          /\ q.lost = x.lost
      BY <3>1, <3>2, <3>3 DEF Res
    <3>5. GoodPath(z, x.tty)
      BY <1>8, <3>3, Whats DEF Good, GoodPath
    <3>6. \A p \in Path : z[p] \in {Gone, File, Broken}
      BY <1>15, <1>16, <3>3
    <3> QED BY <1>8, <3>4, <3>5, <3>6 DEF Good
  <2> QED BY <2>1, <2>2
<1>18. Absent(q, {})
  <2>1. \A c \in Cmd : x.tty[Clt(c)] = NoTty /\ x.tty[Cmdt(c)] = NoTty
    BY <1>12, Ttys
  <2> QED BY <1>11, <1>17, <2>1 DEF Absent
<1>19. NoBcst(q)
  <2>1. \A p \in Path : \A k \in DOMAIN Links[Bcst] : q.path[p] # Link(Bcst, k)
    BY <1>17, Whats
  <2> QED BY <1>13, <1>17, <2>1, Ttys DEF NoBcst
<1>20. GoodMount(q.path, FALSE)
  BY <1>17, Whats DEF GoodMount
<1>21. Fits(q, {}, FALSE, FALSE)
  <2>1. \A c \in Cmd : q.proc[c].died => q.proc[c].pidfd # -1
    BY <1>11, <1>17, Numbers
  <2> QED BY <1>17, <1>18, <1>19, <1>20, <2>1 DEF Fits
<1> QED BY <1>13, <1>17, <1>21 DEF Nothing

\* What fits if there is no broadcast tty fits whatever bcstflg says.
LEMMA FitsAny ==
  ASSUME NEW r, NEW C, NEW m, NEW b, Fits(r, C, m, FALSE)
  PROVE  Fits(r, C, m, b)
BY DEF Fits

\* The resource part of the next state.
LEMMA NextR ==
  ASSUME NEW q, q \in Res, Becomes(q)
  PROVE  R' = q
BY DEF Becomes, R, Res

\* The fields of R.
LEMMA RFields ==
  /\ R.fds = fds /\ R.path = path /\ R.tty = tty /\ R.proc = proc /\ R.lost = lost
  /\ R'.fds = fds' /\ R'.path = path' /\ R'.tty = tty' /\ R'.proc = proc' /\ R'.lost = lost'
BY DEF R

\* The step of LinksKept
LinkStep ==
  \A t \in Tty : Lives(t) =>
    \A k \in DOMAIN Links[t] :
      LET p == Links[t][k]
      IN  path[p] = Link(t, k) =>
            \/ path'[p] = path[p]
            \/ UserRemove(p)
            \/ \E u \in Tty \ {t} : p \in Names(u) /\ ~Lives(u)

\* Exit.
LEMMA ExitStep ==
  ASSUME NEW r, Fits(r, cmds, mkdir, bcstflg), Others, NEW n \in {1, 2}, Exit(r, n)
  PROVE  /\ Nothing(R') /\ phase' = "exited" /\ cmds' = {} /\ mkdir' = FALSE
         /\ CleanExit' /\ LinkStep
         /\ logfree' \in 0..2
<1> DEFINE q == CleanedUp(r, IF bcstflg THEN {Bcst} ELSE {})
<1>1. Becomes(q) /\ phase' = "exited" /\ cmds' = {} /\ mkdir' = FALSE
      /\ logfree' = IF UseLog THEN n ELSE 0
  BY DEF Exit
<1>2. q = CleanedUp(r, IF bcstflg THEN {Bcst} ELSE {})
  OBVIOUS
<1> HIDE DEF q
<1>3. Nothing(q)
  BY <1>2, CleanupComplete DEF Others
<1>4. R' = q
  BY <1>1, <1>3, NextR DEF Nothing, Fits, Good
<1>5. CleanExit'
  BY <1>3, <1>4, RFields DEF Nothing, CleanExit
<1>6. LinkStep
  <2>1. \A t \in Tty : tty'[t].dfd = -1
    BY <1>3, <1>4, RFields DEF Nothing
  <2> QED BY <2>1 DEF LinkStep, Lives
<1>7. logfree' \in 0..2
  BY <1>1
<1> QED BY <1>1, <1>3, <1>4, <1>5, <1>6, <1>7

\* Any other step that touches no tty that lives before and after.
LEMMA MoveLinks ==
  ASSUME NEW q, Becomes(q), NEW T, Kept(R, q, T),
         \A t \in T \cap Tty : tty[t].dfd = -1 \/ q.tty[t].dfd = -1, T \subseteq Tty
  PROVE  LinkStep
<1> SUFFICES ASSUME NEW t \in Tty, tty[t].dfd # -1, tty'[t].dfd # -1,
                    NEW k \in DOMAIN Links[t]
             PROVE  \/ path'[Links[t][k]] = path[Links[t][k]]
                    \/ \E u \in Tty \ {t} : Links[t][k] \in Names(u) /\ ~Lives(u)
  BY DEF LinkStep, Lives
<1>1. path' = q.path /\ tty' = q.tty
  BY DEF Becomes
<1>2. Links[t][k] \in Path
  BY NamesAre
<1>3. t \notin T
  BY <1>1
<1>4. \/ q.path[Links[t][k]] = path[Links[t][k]]
      \/ \E u \in T : Links[t][k] \in Names(u)
  BY <1>2, RFields DEF Kept
<1>5. \A u \in T : u \in Tty /\ ~Lives(u)
  BY <1>1 DEF Lives
<1> QED BY <1>1, <1>3, <1>4, <1>5

\* The flags and counters are of the type they should be after an exit.
ExitFlags ==
  /\ next' = next /\ user' = user /\ ops' \in 0..MaxOps
  /\ bcstflg' \in BOOLEAN /\ exitonidle' \in BOOLEAN /\ delonexit' \subseteq Cmd

\* A step that ends with exit.
LEMMA ExitInv ==
  ASSUME ResInv, NEW r, Fits(r, cmds, mkdir, bcstflg), NEW n \in {1, 2}, Exit(r, n),
         ExitFlags
  PROVE  ResInv' /\ LinkStep
<1>1. /\ Nothing(R') /\ phase' = "exited" /\ cmds' = {} /\ mkdir' = FALSE
      /\ CleanExit' /\ LinkStep
      /\ logfree' \in 0..2
  BY ExitStep DEF ResInv
<1>2. Fits(R', cmds', mkdir', bcstflg')
  BY <1>1, FitsAny DEF Nothing
<1>3. Others'
  BY <1>1 DEF ResInv, Others, ExitFlags
<1>4. Phased'
  BY <1>1 DEF Phased
<1> QED BY <1>1, <1>2, <1>3, <1>4 DEF ResInv

\* ttyInit and ttyCreate of a tty that has nothing.
LEMMA InitCreate ==
  ASSUME NEW r, Good(r), NEW t \in Tty, r.tty[t] = NoTty, NEW fault,
         NEW a, a = ttyCreate(ttyInit(r, t), t, fault)
  PROVE  /\ Good(a.r) /\ a.r.proc = r.proc /\ Kept(r, a.r, {t}) /\ a.ok \in BOOLEAN
         /\ ~a.ok => a.r.tty[t] = NoTty
         /\ a.ok => a.r.tty[t].linked
<1> DEFINE i == ttyInit(r, t)
<1>1. i = ttyInit(r, t) /\ a = ttyCreate(i, t, fault)
  OBVIOUS
<1> HIDE DEF i
<1>2. Good(i) /\ Inited(r, t, i)
  BY <1>1, InitGood
<1>3. /\ i.proc = r.proc /\ i.path = r.path /\ \A u \in Tty \ {t} : i.tty[u] = r.tty[u]
      /\ i.tty[t].linked /\ i.tty[t].dfd = -1 /\ i.tty[t].sfd = -1 /\ i.tty[t].ifd = -1
  BY <1>2 DEF Inited
<1>4. Created(i, t, a)
  BY <1>1, <1>2, <1>3, CreateGood
<1>5. /\ Good(a.r) /\ a.r.proc = i.proc /\ Kept(i, a.r, {t}) /\ a.ok \in BOOLEAN
      /\ ~a.ok => a.r.tty[t] = NoTty
      /\ a.ok => a.r.tty[t].linked = i.tty[t].linked
  BY <1>4 DEF Created
<1>6. Kept(r, a.r, {t})
  BY <1>3, <1>5 DEF Kept
<1> QED BY <1>3, <1>5, <1>6

\* The monitor tty is created, or yar exits.
LEMMA StartMonStep ==
  ASSUME ResInv, StartMon
  PROVE  ResInv' /\ LinkStep
<1>1. PICK f \in Fault :
        LET a == ttyCreate(ttyInit(R, Mon), Mon, At(f, 1))
        IN  IF a.ok
            THEN /\ Becomes(a.r) /\ phase' = "fs"
                 /\ UNCHANGED <<mkdir, cmds, policy, logfree>>
            ELSE Exit(a.r, 1) /\ UNCHANGED policy
  BY DEF StartMon
<1> DEFINE a == ttyCreate(ttyInit(R, Mon), Mon, At(f, 1))
<1>2. /\ phase = "mon" /\ UNCHANGED <<next, user, ops>>
      /\ a.ok => /\ Becomes(a.r) /\ phase' = "fs"
                 /\ UNCHANGED <<mkdir, cmds, policy, logfree>>
      /\ ~a.ok => Exit(a.r, 1) /\ UNCHANGED policy
  BY <1>1 DEF StartMon
<1>3. a = ttyCreate(ttyInit(R, Mon), Mon, At(f, 1))
  OBVIOUS
<1> HIDE DEF a
<1>4. Good(R) /\ Mon \in Tty /\ R.tty[Mon] = NoTty /\ tty[Mon] = NoTty
  BY <1>2, Ttys, RFields DEF ResInv, Fits, Phased
<1>5. /\ Good(a.r) /\ a.r.proc = R.proc /\ Kept(R, a.r, {Mon}) /\ a.ok \in BOOLEAN
      /\ ~a.ok => a.r.tty[Mon] = NoTty
      /\ a.ok => a.r.tty[Mon].linked
  BY <1>3, <1>4, InitCreate
<1>6. Fits(a.r, cmds, mkdir, bcstflg)
  <2>1. Moves(R, a.r, {Mon}, cmds, cmds, bcstflg, bcstflg)
    BY <1>5, Ttys DEF Moves
  <2> QED BY <1>5, <2>1, FitsMoved DEF ResInv
<1>7. CASE ~a.ok
  <2>1. ExitFlags
    BY <1>2, <1>7 DEF ExitFlags, policy, ResInv, Others
  <2> QED BY <1>2, <1>6, <1>7, <2>1, ExitInv
<1>8. CASE a.ok
  <2>1. /\ Becomes(a.r) /\ phase' = "fs"
        /\ UNCHANGED <<mkdir, cmds, bcstflg, exitonidle, delonexit, logfree, next, user, ops>>
    BY <1>2, <1>8 DEF policy
  <2>2. R' = a.r
    BY <1>5, <2>1, NextR DEF Good
  <2>3. Fits(R', cmds', mkdir', bcstflg')
    BY <1>6, <2>1, <2>2
  <2>4. Others'
    BY <2>1 DEF ResInv, Others
  <2>5. Phased'
    <3>1. tty'[Bcst] = tty[Bcst]
      BY <1>5, <2>2, Ttys, RFields DEF Kept
    <3> QED BY <1>2, <2>1, <3>1 DEF ResInv, Phased
  <2>6. CleanExit'
    BY <1>2, <2>1 DEF ResInv, CleanExit, Phased
  <2>7. LinkStep
    <3>1. tty[Mon].dfd = -1
      BY <1>4, Numbers
    <3> QED BY <1>4, <1>5, <2>1, <3>1, MoveLinks
  <2> QED BY <2>3, <2>4, <2>5, <2>6, <2>7 DEF ResInv
<1> QED BY <1>5, <1>7, <1>8

\* A step that goes on, or ends without cleanup.
LEMMA MoveInv ==
  ASSUME ResInv, NEW q, NEW T, Fits(q, cmds', mkdir', bcstflg'), Becomes(q),
         Kept(R, q, T), T \subseteq Tty,
         \A t \in T : tty[t].dfd = -1 \/ q.tty[t].dfd = -1,
         phase # "exited", phase' # "exited", logfree' = logfree, Others', Phased'
  PROVE  ResInv' /\ LinkStep
<1>1. R' = q
  BY NextR DEF Fits, Good
<1>2. LinkStep
  BY MoveLinks
<1>3. CleanExit'
  BY DEF CleanExit, ResInv, Phased
<1> QED BY <1>1, <1>2, <1>3 DEF ResInv

\* The mount point is made, or yar exits.
LEMMA StartFsStep ==
  ASSUME ResInv, StartFs
  PROVE  ResInv' /\ LinkStep
<1>1. phase = "fs" /\ UNCHANGED <<next, user, ops>>
  BY DEF StartFs
<1>2. CASE Exit(R, 1) /\ UNCHANGED policy
  <2>1. ExitFlags
    BY <1>1, <1>2 DEF ExitFlags, policy, ResInv, Others
  <2>2. Fits(R, cmds, mkdir, bcstflg)
    BY DEF ResInv
  <2> QED BY <1>2, <2>1, <2>2, ExitInv
<1>3. CASE /\ path[MntPt] = Gone
           /\ phase' = "cmds" /\ mkdir' = TRUE
           /\ Becomes([R EXCEPT !.path[MntPt] = Mount])
           /\ UNCHANGED <<cmds, policy, logfree>>
  <2> DEFINE z == [path EXCEPT ![MntPt] = Mount]
             q == [R EXCEPT !.path = z]
  <2>1. /\ Fits(R, cmds, mkdir, bcstflg) /\ Good(R) /\ R \in Res /\ MntPt \in Path
        /\ path \in [Path -> What] /\ ~mkdir
    BY <1>1, RFields, ResFields, ResourceAssumption DEF ResInv, Fits, Good, Phased
  <2>2. Becomes(q)
    BY <1>3, RFields
  <2>3. z \in [Path -> What] /\ \A p \in Path : z[p] = IF p = MntPt THEN Mount ELSE path[p]
    BY <2>1, Whats
  <2> HIDE DEF z
  <2>4. /\ q \in Res /\ q.fds = R.fds /\ q.path = z /\ q.tty = R.tty /\ q.proc = R.proc
        /\ q.lost = R.lost
    BY <2>1, <2>3 DEF Res
  <2> HIDE DEF q
  <2>5. R' = q
    BY <2>2, <2>4, NextR
  <2>6. Good(q)
    <3>1. GoodPath(z, R.tty)
      BY <2>1, <2>3, Whats, RFields DEF Good, GoodPath
    <3> QED BY <2>1, <2>4, <3>1 DEF Good
  <2>7. GoodMount(z, TRUE)
    BY <2>1, <2>3, RFields DEF Fits, GoodMount
  <2>8. ~bcstflg => NoBcst(q)
    BY <2>1, <2>3, <2>4, Whats, RFields DEF Fits, NoBcst
  <2>9. Absent(q, cmds)
    BY <2>1, <2>4 DEF Fits, Absent
  <2>10. Fits(q, cmds', mkdir', bcstflg')
    BY <1>3, <2>1, <2>4, <2>6, <2>7, <2>8, <2>9 DEF Fits, policy
  <2>11. Others'
    BY <1>1, <1>3 DEF ResInv, Others, policy
  <2>12. Phased'
    <3>1. tty' = tty
      BY <2>4, <2>5, RFields
    <3> QED BY <1>1, <1>3, <3>1 DEF ResInv, Phased
  <2>13. LinkStep
    <3>1. path' = z
      BY <2>4, <2>5, RFields
    <3>2. \A t \in Tty : \A k \in DOMAIN Links[t] : Links[t][k] \in Path
      BY NamesAre
    <3>3. ASSUME NEW t \in Tty, NEW k \in DOMAIN Links[t],
                 path[Links[t][k]] = Link(t, k)
          PROVE  path'[Links[t][k]] = path[Links[t][k]]
      BY <1>3, <2>3, <3>1, <3>2, <3>3, Whats
    <3> QED BY <3>3 DEF LinkStep
  <2>14. CleanExit'
    BY <1>1, <1>3 DEF CleanExit, ResInv, Phased
  <2> QED BY <2>5, <2>10, <2>11, <2>12, <2>13, <2>14 DEF ResInv
<1> QED BY <1>2, <1>3 DEF StartFs

\* An initial command is created, or an assert ends yar.
LEMMA StartCmdStep ==
  ASSUME ResInv, StartCmd
  PROVE  ResInv' /\ LinkStep
<1> DEFINE c == Initial[next]
<1>1. PICK f \in Fault :
        LET a == IF c \in cmds THEN [ok |-> FALSE, r |-> R] ELSE GBLSAddCmd(R, c, f)
        IN  IF a.ok
            THEN /\ Becomes(a.r)
                 /\ cmds' = cmds \cup {c} /\ next' = next + 1
                 /\ UNCHANGED phase
            ELSE /\ Becomes(a.r) /\ phase' = "aborted"
                 /\ UNCHANGED <<cmds, next>>
  BY DEF StartCmd
<1> DEFINE x == GBLSAddCmd(R, c, f)
<1>2. /\ phase = "cmds" /\ next <= Len(Initial)
      /\ UNCHANGED <<mkdir, bcstflg, exitonidle, delonexit, logfree, user, ops>>
  BY DEF StartCmd, policy
<1>3. c \in Cmd
  <2>1. next \in 1..Len(Initial)
    BY <1>2 DEF ResInv, Others
  <2> QED BY <2>1, ResourceAssumption, ElementOfSeq
<1>4. CASE c \in cmds
  <2>1. Becomes(R) /\ phase' = "aborted" /\ UNCHANGED <<cmds, next>>
    BY <1>1, <1>4
  <2>2. Kept(R, R, {}) /\ {} \subseteq Tty
    BY DEF Kept
  <2>3. Fits(R, cmds', mkdir', bcstflg')
    BY <1>2, <2>1 DEF ResInv
  <2>4. Others' /\ Phased'
    BY <1>2, <2>1 DEF ResInv, Others, Phased
  <2> QED BY <1>2, <2>1, <2>2, <2>3, <2>4, MoveInv
<1>5. CASE c \notin cmds
  <2>1. /\ Becomes(x.r)
        /\ x.ok => cmds' = cmds \cup {c} /\ next' = next + 1 /\ phase' = phase
        /\ ~x.ok => phase' = "aborted" /\ cmds' = cmds /\ next' = next
    BY <1>1, <1>5
  <2>2. x = GBLSAddCmd(R, c, f)
    OBVIOUS
  <2> HIDE DEF x, c
  <2>3. /\ Fits(R, cmds, mkdir, bcstflg) /\ Good(R) /\ R.tty[Clt(c)] = NoTty
        /\ R.tty[Cmdt(c)] = NoTty /\ R.proc[c] = NoProc
    BY <1>3, <1>5 DEF ResInv, Fits, Absent
  <2>4. CmdCreated(R, c, x)
    BY <1>3, <2>2, <2>3, AddGood
  <2>5. /\ Good(x.r) /\ x.r.proc = R.proc /\ Kept(R, x.r, TtysOf({c})) /\ x.ok \in BOOLEAN
        /\ ~x.ok => x.r.tty[Clt(c)] = NoTty /\ x.r.tty[Cmdt(c)] = NoTty
    BY <2>4 DEF CmdCreated
  <2>6. TtysOf({c}) = {Clt(c), Cmdt(c)} /\ TtysOf({c}) \subseteq Tty /\ Bcst \notin TtysOf({c})
        /\ Mon \notin TtysOf({c})
    BY <1>3, Ttys DEF TtysOf
  <2>7. Fits(x.r, cmds', mkdir', bcstflg')
    <3>1. \A d \in Cmd \ cmds' : d = c => ~x.ok
      BY <2>1, <2>5
    <3>2. \A d \in Cmd \ cmds' : d \notin cmds
      BY <2>1, <2>5
    <3>3. \A d \in Cmd : d # c => Clt(d) \notin TtysOf({c}) /\ Cmdt(d) \notin TtysOf({c})
      BY <1>3, <2>6, Ttys
    <3>4. \A d \in Cmd \ cmds' :
            \/ d \notin cmds /\ Clt(d) \notin TtysOf({c}) /\ Cmdt(d) \notin TtysOf({c})
            \/ x.r.proc[d] = NoProc /\ x.r.tty[Clt(d)] = NoTty /\ x.r.tty[Cmdt(d)] = NoTty
      BY <2>3, <2>5, <3>1, <3>2, <3>3
    <3>5. Moves(R, x.r, TtysOf({c}), cmds, cmds', bcstflg, bcstflg)
      BY <2>5, <2>6, <3>4 DEF Moves
    <3>6. Fits(x.r, cmds', mkdir, bcstflg)
      BY <2>3, <2>5, <3>5, FitsMoved
    <3> QED BY <1>2, <3>6
  <2>8. R' = x.r
    BY <2>1, <2>5, NextR DEF Good
  <2>9. Others'
    BY <1>2, <1>3, <2>1, <2>5, ResourceAssumption, LenProperties DEF ResInv, Others
  <2>10. Phased'
    <3>1. tty'[Bcst] = tty[Bcst]
      BY <2>5, <2>6, <2>8, Ttys, RFields DEF Kept
    <3> QED BY <1>2, <2>1, <2>5, <3>1 DEF ResInv, Phased
  <2>11. \A t \in TtysOf({c}) : tty[t].dfd = -1
    BY <2>3, <2>6, RFields, Numbers
  <2>12. phase # "exited" /\ phase' # "exited" /\ logfree' = logfree
    BY <1>2, <2>1, <2>5
  <2> QED BY <2>1, <2>5, <2>6, <2>7, <2>9, <2>10, <2>11, <2>12, MoveInv
<1> QED BY <1>4, <1>5

\* The broadcast tty is created if it is wanted, or yar exits.
LEMMA StartBcstStep ==
  ASSUME ResInv, StartBcst
  PROVE  ResInv' /\ LinkStep
<1>1. PICK f \in Fault :
        LET a == ttyCreate(ttyInit(R, Bcst), Bcst, At(f, 1))
        IN  IF ~bcstflg
            THEN /\ Becomes(ttyInit(R, Bcst)) /\ phase' = "loop"
                 /\ UNCHANGED <<mkdir, cmds, policy, logfree>>
            ELSE IF a.ok
            THEN /\ Becomes(a.r) /\ phase' = "loop"
                 /\ UNCHANGED <<mkdir, cmds, policy, logfree>>
            ELSE Exit(a.r, 1) /\ UNCHANGED policy
  BY DEF StartBcst
<1> DEFINE a == ttyCreate(ttyInit(R, Bcst), Bcst, At(f, 1))
           i == ttyInit(R, Bcst)
<1>2. /\ phase = "cmds" /\ UNCHANGED <<next, user, ops>>
      /\ ~bcstflg => /\ Becomes(i) /\ phase' = "loop"
                     /\ UNCHANGED <<mkdir, cmds, policy, logfree>>
      /\ bcstflg /\ a.ok => /\ Becomes(a.r) /\ phase' = "loop"
                            /\ UNCHANGED <<mkdir, cmds, policy, logfree>>
      /\ bcstflg /\ ~a.ok => Exit(a.r, 1) /\ UNCHANGED policy
  BY <1>1 DEF StartBcst
<1>3. a = ttyCreate(ttyInit(R, Bcst), Bcst, At(f, 1)) /\ i = ttyInit(R, Bcst)
  OBVIOUS
<1> HIDE DEF a, i
<1>4. /\ Good(R) /\ Bcst \in Tty /\ R.tty[Bcst] = NoTty /\ tty[Bcst] = NoTty
      /\ bcstflg \in BOOLEAN /\ tty[Bcst].dfd = -1
  BY <1>2, Ttys, RFields, Numbers DEF ResInv, Fits, Phased, Others
<1>5. ASSUME NEW q, Good(q), q.proc = R.proc, Kept(R, q, {Bcst}),
             bcstflg \/ q.tty[Bcst] = NoTty
      PROVE  Fits(q, cmds, mkdir, bcstflg)
  <2>1. Moves(R, q, {Bcst}, cmds, cmds, bcstflg, bcstflg)
    BY <1>5, Ttys DEF Moves
  <2> QED BY <1>5, <2>1, FitsMoved DEF ResInv
<1>6. ASSUME NEW q, Fits(q, cmds, mkdir, bcstflg), Kept(R, q, {Bcst}), Becomes(q),
             q.tty[Bcst].linked, phase' = "loop",
             UNCHANGED <<mkdir, cmds, policy, logfree>>
      PROVE  ResInv' /\ LinkStep
  <2>1. UNCHANGED <<mkdir, cmds, bcstflg, exitonidle, delonexit, logfree, next, user, ops>>
    BY <1>2, <1>6 DEF policy
  <2>2. R' = q
    BY <1>6, NextR DEF Fits, Good
  <2>3. Others'
    BY <1>6, <2>1 DEF ResInv, Others
  <2>4. Phased'
    BY <1>2, <1>6, <2>1, <2>2, RFields DEF ResInv, Phased
  <2>5. Fits(q, cmds', mkdir', bcstflg')
    BY <1>6, <2>1
  <2> QED BY <1>2, <1>4, <1>6, <2>1, <2>3, <2>4, <2>5, MoveInv
<1>7. CASE ~bcstflg
  <2>1. Good(i) /\ Inited(R, Bcst, i)
    BY <1>3, <1>4, InitGood
  <2>2. /\ i.proc = R.proc /\ i.path = R.path /\ \A u \in Tty \ {Bcst} : i.tty[u] = R.tty[u]
        /\ i.tty[Bcst].linked
        /\ i.tty[Bcst].dfd = -1 /\ i.tty[Bcst].sfd = -1 /\ i.tty[Bcst].ifd = -1
    BY <2>1 DEF Inited
  <2>3. Kept(R, i, {Bcst})
    BY <2>2 DEF Kept
  <2>4. NoBcst(i)
    BY <1>7, <2>2 DEF ResInv, Fits, NoBcst
  <2>5. Absent(i, cmds)
    <3>1. \A d \in Cmd : i.tty[Clt(d)] = R.tty[Clt(d)] /\ i.tty[Cmdt(d)] = R.tty[Cmdt(d)]
      BY <2>2, Ttys
    <3> QED BY <2>2, <3>1 DEF ResInv, Fits, Absent
  <2>6. Fits(i, cmds, mkdir, bcstflg)
    BY <2>1, <2>2, <2>4, <2>5 DEF ResInv, Fits
  <2> QED BY <1>2, <1>6, <1>7, <2>2, <2>3, <2>6
<1>8. CASE bcstflg
  <2>1. /\ Good(a.r) /\ a.r.proc = R.proc /\ Kept(R, a.r, {Bcst}) /\ a.ok \in BOOLEAN
        /\ ~a.ok => a.r.tty[Bcst] = NoTty
        /\ a.ok => a.r.tty[Bcst].linked
    BY <1>3, <1>4, InitCreate
  <2>2. Fits(a.r, cmds, mkdir, bcstflg)
    BY <1>5, <1>8, <2>1
  <2>3. CASE a.ok
    BY <1>2, <1>6, <1>8, <2>1, <2>2, <2>3
  <2>4. CASE ~a.ok
    <3>1. Exit(a.r, 1) /\ UNCHANGED <<bcstflg, exitonidle, delonexit, next, user, ops>>
      BY <1>2, <1>8, <2>4 DEF policy
    <3>2. ExitFlags
      BY <3>1 DEF ExitFlags, ResInv, Others
    <3> QED BY <2>2, <3>1, <3>2, ExitInv
  <2> QED BY <2>1, <2>3, <2>4
<1> QED BY <1>4, <1>7, <1>8

\* The monitor adds a command, and with the second one the broadcast tty.
LEMMA MonAddStep ==
  ASSUME ResInv, NEW c \in Cmd, MonAdd(c)
  PROVE  ResInv' /\ LinkStep
<1> DEFINE second == ~bcstflg /\ cmds # {}
<1>1. PICK f \in Fault :
        LET a == GBLSAddCmd(R, c, f)
            b == IF second THEN ttyCreate(a.r, Bcst, At(f, 3)) ELSE a
        IN  IF ~a.ok
            THEN Becomes(a.r) /\ UNCHANGED <<phase, cmds, policy, mkdir, logfree>>
            ELSE /\ bcstflg' = (bcstflg \/ second)
                 /\ delonexit' = IF exitonidle THEN delonexit \cup {c}
                                 ELSE delonexit
                 /\ IF b.ok
                    THEN /\ Becomes(b.r) /\ cmds' = cmds \cup {c}
                         /\ UNCHANGED <<phase, exitonidle, mkdir, logfree>>
                    ELSE Exit(CleanCmds(b.r, {c}), 1) /\ UNCHANGED exitonidle
  BY DEF MonAdd
<1> DEFINE a == GBLSAddCmd(R, c, f)
           b == IF second THEN ttyCreate(a.r, Bcst, At(f, 3)) ELSE a
           T == TtysOf({c})
<1>2. /\ phase = "loop" /\ c \notin cmds /\ ops < MaxOps /\ ops' = ops + 1
      /\ next' = next /\ user' = user
  BY DEF MonAdd, Loop, More
<1>3. /\ ~a.ok => Becomes(a.r) /\ UNCHANGED <<phase, cmds, policy, mkdir, logfree>>
      /\ a.ok => /\ bcstflg' = (bcstflg \/ second)
                 /\ delonexit' = IF exitonidle THEN delonexit \cup {c}
                                 ELSE delonexit
      /\ a.ok /\ b.ok => /\ Becomes(b.r) /\ cmds' = cmds \cup {c}
                         /\ UNCHANGED <<phase, exitonidle, mkdir, logfree>>
      /\ a.ok /\ ~b.ok => Exit(CleanCmds(b.r, {c}), 1) /\ UNCHANGED exitonidle
  BY <1>1
<1>4. a = GBLSAddCmd(R, c, f) /\ (second => b = ttyCreate(a.r, Bcst, At(f, 3)))
      /\ (~second => b = a)
  OBVIOUS
<1>5. second \in BOOLEAN /\ (second => ~bcstflg) /\ T = TtysOf({c})
  OBVIOUS
<1> HIDE DEF a, b, second, T
<1>6. /\ Fits(R, cmds, mkdir, bcstflg) /\ Good(R) /\ R.tty[Clt(c)] = NoTty
      /\ R.tty[Cmdt(c)] = NoTty /\ R.proc[c] = NoProc
  BY <1>2 DEF ResInv, Fits, Absent
<1>7. CmdCreated(R, c, a)
  BY <1>4, <1>6, AddGood
<1>8. /\ Good(a.r) /\ a.r.proc = R.proc /\ Kept(R, a.r, T) /\ a.ok \in BOOLEAN
      /\ ~a.ok => a.r.tty[Clt(c)] = NoTty /\ a.r.tty[Cmdt(c)] = NoTty
  BY <1>5, <1>7 DEF CmdCreated
<1>9. T = {Clt(c), Cmdt(c)} /\ T \subseteq Tty /\ Bcst \notin T /\ Mon \notin T
  BY <1>5, Ttys DEF TtysOf
<1>10. \A d \in Cmd : d # c => Clt(d) \notin T /\ Cmdt(d) \notin T
  BY <1>9, Ttys
<1>11. \A t \in T : tty[t].dfd = -1
  BY <1>6, <1>9, RFields, Numbers
<1>12. ops' \in 0..MaxOps /\ bcstflg \in BOOLEAN /\ tty[Bcst].linked
  BY <1>2, ResourceAssumption DEF ResInv, Others, Phased
<1>13. CASE ~a.ok
  <2>1. /\ Becomes(a.r)
        /\ UNCHANGED <<phase, cmds, bcstflg, exitonidle, delonexit, mkdir, logfree>>
    BY <1>3, <1>13 DEF policy
  <2>2. Moves(R, a.r, T, cmds, cmds, bcstflg, bcstflg)
    BY <1>6, <1>8, <1>9, <1>10, <1>13 DEF Moves
  <2>3. Fits(a.r, cmds, mkdir, bcstflg)
    BY <1>6, <1>8, <2>2, FitsMoved
  <2>4. Fits(a.r, cmds', mkdir', bcstflg')
    BY <2>1, <2>3
  <2>5. R' = a.r
    BY <1>8, <2>1, NextR DEF Good
  <2>6. Others'
    BY <1>2, <1>12, <2>1 DEF ResInv, Others
  <2>7. Phased'
    <3>1. tty'[Bcst] = tty[Bcst]
      BY <1>8, <1>9, <2>5, Ttys, RFields DEF Kept
    <3> QED BY <1>2, <2>1, <3>1 DEF ResInv, Phased
  <2> QED BY <1>2, <1>8, <1>9, <1>11, <2>1, <2>4, <2>6, <2>7, MoveInv
<1>14. ASSUME a.ok, second
       PROVE  /\ Good(b.r) /\ b.r.proc = R.proc /\ Kept(R, b.r, T \cup {Bcst})
              /\ b.ok \in BOOLEAN
              /\ ~b.ok => b.r.tty[Bcst] = NoTty
              /\ b.ok => b.r.tty[Bcst].linked
              /\ tty[Bcst].dfd = -1
  <2>1. NoBcst(R)
    BY <1>5, <1>6, <1>14 DEF Fits
  <2>2. a.r.tty[Bcst] = R.tty[Bcst] /\ Bcst \in Tty
    BY <1>8, <1>9, Ttys DEF Kept
  <2>3. /\ a.r.tty[Bcst].dfd = -1 /\ a.r.tty[Bcst].sfd = -1 /\ a.r.tty[Bcst].ifd = -1
        /\ a.r.tty[Bcst].linked /\ tty[Bcst].dfd = -1
    BY <1>12, <2>1, <2>2, RFields DEF NoBcst
  <2>4. Created(a.r, Bcst, b)
    BY <1>4, <1>8, <1>14, <2>2, <2>3, CreateGood
  <2>5. /\ Good(b.r) /\ b.r.proc = a.r.proc /\ Kept(a.r, b.r, {Bcst}) /\ b.ok \in BOOLEAN
        /\ ~b.ok => b.r.tty[Bcst] = NoTty
        /\ b.ok => b.r.tty[Bcst].linked = a.r.tty[Bcst].linked
    BY <2>4 DEF Created
  <2>6. Kept(R, b.r, T \cup {Bcst})
    BY <1>8, <2>5, KeptTwice
  <2> QED BY <1>8, <2>3, <2>5, <2>6
<1>15. ASSUME a.ok, b.ok, NEW U, U = T \/ U = T \cup {Bcst}, Good(b.r), b.r.proc = R.proc,
              Kept(R, b.r, U), b.r.tty[Bcst].linked, Bcst \in U => second,
              Bcst \in U => tty[Bcst].dfd = -1
       PROVE  ResInv' /\ LinkStep
  <2>1. /\ Becomes(b.r) /\ cmds' = cmds \cup {c}
        /\ UNCHANGED <<phase, exitonidle, mkdir, logfree>>
        /\ bcstflg' = (bcstflg \/ second)
        /\ delonexit' = IF exitonidle THEN delonexit \cup {c} ELSE delonexit
    BY <1>3, <1>15
  <2>2. U \subseteq Tty /\ \A t \in U : tty[t].dfd = -1
    BY <1>9, <1>11, <1>15, Ttys
  <2>3. \A d \in Cmd : d # c => Clt(d) \notin U /\ Cmdt(d) \notin U
    BY <1>10, <1>15, Ttys
  <2>4. bcstflg' \in BOOLEAN /\ (~bcstflg' => ~bcstflg /\ Bcst \notin U)
    BY <1>5, <1>12, <1>15, <2>1
  <2>5. Moves(R, b.r, U, cmds, cmds', bcstflg, bcstflg')
    BY <1>15, <2>1, <2>3, <2>4 DEF Moves
  <2>6. Fits(b.r, cmds', mkdir, bcstflg')
    BY <1>6, <1>15, <2>5, FitsMoved
  <2>7. Fits(b.r, cmds', mkdir', bcstflg')
    BY <2>1, <2>6
  <2>8. R' = b.r
    BY <1>15, <2>1, NextR DEF Good
  <2>9. Others'
    BY <1>2, <1>12, <2>1, <2>4 DEF ResInv, Others
  <2>10. Phased'
    <3>1. tty'[Bcst].linked
      BY <1>15, <2>8, RFields
    <3> QED BY <1>2, <2>1, <3>1 DEF ResInv, Phased
  <2> QED BY <1>2, <1>15, <2>1, <2>2, <2>7, <2>9, <2>10, MoveInv
<1>16. CASE a.ok /\ ~second
  <2>1. b = a
    BY <1>4, <1>16
  <2>2. b.r.tty[Bcst].linked
    <3>1. a.r.tty[Bcst] = R.tty[Bcst]
      BY <1>8, <1>9, Ttys DEF Kept
    <3> QED BY <1>12, <2>1, <3>1, RFields
  <2> QED BY <1>8, <1>9, <1>15, <1>16, <2>1, <2>2
<1>17. CASE a.ok /\ second /\ b.ok
  BY <1>14, <1>15, <1>17
<1>18. CASE a.ok /\ second /\ ~b.ok
  <2> DEFINE q == CleanCmds(b.r, {c})
  <2>1. Exit(q, 1) /\ exitonidle' = exitonidle
    BY <1>3, <1>18
  <2>2. q = CleanCmds(b.r, {c}) /\ {c} \in SUBSET Cmd
    OBVIOUS
  <2> HIDE DEF q
  <2>3. /\ Good(b.r) /\ b.r.proc = R.proc /\ Kept(R, b.r, T \cup {Bcst})
        /\ b.r.tty[Bcst] = NoTty
    BY <1>14, <1>18
  <2>4. /\ Good(q) /\ Kept(b.r, q, TtysOf({c}))
        /\ \A t \in Tty : q.tty[t] = IF t \in TtysOf({c}) THEN NoTty ELSE b.r.tty[t]
        /\ \A d \in Cmd : q.proc[d] = IF d \in {c} THEN NoProc ELSE b.r.proc[d]
    <3> DEFINE C == {c}
    <3>1. q = CleanCmds(b.r, C) /\ C \in SUBSET Cmd
      BY <2>2
    <3> SUFFICES /\ Good(q) /\ Kept(b.r, q, TtysOf(C))
                 /\ \A t \in Tty : q.tty[t] = IF t \in TtysOf(C) THEN NoTty ELSE b.r.tty[t]
                 /\ \A d \in Cmd : q.proc[d] = IF d \in C THEN NoProc ELSE b.r.proc[d]
      OBVIOUS
    <3> HIDE DEF C
    <3> QED BY <2>3, <3>1, CleanGood
  <2> DEFINE U == T \cup {Bcst} \cup T
  <2>5. Kept(R, q, U)
    BY <1>5, <2>3, <2>4, KeptTwice
  <2>6. /\ q.tty[Clt(c)] = NoTty /\ q.tty[Cmdt(c)] = NoTty /\ q.tty[Bcst] = NoTty
        /\ q.proc[c] = NoProc
    BY <1>5, <1>9, <2>3, <2>4, Ttys
  <2>7. \A d \in Cmd : d # c => Clt(d) \notin U /\ Cmdt(d) \notin U
    BY <1>10, Ttys
  <2> HIDE DEF U
  <2>8. Moves(R, q, U, cmds, cmds, bcstflg, bcstflg)
    <3>1. \A d \in Cmd \ cmds :
            \/ d \notin cmds /\ Clt(d) \notin U /\ Cmdt(d) \notin U
            \/ q.proc[d] = NoProc /\ q.tty[Clt(d)] = NoTty /\ q.tty[Cmdt(d)] = NoTty
      BY <2>6, <2>7
    <3>2. \A d \in Cmd : q.proc[d] = R.proc[d] \/ q.proc[d] = NoProc
      BY <2>3, <2>4
    <3> QED BY <2>5, <2>6, <3>1, <3>2 DEF Moves
  <2>9. Fits(q, cmds, mkdir, bcstflg)
    BY <1>6, <2>4, <2>8, FitsMoved
  <2>10. ExitFlags
    BY <1>2, <1>3, <1>5, <1>12, <1>18, <2>1 DEF ExitFlags, ResInv, Others
  <2> QED BY <2>1, <2>9, <2>10, ExitInv
<1> QED BY <1>5, <1>8, <1>13, <1>14, <1>16, <1>17, <1>18

\* A command is removed, and yar exits with it if it was the last one.
LEMMA RemoveInv ==
  ASSUME ResInv, NEW c \in Cmd, phase = "loop", c \in cmds,
         NEW r, Fits(r, cmds, mkdir, bcstflg), r.tty = tty, r.path = path,
         RemoveCmd(r, c), UNCHANGED <<next, user, ops>>
  PROVE  ResInv' /\ LinkStep
<1>1. delonexit' = delonexit \ {c} /\ UNCHANGED <<bcstflg, exitonidle>>
  BY DEF RemoveCmd
<1>2. CASE cmds = {c} /\ exitonidle
  <2>1. Exit(r, 2)
    BY <1>2 DEF RemoveCmd
  <2>2. ExitFlags
    BY <1>1, <1>2 DEF ExitFlags, ResInv, Others
  <2> QED BY <2>1, <2>2, ExitInv
<1>3. CASE ~(cmds = {c} /\ exitonidle)
  <2> DEFINE C == {c}
             T == TtysOf(C)
             q == CleanCmds(r, C)
  <2>1. /\ Becomes(q) /\ cmds' = cmds \ {c} /\ UNCHANGED <<phase, mkdir, logfree>>
        /\ q = CleanCmds(r, C) /\ C \in SUBSET Cmd
    BY <1>3 DEF RemoveCmd
  <2>2. T = {Clt(c), Cmdt(c)} /\ T \subseteq Tty /\ Bcst \notin T
    BY Ttys DEF TtysOf
  <2>3. /\ T = TtysOf(C) /\ \A d : d \in C <=> d = c
    OBVIOUS
  <2> HIDE DEF C, T, q
  <2>4. /\ Good(q) /\ Kept(r, q, T)
        /\ \A t \in Tty : q.tty[t] = IF t \in T THEN NoTty ELSE r.tty[t]
        /\ \A d \in Cmd : q.proc[d] = IF d \in C THEN NoProc ELSE r.proc[d]
    <3>1. Good(r)
      BY DEF Fits
    <3> QED BY <2>1, <2>3, <3>1, CleanGood
  <2>5. Kept(R, q, T)
    BY <2>4, RFields DEF Kept
  <2>6. q.tty[Clt(c)] = NoTty /\ q.tty[Cmdt(c)] = NoTty /\ q.proc[c] = NoProc
    BY <2>2, <2>3, <2>4
  <2>7. \A d \in Cmd : d # c => Clt(d) \notin T /\ Cmdt(d) \notin T
    BY <2>2, Ttys
  <2>8. Moves(r, q, T, cmds, cmds', bcstflg, bcstflg)
    BY <2>1, <2>2, <2>4, <2>6, <2>7 DEF Moves
  <2>9. Fits(q, cmds', mkdir, bcstflg)
    BY <2>4, <2>8, FitsMoved
  <2>10. Fits(q, cmds', mkdir', bcstflg')
    BY <1>1, <2>1, <2>9
  <2>11. R' = q
    BY <2>1, <2>4, NextR DEF Good
  <2>12. Others'
    BY <1>1, <2>1 DEF ResInv, Others
  <2>13. Phased'
    <3>1. tty'[Bcst] = tty[Bcst]
      BY <2>2, <2>4, <2>11, Ttys, RFields
    <3> QED BY <2>1, <3>1 DEF ResInv, Phased
  <2>14. \A t \in T : tty[t].dfd = -1 \/ q.tty[t].dfd = -1
    BY <2>2, <2>6, Numbers
  <2> QED BY <2>1, <2>2, <2>5, <2>10, <2>12, <2>13, <2>14, MoveInv
<1> QED BY <1>2, <1>3

\* del.
LEMMA MonDelStep ==
  ASSUME ResInv, NEW c \in Cmd, MonDel(c)
  PROVE  ResInv' /\ LinkStep
<1>1. Fits(R, cmds, mkdir, bcstflg) /\ R.tty = tty /\ R.path = path
  BY RFields DEF ResInv
<1>2. phase = "loop" /\ c \in cmds /\ RemoveCmd(R, c) /\ UNCHANGED <<next, user, ops>>
  BY DEF MonDel, Loop
<1> QED BY <1>1, <1>2, RemoveInv

\* A step that leaves the resources as they are and goes on.
LEMMA IdleInv ==
  ASSUME ResInv, UNCHANGED <<fds, path, tty, proc, lost, cmds, mkdir, bcstflg>>,
         phase # "exited", phase' # "exited", logfree' = logfree, Others', Phased'
  PROVE  ResInv' /\ LinkStep
<1>1. R' = R
  BY DEF R
<1>2. Fits(R', cmds', mkdir', bcstflg')
  BY <1>1 DEF ResInv
<1>3. CleanExit'
  BY DEF CleanExit, ResInv, Phased
<1>4. LinkStep
  BY DEF LinkStep
<1> QED BY <1>2, <1>3, <1>4 DEF ResInv

\* The exits on the monitor's order.
LEMMA MonExitSteps ==
  ASSUME ResInv, MonIdleExit \/ MonExit
  PROVE  ResInv' /\ LinkStep
<1>1. Fits(R, cmds, mkdir, bcstflg)
  BY DEF ResInv
<1>2. CASE MonExit
  <2>1. ExitFlags /\ Exit(R, 1)
    BY <1>2 DEF MonExit, ExitFlags, policy, ResInv, Others
  <2> QED BY <1>1, <2>1, ExitInv
<1>3. CASE MonIdleExit
  <2>1. /\ phase = "loop" /\ exitonidle' = TRUE /\ delonexit' = cmds
        /\ UNCHANGED <<next, user, ops, bcstflg>>
    BY <1>3 DEF MonIdleExit, Loop
  <2>2. CASE cmds = {}
    <3>1. Exit(R, 2)
      BY <1>3, <2>2 DEF MonIdleExit
    <3>2. ExitFlags
      BY <2>1 DEF ExitFlags, ResInv, Others
    <3> QED BY <1>1, <3>1, <3>2, ExitInv
  <2>3. CASE cmds # {}
    <3>1. UNCHANGED <<phase, fds, path, tty, proc, lost, cmds, mkdir, logfree>>
      BY <1>3, <2>3 DEF MonIdleExit
    <3>2. Others'
      BY <2>1, <3>1 DEF ResInv, Others
    <3>3. Phased'
      BY <2>1, <3>1 DEF ResInv, Phased
    <3> QED BY <2>1, <3>1, <3>2, <3>3, IdleInv
  <2> QED BY <2>2, <2>3
<1> QED BY <1>2, <1>3

\* r after fork and pidfd_open for c
Forked(r, c) ==
  [Opened(r, <<<<"cmd", c>>, "pidfd">>) EXCEPT
    !.proc[c] = [died |-> FALSE, pidfd |-> Lowest(r)]]

\* A process is started.
LEMMA ForkGood ==
  ASSUME NEW r, Good(r), ~Full(r), NEW c \in Cmd, r.proc[c].pidfd = -1,
         NEW q, q = Forked(r, c)
  PROVE  /\ Good(q) /\ q.tty = r.tty /\ q.path = r.path
         /\ ~q.proc[c].died /\ \A d \in Cmd \ {c} : q.proc[d] = r.proc[d]
<1> DEFINE n == Lowest(r)
           x == [died |-> FALSE, pidfd |-> n]
           g == [r.fds EXCEPT ![n] = PLab(c)]
           z == [r.proc EXCEPT ![c] = x]
<1>1. /\ r \in Res /\ GoodFds(r.fds, r.tty, r.proc, r.lost) /\ GoodPath(r.path, r.tty)
      /\ r.fds \in [Fd -> Label] /\ r.tty \in [Tty -> TtyRec]
      /\ r.proc \in [Cmd -> ProcRec] /\ r.lost \in SUBSET Fd
  BY ResFields DEF Good
<1>2. n \in Fd /\ r.fds[n] = Unused
  BY <1>1, LowestFree
<1>3. q = [[r EXCEPT !.fds = g] EXCEPT !.proc = z]
  BY <1>1 DEF Forked, Opened, PLab, Res
<1> HIDE DEF n
<1>4. x \in ProcRec /\ x.died = FALSE /\ x.pidfd = n
  BY <1>2 DEF ProcRec
<1> HIDE DEF x
<1>5. z \in [Cmd -> ProcRec] /\ z[c] = x /\ \A d \in Cmd \ {c} : z[d] = r.proc[d]
  BY <1>1, <1>4
<1>6. PLab(c) \in Label
  BY DEF Label
<1>7. g \in [Fd -> Label] /\ g = [r.fds EXCEPT ![n] = PLab(c)]
  BY <1>1, <1>2, <1>6
<1> HIDE DEF g, z
<1>8. z[c].pidfd = n
  BY <1>4, <1>5
<1>9. GoodFds(g, r.tty, z, r.lost)
  BY <1>1, <1>2, <1>5, <1>7, <1>8, OpenedProc
<1>10. /\ q \in Res /\ q.fds = g /\ q.proc = z /\ q.tty = r.tty /\ q.path = r.path
       /\ q.lost = r.lost
  BY <1>1, <1>3, <1>5, <1>7 DEF Res
<1> QED BY <1>1, <1>4, <1>5, <1>9, <1>10 DEF Good

\* cmdStart, or the assert in it.
LEMMA ForkInv ==
  ASSUME ResInv, NEW c \in Cmd, phase = "loop", c \in cmds, ops < MaxOps,
         NEW r, Fits(r, cmds, mkdir, bcstflg), r.tty = tty, r.path = path,
         r.proc[c].pidfd = -1, cmdStart(r, c)
  PROVE  ResInv' /\ LinkStep
<1>1. CASE Full(r)
  <2>1. /\ phase' = "aborted"
        /\ UNCHANGED <<next, fds, path, tty, mkdir, cmds, proc, bcstflg, exitonidle,
                       delonexit, logfree, user, ops, lost>>
    BY <1>1 DEF cmdStart, Abort, policy
  <2>2. Others' /\ Phased'
    BY <2>1 DEF ResInv, Others, Phased
  <2> QED BY <2>1, <2>2, IdleInv
<1>2. CASE ~Full(r)
  <2> DEFINE q == Forked(r, c)
  <2>1. /\ Becomes(q) /\ ops' = ops + 1
        /\ UNCHANGED <<phase, cmds, bcstflg, exitonidle, delonexit, next, mkdir, logfree, user>>
    BY <1>2 DEF cmdStart, Forked, policy, Same
  <2>2. q = Forked(r, c) /\ Good(r)
    BY DEF Fits
  <2> HIDE DEF q
  <2>3. /\ Good(q) /\ q.tty = r.tty /\ q.path = r.path
        /\ ~q.proc[c].died /\ \A d \in Cmd \ {c} : q.proc[d] = r.proc[d]
    BY <1>2, <2>2, ForkGood
  <2>4. Absent(q, cmds)
    BY <2>3 DEF Fits, Absent
  <2>5. Fits(q, cmds, mkdir, bcstflg)
    <3>1. \A d \in Cmd : q.proc[d].died => q.proc[d].pidfd # -1
      BY <2>3 DEF Fits
    <3>2. ~bcstflg => NoBcst(q)
      BY <2>3 DEF Fits, NoBcst
    <3> QED BY <2>3, <2>4, <3>1, <3>2 DEF Fits
  <2>6. Fits(q, cmds', mkdir', bcstflg')
    BY <2>1, <2>5
  <2>7. Kept(R, q, {}) /\ {} \subseteq Tty
    BY <2>3, RFields DEF Kept
  <2>8. Others'
    BY <2>1, ResourceAssumption DEF ResInv, Others
  <2>9. Phased'
    <3>1. tty' = tty
      BY <2>1, <2>3 DEF Becomes
    <3> QED BY <2>1, <3>1 DEF ResInv, Phased
  <2> QED BY <2>1, <2>6, <2>7, <2>8, <2>9, MoveInv
<1> QED BY <1>1, <1>2

\* A process is started because a tty is opened.
LEMMA StartStep ==
  ASSUME ResInv, NEW c \in Cmd, Start(c)
  PROVE  ResInv' /\ LinkStep
<1>1. Fits(R, cmds, mkdir, bcstflg) /\ R.tty = tty /\ R.path = path
  BY RFields DEF ResInv
<1>2. phase = "loop" /\ c \in cmds /\ R.proc[c].pidfd = -1 /\ ops < MaxOps /\ cmdStart(R, c)
  BY RFields DEF Start, Loop, Running
<1> QED BY <1>1, <1>2, ForkInv

\* The processes change but no tty does and no name.
LEMMA ProcInv ==
  ASSUME ResInv, NEW q, Good(q), q.tty = tty, q.path = path, Becomes(q),
         \A d \in Cmd : q.proc[d] = proc[d] \/ q.proc[d] = NoProc, phase = "loop",
         UNCHANGED <<phase, next, mkdir, cmds, bcstflg, exitonidle, delonexit, logfree,
                     user, ops>>
  PROVE  ResInv' /\ LinkStep
<1>1. Kept(R, q, {}) /\ {} \subseteq Tty
  BY RFields DEF Kept
<1>2. Moves(R, q, {}, cmds, cmds, bcstflg, bcstflg)
  BY <1>1, RFields DEF Moves
<1>3. Fits(q, cmds, mkdir, bcstflg)
  BY <1>2, FitsMoved DEF ResInv
<1>4. Fits(q, cmds', mkdir', bcstflg')
  BY <1>3
<1>5. Others'
  BY DEF ResInv, Others
<1>6. Phased'
  BY DEF ResInv, Phased, Becomes
<1> QED BY <1>1, <1>4, <1>5, <1>6, MoveInv

\* A process is stopped.
LEMMA StopStep ==
  ASSUME ResInv, NEW c \in Cmd, Stop(c)
  PROVE  ResInv' /\ LinkStep
<1> DEFINE C == {c}
           q == StopAll(R, C)
<1>1. /\ phase = "loop" /\ Becomes(q) /\ q = StopAll(R, C) /\ C \in SUBSET Cmd
      /\ UNCHANGED <<phase, next, mkdir, cmds, bcstflg, exitonidle, delonexit, logfree,
                     user, ops>>
  BY DEF Stop, Loop, policy, Same
<1>2. Good(R)
  BY DEF ResInv, Fits
<1> HIDE DEF C, q
<1>3. /\ Good(q) /\ q.tty = R.tty /\ q.path = R.path
      /\ \A d \in Cmd : q.proc[d] = IF d \in C THEN NoProc ELSE R.proc[d]
  BY <1>1, <1>2, StopGood
<1>4. /\ q.tty = tty /\ q.path = path
      /\ \A d \in Cmd : q.proc[d] = proc[d] \/ q.proc[d] = NoProc
  BY <1>3, RFields
<1> QED BY <1>1, <1>3, <1>4, ProcInv

\* A process dies: nothing yar has changes.
LEMMA ProcDiesStep ==
  ASSUME ResInv, NEW c \in Cmd, ProcDies(c)
  PROVE  ResInv' /\ LinkStep
<1>1. /\ phase = "loop" /\ proc[c].pidfd # -1 /\ proc' = [proc EXCEPT ![c].died = TRUE]
      /\ UNCHANGED <<phase, next, fds, path, tty, mkdir, cmds, bcstflg, exitonidle,
                     delonexit, logfree, user, ops, lost>>
  BY DEF ProcDies, Loop, Running, policy
<1>2. /\ Good(R) /\ R \in Res /\ GoodFds(fds, tty, proc, lost) /\ GoodPath(path, tty)
      /\ fds \in [Fd -> Label] /\ path \in [Path -> What] /\ tty \in [Tty -> TtyRec]
      /\ proc \in [Cmd -> ProcRec] /\ lost \in SUBSET Fd
  BY RFields, ResFields DEF ResInv, Fits, Good
<1>3. proc[c] \in ProcRec
  BY <1>2
<1> DEFINE x == [proc[c] EXCEPT !.died = TRUE]
<1>4. x \in ProcRec /\ x.pidfd = proc[c].pidfd
  BY <1>3 DEF ProcRec
<1>5. proc' = [proc EXCEPT ![c] = x]
  BY <1>1
<1> HIDE DEF x
<1>6. /\ proc' \in [Cmd -> ProcRec] /\ proc'[c] = x
      /\ \A d \in Cmd \ {c} : proc'[d] = proc[d]
      /\ \A d \in Cmd : proc'[d].pidfd = proc[d].pidfd
  BY <1>2, <1>4, <1>5
<1>7. R' \in Res
  <2>1. R' = [fds |-> fds', path |-> path', tty |-> tty', proc |-> proc', lost |-> lost']
    BY DEF R
  <2> QED BY <1>1, <1>2, <1>6, <2>1 DEF Res
<1>8. GoodFds(fds, tty, proc', lost)
  <2>1. \A n : InProc(proc', n) <=> InProc(proc, n)
    BY <1>6 DEF InProc
  <2> QED BY <1>2, <1>6, <2>1 DEF GoodFds
<1>9. Good(R')
  BY <1>1, <1>2, <1>7, <1>8, RFields DEF Good
<1>10. Absent(R, cmds) /\ GoodMount(path, mkdir) /\ (~bcstflg => NoBcst(R))
       /\ \A d \in Cmd : proc[d].died => proc[d].pidfd # -1
  BY RFields DEF ResInv, Fits
<1>11. c \in cmds
  BY <1>1, <1>10, RFields, Numbers DEF Absent
<1>12. Absent(R', cmds)
  BY <1>1, <1>6, <1>10, <1>11, RFields DEF Absent
<1>13. \A d \in Cmd : proc'[d].died => proc'[d].pidfd # -1
  BY <1>1, <1>6, <1>10
<1>14. ~bcstflg => NoBcst(R')
  BY <1>1, <1>10, RFields DEF NoBcst
<1>15. Fits(R', cmds', mkdir', bcstflg')
  BY <1>1, <1>9, <1>10, <1>12, <1>13, <1>14, RFields DEF Fits
<1>16. Others' /\ Phased'
  BY <1>1 DEF ResInv, Others, Phased
<1>17. CleanExit' /\ LinkStep
  BY <1>1 DEF ResInv, CleanExit, Phased, LinkStep
<1> QED BY <1>15, <1>16, <1>17 DEF ResInv

\* r after cmdPidEvent has forgotten the pidfd of c
Reaped(r, c) == [r EXCEPT !.lost = @ \cup {r.proc[c].pidfd}, !.proc[c] = NoProc]

\* A dead process is reaped, its pidfd lost.
LEMMA ReapGood ==
  ASSUME NEW r, Good(r), NEW c \in Cmd, r.proc[c].pidfd # -1, NEW q, q = Reaped(r, c)
  PROVE  /\ Good(q) /\ q.tty = r.tty /\ q.path = r.path
         /\ \A d \in Cmd : q.proc[d] = IF d = c THEN NoProc ELSE r.proc[d]
<1> DEFINE z == [r.proc EXCEPT ![c] = NoProc]
           l == r.lost \cup {r.proc[c].pidfd}
<1>1. /\ r \in Res /\ GoodFds(r.fds, r.tty, r.proc, r.lost) /\ GoodPath(r.path, r.tty)
      /\ r.fds \in [Fd -> Label] /\ r.tty \in [Tty -> TtyRec]
      /\ r.proc \in [Cmd -> ProcRec] /\ r.lost \in SUBSET Fd
  BY ResFields DEF Good
<1>2. q = [[r EXCEPT !.lost = l] EXCEPT !.proc = z]
  BY <1>1 DEF Reaped, Res
<1>3. /\ z = [r.proc EXCEPT ![c] = NoProc]
      /\ \A d \in Cmd : z[d] = IF d = c THEN NoProc ELSE r.proc[d]
  BY <1>1
<1> HIDE DEF z
<1>4. GoodFds(r.fds, r.tty, z, l) /\ z \in [Cmd -> ProcRec] /\ r.proc[c].pidfd \in Fd
  BY <1>1, <1>3, LostProc
<1>5. l \in SUBSET Fd
  BY <1>1, <1>4
<1> HIDE DEF l
<1>6. /\ q \in Res /\ q.fds = r.fds /\ q.proc = z /\ q.tty = r.tty /\ q.path = r.path
      /\ q.lost = l
  BY <1>1, <1>2, <1>4, <1>5 DEF Res
<1> QED BY <1>1, <1>3, <1>4, <1>6 DEF Good

\* cmdPidEvent.
LEMMA PidEventStep ==
  ASSUME ResInv, NEW c \in Cmd, PidEvent(c)
  PROVE  ResInv' /\ LinkStep
<1> DEFINE q == Reaped(R, c)
<1>1. /\ phase = "loop" /\ proc[c].died
      /\ IF c \in delonexit
         THEN RemoveCmd(q, c) /\ UNCHANGED <<next, user, ops>>
         ELSE \/ ops < MaxOps /\ cmdStart(q, c)
              \/ Becomes(q) /\ UNCHANGED <<phase, cmds, policy, ops>> /\ Same
  BY RFields DEF PidEvent, Loop, Reaped
<1>2. q = Reaped(R, c)
  OBVIOUS
<1> HIDE DEF q
<1>3. Good(R) /\ R.proc[c].pidfd # -1 /\ c \in cmds
  <2>1. Good(R) /\ R.proc[c].pidfd # -1
    BY <1>1, RFields DEF ResInv, Fits
  <2> QED BY <2>1, RFields, Numbers DEF ResInv, Fits, Absent
<1>4. /\ Good(q) /\ q.tty = R.tty /\ q.path = R.path
      /\ \A d \in Cmd : q.proc[d] = IF d = c THEN NoProc ELSE R.proc[d]
  BY <1>2, <1>3, ReapGood
<1>5. /\ q.tty = tty /\ q.path = path /\ q.proc[c].pidfd = -1
      /\ \A d \in Cmd : q.proc[d] = proc[d] \/ q.proc[d] = NoProc
  BY <1>4, RFields, Numbers
<1>6. Fits(q, cmds, mkdir, bcstflg)
  <2>1. Moves(R, q, {}, cmds, cmds, bcstflg, bcstflg)
    BY <1>4, <1>5, RFields DEF Moves, Kept
  <2> QED BY <1>4, <2>1, FitsMoved DEF ResInv
<1>7. CASE RemoveCmd(q, c) /\ UNCHANGED <<next, user, ops>>
  BY <1>1, <1>3, <1>5, <1>6, <1>7, RemoveInv
<1>8. CASE ops < MaxOps /\ cmdStart(q, c)
  BY <1>1, <1>3, <1>5, <1>6, <1>8, ForkInv
<1>9. CASE Becomes(q) /\ UNCHANGED <<phase, cmds, policy, ops>> /\ Same
  <2>1. UNCHANGED <<phase, next, mkdir, cmds, bcstflg, exitonidle, delonexit, logfree,
                    user, ops>>
    BY <1>9 DEF policy, Same
  <2> QED BY <1>1, <1>4, <1>5, <1>9, <2>1, ProcInv
<1> QED BY <1>1, <1>7, <1>8, <1>9

\* Others make and remove files.
LEMMA UserSteps ==
  ASSUME ResInv, NEW p \in Path,
         UserRemove(p) \/ UserMake(p, File) \/ UserMake(p, Broken)
  PROVE  ResInv' /\ LinkStep
<1>1. PICK w \in {Gone, File, Broken} :
        /\ path' = [path EXCEPT ![p] = w] /\ phase \notin {"exited", "aborted"}
        /\ w = Gone => UserRemove(p)
        /\ w # Gone => path[p] = Gone
        /\ user < MaxUser /\ user' = user + 1
        /\ UNCHANGED <<phase, next, fds, tty, mkdir, cmds, proc, bcstflg, exitonidle,
                       delonexit, logfree, ops, lost>>
  BY DEF UserRemove, UserMake, policy, Gone, File, Broken
<1>2. /\ Good(R) /\ R \in Res /\ GoodFds(fds, tty, proc, lost) /\ GoodPath(path, tty)
      /\ fds \in [Fd -> Label] /\ path \in [Path -> What] /\ tty \in [Tty -> TtyRec]
      /\ proc \in [Cmd -> ProcRec] /\ lost \in SUBSET Fd
  BY RFields, ResFields DEF ResInv, Fits, Good
<1>3. w \in What /\ w # Mount /\ \A t, k : w # Link(t, k)
  BY Whats
<1>4. /\ path' \in [Path -> What] /\ path'[p] = w
      /\ \A s \in Path \ {p} : path'[s] = path[s]
  BY <1>1, <1>2, <1>3
<1>5. R' \in Res
  <2>1. R' = [fds |-> fds', path |-> path', tty |-> tty', proc |-> proc', lost |-> lost']
    BY DEF R
  <2> QED BY <1>1, <1>2, <1>4, <2>1 DEF Res
<1>6. GoodPath(path', tty)
  BY <1>2, <1>3, <1>4 DEF GoodPath
<1>7. Good(R')
  BY <1>1, <1>2, <1>5, <1>6, RFields DEF Good
<1>8. Absent(R, cmds) /\ GoodMount(path, mkdir) /\ (~bcstflg => NoBcst(R))
      /\ \A d \in Cmd : proc[d].died => proc[d].pidfd # -1
  BY RFields DEF ResInv, Fits
<1>9. Absent(R', cmds)
  BY <1>1, <1>8, RFields DEF Absent
<1>10. GoodMount(path', mkdir)
  BY <1>3, <1>4, <1>8 DEF GoodMount
<1>11. ~bcstflg => NoBcst(R')
  BY <1>1, <1>3, <1>4, <1>8, RFields DEF NoBcst
<1>12. Fits(R', cmds', mkdir', bcstflg')
  BY <1>1, <1>7, <1>8, <1>9, <1>10, <1>11, RFields DEF Fits
<1>13. Others'
  BY <1>1, ResourceAssumption DEF ResInv, Others
<1>14. Phased' /\ CleanExit'
  BY <1>1 DEF ResInv, Phased, CleanExit
<1>15. LinkStep
  <2> SUFFICES ASSUME NEW t \in Tty, NEW k \in DOMAIN Links[t],
                      path[Links[t][k]] = Link(t, k)
               PROVE  path'[Links[t][k]] = path[Links[t][k]] \/ UserRemove(Links[t][k])
    BY DEF LinkStep
  <2>1. Links[t][k] \in Path
    BY NamesAre
  <2>2. CASE Links[t][k] = p
    BY <1>1, <2>2, Whats
  <2>3. CASE Links[t][k] # p
    BY <1>4, <2>1, <2>3
  <2> QED BY <2>2, <2>3
<1> QED BY <1>12, <1>13, <1>14, <1>15 DEF ResInv

\* yar begins with nothing.
LEMMA InitInv ==
  ASSUME Init
  PROVE  ResInv
<1>1. /\ fds \in [Fd -> Label] /\ \A n \in Fd : fds[n] = Unused
  BY DEF Init, Label
<1>2. path \in [Path -> {Gone, File, Broken}] /\ path \in [Path -> What]
  BY Whats DEF Init
<1>3. tty \in [Tty -> TtyRec] /\ \A t \in Tty : tty[t] = NoTty
  BY Numbers DEF Init
<1>4. proc \in [Cmd -> ProcRec] /\ \A c \in Cmd : proc[c] = NoProc
  BY Numbers DEF Init
<1>5. lost = {} /\ lost \in SUBSET Fd
  BY DEF Init
<1>6. R \in Res
  BY <1>1, <1>2, <1>3, <1>4, <1>5 DEF R, Res
<1>7. GoodFds(fds, tty, proc, lost)
  <2>1. \A n : ~InTty(tty, n)
    BY <1>3, Numbers DEF InTty
  <2>2. \A n \in Fd : ~InProc(proc, n)
    BY <1>4, Numbers DEF InProc
  <2> QED BY <1>1, <1>3, <1>4, <1>5, <2>1, <2>2, Numbers DEF GoodFds
<1>8. GoodPath(path, tty) /\ GoodMount(path, mkdir)
  BY <1>2, Whats DEF GoodPath, GoodMount
<1>9. NoBcst(R)
  BY <1>2, <1>3, Ttys, Whats, RFields, Numbers DEF NoBcst
<1>10. Absent(R, cmds)
  BY <1>3, <1>4, Ttys, RFields DEF Absent
<1>11. Fits(R, cmds, mkdir, bcstflg)
  BY <1>4, <1>6, <1>7, <1>8, <1>9, <1>10, RFields, Numbers DEF Fits, Good
<1>12. Others
  <2>1. user \in 0..MaxUser
    <3>1. {q \in Path : path[q] # Gone} \subseteq Path
      OBVIOUS
    <3>2. IsFiniteSet({q \in Path : path[q] # Gone})
      BY <3>1, ResourceAssumption, FS_Subset
    <3>3. Cardinality({q \in Path : path[q] # Gone}) \in Nat
      BY <3>2, FS_CardinalityType
    <3> QED BY <3>3, ResourceAssumption DEF Init
  <2>2. next \in 1..Len(Initial) + 1
    <3>1. Len(Initial) \in Nat
      BY ResourceAssumption, LenProperties
    <3> QED BY <3>1 DEF Init
  <2>3. logfree \in 0..2 /\ ops \in 0..MaxOps
    BY ResourceAssumption DEF Init
  <2>4. mkdir \in BOOLEAN /\ bcstflg \in BOOLEAN /\ exitonidle \in BOOLEAN
    BY DEF Init
  <2>5. phase = "mon" /\ cmds = {} /\ delonexit = {}
    BY DEF Init
  <2> QED BY <2>1, <2>2, <2>3, <2>4, <2>5 DEF Others
<1>13. Phased
  BY <1>3, Ttys DEF Init, Phased
<1> QED BY <1>11, <1>12, <1>13 DEF Init, ResInv, CleanExit

-----------------------------------------------------------------------------
(* The theorems *)

\* Every step keeps the invariant, and takes no name away from a tty.
LEMMA StepInv ==
  ASSUME ResInv, [Next]_vars
  PROVE  ResInv' /\ [LinkStep]_vars
<1>1. CASE StartMon
  BY <1>1, StartMonStep
<1>2. CASE StartFs
  BY <1>2, StartFsStep
<1>3. CASE StartCmd
  BY <1>3, StartCmdStep
<1>4. CASE StartBcst
  BY <1>4, StartBcstStep
<1>5. CASE MonIdleExit \/ MonExit
  BY <1>5, MonExitSteps
<1>6. ASSUME NEW c \in Cmd,
             MonAdd(c) \/ MonDel(c) \/ Start(c) \/ Stop(c) \/ ProcDies(c) \/ PidEvent(c)
      PROVE  ResInv' /\ LinkStep
  BY <1>6, MonAddStep, MonDelStep, StartStep, StopStep, ProcDiesStep, PidEventStep
<1>7. ASSUME NEW p \in Path, UserRemove(p) \/ UserMake(p, File) \/ UserMake(p, Broken)
      PROVE  ResInv' /\ LinkStep
  BY <1>7, UserSteps
<1>8. CASE UNCHANGED vars
  <2>1. R' = R /\ UNCHANGED vars
    BY <1>8 DEF R, vars
  <2>2. Fits(R', cmds', mkdir', bcstflg')
    BY <2>1 DEF ResInv, vars
  <2>3. Others' /\ Phased' /\ CleanExit'
    BY <1>8 DEF ResInv, Others, Phased, CleanExit, vars
  <2> QED BY <1>8, <2>2, <2>3 DEF ResInv
<1> QED BY <1>1, <1>2, <1>3, <1>4, <1>5, <1>6, <1>7, <1>8 DEF Next

\* The inductive invariant holds: whatever fails and whatever ends yar, the
\* descriptor table, the names and yar's own records agree.
THEOREM ResourcesSound == Spec => []ResInv
<1>1. Init => ResInv
  BY InitInv
<1>2. ResInv /\ [Next]_vars => ResInv'
  BY StepInv
<1> QED BY <1>1, <1>2, PTL DEF Spec

\* The shape of the state; a command that is not in GBLS.cmds has no process
\* and no descriptors, wherever cmdCreate or cmdCleanup ended.
THEOREM ResourceTypes == Spec => []TypeOK
<1>1. ResInv => TypeOK
  <2> SUFFICES ASSUME ResInv PROVE TypeOK
    OBVIOUS
  <2>1. /\ R \in Res /\ fds \in [Fd -> Label] /\ path \in [Path -> What]
        /\ tty \in [Tty -> TtyRec] /\ proc \in [Cmd -> ProcRec] /\ lost \in SUBSET Fd
    BY RFields, ResFields DEF ResInv, Fits, Good
  <2>2. \A n \in Fd : fds[n] = Unused \/ Len(fds[n]) = 2
    <3>1. \A x \in Label : x = Unused \/ Len(x) = 2
      BY DEF Label, Lab, PLab
    <3> QED BY <2>1, <3>1
  <2>3. \A p \in Path : path[p] \in {Gone, File, Broken, Mount} \cup
          UNION {{Link(t, k) : k \in DOMAIN Links[t]} : t \in Tty}
    BY <2>1 DEF What
  <2>4. \A c \in Cmd \ cmds :
          proc[c] = NoProc /\ tty[Clt(c)] = NoTty /\ tty[Cmdt(c)] = NoTty
    BY RFields DEF ResInv, Fits, Absent
  <2>5. {mkdir, bcstflg, exitonidle} \subseteq BOOLEAN
    BY DEF ResInv, Others
  <2>6. tty \in [Tty -> [linked : BOOLEAN, dfd : Fd \cup {-1},
                         sfd : Fd \cup {-1}, ifd : Fd \cup {-1}]]
    BY <2>1 DEF TtyRec
  <2>7. proc \in [Cmd -> [died : BOOLEAN, pidfd : Fd \cup {-1}]]
    BY <2>1 DEF ProcRec
  <2>8. Others
    BY DEF ResInv
  <2> QED BY <2>1, <2>2, <2>3, <2>4, <2>5, <2>6, <2>7, <2>8 DEF TypeOK, Others
<1> QED BY <1>1, ResourcesSound, PTL

\* No number in a tty_t or a cmd_t has meanwhile been given to another:
\* ttyCleanup and cmdStop close only what was opened for that field.
THEOREM NumbersNotStale == Spec => []FdsValid
<1>1. ResInv => FdsValid
  <2> SUFFICES ASSUME ResInv PROVE FdsValid
    OBVIOUS
  <2>1. GoodFds(fds, tty, proc, lost)
    BY RFields DEF ResInv, Fits, Good
  <2>2. ASSUME NEW t \in Tty
        PROVE  /\ tty[t].dfd # -1 => fds[tty[t].dfd] = <<t, "dfd">>
               /\ tty[t].sfd # -1 => fds[tty[t].sfd] = <<t, "sfd">>
               /\ tty[t].ifd # -1 => fds[tty[t].ifd] = <<t, "ifd">>
    BY <2>1 DEF GoodFds, Lab
  <2>3. \A t \in Tty, f \in {"dfd", "sfd", "ifd"} :
          tty[t][f] # -1 => fds[tty[t][f]] = <<t, f>>
    <3> SUFFICES ASSUME NEW t \in Tty, NEW f \in {"dfd", "sfd", "ifd"}, tty[t][f] # -1
                 PROVE  fds[tty[t][f]] = <<t, f>>
      OBVIOUS
    <3>1. CASE f = "dfd"
      BY <2>2, <3>1
    <3>2. CASE f = "sfd"
      BY <2>2, <3>2
    <3>3. CASE f = "ifd"
      BY <2>2, <3>3
    <3> QED BY <3>1, <3>2, <3>3
  <2>4. \A c \in Cmd : Running(c) => fds[proc[c].pidfd] = <<<<"cmd", c>>, "pidfd">>
    BY <2>1 DEF GoodFds, PLab, Running
  <2> QED BY <2>3, <2>4 DEF FdsValid
<1> QED BY <1>1, ResourcesSound, PTL

\* The only descriptors open that no field knows are those the two known
\* leaks have lost: pidfds in cmdPidEvent, sub sides in ttyCreate.
THEOREM OnlyKnownLeaks == Spec => []LeakExact
<1>1. ResInv => LeakExact
  <2> SUFFICES ASSUME ResInv PROVE LeakExact
    OBVIOUS
  <2>1. GoodFds(fds, tty, proc, lost)
    BY RFields DEF ResInv, Fits, Good
  <2>2. tty \in [Tty -> TtyRec] /\ proc \in [Cmd -> ProcRec] /\ lost \in SUBSET Fd
    BY RFields, ResFields DEF ResInv, Fits, Good
  <2>3. \A n : n \in UNION {Fields(tty[t]) : t \in Tty} <=> InTty(tty, n)
    BY DEF InTty
  <2>4. \A n \in Fd : n \in {proc[c].pidfd : c \in {d \in Cmd : Running(d)}} <=> InProc(proc, n)
    BY Numbers DEF InProc, Running
  <2>5. \A n : InTty(tty, n) => n \in Fd
    BY <2>2, Numbers DEF InTty
  <2>6. {proc[c].pidfd : c \in {d \in Cmd : Running(d)}} \subseteq Fd
    BY <2>2 DEF Running, ProcRec
  <2>7. \A n \in Fd : fds[n] # Unused <=> n \in lost \/ InTty(tty, n) \/ InProc(proc, n)
    BY <2>1 DEF GoodFds
  <2> DEFINE A == {proc[c].pidfd : c \in {d \in Cmd : Running(d)}}
             B == UNION {Fields(tty[t]) : t \in Tty}
  <2> SUFFICES {n \in Fd : fds[n] # Unused} = lost \cup A \cup B
    BY DEF LeakExact
  <2> HIDE DEF A, B
  <2>8. /\ \A n : n \in B <=> InTty(tty, n)
        /\ \A n \in Fd : n \in A <=> InProc(proc, n)
        /\ A \subseteq Fd
    BY <2>3, <2>4, <2>6 DEF A, B
  <2> QED BY <2>2, <2>5, <2>7, <2>8
<1> QED BY <1>1, ResourcesSound, PTL

\* However far main has come and whatever ends yar, after exit none of its
\* links is left, nor the mount point.
THEOREM ExitsClean == Spec => []CleanExit
<1>1. ResInv => CleanExit
  BY DEF ResInv
<1> QED BY <1>1, ResourcesSound, PTL

\* While a tty lives no step of yar takes one of its names, unless another tty
\* that was given the same name is being made or cleaned up.
THEOREM NamesStay == Spec => LinksKept
<1>1. ResInv /\ [Next]_vars => [\A t \in Tty : Lives(t) =>
        \A k \in DOMAIN Links[t] :
          LET p == Links[t][k]
          IN  path[p] = Link(t, k) =>
                \/ path'[p] = path[p]
                \/ UserRemove(p)
                \/ \E u \in Tty \ {t} : p \in Names(u) /\ ~Lives(u)]_vars
  BY StepInv DEF LinkStep
<1> QED BY <1>1, ResourcesSound, PTL DEF Spec, LinksKept
=============================================================================

---------------------------- MODULE MCResources ----------------------------
EXTENDS Resources

CONSTANTS c1, c2, pm, pf, p1, p2, p3, pb

\* The second name of c1 (its link followed by ".mon") is the first of c2;
\* third names are like second ones and are left out
SharedNames ==
  [t \in Tty |-> CASE t = Mon -> <<pm>>
                   [] t = Bcst -> <<pb>>
                   [] t = Clt(c1) -> <<p1, p2>>
                   [] t = Clt(c2) -> <<p2, p3>>
                   [] OTHER -> <<>>]

OneInitial == <<c1>>
=============================================================================

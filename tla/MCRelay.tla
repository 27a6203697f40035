------------------------------ MODULE MCRelay ------------------------------
EXTENDS Relay

CONSTANTS c1, c2

FirstAndAll  == {Clt(c1), Bcst}
SecondAndAll == {Clt(c2), Bcst}
OneSlow == [c \in Cmd |-> IF c = c1 THEN 1 ELSE 0]
BothSlow == [c \in Cmd |-> 1]
=============================================================================

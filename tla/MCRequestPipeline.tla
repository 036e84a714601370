------------------------- MODULE MCRequestPipeline --------------------------
(* TLC instances of RequestPipeline.                                        *)
EXTENDS RequestPipeline, TLC

CONSTANTS c1, c2, c3, c4, w1, w2, v1, v2, n1, n2, f1, f2, f3, a1, a2, a3

TwoClients == {c1, c2}
ThreeClients == {c1, c2, c3}
FourClients == {c1, c2, c3, c4}
OneSw == <<w1>>
TwoSw == <<w1, w2>>
OneRw == <<v1>>
TwoRw == <<v1, v2>>
OneName == {n1}
TwoNames == {n1, n2}
HashOne == [n \in Name |-> v1]
HashTwo == [n \in Name |-> IF n = n1 THEN v1 ELSE v2]
OneFd == {f1}
TwoFds == {f1, f2}
OneAddr == {a1}
TwoAddrs == {a1, a2}

Symmetry == Permutations(Client) \cup Permutations(Fd) \cup Permutations(Addr)
=============================================================================

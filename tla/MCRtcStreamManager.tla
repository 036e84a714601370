------------------------- MODULE MCRtcStreamManager -------------------------
(* TLC instances of RtcStreamManager.                                       *)
EXTENDS RtcStreamManager, TLC

CONSTANTS u1, u2, n1, n2, s1, s2, s3, s4

TwoUsers == {u1, u2}
OneName == {n1}
TwoNames == {n1, n2}
TwoStreams == {s1, s2}
ThreeStreams == {s1, s2, s3}
FourStreams == {s1, s2, s3, s4}

Symmetry == Permutations(Uid) \cup Permutations(Stream) \cup Permutations(Name)
=============================================================================

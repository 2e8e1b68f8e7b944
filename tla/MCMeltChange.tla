---------------------------- MODULE MCMeltChange ----------------------------
(* Two concurrent melts, two blinded messages, 3-bit amounts.              *)
EXTENDS MeltChange

CONSTANTS r1, r2, b1, b2

MCRequests == {r1, r2}
MCBlinded == {b1, b2}

MCSymmetry == Permutations(MCRequests) \cup Permutations(MCBlinded)
=============================================================================

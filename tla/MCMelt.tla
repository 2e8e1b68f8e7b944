------------------------------- MODULE MCMelt -------------------------------
(* Model-checking instance of Melt: three concurrent melts, two quotes,    *)
(* two proofs of amount 2.  A quote costs amount 1, no fee reserve and an  *)
(* input fee of 1 per proof (input_fee_ppk 1000), so {y1}, {y2} and        *)
(* {y1, y2} are all balanced: two calls may present disjoint inputs or     *)
(* share one.  The proofs are interchangeable, hence the symmetry.         *)
(* The store run with the other reading of remove_proofs gives the proofs  *)
(* amounts 1 and 2 instead, so that {y1} is unbalanced, and keeps no       *)
(* symmetry over them.                                                     *)
EXTENDS Melt, TLC

CONSTANTS r1, r2, r3, q1, q2, y1, y2

MCRequests == {r1, r2, r3}
MCQuotes == {q1, q2}
MCYs == {y1, y2}
MCVal == [y \in MCYs |-> 2]
MCQuoteAmount == [q \in MCQuotes |-> 1]
MCFeeReserve == [q \in MCQuotes |-> 0]
MCSymmetry == Permutations(MCRequests) \cup Permutations(MCQuotes) \cup Permutations(MCYs)
MCValMixed == (y1 :> 1) @@ (y2 :> 2)
MCSymmetryMixed == Permutations(MCRequests) \cup Permutations(MCQuotes)

=============================================================================

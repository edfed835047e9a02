--------------------------- MODULE MCJobEscrow ---------------------------
(***************************************************************************)
(* Small instances of JobEscrow for TLC.  The stakes and the fee are       *)
(* pairwise different and no sum of two of them is the third, so that no   *)
(* swapped or missing leg goes unnoticed.                                  *)
(***************************************************************************)
EXTENDS JobEscrow, TLC

CONSTANTS alice, bob

TheOffer == [c |-> alice, w |-> bob, ca |-> 1, wa |-> 2, fee |-> 4]
HigherOffer == [TheOffer EXCEPT !.fee = 8]

OneOffer == {TheOffer}
TwoOffers == {TheOffer, HigherOffer}
\* Enough for two locks of TheOffer on each side.
Balances == alice :> 10 @@ bob :> 4

IdSymmetry == Permutations(RowIds) \cup Permutations(Jobs)
=============================================================================

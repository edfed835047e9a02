--------------------------- MODULE MCSignedWrites ---------------------------
(***************************************************************************)
(* Small instances of SignedWrites.  The retention is the shortest the     *)
(* code accepts, so that a row goes at the first moment it may go.         *)
(***************************************************************************)
EXTENDS SignedWrites, TLC

\* Clocks one second behind, and as far ahead as the skew allows.
ClientDrifts == {-1, 1}

Symmetry == Permutations(Requests) \cup Permutations(Actors) \cup Permutations(Nonces)
=============================================================================

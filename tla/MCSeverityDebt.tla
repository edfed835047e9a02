--------------------------- MODULE MCSeverityDebt ---------------------------
(***************************************************************************)
(* Small instances of SeverityDebt: jobs of value one, damage that grows   *)
(* with the tier, debt from the third tier on, the blacklist at the       *)
(* fourth.                                                                 *)
(***************************************************************************)
EXTENDS SeverityDebt, TLC

Damage == <<1, 1, 2, 2>>
Hours == <<0, 0, 1, -1>>

Symmetry == Permutations(Repays) \cup Permutations(Actors)
=============================================================================

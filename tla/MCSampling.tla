----------------------------- MODULE MCSampling -----------------------------
(***************************************************************************)
(* Small instances of Sampling: three actors that audit each other, one of *)
(* them a liar.  Two that are partners never audit one another; a lookup   *)
(* that fails keeps one from one audit.                                    *)
(***************************************************************************)
EXTENDS Sampling, TLC

CONSTANTS ann, bea, cat

\* Partners, and a lookup that fails.
Partners == {<<ann, bea>>}
Unknown == {<<cat, bea>>}
\* Enough for one stake each.
Balances == ann :> 2 @@ bea :> 2 @@ cat :> 2

AuditSymmetry == Permutations(Audits)
=============================================================================

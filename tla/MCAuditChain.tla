---------------------------- MODULE MCAuditChain ----------------------------
(***************************************************************************)
(* One instance has the reconciler, both sealers and a reader with pages   *)
(* of two rows; the other a logging thread, the reconciler and an          *)
(* operator with one document, one key to designate and a restart.         *)
(***************************************************************************)
EXTENDS AuditChain
=============================================================================

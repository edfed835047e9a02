---------------------------- MODULE MCPinPipeline ----------------------------
(***************************************************************************)
(* A new mint, and an old record that a provider had encoded itself, whose *)
(* content comes back at boot and whose job is mined again.                *)
(***************************************************************************)
EXTENDS PinPipeline, TLC

CONSTANTS m1, m2, old, job, oldJob, pinata, local

MCEventOf == m1 :> job @@ m2 :> oldJob @@ old :> oldJob
MCOldIndex == << [record |-> old, cid |-> "provider", status |-> "pinned", content |-> FALSE] >>
=============================================================================

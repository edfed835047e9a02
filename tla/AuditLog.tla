------------------------------ MODULE AuditLog ------------------------------
(***************************************************************************)
(* What hexis_audit.py promises about its log, with no hashes, threads,    *)
(* connections or keys in sight: entries are only ever appended, one at a  *)
(* time; an entry is attested, and stays so; and the log says of itself    *)
(* that it attested it, in the same step.  AuditChain implements this.     *)
(***************************************************************************)
EXTENDS Naturals, Sequences

CONSTANTS
    Entry,       \* what can be recorded
    SealOf(_)    \* the entry that says that position i was attested

VARIABLES
    entries,     \* the log
    attested     \* the positions whose entry carries a signature

vars == <<entries, attested>>

Newest == entries'[Len(entries')]

Init ==
    /\ entries \in Seq(Entry) /\ Len(entries) = 1
    /\ attested = {}

\* An entry that says nothing about attestation.
Extend ==
    /\ entries' = Append(entries, Newest)
    /\ Newest \in Entry
    /\ \A i \in DOMAIN entries : Newest # SealOf(i)
    /\ UNCHANGED attested

Attest(i) ==
    /\ attested' = attested \cup {i}
    /\ entries' = Append(entries, SealOf(i))

Next == Extend \/ \E i \in DOMAIN entries : Attest(i)

Spec == Init /\ [][Next]_vars

=============================================================================

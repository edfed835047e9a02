----------------------------- MODULE AuditChain -----------------------------
(***************************************************************************)
(* The audit chain of hexis_audit.py and everyone who touches it: threads  *)
(* that log an event by reading the last row and inserting the next one,   *)
(* the reconcile whose result must be anchored before the bridge serves,   *)
(* both halves of sealing, an operator at the command line, and a          *)
(* stranger who pages through the chain with verify_audit_chain.py while   *)
(* it grows.                                                               *)
(*                                                                         *)
(* Sources: hexis_audit.py, verify_audit_chain.py, and of                  *)
(* hexis_bridge_v0.6.2.py run_ledger_reconcile, LedgerState and the four   *)
(* record_* commands.                                                      *)
(*                                                                         *)
(* A hash is the history it commits to: two rows have the same event_id    *)
(* exactly when they agree on everything that goes into it.  A payload     *)
(* that names a row by its event_id names it here by its sequence.  There  *)
(* is one seal key and Ed25519 is deterministic, so a row either carries   *)
(* the signature of its event_id or none.                                  *)
(***************************************************************************)
EXTENDS Integers, Sequences, FiniteSets

CONSTANTS
    Threads,     \* threads of the bridge that log events
    Reconciler,  \* the thread that reconciles the ledger
    Operators,   \* at the command line; whoever has the shell
    Documents,   \* DOCUMENT_SEAL_ALLOWLIST
    Digests,     \* what a document's bytes can hash to
    Keys,        \* fingerprints
    SealKey,     \* the fingerprint of the seal key in force
    PageSize,    \* rows per page of /audit/chain/full
    None,
    KeyOnHost,   \* the private key is where seal() can read it
    MaxRows,     \* bound on the chain's length
    MaxBoots,    \* bound on starts of the bridge
    MaxSigned,   \* bound on signatures made off this machine
    MaxReads     \* bound on runs of the verifier

ASSUME ChainAssumption ==
    /\ PageSize \in Nat \ {0}
    /\ KeyOnHost \in BOOLEAN
    /\ {MaxRows, MaxBoots, MaxSigned, MaxReads} \subseteq Nat
    /\ Reconciler \notin Threads
    /\ Operators \cap (Threads \cup {Reconciler}) = {}

VARIABLES
    chain,     \* audit_log, ordered by sequence
    call,      \* what each process that calls log_action is in the middle of
    local,     \* sequence seal() read and has not written yet
    signer,    \* event_ids signed off this machine
    remote,    \* sequences of the seal records written by seal_with_signature
    bridge,    \* the bridge: reconciling at boot, serving, or down
    bootAt,    \* history: the chain's length when the bridge last started
    boots,     \* starts so far
    ledger,    \* LedgerState
    reader     \* verify_audit_chain.py

processVars == <<bridge, bootAt, boots, ledger>>
vars == <<chain, call, local, signer, remote, processVars, reader>>

Processes == Threads \cup {Reconciler} \cup Operators

Actions == {"genesis", "event", "ledger_reconcile", "daily_seal",
            "document_seal", "successor_designation",
            "successor_designation_void", "ots_anchor"}
Values == Threads \cup Keys \cup (Documents \X Digests) \cup {None}
\* "of" is the sequence a payload names: sealed, superseded, voided, anchored.
Content == [act : Actions, of : Nat, val : Values]
\* What an event_id commits to.
Hash == Seq([content : Content, seq : Nat])
Row == [seq : Nat, prev : Hash, id : Hash, content : Content, signed : BOOLEAN]
Pos == [seq : Nat, id : Hash]

Event(act, of, val) == [act |-> act, of |-> of, val |-> val]

----------------------------------------------------------------------------
(* The table and its two queries.                                          *)

EventId(prev, content, seq) == Append(prev, [content |-> content, seq |-> seq])

LastRow(c) == [seq |-> c[Len(c)].seq, id |-> c[Len(c)].id]

\* The row one insert makes after the row that was read as the last.
NextRow(last, content) ==
    [seq     |-> last.seq + 1,
     prev    |-> last.id,
     id      |-> EventId(last.id, content, last.seq + 1),
     content |-> content,
     signed  |-> FALSE]

\* Mutant: sequence is not UNIQUE.
InsertableById(c, row) == \A k \in DOMAIN c : c[k].id # row.id

\* event_id is the primary key and sequence is UNIQUE.
Insertable(c, row) == \A k \in DOMAIN c : c[k].seq # row.seq /\ c[k].id # row.id

Unsigned(c) == {k \in DOMAIN c : ~c[k].signed}

\* _unsigned_head: the newest event that carries no signature.
Head1(c) == CHOOSE k \in Unsigned(c) : \A j \in Unsigned(c) : c[j].seq <= c[k].seq

\* Mutant: the seal leaves no record of itself.
SealedQuietly(c, k) == [c EXCEPT ![k].signed = TRUE]

\* One transaction: sign the row at k, append the record that says so.
Sealed(c, k) ==
    LET signed == [c EXCEPT ![k].signed = TRUE]
    IN  Append(signed, NextRow(LastRow(signed), Event("daily_seal", c[k].seq, None)))

Genesis == NextRow([seq |-> -1, id |-> << >>], Event("genesis", 0, None))

----------------------------------------------------------------------------
Idle == [pc |-> "idle"]

ReaderIdle ==
    [pc |-> "idle", runs |-> 0, start |-> 0, still |-> FALSE,
     from |-> 0, got |-> << >>, page |-> << >>, claimed |-> -1]

Init ==
    /\ chain = <<Genesis>>
    /\ call = [p \in Processes |-> Idle]
    /\ local = None
    /\ signer = {}
    /\ remote = {}
    /\ bridge = "down"
    /\ bootAt = 0
    /\ boots = 0
    /\ ledger = [runs |-> FALSE, anchored |-> FALSE]
    /\ reader = ReaderIdle

----------------------------------------------------------------------------
(* log_action: the last row is read outside the transaction the INSERT     *)
(* opens.                                                                  *)

LogRead(p, content) ==
    call' = [call EXCEPT ![p] =
               [pc |-> "insert", content |-> content, last |-> LastRow(chain)]]

\* The insert of p: it succeeds, or raises because the sequence is taken.
LogInsert(p) ==
    LET row == NextRow(call[p].last, call[p].content)
    IN  /\ call[p].pc = "insert"
        /\ Len(chain) < MaxRows
        /\ chain' = IF Insertable(chain, row) THEN Append(chain, row) ELSE chain
        /\ call' = [call EXCEPT ![p] = Idle]

\* Any other failure (a locked database, a full disk) is raised the same way.
LogFail(p) ==
    /\ call[p].pc = "insert"
    /\ call' = [call EXCEPT ![p] = Idle]
    /\ UNCHANGED chain

\* The audit wire and _audit log an event and swallow what is raised.
ThreadReads(t) ==
    /\ bridge = "up"
    /\ call[t].pc = "idle"
    /\ LogRead(t, Event("event", 0, t))
    /\ UNCHANGED <<chain, local, signer, remote, processVars, reader>>

ThreadInserts(t) ==
    /\ LogInsert(t) \/ LogFail(t)
    /\ UNCHANGED <<local, signer, remote, processVars, reader>>

----------------------------------------------------------------------------
(* The reconcile and the bridge's start.                                   *)

Start ==
    /\ bridge = "down"
    /\ boots < MaxBoots
    /\ boots' = boots + 1
    /\ bridge' = "boot"
    /\ bootAt' = Len(chain)
    /\ ledger' = [runs |-> FALSE, anchored |-> FALSE]
    /\ UNCHANGED <<chain, call, local, signer, remote, reader>>

\* _ledger_reconcile_sync, at boot and every hour.
ReconcileReads ==
    /\ bridge \in {"boot", "up"}
    /\ call[Reconciler].pc = "idle"
    /\ LogRead(Reconciler, Event("ledger_reconcile", 0, None))
    /\ UNCHANGED <<chain, local, signer, remote, processVars, reader>>

\* LedgerState.observe.
Observed(anchored) == [runs |-> TRUE, anchored |-> anchored]

\* Mutant: a boot reconcile that was not anchored is only logged.
ObserveQuietly(anchored) ==
    /\ ledger' = Observed(anchored)
    /\ bridge' = "up"

\* run_ledger_reconcile: observe, then refuse to start without the anchor.
Observe(anchored) ==
    /\ ledger' = Observed(anchored)
    /\ bridge' = IF bridge = "boot" THEN (IF anchored THEN "up" ELSE "down")
                 ELSE bridge

ReconcileInserts ==
    /\ \/ LogInsert(Reconciler) /\ Observe(chain' # chain)
       \/ LogFail(Reconciler) /\ Observe(FALSE)
    /\ UNCHANGED <<local, signer, remote, bootAt, boots, reader>>

Crash ==
    /\ bridge # "down"
    /\ bridge' = "down"
    /\ call' = [p \in Processes |-> IF p \in Operators THEN call[p] ELSE Idle]
    /\ ledger' = [runs |-> FALSE, anchored |-> FALSE]
    /\ UNCHANGED <<chain, local, signer, remote, bootAt, boots, reader>>

----------------------------------------------------------------------------
(* Sealing.                                                                *)

\* GET /audit/chain/head, and the signature made somewhere else.
SignHead ==
    /\ bridge = "up"
    /\ Cardinality(signer) < MaxSigned
    /\ Unsigned(chain) # {}
    /\ signer' = signer \cup {chain[Head1(chain)].id}
    /\ UNCHANGED <<chain, call, local, remote, processVars, reader>>

\* seal_with_signature's checks on an event_id whose signature verifies.
Acceptable(c, id) ==
    /\ Unsigned(c) # {}
    /\ c[Head1(c)].id = id

\* POST /audit/seal: any signature made so far, at any time, any number of
\* times.  A post that is refused changes nothing and is no step.
SealRemotely(id) ==
    /\ bridge = "up"
    /\ Len(chain) < MaxRows
    /\ Acceptable(chain, id)
    /\ \E k \in DOMAIN chain :
          /\ chain[k].id = id
          /\ chain' = Sealed(chain, k)
    /\ remote' = remote \cup {chain'[Len(chain')].seq}
    /\ UNCHANGED <<call, local, signer, processVars, reader>>

\* seal(), from cron with the private key: the head is read before the
\* transaction that writes.
SealReads ==
    /\ KeyOnHost
    /\ local = None
    /\ Unsigned(chain) # {}
    /\ local' = chain[Head1(chain)].id
    /\ UNCHANGED <<chain, call, signer, remote, processVars, reader>>

SealWrites ==
    /\ local # None
    /\ Len(chain) < MaxRows
    /\ \E k \in DOMAIN chain :
          /\ chain[k].id = local
          /\ chain' = Sealed(chain, k)
    /\ local' = None
    /\ UNCHANGED <<call, signer, remote, processVars, reader>>

\* write_failed: rolled back.
SealFails ==
    /\ local # None
    /\ local' = None
    /\ UNCHANGED <<chain, call, signer, remote, processVars, reader>>

----------------------------------------------------------------------------
(* The commands.  Each checks what the chain says, closes its connection,  *)
(* and only then calls log_action, which reads the last row on its own.    *)

Rows(c, act) == {k \in DOMAIN c : c[k].content.act = act}

Newest(c, S) == CHOOSE k \in S : \A j \in S : c[j].seq <= c[k].seq

\* record_document_seal: not byte-identical to the newest seal of the name.
MayRecord(c, name, digest) ==
    LET seals == {k \in Rows(c, "document_seal") : c[k].content.val[1] = name}
    IN  seals # {} => c[Newest(c, seals)].content.val # <<name, digest>>

\* Mutant: only what was voided is refused.
MayDesignateAgain(c, current, key) ==
    /\ current # None
    /\ key # current
    /\ \A k \in Rows(c, "successor_designation_void") : c[k].content.val # key

\* _current_seal_key_fingerprint: None when no key file could be read.
KeyRead == {SealKey, None}

\* record_successor_designation: the key in force is known and is another one;
\* never voided, never designated before.
MayDesignate(c, current, key) ==
    /\ current # None
    /\ key # current
    /\ \A k \in Rows(c, "successor_designation_void") : c[k].content.val # key
    /\ \A k \in Rows(c, "successor_designation") : c[k].content.val # key

\* supersedes_sequence; sequence 0 is the genesis row and stands for none.
Superseded(c) ==
    LET prior == Rows(c, "successor_designation")
    IN  IF prior = {} THEN 0 ELSE c[Newest(c, prior)].seq

\* record_successor_void: a designation, not voided yet.
MayVoid(c, k) ==
    /\ c[k].content.act = "successor_designation"
    /\ \A v \in Rows(c, "successor_designation_void") : c[v].content.of # c[k].seq

\* record_ots_anchor: a head this chain contains, not anchored yet.
MayAnchor(c, k) ==
    \A a \in Rows(c, "ots_anchor") : c[a].content.of # c[k].seq

Checked(o, content) ==
    /\ call[o].pc = "idle"
    /\ call' = [call EXCEPT ![o] = [pc |-> "checked", content |-> content]]
    /\ UNCHANGED <<chain, local, signer, remote, processVars, reader>>

RecordDocumentSeal(o, name, digest) ==
    /\ MayRecord(chain, name, digest)
    /\ Checked(o, Event("document_seal", 0, <<name, digest>>))

RecordDesignation(o, key) ==
    /\ \E current \in KeyRead : MayDesignate(chain, current, key)
    /\ Checked(o, Event("successor_designation", Superseded(chain), key))

RecordVoid(o, k) ==
    /\ MayVoid(chain, k)
    /\ Checked(o, Event("successor_designation_void", chain[k].seq, chain[k].content.val))

RecordAnchor(o, k) ==
    /\ MayAnchor(chain, k)
    /\ Checked(o, Event("ots_anchor", chain[k].seq, None))

OperatorReads(o) ==
    /\ call[o].pc = "checked"
    /\ LogRead(o, call[o].content)
    /\ UNCHANGED <<chain, local, signer, remote, processVars, reader>>

OperatorInserts(o) ==
    /\ LogInsert(o) \/ LogFail(o)
    /\ UNCHANGED <<local, signer, remote, processVars, reader>>

OperatorSteps(o) ==
    \/ \E name \in Documents, digest \in Digests : RecordDocumentSeal(o, name, digest)
    \/ \E key \in Keys : RecordDesignation(o, key)
    \/ \E k \in DOMAIN chain : RecordVoid(o, k) \/ RecordAnchor(o, k)
    \/ OperatorReads(o)
    \/ OperatorInserts(o)

----------------------------------------------------------------------------
(* fetch_full_chain over get_chain_page.  A page is two SELECTs, and each  *)
(* sees the chain as it is then.                                           *)

Page(c, from) ==
    SubSeq(c, from + 1, IF from + PageSize < Len(c) THEN from + PageSize ELSE Len(c))

ReaderStarts ==
    /\ reader.pc \in {"idle", "done"}
    /\ reader.runs < MaxReads
    /\ reader' = [ReaderIdle EXCEPT !.pc = "rows", !.runs = reader.runs + 1,
                                    !.start = Len(chain)]
    /\ UNCHANGED <<chain, call, local, signer, remote, processVars>>

FetchRows ==
    /\ bridge = "up"
    /\ reader.pc = "rows"
    /\ reader' = [reader EXCEPT !.pc = "bounds", !.page = Page(chain, reader.from)]
    /\ UNCHANGED <<chain, call, local, signer, remote, processVars>>

\* Mutant: a count of the rows taken for their last sequence.
HasMoreButOne(c, page) == page # << >> /\ page[Len(page)].seq + 1 < c[Len(c)].seq

\* has_more: the page's last sequence is below MAX(sequence).
HasMore(c, page) == page # << >> /\ page[Len(page)].seq < c[Len(c)].seq

\* MAX and COUNT; only the first page's count is kept as the server's claim.
\* "still": every write adds a row, so nothing was written while it read.
FetchBounds ==
    /\ bridge = "up"
    /\ reader.pc = "bounds"
    /\ reader' =
         [pc      |-> IF HasMore(chain, reader.page) THEN "rows" ELSE "done",
          runs    |-> reader.runs,
          start   |-> reader.start,
          still   |-> reader.start = Len(chain),
          from    |-> IF HasMore(chain, reader.page)
                      THEN reader.page[Len(reader.page)].seq + 1 ELSE reader.from,
          got     |-> reader.got \o reader.page,
          page    |-> << >>,
          claimed |-> IF reader.claimed = -1 THEN Len(chain) ELSE reader.claimed]
    /\ UNCHANGED <<chain, call, local, signer, remote, processVars>>

\* Exit code 2: the bridge did not answer.
ReaderFails ==
    /\ bridge # "up"
    /\ reader.pc \in {"rows", "bounds"}
    /\ reader' = [ReaderIdle EXCEPT !.runs = reader.runs]
    /\ UNCHANGED <<chain, call, local, signer, remote, processVars>>

----------------------------------------------------------------------------
Next ==
    \/ \E t \in Threads : ThreadReads(t) \/ ThreadInserts(t)
    \/ Start \/ ReconcileReads \/ ReconcileInserts \/ Crash
    \/ SignHead \/ \E id \in signer : SealRemotely(id)
    \/ SealReads \/ SealWrites \/ SealFails
    \/ \E o \in Operators : OperatorSteps(o)
    \/ ReaderStarts \/ FetchRows \/ FetchBounds \/ ReaderFails

Spec == Init /\ [][Next]_vars

----------------------------------------------------------------------------
(* What the two verifiers compute from rows they were given.               *)

\* verify_chain, and items 2 to 4 of verify_audit_chain.py.
HashesHold(rows) ==
    \A k \in DOMAIN rows :
        /\ rows[k].id = EventId(rows[k].prev, rows[k].content, rows[k].seq)
        /\ rows[k].prev = (IF k = 1 THEN << >> ELSE rows[k - 1].id)

\* check_chain.
CheckChain(rows) ==
    /\ rows # << >>
    /\ \A k \in DOMAIN rows : rows[k].seq = rows[1].seq + k - 1
    /\ HashesHold(rows)

\* check_seals, item 6: each seal record points at a row that carries it.
CheckSeals(rows) ==
    \A s \in Rows(rows, "daily_seal") :
        \E k \in DOMAIN rows : rows[k].seq = rows[s].content.of /\ rows[k].signed

----------------------------------------------------------------------------
(* Properties.                                                             *)

CallState ==
    [pc : {"idle"}] \cup [pc : {"checked"}, content : Content]
    \cup [pc : {"insert"}, content : Content, last : Pos]

TypeOK ==
    /\ chain \in Seq(Row) /\ chain # << >>
    /\ call \in [Processes -> CallState]
    /\ local \in Hash \cup {None}
    /\ signer \subseteq Hash
    /\ remote \subseteq Nat
    /\ bridge \in {"down", "boot", "up"}
    /\ bootAt \in Nat /\ boots \in Nat
    /\ ledger \in [runs : BOOLEAN, anchored : BOOLEAN]
    /\ reader \in [pc : {"idle", "rows", "bounds", "done"}, runs : Nat, start : Nat,
                   still : BOOLEAN, from : Nat, got : Seq(Row), page : Seq(Row),
                   claimed : Nat \cup {-1}]

\* The rows are one line: no gap, no fork, each hash over the row before.
OneLine ==
    \A k \in DOMAIN chain :
        /\ chain[k].seq = k - 1
        /\ chain[k].prev = (IF k = 1 THEN << >> ELSE chain[k - 1].id)
        /\ chain[k].id = EventId(chain[k].prev, chain[k].content, k - 1)

\* Whatever a process read as the last row is still a row, and so is whatever
\* was signed off this machine or is about to be signed on it.
ReadFromChain ==
    /\ \A p \in Processes : call[p].pc = "insert" =>
          \E k \in DOMAIN chain : call[p].last = [seq |-> k - 1, id |-> chain[k].id]
    /\ \A id \in signer : \E k \in DOMAIN chain : chain[k].id = id
    /\ local # None => \E k \in DOMAIN chain : chain[k].id = local

\* Signatures and seal records belong together: a record names an earlier row
\* that is signed, a signed row is named by a record, and the newest row is
\* never signed, so the head both halves agree on is the newest row.  What a
\* remote post sealed is the row right before its record, whose event_id was
\* signed off this machine: no captured post is accepted twice or late.
SealsBelong ==
    /\ ~chain[Len(chain)].signed
    /\ \A s \in Rows(chain, "daily_seal") :
          \E k \in 1 .. s - 1 : chain[s].content.of = k - 1 /\ chain[k].signed
    /\ \A k \in DOMAIN chain : chain[k].signed =>
          \E s \in Rows(chain, "daily_seal") : chain[s].content.of = k - 1
    /\ \A q \in remote :
          /\ q + 1 \in Rows(chain, "daily_seal")
          /\ chain[q + 1].content.of = q - 1
          /\ chain[q].id \in signer

\* The chain under concurrent writers and both sealers: type, one line, and
\* seals that belong to their rows.  This is the inductive invariant.
ChainSound == TypeOK /\ OneLine /\ ReadFromChain /\ SealsBelong

\* A stranger's verdict while the chain is being written (verify_audit_chain.py
\* over get_chain_page): what was fetched is the chain from its first row to a
\* row no older than the last one when the reading began, so the chain checks
\* never fail; and if nothing was written meanwhile, the count and the seal
\* checks agree too.
ReaderSound ==
    reader.pc = "done" =>
        /\ CheckChain(reader.got)
        /\ Len(reader.got) \in reader.start .. Len(chain)
        /\ \A k \in DOMAIN reader.got : reader.got[k].id = chain[k].id
        /\ reader.still => reader.claimed = Len(reader.got) /\ CheckSeals(reader.got)

\* A key is designated once, whatever was retracted since, and never the key in
\* force, even when that key cannot be read; each designation supersedes the
\* one before it; a retraction names a designation and is the only one to; a
\* head is anchored once, and it exists; no document is sealed twice in a row
\* with the same bytes (the record_* commands against chains that grow between
\* their check and their write).
RecordsSound ==
    LET of(k) == chain[k].content.of
        val(k) == chain[k].content.val
        once(S, same(_, _)) == \A j, k \in S : same(j, k) => j = k
        designations == Rows(chain, "successor_designation")
        voids == Rows(chain, "successor_designation_void")
        anchors == Rows(chain, "ots_anchor")
        seals == Rows(chain, "document_seal")
    IN  /\ once(designations, LAMBDA j, k : val(j) = val(k) \/ of(j) = of(k))
        /\ \A k \in designations : of(k) = 0 \/ (of(k) < k - 1 /\ of(k) + 1 \in designations)
        /\ \A k \in designations : val(k) # SealKey
        /\ once(voids, LAMBDA j, k : of(j) = of(k))
        /\ \A k \in voids : of(k) + 1 \in designations /\ val(k) = val(of(k) + 1)
        /\ once(anchors, LAMBDA j, k : of(j) = of(k))
        /\ \A k \in anchors : of(k) < k - 1
        /\ \A j, k \in seals : j < k /\ val(j) = val(k) =>
              \E i \in seals : j < i /\ i < k /\ val(i)[1] = val(j)[1] /\ val(i) # val(j)

\* The bridge serves only after the reconcile of this very start reached the
\* chain, and LedgerState never claims an anchor the chain does not hold
\* (run_ledger_reconcile with fatal=True).
AnchoredBeforeServing ==
    bridge = "up" \/ ledger.anchored =>
        \E k \in Rows(chain, "ledger_reconcile") : k > bootAt

----------------------------------------------------------------------------
(* Refinement: contents and signed positions are an append-only log that   *)
(* attests to itself.                                                      *)

SealRecord(k) == Event("daily_seal", k - 1, None)

Log == INSTANCE AuditLog WITH
    Entry <- Content,
    SealOf <- SealRecord,
    entries <- [k \in DOMAIN chain |-> chain[k].content],
    attested <- {k \in DOMAIN chain : chain[k].signed}

\* The chain implements the log: no row is ever changed, removed or inserted
\* in between, a signature is never taken back, and a seal record appears only
\* with the signature it names.
ImplementsLog == Log!Spec

=============================================================================

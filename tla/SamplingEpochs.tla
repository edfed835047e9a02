--------------------------- MODULE SamplingEpochs ---------------------------
(***************************************************************************)
(* The commit-reveal epochs of PoSP: which delivered jobs are audited is   *)
(* decided by a secret whose commitment goes into the audit chain when the *)
(* epoch opens, and which is revealed there when it has ended, so that     *)
(* anybody can recompute the selection.                                    *)
(*                                                                         *)
(* Source: hexis_sampling.py.  maybe_open has no await: it runs alone from *)
(* start to end, unless the process stops inside.  Its chain rows are      *)
(* written after its transactions, one by one, and one that fails is only  *)
(* logged.  A job that is requested again is delivered again, and has a    *)
(* row of its own in the chain each time, but one audit at most.  The      *)
(* module has the component's state and actions; JobOutcome composes them. *)
(***************************************************************************)
EXTENDS Integers, Sequences, FiniteSets, SequencesExt

CONSTANTS
    Sampled,      \* Jobs: those a worker sent a result for
    Drawn,        \* <<epoch, job>>: the jobs its secret selects
    EpochLength,  \* epoch_len_s
    MaxFaults     \* bound on chain rows that were not written

VARIABLES
    epochs,       \* sampling_epochs; the index is the secret
    audits,       \* sampling_audits: jobs
    chain,        \* audit_log, the rows a reader of the selection needs
    ran,          \* history: the maybe_opens that came to their end, the row of the
                  \* delivery, its epoch and time, and whether it opened an audit
    missing       \* history: rows that were not written

epochVars == <<epochs, audits, chain, ran, missing>>

EpochsInit ==
    /\ epochs = << >> /\ audits = {} /\ chain = << >>
    /\ ran = << >> /\ missing = {}

\* job_complete's row of the chain.
JobRow(j, time) == [type |-> "job_complete", job |-> j, at |-> time]
CommitRow(e) == [type |-> "sampling_epoch", epoch |-> e]
RevealRow(e) == [type |-> "sampling_epoch_reveal", epoch |-> e]
OpenRow(j) == [type |-> "sampling_open", job |-> j]

InChain(row) == \E i \in DOMAIN chain : chain[i] = row

----------------------------------------------------------------------------
Ended(time) == epochs = << >> \/ time >= Last(epochs).ends

\* _current_epoch's transaction: an ended epoch is marked revealed, and the next
\* one opens.
Rolled(time) ==
    IF ~Ended(time) THEN epochs
    ELSE Append([e \in DOMAIN epochs |-> [epochs[e] EXCEPT !.revealed = TRUE]],
                [started |-> time, ends |-> time + EpochLength, revealed |-> FALSE])

\* A row for the chain, when it is due and does not fail.
Row(due, row, failed) == IF due /\ row \notin failed THEN <<row>> ELSE << >>

\* What it queues for the chain: the reveal, then the commitment.
Queued(time, failed) ==
    Row(Ended(time) /\ epochs # << >> /\ ~Last(epochs).revealed, RevealRow(Len(epochs)), failed)
    \o Row(Ended(time), CommitRow(Len(epochs) + 1), failed)

\* Mutant: the row that was read before the rollover decides.
DecidesStale(time) == IF epochs = << >> THEN 1 ELSE Len(epochs)

\* The epoch whose secret decides a job.
Decides(time) == Len(Rolled(time))

\* should_sample_epoch: whether the secret of an epoch draws a job.
Draws(epoch, j) == <<epoch, j>> \in Drawn

\* A job with a result that was not audited before.
Opens(j, time) == j \in Sampled /\ j \notin audits /\ Draws(Decides(time), j)

\* What maybe_open writes to the chain, in order, but for the rows that fail.
Written(j, time, failed) == Queued(time, failed) \o Row(Opens(j, time), OpenRow(j), failed)
Events(j, time) == Written(j, time, {})

\* maybe_open, all of it, for the delivery that a row of the chain tells of, with
\* the rows that fail to be written.
MaybeOpen(j, row, time, failed) ==
    /\ failed \subseteq Range(Events(j, time))
    /\ Cardinality(missing \cup failed) <= MaxFaults
    /\ epochs' = Rolled(time)
    /\ audits' = IF Opens(j, time) THEN audits \cup {j} ELSE audits
    /\ chain' = chain \o Written(j, time, failed)
    /\ missing' = missing \cup failed
    /\ ran' = Append(ran, [job |-> j, row |-> row, epoch |-> Decides(time), at |-> time,
                           opens |-> Opens(j, time)])

\* maybe_open, ended by a stop or an exception after some of its chain rows, or
\* before any; the audit is there when the row of its opening was due.
CutOpening(j, time, rowsWritten, opened) ==
    LET events == Events(j, time)
    IN  /\ rowsWritten \in 0 .. Len(events)
        /\ opened => Opens(j, time) /\ rowsWritten = Len(events) - 1
        /\ opened \/ rowsWritten < Len(events) \/ events = Queued(time, {})
        /\ LET failed == {events[i] : i \in rowsWritten + 1 .. Len(events)}
           IN  /\ Cardinality(missing \cup failed) <= MaxFaults
               /\ missing' = missing \cup failed
        /\ epochs' = Rolled(time)
        /\ audits' = IF opened THEN audits \cup {j} ELSE audits
        /\ chain' = chain \o SubSeq(events, 1, rowsWritten)
        /\ UNCHANGED ran

----------------------------------------------------------------------------
(* Properties.                                                             *)

EpochsTypeOK ==
    /\ \A e \in DOMAIN epochs : /\ epochs[e].started < epochs[e].ends
                                /\ epochs[e].revealed \in BOOLEAN
                                /\ epochs[e].revealed <=> e < Len(epochs)
    /\ \A i \in DOMAIN ran : ran[i].epoch \in DOMAIN epochs

Position(row) == CHOOSE i \in DOMAIN chain : chain[i] = row

\* An audit was opened by a secret that had its commitment in the chain, unless
\* that row was not written, and that the chain had not revealed.
SecretsHold ==
    \A i \in DOMAIN ran : LET e == ran[i].epoch open == OpenRow(ran[i].job) IN
        ran[i].opens /\ InChain(open) =>
            /\ InChain(RevealRow(e)) => Position(open) < Position(RevealRow(e))
            /\ CommitRow(e) \notin missing => Position(CommitRow(e)) < Position(open)

\* The deliveries a reader counts to an epoch: their rows are dated in it.
Within(e) ==
    {k \in DOMAIN chain : /\ chain[k].type = "job_complete"
                          /\ epochs[e].started <= chain[k].at /\ chain[k].at < epochs[e].ends}

\* A reader who recomputes an epoch from its revealed secret and compares every
\* delivery's row with the openings finds one that it must call misconduct only when
\* the delivery's own selection ran after the epoch had ended or never came to its
\* end, when another delivery of the job had it audited in another epoch, or when it
\* had no result or no row: through rollovers, stops, exceptions, rows that failed
\* and jobs delivered again (maybe_open, _current_epoch, _flush_epoch_audits).
ReaderIsRight ==
    \A e \in DOMAIN epochs :
        InChain(CommitRow(e)) /\ InChain(RevealRow(e)) =>
            \A k \in Within(e) : LET j == chain[k].job IN
                \/ (<<e, j>> \in Drawn) = InChain(OpenRow(j))
                \/ \A i \in DOMAIN ran : ran[i].row = k => ran[i].at >= epochs[e].ends
                \/ \E i \in DOMAIN ran : ran[i].job = j /\ ran[i].opens /\ ran[i].epoch # e
                \/ j \notin Sampled
                \/ OpenRow(j) \in missing

\* Selection is decided by a live, committed secret and can be recomputed.
SelectionProvable == EpochsTypeOK /\ SecretsHold /\ ReaderIsRight

=============================================================================

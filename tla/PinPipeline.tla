----------------------------- MODULE PinPipeline -----------------------------
(***************************************************************************)
(* From a mint to a record on IPFS: the index of mints, the queue of       *)
(* records to pin, and the thread that hands them to the providers, backs  *)
(* off when they fail and writes the address back.  Index and queue are    *)
(* two files, each replaced as a whole; either write may fail, and the     *)
(* process may die between any two of them.                                *)
(*                                                                         *)
(* Sources: hexis_ledger.py (LocalIndex, PinQueue, PinService, IPFSClient) *)
(* and hexis_bridge_v0.6.2.py (_index_and_pin, the boot and the stop).     *)
(*                                                                         *)
(* Every mint has a record of its own, and the canonical bytes of a record *)
(* one CID, written here as the record.  An entry's cid is "local" before  *)
(* it was pinned, a record, or the "provider"'s name for bytes it encoded  *)
(* itself.  The event_id is made of the job and the worker, so a job mined *)
(* again gives its event a second record and a second entry of the index.  *)
(***************************************************************************)
EXTENDS Naturals, Sequences, FiniteSets, SequencesExt

CONSTANTS
    EventOf,     \* from the records to their event_id
    Mints,       \* the records mined from now on
    OldIndex,    \* bridge_hexis_index.json at the first boot
    Files,       \* the old records whose content lies in record_restore/
    Providers,
    Configs,     \* the sets of providers a boot may find configured
    MaxCrashes   \* bound on crashes and stops

Records == DOMAIN EventOf
Events == {EventOf[r] : r \in Records}
Statuses == {"pending", "pinned", "none"}
EntryType == [record : Records, cid : Records \cup {"local", "provider"}, status : Statuses,
              content : BOOLEAN]
Items == [record : Records, due : BOOLEAN]
Answers == {"ours", "another", "lost", "refused"}

\* Before this pipeline nothing was queued, so no old record is pending, and
\* none had its own address.
ASSUME PinAssumption ==
    /\ Mints \subseteq Records
    /\ OldIndex \in Seq(EntryType)
    /\ \A i \in DOMAIN OldIndex :
          OldIndex[i].status # "pending" /\ OldIndex[i].cid \notin Records
    /\ Files \subseteq Records \ Mints
    /\ Configs \subseteq SUBSET Providers
    /\ MaxCrashes \in Nat

VARIABLES
    index, indexDisk,   \* LocalIndex.index and its file: entries, oldest first
    queue, queueDisk,   \* PinQueue.pending and its file
    files,
    service,            \* "down", "booting", "serving"
    configured,         \* the providers of this process's IPFSClient
    mint,               \* _index_and_pin of each record
    worker,             \* where the pin thread is
    todo,               \* its copy of the queue, the items still ahead
    hosted,             \* the records whose canonical bytes a provider holds
    crashes,
    missed              \* history: a write or submit of the event was lost

fileVars == <<indexDisk, queueDisk, files>>
threadVars == <<worker, todo>>
pinVars ==
    <<index, queue, fileVars, service, configured, mint, threadVars, hosted, crashes, missed>>

Item(r) == [record |-> r, due |-> TRUE]
Queued(q, e) == \E i \in DOMAIN q : EventOf[q[i].record] = e
\* An event is queued once at most.
Dequeue(q, e) ==
    IF Queued(q, e) THEN RemoveAt(q, CHOOSE i \in DOMAIN q : EventOf[q[i].record] = e) ELSE q
SetDue(q, e, due) ==
    [i \in DOMAIN q |-> IF EventOf[q[i].record] = e THEN [q[i] EXCEPT !.due = due] ELSE q[i]]

\* Who looks an event up finds its first entry, and never a later one.
Has(ix, e) == \E i \in DOMAIN ix : EventOf[ix[i].record] = e
IsFirst(ix, i) == \A j \in 1 .. i - 1 : EventOf[ix[j].record] # EventOf[ix[i].record]
First(ix, e) == CHOOSE i \in DOMAIN ix : EventOf[ix[i].record] = e /\ IsFirst(ix, i)

PinInit ==
    /\ index = OldIndex /\ indexDisk = OldIndex
    /\ queue = << >> /\ queueDisk = << >>
    /\ files = Files
    /\ service = "down" /\ configured = {}
    /\ mint = [r \in Mints |-> "none"]
    /\ worker = "wait" /\ todo = << >>
    /\ hosted = {}
    /\ crashes = 0 /\ missed = {}

\* _atomic_write_json: the whole new file, or an exception and the old one.
Write(disk, new, saved) == IF saved THEN new ELSE disk

----------------------------------------------------------------------------
(* The process.                                                            *)

Boot(conf) ==
    /\ service = "down"
    /\ service' = "booting"
    /\ configured' = conf
    /\ index' = indexDisk /\ queue' = queueDisk
    /\ worker' = "wait" /\ todo' = << >>
    /\ UNCHANGED <<fileVars, mint, hosted, crashes, missed>>

Enqueued(q, r) == IF Queued(q, EventOf[r]) THEN q ELSE Append(q, Item(r))

\* PinQueue.add: an event that is queued already is not queued twice, whatever
\* the record, and nothing is written then.
QueueAdd(r, saved) ==
    LET again == Queued(queue, EventOf[r])
    IN  /\ queue' = Enqueued(queue, r)
        /\ queueDisk' = IF again THEN queueDisk ELSE Write(queueDisk, queue', saved)
        /\ missed' = IF again \/ saved THEN missed ELSE missed \cup {EventOf[r]}

\* One file of record_restore/, before anything else runs: content that hashes
\* to the record_hash of its event's first entry is put back, and a record
\* whose address is not its own is queued to be pinned under it.  The file is
\* renamed, whatever the verdict was, unless the process dies before that.
Restore(r, queued, saved, renamed) ==
    LET k == First(index, EventOf[r])
        stray == index[k].cid # r
        new == [record |-> r, cid |-> r, content |-> TRUE,
                status |-> IF stray THEN "pending" ELSE index[k].status]
    IN  /\ service = "booting" /\ r \in files
        /\ IF renamed THEN files' = files \ {r} /\ UNCHANGED <<service, crashes>>
           ELSE /\ crashes < MaxCrashes
                /\ crashes' = crashes + 1
                /\ service' = "down" /\ files' = files
        /\ IF Has(index, EventOf[r]) /\ index[k].record = r /\ ~index[k].content
           THEN /\ index' = [index EXCEPT ![k] = new]
                /\ IF stray THEN QueueAdd(r, queued) ELSE UNCHANGED <<queue, queueDisk, missed>>
                /\ indexDisk' = Write(indexDisk, index', queued /\ saved)
           ELSE UNCHANGED <<index, queue, indexDisk, queueDisk, missed>>
        /\ UNCHANGED <<configured, mint, threadVars, hosted>>

Serve ==
    /\ service = "booting" /\ files = {}
    /\ service' = "serving"
    /\ UNCHANGED <<index, queue, fileVars, configured, mint, threadVars, hosted, crashes, missed>>

\* The process dies, or stops: what is in memory only is gone.
Stop ==
    /\ service # "down" /\ crashes < MaxCrashes
    /\ crashes' = crashes + 1
    /\ service' = "down"
    /\ missed' = missed \cup {EventOf[r] : r \in {m \in Mints : mint[m] = "indexed"}}
    /\ mint' = [r \in Mints |-> IF mint[r] = "indexed" THEN "over" ELSE mint[r]]
    /\ UNCHANGED <<index, queue, fileVars, configured, threadVars, hosted>>

----------------------------------------------------------------------------
(* _index_and_pin, on the threads that mint.                               *)

\* LedgerRecord.build: the canonical record of a mint, to be pinned under its own
\* address, or an exception, after which the entry carries the value alone.
Entry(r, built) == [record |-> r, cid |-> "local", content |-> built,
                    status |-> IF built THEN "pending" ELSE "none"]

\* LocalIndex.add, with the record unless it could not be built: one entry
\* more, whether or not the event has one.  An entry whose write failed stays
\* in memory, and the mint ends there.
IndexAdd(r, built, saved) ==
    /\ service = "serving" /\ mint[r] = "none"
    /\ index' = Append(index, Entry(r, built))
    /\ indexDisk' = Write(indexDisk, index', saved)
    /\ mint' = [mint EXCEPT ![r] = IF built /\ saved THEN "indexed" ELSE "over"]
    /\ missed' = IF built /\ ~saved THEN missed \cup {EventOf[r]} ELSE missed
    /\ UNCHANGED <<queue, queueDisk, files, service, configured, threadVars, hosted, crashes>>

\* PinService.submit: a queue that cannot be written does not fail the mint.
Submit(r, saved) ==
    /\ service = "serving" /\ mint[r] = "indexed"
    /\ QueueAdd(r, saved)
    /\ mint' = [mint EXCEPT ![r] = "over"]
    /\ UNCHANGED <<index, indexDisk, files, service, configured, threadVars, hosted, crashes>>

----------------------------------------------------------------------------
(* The pin thread.                                                         *)

Current == Head(todo).record

\* It wakes on a submit or after 300 seconds; without a provider it waits on.
\* The clock is read once, so an item is due or not for the whole pass.
TakeAll ==
    /\ service = "serving" /\ worker = "wait"
    /\ configured # {} /\ queue # << >>
    /\ todo' = queue
    /\ worker' = "pin"
    /\ UNCHANGED <<index, queue, fileVars, service, configured, mint, hosted, crashes, missed>>

\* The next item of the pass; after the last one the thread waits again.
NextItem ==
    /\ todo' = Tail(todo)
    /\ worker' = IF Len(todo) = 1 THEN "wait" ELSE "pin"

NotDue ==
    /\ service = "serving" /\ worker = "pin" /\ ~Head(todo).due
    /\ NextItem
    /\ UNCHANGED <<index, queue, fileVars, service, configured, mint, hosted, crashes, missed>>

\* Mutant: what a provider calls our record is taken for its address.
AcceptsAny(answer) == answer \in {"ours", "another"}

\* _check: an answer counts when it names our bytes.
Accepts(answer) == answer = "ours"

\* IPFSClient.pin: every configured provider gets the bytes, one confirmation
\* is enough.  Bytes may be stored although the answer is lost.
Pin(answers) ==
    /\ service = "serving" /\ worker = "pin" /\ Head(todo).due
    /\ hosted' = IF \E p \in configured : answers[p] \in {"ours", "lost"}
                 THEN hosted \cup {Current} ELSE hosted
    /\ worker' = IF \E p \in configured : Accepts(answers[p]) THEN "confirmed" ELSE "failed"
    /\ UNCHANGED <<index, queue, fileVars, service, configured, mint, todo, crashes, missed>>

\* Mutant: no try around the pass.
AfterRaiseDead == "dead"

\* An exception ends the pass; the thread lives.
AfterRaise == "wait"

EndPass == todo' = << >> /\ worker' = AfterRaise

\* PinQueue.failed: the item stays, and backs off.
Failed(saved) ==
    /\ service = "serving" /\ worker = "failed"
    /\ queue' = SetDue(queue, EventOf[Current], FALSE)
    /\ queueDisk' = Write(queueDisk, queue', saved)
    /\ IF saved THEN NextItem ELSE EndPass
    /\ UNCHANGED <<index, indexDisk, files, service, configured, mint, hosted, crashes, missed>>

\* Mutant: the queue first, whether or not the index can be written.
UnqueueAlways(saved) == TRUE

\* Index first, queue second: only a written index lets go of the item.
Unqueue(saved) == saved

\* LocalIndex.set_pinned: the first entry of the event takes the address, whose
\* record it may not be; an event that is not in the index is passed over.
OnPinned(saved) ==
    LET e == EventOf[Current]
    IN  /\ service = "serving" /\ worker = "confirmed"
        /\ IF Has(index, e)
           THEN /\ index' = [index EXCEPT ![First(index, e)].cid = Current,
                                          ![First(index, e)].status = "pinned"]
                /\ indexDisk' = Write(indexDisk, index', saved)
           ELSE UNCHANGED <<index, indexDisk>>
        /\ IF Unqueue(saved) THEN worker' = "done" /\ todo' = todo ELSE NextItem
        /\ UNCHANGED <<queue, queueDisk, files, service, configured, mint, hosted, crashes,
                       missed>>

\* PinQueue.done.
Done(saved) ==
    /\ service = "serving" /\ worker = "done"
    /\ queue' = Dequeue(queue, EventOf[Current])
    /\ queueDisk' = Write(queueDisk, queue', saved)
    /\ IF saved THEN NextItem ELSE EndPass
    /\ UNCHANGED <<index, indexDisk, files, service, configured, mint, hosted, crashes, missed>>

\* _due: the backoff of an item, 60 seconds doubling to an hour, is over.  It is
\* counted from the last attempt, wherever that is written.
Elapse(e) ==
    /\ \E i \in DOMAIN queue : EventOf[queue[i].record] = e /\ ~queue[i].due
    /\ queue' = SetDue(queue, e, TRUE)
    /\ queueDisk' = SetDue(queueDisk, e, TRUE)
    /\ UNCHANGED <<index, indexDisk, files, service, configured, mint, threadVars, hosted,
                   crashes, missed>>

----------------------------------------------------------------------------
RestoreDone == \E r \in Files, queued, saved \in BOOLEAN : Restore(r, queued, saved, TRUE)

\* A step of the pin thread.
ThreadStep ==
    \/ TakeAll \/ NotDue
    \/ \E answers \in [Providers -> Answers] : Pin(answers)
    \/ \E saved \in BOOLEAN : Failed(saved) \/ OnPinned(saved) \/ Done(saved)

PinNext ==
    \/ \E conf \in Configs : Boot(conf)
    \/ \E r \in Files, queued, saved, renamed \in BOOLEAN : Restore(r, queued, saved, renamed)
    \/ Serve
    \/ Stop
    \/ \E r \in Mints, built, saved \in BOOLEAN : IndexAdd(r, built, saved)
    \/ \E r \in Mints, saved \in BOOLEAN : Submit(r, saved)
    \/ ThreadStep
    \/ \E e \in Events : Elapse(e)

PinSpec == PinInit /\ [][PinNext]_pinVars

\* Systemd starts the bridge again, its threads run and time passes; providers
\* that are asked again and again confirm a record at last, and an index that
\* is written again and again is written at last.
PinFairness ==
    /\ WF_pinVars((\E conf \in Configs : Boot(conf)) \/ RestoreDone \/ Serve)
    /\ WF_pinVars(ThreadStep)
    /\ WF_pinVars(\E e \in Events : Elapse(e))
    /\ SF_pinVars(\E answers \in [Providers -> {"ours"}] : Pin(answers))
    /\ SF_pinVars(OnPinned(TRUE))

LivePinSpec == PinSpec /\ PinFairness

----------------------------------------------------------------------------
(* Properties.                                                             *)

PinTypeOK ==
    /\ index \in Seq(EntryType) /\ indexDisk \in Seq(EntryType)
    /\ queue \in Seq(Items) /\ queueDisk \in Seq(Items)
    /\ files \subseteq Files
    /\ service \in {"down", "booting", "serving"}
    /\ configured \subseteq Providers
    /\ mint \in [Mints -> {"none", "indexed", "over"}]
    /\ worker \in {"wait", "pin", "failed", "confirmed", "done"}
    /\ todo \in Seq(Items) /\ (worker # "wait" => todo # << >>)
    /\ hosted \subseteq Records
    /\ crashes \in Nat /\ missed \subseteq Events

\* The event is in the given queue, or between the two writes of a mint of it,
\* or one of those whose write was lost.
Covered(q, e) ==
    \/ Queued(q, e)
    \/ e \in missed
    \/ \E r \in Mints : EventOf[r] = e /\ mint[r] = "indexed"

\* No event waits for a pin nobody will attempt.  Only first entries count.
Remembers(ix, q) ==
    \A i \in DOMAIN ix :
        ix[i].status = "pending" /\ IsFirst(ix, i) => Covered(q, EventOf[ix[i].record])

Unrepeated(q) ==
    \A i, j \in DOMAIN q : EventOf[q[i].record] = EventOf[q[j].record] => i = j

\* Whatever the providers answer, whichever write fails and wherever the
\* process dies, an event whose entry is pending is in the queue, in memory and
\* on disk, once, unless the write or the submit that would have queued it was
\* itself lost (_drain, set_pinned, done, failed, restore_content).  The entry
\* is the event's first: set_pinned reaches no other, so the second entry of an
\* event mined again stays pending whether or not anything is queued.
NothingForgotten ==
    /\ PinTypeOK
    /\ Remembers(index, queue) /\ Remembers(indexDisk, queueDisk)
    /\ Unrepeated(queue) /\ Unrepeated(queueDisk)

\* The address a pinned entry names is the address of a record of its event, and
\* a provider holds that record byte for byte.
Truthful(ix) ==
    \A i \in DOMAIN ix :
        ix[i].status = "pinned" /\ ix[i].cid \in Records =>
            ix[i].cid \in hosted /\ EventOf[ix[i].cid] = EventOf[ix[i].record]

\* What the index calls pinned under one of our addresses can be fetched there,
\* also when providers encode it themselves, answer late or not at all, and
\* when an event has several records (_check, pin, set_pinned).  It need not be
\* the entry's own record: a later record of the event may give it its address.
PinnedIsHosted == Truthful(index) /\ Truthful(indexDisk)

OnDiskPinned(e) ==
    Has(indexDisk, e) /\ indexDisk[First(indexDisk, e)].status = "pinned"
                      /\ indexDisk[First(indexDisk, e)].cid \in Records

\* With a provider configured from some time on, every event in the queue's file
\* is in the end pinned, and the index's file says so: through failed answers,
\* failed writes, passes that were cut off, and restarts (_loop).
EventuallyPinned ==
    <>[](configured # {}) =>
        \A e \in Events : Queued(queueDisk, e) ~> OnDiskPinned(e)

=============================================================================

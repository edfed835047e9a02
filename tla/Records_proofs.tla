------------------------- MODULE Records_proofs -------------------------
(***************************************************************************)
(* The two records the node keeps beside its tables: the audit chain and   *)
(* the mints pinned to IPFS.                                               *)
(*                                                                         *)
(* The audit chain is one line whose seals belong to their rows, and an    *)
(* append-only log that attests to itself, for any number of threads,      *)
(* operators, keys, documents, starts and signatures, any page size, and   *)
(* chains of any length.                                                   *)
(*                                                                         *)
(* ChainSound needs two facts more to be inductive: nothing that calls     *)
(* log_action writes a seal record (SealsOnlyByHalves), and a row's        *)
(* history is as long as the row is far from the start, so that no two     *)
(* rows share an event_id (HashLengths). ReaderSound adds what the reader  *)
(* holds: a run of rows that never change again, with the seals of a       *)
(* moment it may not be told of yet (ReaderInv). RecordsSound adds what a  *)
(* command still knows between its check and its row (RecordInv), and      *)
(* needs one operator at a time: two would both pass the check.            *)
(***************************************************************************)
EXTENDS AuditChain, PinPipeline, TLAPS, SequenceTheorems, WellFoundedInduction

HashLengths == \A k \in DOMAIN chain : Len(chain[k].id) = k

SealsOnlyByHalves ==
    \A p \in Processes : call[p].pc # "idle" => call[p].content.act # "daily_seal"

ChainTypes == chain \in Seq(Row) /\ chain # << >>

OtherTypes ==
    /\ call \in [Processes -> CallState]
    /\ local \in Hash \cup {None}
    /\ signer \subseteq Hash
    /\ remote \subseteq Nat
    /\ bridge \in {"down", "boot", "up"}
    /\ bootAt \in Nat /\ boots \in Nat
    /\ ledger \in [runs : BOOLEAN, anchored : BOOLEAN]

ReaderTypes ==
    reader \in [pc : {"idle", "rows", "bounds", "done"}, runs : Nat, start : Nat,
                still : BOOLEAN, from : Nat, got : Seq(Row), page : Seq(Row),
                claimed : Nat \cup {-1}]

\* What is true of the table and of the signatures made for it.
TableInv == ChainTypes /\ remote \subseteq Nat /\ OneLine /\ HashLengths /\ SealsBelong

ChainInv == TableInv /\ OtherTypes /\ ReadFromChain /\ SealsOnlyByHalves

-----------------------------------------------------------------------------
(* Arithmetic and rows *)

LEMMA NatMin ==
    ASSUME NEW T \in SUBSET Nat, T # {}
    PROVE  \E m \in T : \A n \in T : m <= n
  <1> DEFINE R == {ss \in Nat \X Nat : ss[1] < ss[2]}
  <1>1. R = OpToRel(<, Nat)
    BY DEF OpToRel
  <1>2. IsWellFoundedOn(R, Nat)
    BY <1>1, NatLessThanWellFounded
  <1> HIDE DEF R
  <1>3. PICK m \in T : \A n \in T : ~ (<<n, m>> \in R)
    BY <1>2, WFMin
  <1>4. ASSUME NEW n \in T PROVE m <= n
    <2> SUFFICES ASSUME n < m PROVE FALSE
      OBVIOUS
    <2>1. <<n, m>> \in Nat \X Nat /\ <<n, m>>[1] < <<n, m>>[2]
      OBVIOUS
    <2>2. <<n, m>> \in R
      BY <2>1 DEF R
    <2> QED BY <1>3, <2>2
  <1> QED BY <1>4

LEMMA NatMax ==
    ASSUME NEW bound \in Nat, NEW S \in SUBSET (0 .. bound), S # {}
    PROVE  \E m \in S : \A n \in S : n <= m
  <1> DEFINE T == {bound - n : n \in S}
  <1>1. \A n \in S : n \in Nat /\ bound - n \in Nat
    OBVIOUS
  <1>2. T \in SUBSET Nat /\ T # {}
    BY <1>1
  <1>3. \A n \in S : bound - n \in T
    OBVIOUS
  <1>4. \A m \in T : \E s \in S : m = bound - s
    OBVIOUS
  <1> HIDE DEF T
  <1>5. PICK m \in T : \A n \in T : m <= n
    BY <1>2, NatMin
  <1>6. PICK s \in S : m = bound - s
    BY <1>4
  <1>7. \A n \in S : n <= s
    BY <1>1, <1>3, <1>5, <1>6
  <1> QED BY <1>7

LEMMA EventTypes ==
    ASSUME NEW act \in Actions, NEW of \in Nat, NEW val \in Values
    PROVE  /\ Event(act, of, val) \in Content
           /\ Event(act, of, val).act = act
           /\ Event(act, of, val).of = of
           /\ Event(act, of, val).val = val
  BY DEF Event, Content

\* The row is the one after the row number n, with that content.
Follows(row, id, content, n) ==
    /\ row \in Row
    /\ row.seq = n /\ row.prev = id /\ row.content = content /\ row.signed = FALSE
    /\ row.id = EventId(id, content, n)
    /\ Len(row.id) = Len(id) + 1

LEMMA NextRowFollows ==
    ASSUME NEW id \in Hash, NEW n \in Nat, NEW content \in Content
    PROVE  Follows(NextRow([seq |-> n - 1, id |-> id], content), id, content, n)
  <1> DEFINE row == [seq |-> n, prev |-> id, id |-> EventId(id, content, n),
                     content |-> content, signed |-> FALSE]
  <1>1. n - 1 + 1 = n
    OBVIOUS
  <1>2. EventId(id, content, n) \in Hash /\ Len(EventId(id, content, n)) = Len(id) + 1
    BY DEF EventId, Hash
  <1>3. NextRow([seq |-> n - 1, id |-> id], content) = row
    BY <1>1 DEF NextRow
  <1>4. row \in Row
    BY <1>2 DEF Row
  <1>5. Follows(row, id, content, n)
    BY <1>2, <1>4 DEF Follows
  <1> QED BY <1>3, <1>5

-----------------------------------------------------------------------------
(* What a write to the table does to it *)

\* The rows that were there still are, but for signatures.
Kept ==
    \A k \in DOMAIN chain :
        /\ k \in DOMAIN chain'
        /\ chain'[k].id = chain[k].id /\ chain'[k].prev = chain[k].prev
        /\ chain'[k].content = chain[k].content /\ chain'[k].seq = chain[k].seq

Contents(c) == [k \in DOMAIN c |-> c[k].content]
SignedIn(c) == {k \in DOMAIN c : c[k].signed}

LEMMA TableFacts ==
    ASSUME ChainTypes
    PROVE  /\ Len(chain) \in Nat \ {0} /\ DOMAIN chain = 1 .. Len(chain)
           /\ \A k \in 1 .. Len(chain) : chain[k] \in Row /\ chain[k].id \in Hash
  <1>1. Len(chain) \in Nat \ {0} /\ DOMAIN chain = 1 .. Len(chain)
        /\ \A k \in 1 .. Len(chain) : chain[k] \in Row
    BY DEF ChainTypes
  <1> QED BY <1>1 DEF Row

\* An event that is no seal record, after the last row.
LEMMA EventGrows ==
    ASSUME TableInv, NEW content \in Content, content.act # "daily_seal",
           chain' = Append(chain, NextRow(LastRow(chain), content)),
           UNCHANGED <<signer, remote>>
    PROVE  TableInv' /\ Kept /\ Len(chain') = Len(chain) + 1
           /\ chain'[Len(chain) + 1].content = content
           /\ Contents(chain') = Append(Contents(chain), content)
           /\ SignedIn(chain') = SignedIn(chain)
  <1> DEFINE n == Len(chain)
             row == NextRow(LastRow(chain), content)
  <1>1. /\ n \in Nat \ {0} /\ DOMAIN chain = 1 .. n
        /\ \A k \in 1 .. n : chain[k] \in Row /\ chain[k].id \in Hash
    BY TableFacts DEF TableInv
  <1>2. /\ row \in Row
        /\ row.seq = n /\ row.prev = chain[n].id /\ row.content = content /\ row.signed = FALSE
        /\ row.id = EventId(chain[n].id, content, n)
        /\ Len(row.id) = n + 1
    <2>1. LastRow(chain) = [seq |-> n - 1, id |-> chain[n].id]
      BY <1>1 DEF LastRow, TableInv, OneLine
    <2>2. Len(chain[n].id) = n
      BY <1>1 DEF TableInv, HashLengths
    <2>3. n \in Nat /\ chain[n].id \in Hash
      BY <1>1
    <2>4. Follows(row, chain[n].id, content, n)
      BY <2>1, <2>3, NextRowFollows
    <2> QED BY <2>2, <2>4 DEF Follows
  <1> HIDE DEF row
  <1>3. /\ chain' \in Seq(Row) /\ Len(chain') = n + 1 /\ DOMAIN chain' = 1 .. n + 1
        /\ \A k \in 1 .. n : chain'[k] = chain[k]
        /\ chain'[n + 1] = row
    BY <1>1, <1>2 DEF row, TableInv, ChainTypes
  <1> HIDE DEF n
  <1>4. ChainTypes' /\ HashLengths' /\ OneLine' /\ Kept
    <2>1. ChainTypes'
      BY <1>1, <1>3 DEF ChainTypes
    <2>2. HashLengths'
      BY <1>1, <1>2, <1>3 DEF TableInv, HashLengths
    <2>3. OneLine'
      <3> SUFFICES ASSUME NEW k \in 1 .. n + 1
                   PROVE  /\ chain'[k].seq = k - 1
                          /\ chain'[k].prev = (IF k = 1 THEN << >> ELSE chain'[k - 1].id)
                          /\ chain'[k].id = EventId(chain'[k].prev, chain'[k].content, k - 1)
        BY <1>3 DEF OneLine
      <3>1. CASE k \in 1 .. n
        <4>1. k # 1 => k - 1 \in 1 .. n
          BY <1>1, <3>1
        <4> QED BY <1>1, <1>3, <3>1, <4>1 DEF TableInv, OneLine
      <3>2. CASE k = n + 1
        <4>1. k # 1 /\ k - 1 = n /\ n \in 1 .. n
          BY <1>1, <3>2
        <4> QED BY <1>1, <1>2, <1>3, <3>2, <4>1
      <3> QED BY <1>1, <3>1, <3>2
    <2>4. Kept
      BY <1>1, <1>3 DEF Kept
    <2> QED BY <2>1, <2>2, <2>3, <2>4
  <1>5. Rows(chain', "daily_seal") = Rows(chain, "daily_seal")
    BY <1>1, <1>2, <1>3 DEF Rows
  <1>6. SealsBelong'
    <2>1. Rows(chain, "daily_seal") \subseteq 1 .. n
      BY <1>1 DEF Rows
    <2>2. ~chain'[Len(chain')].signed
      BY <1>2, <1>3
    <2>3. \A s \in Rows(chain', "daily_seal") :
             \E k \in 1 .. s - 1 : chain'[s].content.of = k - 1 /\ chain'[k].signed
      <3> SUFFICES ASSUME NEW s \in Rows(chain, "daily_seal")
                   PROVE  \E k \in 1 .. s - 1 : chain'[s].content.of = k - 1 /\ chain'[k].signed
        BY <1>5
      <3>1. PICK k \in 1 .. s - 1 : chain[s].content.of = k - 1 /\ chain[k].signed
        BY DEF TableInv, SealsBelong
      <3>2. s \in 1 .. n /\ k \in 1 .. n
        BY <1>1, <2>1
      <3> QED BY <1>3, <3>1, <3>2
    <2>4. \A k \in DOMAIN chain' : chain'[k].signed =>
             \E s \in Rows(chain', "daily_seal") : chain'[s].content.of = k - 1
      <3> SUFFICES ASSUME NEW k \in 1 .. n + 1, chain'[k].signed
                   PROVE  \E s \in Rows(chain, "daily_seal") : chain'[s].content.of = k - 1
        BY <1>3, <1>5
      <3>1. k \in 1 .. n /\ chain[k].signed
        BY <1>1, <1>2, <1>3
      <3>2. PICK s \in Rows(chain, "daily_seal") : chain[s].content.of = k - 1
        BY <1>1, <3>1 DEF TableInv, SealsBelong
      <3> QED BY <1>3, <2>1, <3>2
    <2>5. \A q \in remote' :
             /\ q + 1 \in Rows(chain', "daily_seal")
             /\ chain'[q + 1].content.of = q - 1
             /\ chain'[q].id \in signer'
      <3> SUFFICES ASSUME NEW q \in remote
                   PROVE  /\ q + 1 \in Rows(chain, "daily_seal")
                          /\ chain'[q + 1].content.of = q - 1
                          /\ chain'[q].id \in signer
        BY <1>5
      <3>1. /\ q + 1 \in Rows(chain, "daily_seal")
            /\ chain[q + 1].content.of = q - 1
            /\ chain[q].id \in signer
        BY DEF TableInv, SealsBelong
      <3>2. chain[q + 1] \in Row /\ chain[q + 1].content.of \in Nat
        BY <1>1, <2>1, <3>1 DEF Row, Content
      <3>3. q \in Nat
        BY DEF TableInv
      <3>4. q \in 1 .. n
        BY <1>1, <2>1, <3>1, <3>2, <3>3
      <3> QED BY <1>3, <2>1, <3>1, <3>4
    <2> QED BY <2>2, <2>3, <2>4, <2>5 DEF SealsBelong
  <1>7. Contents(chain') = Append(Contents(chain), content)
    BY <1>1, <1>2, <1>3 DEF Contents
  <1>8. SignedIn(chain') = SignedIn(chain)
    BY <1>1, <1>2, <1>3 DEF SignedIn
  <1> QED BY <1>2, <1>3, <1>4, <1>6, <1>7, <1>8 DEF TableInv, n

\* A seal: the row at k signed, and the record of it after the last row.
LEMMA SealGrows ==
    ASSUME TableInv, NEW k \in DOMAIN chain, chain' = Sealed(chain, k), UNCHANGED signer,
           \/ remote' = remote
           \/ k = Len(chain) /\ chain[k].id \in signer /\ remote' = remote \cup {Len(chain)}
    PROVE  TableInv' /\ Kept /\ Len(chain') = Len(chain) + 1
           /\ chain'[Len(chain) + 1].seq = Len(chain)
           /\ Contents(chain') = Append(Contents(chain), SealRecord(k))
           /\ SignedIn(chain') = SignedIn(chain) \cup {k}
  <1> DEFINE n == Len(chain)
             signed == [chain EXCEPT ![k].signed = TRUE]
             content == SealRecord(k)
             row == NextRow(LastRow(signed), content)
  <1>1. /\ n \in Nat \ {0} /\ DOMAIN chain = 1 .. n /\ k \in 1 .. n
        /\ \A j \in 1 .. n : chain[j] \in Row /\ chain[j].id \in Hash
    BY TableFacts DEF TableInv
  <1>2. /\ signed \in Seq(Row) /\ Len(signed) = n /\ DOMAIN signed = 1 .. n
        /\ \A j \in 1 .. n : /\ signed[j].id = chain[j].id /\ signed[j].prev = chain[j].prev
                             /\ signed[j].content = chain[j].content
                             /\ signed[j].seq = chain[j].seq
                             /\ (signed[j].signed <=> chain[j].signed \/ j = k)
    <2>1. [chain[k] EXCEPT !.signed = TRUE] \in Row
      BY <1>1 DEF Row
    <2>2. signed = [j \in 1 .. n |-> IF j = k THEN [chain[k] EXCEPT !.signed = TRUE] ELSE chain[j]]
      BY <1>1
    <2>3. \A j \in 1 .. n : chain[j].signed \in BOOLEAN
      BY <1>1 DEF Row
    <2> HIDE DEF n, signed
    <2>4. signed \in Seq(Row) /\ Len(signed) = n /\ DOMAIN signed = 1 .. n
      <3>1. signed \in [1 .. n -> Row] /\ n \in Nat
        BY <1>1, <2>1, <2>2
      <3> QED BY <3>1, SeqDef
    <2>5. ASSUME NEW j \in 1 .. n
          PROVE  /\ signed[j].id = chain[j].id /\ signed[j].prev = chain[j].prev
                 /\ signed[j].content = chain[j].content /\ signed[j].seq = chain[j].seq
                 /\ (signed[j].signed <=> chain[j].signed \/ j = k)
      <3>1. CASE j = k
        <4>1. signed[j] = [chain[k] EXCEPT !.signed = TRUE]
          BY <1>1, <2>2, <3>1
        <4> QED BY <1>1, <3>1, <4>1 DEF Row
      <3>2. CASE j # k
        BY <2>2, <2>3, <3>2
      <3> QED BY <3>1, <3>2
    <2> QED BY <2>4, <2>5
  <1>3. /\ content \in Content /\ content.act = "daily_seal" /\ content.of = k - 1
        /\ Event("daily_seal", chain[k].seq, None) = content
    <2>1. chain[k].seq = k - 1 /\ k - 1 \in Nat
      BY <1>1 DEF TableInv, OneLine
    <2>2. "daily_seal" \in Actions /\ None \in Values
      BY DEF Actions, Values
    <2> QED BY <2>1, <2>2, EventTypes DEF SealRecord
  <1> HIDE DEF content
  <1>4. chain' = Append(signed, row)
    BY <1>3 DEF Sealed
  <1>5. /\ row \in Row
        /\ row.seq = n /\ row.prev = chain[n].id /\ row.content = content /\ row.signed = FALSE
        /\ row.id = EventId(chain[n].id, content, n)
        /\ Len(row.id) = n + 1
    <2> HIDE DEF signed
    <2>1. LastRow(signed) = [seq |-> n - 1, id |-> chain[n].id]
      BY <1>1, <1>2 DEF LastRow, TableInv, OneLine
    <2>2. Len(chain[n].id) = n
      BY <1>1 DEF TableInv, HashLengths
    <2>3. n \in Nat /\ chain[n].id \in Hash
      BY <1>1
    <2> HIDE DEF n
    <2>4. Follows(row, chain[n].id, content, n)
      BY <1>3, <2>1, <2>3, NextRowFollows
    <2> QED BY <2>2, <2>4 DEF Follows
  <1> HIDE DEF row, signed
  <1>6. /\ chain' \in Seq(Row) /\ Len(chain') = n + 1 /\ DOMAIN chain' = 1 .. n + 1
        /\ \A j \in 1 .. n : /\ chain'[j].id = chain[j].id /\ chain'[j].prev = chain[j].prev
                             /\ chain'[j].content = chain[j].content
                             /\ chain'[j].seq = chain[j].seq
                             /\ (chain'[j].signed <=> chain[j].signed \/ j = k)
        /\ chain'[n + 1] = row
    <2>1. /\ chain' \in Seq(Row) /\ Len(chain') = n + 1 /\ DOMAIN chain' = 1 .. n + 1
          /\ \A j \in 1 .. n : chain'[j] = signed[j]
          /\ chain'[n + 1] = row
      BY <1>1, <1>2, <1>4, <1>5
    <2> QED BY <1>2, <2>1
  <1> HIDE DEF n
  <1>7. ChainTypes' /\ HashLengths' /\ OneLine' /\ Kept
    <2>1. ChainTypes'
      BY <1>1, <1>6 DEF ChainTypes
    <2>2. HashLengths'
      BY <1>1, <1>5, <1>6 DEF TableInv, HashLengths
    <2>3. OneLine'
      <3> SUFFICES ASSUME NEW j \in 1 .. n + 1
                   PROVE  /\ chain'[j].seq = j - 1
                          /\ chain'[j].prev = (IF j = 1 THEN << >> ELSE chain'[j - 1].id)
                          /\ chain'[j].id = EventId(chain'[j].prev, chain'[j].content, j - 1)
        BY <1>6 DEF OneLine
      <3>1. CASE j \in 1 .. n
        <4>1. j # 1 => j - 1 \in 1 .. n
          BY <1>1, <3>1
        <4>2. /\ chain[j].seq = j - 1
              /\ chain[j].prev = (IF j = 1 THEN << >> ELSE chain[j - 1].id)
              /\ chain[j].id = EventId(chain[j].prev, chain[j].content, j - 1)
          BY <1>1, <3>1 DEF TableInv, OneLine
        <4>3. chain'[j - 1].id = chain[j - 1].id \/ j = 1
          BY <1>6, <4>1
        <4> QED BY <1>6, <3>1, <4>2, <4>3
      <3>2. CASE j = n + 1
        <4>1. j # 1 /\ j - 1 = n /\ n \in 1 .. n
          BY <1>1, <3>2
        <4> QED BY <1>1, <1>5, <1>6, <3>2, <4>1
      <3> QED BY <1>1, <3>1, <3>2
    <2>4. Kept
      BY <1>1, <1>6 DEF Kept
    <2> QED BY <2>1, <2>2, <2>3, <2>4
  <1>8. Rows(chain', "daily_seal") = Rows(chain, "daily_seal") \cup {n + 1}
    BY <1>1, <1>3, <1>5, <1>6 DEF Rows
  <1>9. Rows(chain, "daily_seal") \subseteq 1 .. n
    BY <1>1 DEF Rows
  <1>10. chain'[n + 1].content.of = k - 1 /\ chain'[k].signed /\ k \in 1 .. n + 1 - 1
    BY <1>1, <1>3, <1>5, <1>6
  <1>11. SealsBelong'
    <2>1. ~chain'[Len(chain')].signed
      BY <1>5, <1>6
    <2>2. ASSUME NEW s \in Rows(chain', "daily_seal")
          PROVE  \E j \in 1 .. s - 1 : chain'[s].content.of = j - 1 /\ chain'[j].signed
      <3>1. CASE s = n + 1
        <4>1. chain'[s].content.of = k - 1 /\ k \in 1 .. s - 1
          BY <1>1, <1>10, <3>1
        <4>2. chain'[k].signed
          BY <1>10
        <4> QED BY <4>1, <4>2
      <3>2. CASE s \in Rows(chain, "daily_seal")
        <4>1. PICK j \in 1 .. s - 1 : chain[s].content.of = j - 1 /\ chain[j].signed
          BY <3>2 DEF TableInv, SealsBelong
        <4>2. s \in 1 .. n /\ j \in 1 .. n
          BY <1>1, <1>9, <3>2
        <4> QED BY <1>6, <4>1, <4>2
      <3> QED BY <1>8, <3>1, <3>2
    <2>3. ASSUME NEW j \in DOMAIN chain', chain'[j].signed
          PROVE  \E s \in Rows(chain', "daily_seal") : chain'[s].content.of = j - 1
      <3>1. CASE j = k
        BY <1>8, <1>10, <3>1
      <3>2. CASE j # k
        <4>1. j \in 1 .. n /\ chain[j].signed
          BY <1>1, <1>5, <1>6, <2>3, <3>2
        <4>2. PICK s \in Rows(chain, "daily_seal") : chain[s].content.of = j - 1
          BY <1>1, <4>1 DEF TableInv, SealsBelong
        <4> QED BY <1>6, <1>8, <1>9, <4>2
      <3> QED BY <3>1, <3>2
    <2>4. ASSUME NEW q \in remote'
          PROVE  /\ q + 1 \in Rows(chain', "daily_seal")
                 /\ chain'[q + 1].content.of = q - 1
                 /\ chain'[q].id \in signer'
      <3>1. CASE q \in remote
        <4>1. /\ q + 1 \in Rows(chain, "daily_seal")
              /\ chain[q + 1].content.of = q - 1
              /\ chain[q].id \in signer
          BY <3>1 DEF TableInv, SealsBelong
        <4>2. chain[q + 1] \in Row /\ chain[q + 1].content.of \in Nat
          BY <1>1, <1>9, <4>1 DEF Row, Content
        <4>3. q \in Nat
          BY <3>1 DEF TableInv
        <4>4. q \in 1 .. n
          BY <1>1, <1>9, <4>1, <4>2, <4>3
        <4> QED BY <1>6, <1>8, <1>9, <4>1, <4>4
      <3>2. CASE q \notin remote
        <4>1. q = n /\ k = n /\ chain[k].id \in signer
          BY <2>4, <3>2 DEF n
        <4> QED BY <1>1, <1>6, <1>8, <1>10, <4>1
      <3> QED BY <3>1, <3>2
    <2> QED BY <2>1, <2>2, <2>3, <2>4 DEF SealsBelong
  <1>12. Contents(chain') = Append(Contents(chain), content)
    <2> DEFINE all == [j \in 1 .. n + 1 |-> IF j = n + 1 THEN content ELSE chain[j].content]
    <2>1. Contents(chain') = all
      BY <1>1, <1>5, <1>6 DEF Contents
    <2>2. Append(Contents(chain), content) = all
      BY <1>1 DEF Contents
    <2> QED BY <2>1, <2>2
  <1>13. SignedIn(chain') = SignedIn(chain) \cup {k}
    BY <1>1, <1>5, <1>6 DEF SignedIn
  <1>14. remote' \subseteq Nat
    BY <1>1 DEF TableInv, n
  <1> QED BY <1>5, <1>6, <1>7, <1>11, <1>12, <1>13, <1>14 DEF TableInv, n, content

-----------------------------------------------------------------------------
(* What the callers' steps do *)

ReadRow == {[seq |-> k - 1, id |-> chain[k].id] : k \in DOMAIN chain}
Ids == {chain[k].id : k \in DOMAIN chain}

LEMMA Same == ChainTypes /\ chain' = chain => Kept
  BY DEF Kept

\* The last row is a row, and a position.
LEMMA LastIsRead ==
    ASSUME TableInv
    PROVE  LastRow(chain) \in ReadRow /\ LastRow(chain) \in Pos
  <1>1. /\ Len(chain) \in DOMAIN chain /\ chain[Len(chain)].seq = Len(chain) - 1
        /\ chain[Len(chain)].id \in Hash /\ Len(chain) - 1 \in Nat
    BY TableFacts DEF TableInv, OneLine
  <1> QED BY <1>1 DEF LastRow, ReadRow, Pos

LEMMA StillRead ==
    ASSUME ChainInv, Kept,
           \A p \in Processes : call'[p].pc = "insert" =>
              call'[p] = call[p] \/ call'[p].last \in ReadRow,
           signer' \subseteq signer \cup Ids, local' \in {None, local} \cup Ids
    PROVE  ReadFromChain'
  <1>1. \A last \in ReadRow : \E k \in DOMAIN chain' : last = [seq |-> k - 1, id |-> chain'[k].id]
    BY DEF ReadRow, Kept
  <1>2. \A id \in Ids : \E k \in DOMAIN chain' : chain'[k].id = id
    BY DEF Ids, Kept
  <1>3. ASSUME NEW p \in Processes, call'[p].pc = "insert"
        PROVE  \E k \in DOMAIN chain' : call'[p].last = [seq |-> k - 1, id |-> chain'[k].id]
    <2>1. CASE call'[p] = call[p]
      <3>1. PICK k \in DOMAIN chain : call[p].last = [seq |-> k - 1, id |-> chain[k].id]
        BY <1>3, <2>1 DEF ChainInv, ReadFromChain
      <3>2. call[p].last \in ReadRow
        BY <3>1 DEF ReadRow
      <3> QED BY <1>1, <2>1, <3>2
    <2>2. CASE call'[p].last \in ReadRow
      BY <1>1, <2>2
    <2> QED BY <1>3, <2>1, <2>2
  <1>4. signer \subseteq Ids /\ (local # None => local \in Ids)
    BY DEF ChainInv, ReadFromChain, Ids
  <1> QED BY <1>2, <1>3, <1>4 DEF ReadFromChain

\* One process moves on to v.
LEMMA CallMoves ==
    ASSUME ChainInv, Kept, NEW p \in Processes, NEW v \in CallState,
           call' = [call EXCEPT ![p] = v],
           v.pc # "idle" => v.content.act # "daily_seal",
           v.pc = "insert" => v.last \in ReadRow,
           UNCHANGED <<local, signer>>
    PROVE  call' \in [Processes -> CallState] /\ SealsOnlyByHalves' /\ ReadFromChain'
  <1>1. /\ call' \in [Processes -> CallState] /\ call'[p] = v
        /\ \A q \in Processes \ {p} : call'[q] = call[q]
    BY DEF ChainInv, OtherTypes
  <1>2. SealsOnlyByHalves'
    BY <1>1 DEF ChainInv, SealsOnlyByHalves
  <1>3. ReadFromChain'
    BY <1>1, StillRead
  <1> QED BY <1>1, <1>2, <1>3

LEMMA IdleIsState == Idle \in CallState /\ Idle.pc = "idle"
  BY DEF Idle, CallState

\* log_action's first half, for anything but a seal record.
LEMMA ReadMoves ==
    ASSUME ChainInv, NEW p \in Processes, NEW content \in Content, content.act # "daily_seal",
           LogRead(p, content), UNCHANGED <<chain, local, signer, remote>>
    PROVE  TableInv' /\ Kept /\ call' \in [Processes -> CallState] /\ SealsOnlyByHalves'
           /\ ReadFromChain'
  <1> DEFINE v == [pc |-> "insert", content |-> content, last |-> LastRow(chain)]
  <1>1. TableInv' /\ Kept
    BY Same DEF ChainInv, TableInv, ChainTypes, OneLine, HashLengths, SealsBelong
  <1>2. v \in CallState /\ v.pc = "insert" /\ v.content = content /\ v.last \in ReadRow
    BY LastIsRead DEF ChainInv, CallState
  <1>3. call' = [call EXCEPT ![p] = v]
    BY DEF LogRead
  <1> HIDE DEF v
  <1> QED BY <1>1, <1>2, <1>3, CallMoves

\* log_action's second half: the row is the next one, or the chain is left alone.
LEMMA InsertMoves ==
    ASSUME ChainInv, NEW p \in Processes, LogInsert(p) \/ LogFail(p),
           UNCHANGED <<local, signer, remote>>
    PROVE  /\ TableInv' /\ Kept /\ call' \in [Processes -> CallState] /\ SealsOnlyByHalves'
           /\ ReadFromChain'
           /\ call[p].pc = "insert"
           /\ \/ chain' = chain
              \/ /\ LogInsert(p) /\ Len(chain') = Len(chain) + 1
                 /\ chain'[Len(chain) + 1].content = call[p].content
                 /\ Contents(chain') = Append(Contents(chain), call[p].content)
                 /\ SignedIn(chain') = SignedIn(chain)
  <1> DEFINE content == call[p].content
  <1>1. call[p].pc = "insert" /\ call' = [call EXCEPT ![p] = Idle]
    BY DEF LogInsert, LogFail
  <1>2. /\ content \in Content /\ content.act # "daily_seal"
    BY <1>1 DEF ChainInv, OtherTypes, CallState, SealsOnlyByHalves
  <1>3. PICK k \in DOMAIN chain : call[p].last = [seq |-> k - 1, id |-> chain[k].id]
    BY <1>1 DEF ChainInv, ReadFromChain
  <1>4. /\ TableInv' /\ Kept
        /\ \/ chain' = chain
           \/ /\ LogInsert(p) /\ Len(chain') = Len(chain) + 1
              /\ chain'[Len(chain) + 1].content = content
              /\ Contents(chain') = Append(Contents(chain), content)
              /\ SignedIn(chain') = SignedIn(chain)
    <2>1. CASE chain' = chain
      BY <2>1, Same DEF ChainInv, TableInv, ChainTypes, OneLine, HashLengths, SealsBelong
    <2>2. CASE chain' # chain
      <3> DEFINE row == NextRow(call[p].last, content)
      <3>1. LogInsert(p) /\ Insertable(chain, row) /\ chain' = Append(chain, row)
        BY <2>2 DEF LogInsert, LogFail
      <3>2. row.seq = k - 1 + 1 /\ k \in 1 .. Len(chain) /\ Len(chain) \in Nat
            /\ DOMAIN chain = 1 .. Len(chain)
        BY <1>3, TableFacts DEF NextRow, ChainInv, TableInv
      <3>3. \A j \in DOMAIN chain : chain[j].seq = j - 1
        BY DEF ChainInv, TableInv, OneLine
      <3>4. k = Len(chain)
        <4> HIDE DEF row
        <4> SUFFICES ASSUME k # Len(chain) PROVE FALSE
          OBVIOUS
        <4>1. k + 1 \in DOMAIN chain /\ k + 1 - 1 = k - 1 + 1
          BY <3>2
        <4>2. chain[k + 1].seq = row.seq
          BY <3>2, <3>3, <4>1
        <4> QED BY <3>1, <4>1, <4>2 DEF Insertable
      <3>5. call[p].last = LastRow(chain)
        BY <1>3, <3>2, <3>3, <3>4 DEF LastRow
      <3> HIDE DEF content
      <3> QED BY <1>2, <3>1, <3>5, EventGrows DEF ChainInv
    <2> QED BY <2>1, <2>2
  <1>5. call' \in [Processes -> CallState] /\ SealsOnlyByHalves' /\ ReadFromChain'
    BY <1>1, <1>4, IdleIsState, CallMoves
  <1> QED BY <1>1, <1>4, <1>5

-----------------------------------------------------------------------------
(* The log *)

LogStep == [Log!Next]_(Log!vars)

\* The log makes a step or none, and every row that was there still is.
Grows == LogStep /\ Kept

LEMMA LogSame == chain' = chain => LogStep
  BY DEF LogStep, Log!vars

LEMMA LogExtends ==
    ASSUME ChainTypes, NEW content \in Content, content.act # "daily_seal",
           Contents(chain') = Append(Contents(chain), content),
           SignedIn(chain') = SignedIn(chain)
    PROVE  LogStep
  <1>1. Contents(chain) \in Seq(Content)
    <2>1. /\ Len(chain) \in Nat /\ DOMAIN chain = 1 .. Len(chain)
          /\ \A k \in 1 .. Len(chain) : chain[k].content \in Content
      BY TableFacts DEF Row
    <2>2. Contents(chain) \in [1 .. Len(chain) -> Content]
      BY <2>1 DEF Contents
    <2> QED BY <2>1, <2>2, SeqDef
  <1>2. Len(Contents(chain')) = Len(Contents(chain)) + 1
        /\ Contents(chain')[Len(Contents(chain'))] = content
    BY <1>1
  <1>3. \A k \in DOMAIN Contents(chain) : content # SealRecord(k)
    BY DEF SealRecord, Event
  <1>4. Log!Extend
    BY <1>2, <1>3 DEF Log!Extend, Log!Newest, Contents, SignedIn
  <1> QED BY <1>4 DEF LogStep, Log!Next

LEMMA LogAttests ==
    ASSUME NEW k \in DOMAIN chain,
           Contents(chain') = Append(Contents(chain), SealRecord(k)),
           SignedIn(chain') = SignedIn(chain) \cup {k}
    PROVE  LogStep
  <1>1. k \in DOMAIN Contents(chain)
    BY DEF Contents
  <1>2. Log!Attest(k)
    BY DEF Log!Attest, Contents, SignedIn
  <1> QED BY <1>1, <1>2 DEF LogStep, Log!Next, Contents

-----------------------------------------------------------------------------
(* Every step *)

LEMMA ChainInit == Init => ChainInv /\ Log!Init
  <1> SUFFICES ASSUME Init PROVE ChainInv /\ Log!Init
    OBVIOUS
  <1>1. "genesis" \in Actions /\ None \in Values
    BY DEF Actions, Values
  <1> DEFINE content == Event("genesis", 0, None)
  <1>2. content \in Content /\ content.act = "genesis"
    BY <1>1, EventTypes
  <1>3. << >> \in Hash /\ Len(<< >>) = 0
    BY DEF Hash
  <1>4. [seq |-> 0 - 1, id |-> << >>] = [seq |-> -1, id |-> << >>]
    OBVIOUS
  <1> HIDE DEF content
  <1>5. Follows(NextRow([seq |-> 0 - 1, id |-> << >>], content), << >>, content, 0)
    BY <1>2, <1>3, NextRowFollows
  <1>6. Follows(Genesis, << >>, content, 0)
    BY <1>4, <1>5 DEF Genesis, content
  <1>7. /\ Genesis \in Row /\ Genesis.seq = 0 /\ Genesis.prev = << >>
        /\ Genesis.content = content /\ Genesis.signed = FALSE
        /\ Genesis.id = EventId(<< >>, content, 0) /\ Len(Genesis.id) = 1
    BY <1>3, <1>6 DEF Follows
  <1>8. /\ chain \in Seq(Row) /\ Len(chain) = 1 /\ DOMAIN chain = {1} /\ chain[1] = Genesis
        /\ chain # << >>
    BY <1>7 DEF Init
  <1>9. Rows(chain, "daily_seal") = {}
    BY <1>2, <1>7, <1>8 DEF Rows
  <1>10. TableInv
    <2>1. ChainTypes /\ HashLengths /\ OneLine
      BY <1>7, <1>8 DEF ChainTypes, HashLengths, OneLine
    <2>2. SealsBelong /\ remote \subseteq Nat
      BY <1>7, <1>8, <1>9 DEF SealsBelong, Init
    <2> QED BY <2>1, <2>2 DEF TableInv
  <1>11. OtherTypes
    BY IdleIsState DEF Init, OtherTypes
  <1>12. ReadFromChain /\ SealsOnlyByHalves
    BY DEF Init, ReadFromChain, SealsOnlyByHalves, Idle
  <1>13. Log!Init
    <2>1. Contents(chain) = <<content>>
      BY <1>7, <1>8 DEF Contents
    <2>2. SignedIn(chain) = {}
      BY <1>7, <1>8 DEF SignedIn
    <2> QED BY <1>2, <2>1, <2>2 DEF Log!Init, Contents, SignedIn
  <1> QED BY <1>10, <1>11, <1>12, <1>13 DEF ChainInv

LEMMA ReadsKeep ==
    ASSUME ChainInv,
           \/ \E t \in Threads : ThreadReads(t)
           \/ ReconcileReads
           \/ \E o \in Operators : OperatorReads(o)
    PROVE  ChainInv' /\ Grows
  <1>1. \E p \in Processes, content \in Content :
             content.act # "daily_seal" /\ LogRead(p, content)
    <2>1. CASE \E t \in Threads : ThreadReads(t)
      <3>1. PICK t \in Threads : ThreadReads(t)
        BY <2>1
      <3>2. t \in Processes /\ t \in Values /\ "event" \in Actions
        BY DEF Processes, Values, Actions
      <3> QED BY <3>1, <3>2, EventTypes DEF ThreadReads
    <2>2. CASE ReconcileReads
      <3>1. Reconciler \in Processes /\ None \in Values /\ "ledger_reconcile" \in Actions
        BY DEF Processes, Values, Actions
      <3> QED BY <2>2, <3>1, EventTypes DEF ReconcileReads
    <2>3. CASE \E o \in Operators : OperatorReads(o)
      <3>1. PICK o \in Operators : OperatorReads(o)
        BY <2>3
      <3>2. o \in Processes /\ call[o].pc = "checked" /\ LogRead(o, call[o].content)
        BY <3>1 DEF OperatorReads, Processes
      <3>3. call[o].content \in Content /\ call[o].content.act # "daily_seal"
        BY <3>2 DEF ChainInv, OtherTypes, CallState, SealsOnlyByHalves
      <3> QED BY <3>2, <3>3
    <2> QED BY <2>1, <2>2, <2>3
  <1>2. UNCHANGED <<chain, local, signer, remote, processVars>>
    BY DEF ThreadReads, ReconcileReads, OperatorReads
  <1>3. TableInv' /\ Kept /\ call' \in [Processes -> CallState] /\ SealsOnlyByHalves' /\ ReadFromChain'
    BY <1>1, <1>2, ReadMoves
  <1>4. OtherTypes'
    BY <1>2, <1>3 DEF ChainInv, OtherTypes, processVars
  <1>5. LogStep
    BY <1>2, LogSame
  <1> QED BY <1>3, <1>4, <1>5 DEF ChainInv, Grows

LEMMA InsertsKeep ==
    ASSUME ChainInv,
           \/ \E t \in Threads : ThreadInserts(t)
           \/ ReconcileInserts
           \/ \E o \in Operators : OperatorInserts(o)
    PROVE  ChainInv' /\ Grows
  <1>1. PICK p \in Processes : LogInsert(p) \/ LogFail(p)
    BY DEF ThreadInserts, ReconcileInserts, OperatorInserts, Processes
  <1>2. UNCHANGED <<local, signer, remote, bootAt, boots>>
    BY DEF ThreadInserts, ReconcileInserts, OperatorInserts, processVars
  <1>3. bridge' \in {bridge, "up", "down"} /\ ledger' \in [runs : BOOLEAN, anchored : BOOLEAN]
    <2>1. CASE ReconcileInserts
      <3>1. \E anchored \in BOOLEAN : Observe(anchored)
        BY <2>1 DEF ReconcileInserts
      <3> QED BY <3>1 DEF Observe, Observed
    <2>2. CASE ~ReconcileInserts
      BY <2>2 DEF ThreadInserts, OperatorInserts, processVars, ChainInv, OtherTypes
    <2> QED BY <2>1, <2>2
  <1>4. /\ TableInv' /\ call' \in [Processes -> CallState] /\ SealsOnlyByHalves' /\ ReadFromChain'
        /\ \/ chain' = chain
           \/ /\ Contents(chain') = Append(Contents(chain), call[p].content)
              /\ SignedIn(chain') = SignedIn(chain)
        /\ call[p].pc = "insert"
    BY <1>1, <1>2, InsertMoves
  <1>5. OtherTypes'
    BY <1>2, <1>3, <1>4 DEF ChainInv, OtherTypes
  <1>6. call[p].content \in Content /\ call[p].content.act # "daily_seal"
    BY <1>4 DEF ChainInv, OtherTypes, CallState, SealsOnlyByHalves
  <1>7. LogStep
    BY <1>4, <1>6, LogSame, LogExtends DEF ChainInv, TableInv
  <1>8. ChainInv'
    BY <1>4, <1>5 DEF ChainInv
  <1>9. Kept
    BY <1>1, <1>2, InsertMoves
  <1> QED BY <1>7, <1>8, <1>9 DEF Grows

\* A step that writes no row: what was read or signed is a row.
LEMMA QuietKeeps ==
    ASSUME ChainInv, UNCHANGED <<chain, remote>>,
           call' \in [Processes -> CallState],
           \A p \in Processes : call'[p] = call[p] \/ call'[p].pc = "idle",
           signer \subseteq signer', signer' \subseteq signer \cup Ids,
           local' \in {None, local} \cup Ids,
           bridge' \in {"down", "boot", "up"}, bootAt' \in Nat, boots' \in Nat,
           ledger' \in [runs : BOOLEAN, anchored : BOOLEAN]
    PROVE  ChainInv' /\ Grows
  <1>1. TableInv' /\ Kept /\ LogStep
    <2>1. Kept /\ LogStep
      BY Same, LogSame DEF ChainInv, TableInv
    <2>2. SealsBelong'
      BY DEF ChainInv, TableInv, SealsBelong
    <2>3. ChainTypes' /\ (remote \subseteq Nat)' /\ OneLine' /\ HashLengths'
      BY DEF ChainInv, TableInv, ChainTypes, OneLine, HashLengths
    <2> QED BY <2>1, <2>2, <2>3 DEF TableInv
  <1>2. Ids \subseteq Hash
    BY TableFacts DEF Ids, ChainInv, TableInv
  <1>3. OtherTypes'
    BY <1>2 DEF ChainInv, OtherTypes
  <1>4. ReadFromChain'
    BY <1>1, StillRead
  <1>5. SealsOnlyByHalves'
    BY DEF ChainInv, SealsOnlyByHalves
  <1> QED BY <1>1, <1>3, <1>4, <1>5 DEF ChainInv, Grows

\* The head both halves of sealing agree on is the newest row.
LEMMA HeadIsNewest ==
    ASSUME TableInv
    PROVE  /\ Unsigned(chain) # {} /\ Head1(chain) = Len(chain)
           /\ Len(chain) \in DOMAIN chain
  <1>1. /\ Len(chain) \in Nat \ {0} /\ DOMAIN chain = 1 .. Len(chain)
        /\ \A k \in DOMAIN chain : chain[k].seq = k - 1
    BY TableFacts DEF TableInv, OneLine
  <1>2. Len(chain) \in Unsigned(chain) /\ Unsigned(chain) \subseteq DOMAIN chain
    BY <1>1 DEF Unsigned, TableInv, SealsBelong
  <1>3. \A j \in Unsigned(chain) : chain[j].seq <= chain[Len(chain)].seq
    BY <1>1, <1>2
  <1>4. ASSUME NEW k \in Unsigned(chain), \A j \in Unsigned(chain) : chain[j].seq <= chain[k].seq
        PROVE  k = Len(chain)
    <2>1. chain[Len(chain)].seq <= chain[k].seq /\ k \in 1 .. Len(chain)
      BY <1>1, <1>2, <1>4
    <2>2. /\ chain[k].seq = k - 1 /\ chain[Len(chain)].seq = Len(chain) - 1
          /\ k \in Int /\ Len(chain) \in Int /\ k <= Len(chain)
      BY <1>1, <1>2, <2>1
    <2> QED BY <2>1, <2>2
  <1> QED BY <1>1, <1>2, <1>3, <1>4 DEF Head1

LEMMA ProcessKeeps ==
    ASSUME ChainInv, Start \/ Crash \/ SignHead \/ SealReads \/ SealFails
    PROVE  ChainInv' /\ Grows
  <1>0. /\ call \in [Processes -> CallState] /\ signer \subseteq Hash
        /\ bridge \in {"down", "boot", "up"} /\ bootAt \in Nat /\ boots \in Nat
        /\ ledger \in [runs : BOOLEAN, anchored : BOOLEAN] /\ Len(chain) \in Nat
    BY TableFacts DEF ChainInv, OtherTypes, TableInv
  <1>1. chain[Head1(chain)].id \in Ids
    BY HeadIsNewest DEF ChainInv, Ids
  <1>2. CASE Start
    BY <1>0, <1>2, QuietKeeps DEF Start
  <1>3. CASE Crash
    <2>1. /\ call' \in [Processes -> CallState]
          /\ \A p \in Processes : call'[p] = call[p] \/ call'[p].pc = "idle"
      BY <1>0, <1>3, IdleIsState DEF Crash
    <2> QED BY <1>0, <1>3, <2>1, QuietKeeps DEF Crash
  <1>4. CASE SignHead
    BY <1>0, <1>1, <1>4, QuietKeeps DEF SignHead, processVars
  <1>5. CASE SealReads
    BY <1>0, <1>1, <1>5, QuietKeeps DEF SealReads, processVars
  <1>6. CASE SealFails
    BY <1>0, <1>6, QuietKeeps DEF SealFails, processVars
  <1> QED BY <1>2, <1>3, <1>4, <1>5, <1>6

\* The record of a seal is the next row.
LEMMA SealedLast ==
    ASSUME TableInv, NEW k \in DOMAIN chain
    PROVE  /\ Len(Sealed(chain, k)) = Len(chain) + 1
           /\ Sealed(chain, k)[Len(Sealed(chain, k))].seq = Len(chain)
           /\ Sealed(chain, k)[Len(Sealed(chain, k))].content.act = "daily_seal"
  <1> DEFINE signed == [chain EXCEPT ![k].signed = TRUE]
             row == NextRow(LastRow(signed), Event("daily_seal", chain[k].seq, None))
  <1>1. /\ Len(chain) \in Nat \ {0} /\ DOMAIN chain = 1 .. Len(chain)
        /\ chain[Len(chain)] \in Row /\ chain[Len(chain)].seq = Len(chain) - 1
        /\ chain[k] \in Row
    BY TableFacts DEF TableInv, OneLine
  <1>2. /\ Len(signed) = Len(chain) /\ signed \in Seq(Row)
        /\ signed[Len(signed)].seq = Len(chain) - 1
    <2>1. [chain[k] EXCEPT !.signed = TRUE] \in Row
          /\ [chain[k] EXCEPT !.signed = TRUE].seq = chain[k].seq
      BY <1>1 DEF Row
    <2>2. signed = [j \in 1 .. Len(chain) |->
                      IF j = k THEN [chain[k] EXCEPT !.signed = TRUE] ELSE chain[j]]
      BY <1>1
    <2>3. signed \in [1 .. Len(chain) -> Row] /\ Len(chain) \in Nat
      BY <1>1, <2>1, <2>2, TableFacts DEF TableInv
    <2> HIDE DEF signed
    <2>4. signed \in Seq(Row) /\ Len(signed) = Len(chain)
      BY <2>3, SeqDef
    <2>5. signed[Len(chain)].seq = Len(chain) - 1
      BY <1>1, <2>1, <2>2
    <2> QED BY <2>4, <2>5
  <1> HIDE DEF signed
  <1>3. row.seq = Len(chain) /\ row.content.act = "daily_seal"
    <2>1. row.content = Event("daily_seal", chain[k].seq, None)
      BY DEF NextRow
    <2>2. row.seq = Len(chain)
      BY <1>1, <1>2 DEF NextRow, LastRow
    <2> QED BY <2>1, <2>2 DEF Event
  <1> HIDE DEF row
  <1>4. Len(Append(signed, row)) = Len(chain) + 1 /\ Append(signed, row)[Len(chain) + 1] = row
    BY <1>1, <1>2
  <1>5. Sealed(chain, k) = Append(signed, row)
    BY DEF Sealed, signed, row
  <1> QED BY <1>3, <1>4, <1>5

LEMMA SealsKeep ==
    ASSUME ChainInv, SealWrites \/ \E id \in signer : SealRemotely(id)
    PROVE  ChainInv' /\ Grows
  <1>1. \E k \in DOMAIN chain :
           /\ chain' = Sealed(chain, k) /\ signer' = signer
           /\ \/ remote' = remote
              \/ k = Len(chain) /\ chain[k].id \in signer /\ remote' = remote \cup {Len(chain)}
    <2>1. CASE SealWrites
      BY <2>1 DEF SealWrites
    <2>2. CASE \E id \in signer : SealRemotely(id)
      <3>1. PICK id \in signer : SealRemotely(id)
        BY <2>2
      <3>2. PICK k \in DOMAIN chain : chain[k].id = id /\ chain' = Sealed(chain, k)
        BY <3>1 DEF SealRemotely
      <3>3. chain[Len(chain)].id = id /\ Len(chain) \in DOMAIN chain
        BY <3>1, HeadIsNewest DEF SealRemotely, Acceptable, ChainInv
      <3>4. k = Len(chain)
        BY <3>2, <3>3 DEF ChainInv, TableInv, HashLengths
      <3>5. signer' = signer /\ remote' = remote \cup {chain'[Len(chain')].seq}
        BY <3>1 DEF SealRemotely
      <3>6. chain'[Len(chain')].seq = Len(chain)
        BY <3>2, SealedLast DEF ChainInv
      <3> QED BY <3>2, <3>4, <3>5, <3>6
    <2> QED BY <2>1, <2>2
  <1>2. PICK k \in DOMAIN chain :
           /\ chain' = Sealed(chain, k) /\ signer' = signer
           /\ \/ remote' = remote
              \/ k = Len(chain) /\ chain[k].id \in signer /\ remote' = remote \cup {Len(chain)}
    BY <1>1
  <1>3. /\ TableInv' /\ Kept
        /\ Contents(chain') = Append(Contents(chain), SealRecord(k))
        /\ SignedIn(chain') = SignedIn(chain) \cup {k}
    BY <1>2, SealGrows DEF ChainInv
  <1>4. /\ UNCHANGED <<call, processVars>> /\ local' \in {None, local}
    BY DEF SealWrites, SealRemotely
  <1>5. ReadFromChain'
    BY <1>2, <1>3, <1>4, StillRead
  <1>6. OtherTypes' /\ SealsOnlyByHalves'
    BY <1>2, <1>3, <1>4 DEF ChainInv, TableInv, OtherTypes, SealsOnlyByHalves, processVars
  <1>7. LogStep
    BY <1>2, <1>3, LogAttests
  <1> QED BY <1>3, <1>5, <1>6, <1>7 DEF ChainInv, Grows

-----------------------------------------------------------------------------
(* The commands *)

\* A designation supersedes a position, or none.
LEMMA SupersededIsNat ==
    ASSUME TableInv
    PROVE  Superseded(chain) \in Nat
  <1> DEFINE prior == Rows(chain, "successor_designation")
  <1>1. /\ Len(chain) \in Nat /\ DOMAIN chain = 1 .. Len(chain)
        /\ \A k \in 1 .. Len(chain) : chain[k].seq = k - 1
    BY TableFacts DEF TableInv, OneLine
  <1>2. prior \in SUBSET (0 .. Len(chain)) /\ prior \subseteq DOMAIN chain
    BY <1>1 DEF Rows
  <1>3. CASE prior # {}
    <2>1. PICK m \in prior : \A j \in prior : j <= m
      BY <1>1, <1>2, <1>3, NatMax
    <2>2. \A j \in prior : chain[j].seq <= chain[m].seq
      BY <1>1, <1>2, <2>1
    <2>3. Newest(chain, prior) \in prior
      BY <2>1, <2>2 DEF Newest
    <2>4. Superseded(chain) = chain[Newest(chain, prior)].seq
      BY <1>3 DEF Superseded
    <2> HIDE DEF prior
    <2> QED BY <1>1, <1>2, <2>3, <2>4
  <1>4. CASE prior = {}
    BY <1>4 DEF Superseded
  <1> QED BY <1>3, <1>4

LEMMA CheckedKeeps ==
    ASSUME ChainInv, NEW o \in Operators, NEW content \in Content, content.act # "daily_seal",
           Checked(o, content)
    PROVE  ChainInv' /\ Grows
  <1> DEFINE v == [pc |-> "checked", content |-> content]
  <1>1. v \in CallState /\ v.pc = "checked" /\ v.content = content /\ o \in Processes
    BY DEF CallState, Processes
  <1>2. call' = [call EXCEPT ![o] = v] /\ UNCHANGED <<chain, local, signer, remote, processVars>>
    BY DEF Checked
  <1> HIDE DEF v
  <1>3. TableInv' /\ Kept /\ LogStep
    <2>1. Kept /\ LogStep
      BY <1>2, Same, LogSame DEF ChainInv, TableInv
    <2>2. TableInv'
      BY <1>2 DEF ChainInv, TableInv, ChainTypes, OneLine, HashLengths, SealsBelong
    <2> QED BY <2>1, <2>2
  <1>4. call' \in [Processes -> CallState] /\ SealsOnlyByHalves' /\ ReadFromChain'
    BY <1>1, <1>2, <1>3, CallMoves
  <1>5. OtherTypes'
    BY <1>2, <1>4 DEF ChainInv, OtherTypes, processVars
  <1> QED BY <1>3, <1>4, <1>5 DEF ChainInv, Grows

LEMMA CommandsKeep ==
    ASSUME ChainInv, NEW o \in Operators,
           \/ \E name \in Documents, digest \in Digests : RecordDocumentSeal(o, name, digest)
           \/ \E key \in Keys : RecordDesignation(o, key)
           \/ \E k \in DOMAIN chain : RecordVoid(o, k) \/ RecordAnchor(o, k)
    PROVE  ChainInv' /\ Grows
  <1> SUFFICES \E content \in Content : content.act # "daily_seal" /\ Checked(o, content)
    BY CheckedKeeps
  <1>1. {"document_seal", "successor_designation", "successor_designation_void",
         "ots_anchor"} \subseteq Actions /\ None \in Values /\ 0 \in Nat
    BY DEF Actions, Values
  <1>2. CASE \E name \in Documents, digest \in Digests : RecordDocumentSeal(o, name, digest)
    <2>1. PICK name \in Documents, digest \in Digests : RecordDocumentSeal(o, name, digest)
      BY <1>2
    <2>2. <<name, digest>> \in Values
      BY DEF Values
    <2> QED BY <1>1, <2>1, <2>2, EventTypes DEF RecordDocumentSeal
  <1>3. CASE \E key \in Keys : RecordDesignation(o, key)
    <2>1. PICK key \in Keys : RecordDesignation(o, key)
      BY <1>3
    <2>2. key \in Values /\ Superseded(chain) \in Nat
      BY SupersededIsNat DEF Values, ChainInv
    <2> QED BY <1>1, <2>1, <2>2, EventTypes DEF RecordDesignation
  <1>4. CASE \E k \in DOMAIN chain : RecordVoid(o, k) \/ RecordAnchor(o, k)
    <2>1. PICK k \in DOMAIN chain : RecordVoid(o, k) \/ RecordAnchor(o, k)
      BY <1>4
    <2>2. chain[k].seq \in Nat /\ chain[k].content.val \in Values
      <3>1. chain[k] \in Row
        BY TableFacts DEF ChainInv, TableInv
      <3> QED BY <3>1 DEF Row, Content
    <2>3. CASE RecordVoid(o, k)
      BY <1>1, <2>2, <2>3, EventTypes DEF RecordVoid
    <2>4. CASE RecordAnchor(o, k)
      BY <1>1, <2>2, <2>4, EventTypes DEF RecordAnchor
    <2> QED BY <2>1, <2>3, <2>4
  <1> QED BY <1>2, <1>3, <1>4

-----------------------------------------------------------------------------
(* The reader *)

LEMMA ReaderKeeps ==
    ASSUME ChainInv, UNCHANGED <<chain, call, local, signer, remote, processVars>>
    PROVE  ChainInv' /\ Grows
  BY QuietKeeps DEF processVars, ChainInv, OtherTypes

LEMMA PageTypes ==
    ASSUME ChainTypes, NEW from \in Nat
    PROVE  Page(chain, from) \in Seq(Row)
  <1> DEFINE last == IF from + PageSize < Len(chain) THEN from + PageSize ELSE Len(chain)
  <1>1. Len(chain) \in Nat /\ PageSize \in Nat /\ chain \in Seq(Row)
    BY ChainAssumption DEF ChainTypes
  <1>2. last \in Nat /\ last <= Len(chain) /\ Page(chain, from) = SubSeq(chain, from + 1, last)
    BY <1>1 DEF Page
  <1> HIDE DEF last
  <1>3. \A k \in from + 1 .. last : chain[k] \in Row
    BY <1>1, <1>2
  <1> QED BY <1>1, <1>2, <1>3, SubSeqProperties

LEMMA ReaderMoves ==
    ASSUME ChainTypes, ReaderTypes, ReaderStarts \/ FetchRows \/ FetchBounds \/ ReaderFails
    PROVE  ReaderTypes'
  <1>1. /\ Len(chain) \in Nat /\ reader.runs \in Nat /\ reader.start \in Nat
        /\ reader.from \in Nat /\ reader.got \in Seq(Row) /\ reader.page \in Seq(Row)
        /\ reader.claimed \in Nat \cup {-1} /\ reader.still \in BOOLEAN
    BY DEF ChainTypes, ReaderTypes
  <1> DEFINE fresh(pc, runs, start) ==
               [pc |-> pc, runs |-> runs, start |-> start, still |-> FALSE, from |-> 0,
                got |-> << >>, page |-> << >>, claimed |-> -1]
  <1>fresh. << >> \in Seq(Row)
    OBVIOUS
  <1>2. CASE ReaderStarts
    <2>1. reader' = fresh("rows", reader.runs + 1, Len(chain))
      BY <1>2 DEF ReaderStarts, ReaderIdle
    <2>2. reader.runs + 1 \in Nat
      BY <1>1
    <2> QED BY <1>1, <1>fresh, <2>1, <2>2 DEF ReaderTypes
  <1>3. CASE FetchRows
    <2>1. Page(chain, reader.from) \in Seq(Row)
      BY <1>1, PageTypes
    <2> QED BY <1>3, <2>1 DEF FetchRows, ReaderTypes
  <1>4. CASE FetchBounds
    <2> DEFINE page == reader.page
               more == HasMore(chain, page)
               pc == IF more THEN "rows" ELSE "done"
               still == reader.start = Len(chain)
               from == IF more THEN page[Len(page)].seq + 1 ELSE reader.from
               got == reader.got \o page
               claimed == IF reader.claimed = -1 THEN Len(chain) ELSE reader.claimed
    <2>1. page # << >> => page[Len(page)] \in Row
      BY <1>1
    <2>2. from \in Nat
      BY <1>1, <2>1 DEF HasMore, Row
    <2>3. got \in Seq(Row)
      BY <1>1
    <2>4. claimed \in Nat \cup {-1} /\ pc \in {"rows", "done"} /\ still \in BOOLEAN
      BY <1>1
    <2>5. reader' = [pc |-> pc, runs |-> reader.runs, start |-> reader.start, still |-> still,
                     from |-> from, got |-> got, page |-> << >>, claimed |-> claimed]
      BY <1>4 DEF FetchBounds
    <2> HIDE DEF page, more, pc, still, from, got, claimed
    <2> QED BY <1>1, <2>2, <2>3, <2>4, <2>5 DEF ReaderTypes
  <1>5. CASE ReaderFails
    <2>1. reader' = fresh("idle", reader.runs, 0)
      BY <1>5 DEF ReaderFails, ReaderIdle
    <2> QED BY <1>1, <1>fresh, <2>1 DEF ReaderTypes
  <1> QED BY <1>2, <1>3, <1>4, <1>5

-----------------------------------------------------------------------------
(* Every step *)

\* The steps that are not the reader's own.
Writes ==
    \/ \E t \in Threads : ThreadReads(t) \/ ThreadInserts(t)
    \/ Start \/ ReconcileReads \/ ReconcileInserts \/ Crash
    \/ SignHead \/ \E id \in signer : SealRemotely(id)
    \/ SealReads \/ SealWrites \/ SealFails
    \/ \E o \in Operators : OperatorSteps(o)

Reads == ReaderStarts \/ FetchRows \/ FetchBounds \/ ReaderFails

LEMMA NextIs == Next <=> Writes \/ Reads
  BY DEF Next, Writes, Reads

LEMMA WritesLeaveReader == Writes => reader' = reader
  <1> SUFFICES ASSUME Writes PROVE reader' = reader
    OBVIOUS
  <1>1. CASE \E t \in Threads : ThreadReads(t) \/ ThreadInserts(t)
    BY <1>1 DEF ThreadReads, ThreadInserts
  <1>2. CASE Start \/ ReconcileReads \/ ReconcileInserts \/ Crash
    BY <1>2 DEF Start, ReconcileReads, ReconcileInserts, Crash
  <1>3. CASE SignHead \/ SealReads \/ SealWrites \/ SealFails \/ \E id \in signer : SealRemotely(id)
    BY <1>3 DEF SignHead, SealReads, SealWrites, SealFails, SealRemotely
  <1>4. CASE \E o \in Operators : OperatorSteps(o)
    BY <1>4 DEF OperatorSteps, RecordDocumentSeal, RecordDesignation, RecordVoid, RecordAnchor,
                Checked, OperatorReads, OperatorInserts
  <1> QED BY <1>1, <1>2, <1>3, <1>4 DEF Writes

LEMMA WritesKeep == ChainInv /\ Writes => ChainInv' /\ Grows
  <1> SUFFICES ASSUME ChainInv, Writes PROVE ChainInv' /\ Grows
    OBVIOUS
  <1>1. CASE (\E t \in Threads : ThreadReads(t)) \/ ReconcileReads
             \/ \E o \in Operators : OperatorReads(o)
    BY <1>1, ReadsKeep
  <1>2. CASE (\E t \in Threads : ThreadInserts(t)) \/ ReconcileInserts
             \/ \E o \in Operators : OperatorInserts(o)
    BY <1>2, InsertsKeep
  <1>3. CASE Start \/ Crash \/ SignHead \/ SealReads \/ SealFails
    BY <1>3, ProcessKeeps
  <1>4. CASE SealWrites \/ \E id \in signer : SealRemotely(id)
    BY <1>4, SealsKeep
  <1>5. CASE \E o \in Operators : OperatorSteps(o)
    BY <1>1, <1>2, <1>5, CommandsKeep DEF OperatorSteps
  <1> QED BY <1>1, <1>2, <1>3, <1>4, <1>5 DEF Writes

LEMMA ChainStep ==
    ChainInv /\ ReaderTypes /\ [Next]_vars => (ChainInv /\ ReaderTypes)' /\ Grows
  <1> SUFFICES ASSUME ChainInv, ReaderTypes, [Next]_vars
               PROVE  (ChainInv /\ ReaderTypes)' /\ Grows
    OBVIOUS
  <1>1. CASE Writes
    BY <1>1, WritesKeep, WritesLeaveReader DEF ReaderTypes
  <1>2. CASE Reads
    <2>1. UNCHANGED <<chain, call, local, signer, remote, processVars>>
      BY <1>2 DEF Reads, ReaderStarts, FetchRows, FetchBounds, ReaderFails
    <2>2. ReaderTypes'
      BY <1>2, ReaderMoves DEF Reads, ChainInv, TableInv
    <2> QED BY <2>1, <2>2, ReaderKeeps
  <1>3. CASE UNCHANGED vars
    BY <1>3, ReaderKeeps DEF vars, ReaderTypes
  <1> QED BY <1>1, <1>2, <1>3, NextIs

LEMMA ReaderInit == Init => ReaderTypes
  BY DEF Init, ReaderIdle, ReaderTypes

LEMMA InvIsSound == ChainInv /\ ReaderTypes => ChainSound
  BY DEF ChainInv, TableInv, OtherTypes, ReaderTypes, ChainTypes, ChainSound, TypeOK

-----------------------------------------------------------------------------
\* The audit chain under concurrent log_action calls, reconciles, crashes,
\* both halves of sealing and every command: types, one line without gap or
\* fork, whatever was read is still a row, and seals that belong to their rows.
THEOREM Sound == Spec => []ChainSound
  <1>1. Init => ChainInv /\ ReaderTypes
    BY ChainInit, ReaderInit
  <1>2. ChainInv /\ ReaderTypes /\ [Next]_vars => (ChainInv /\ ReaderTypes)'
    BY ChainStep
  <1> QED BY <1>1, <1>2, InvIsSound, PTL DEF Spec

\* The chain implements the abstract log: log_action and the two halves of
\* sealing only ever append, and a seal record comes with its signature.
THEOREM IsLog == Spec => ImplementsLog
  <1>1. Init => ChainInv /\ ReaderTypes /\ Log!Init
    BY ChainInit, ReaderInit
  <1>2. ChainInv /\ ReaderTypes /\ [Next]_vars
           => (ChainInv /\ ReaderTypes)' /\ [Log!Next]_(Log!vars)
    BY ChainStep DEF LogStep, Grows
  <1> QED BY <1>1, <1>2, PTL DEF Spec, ImplementsLog, Log!Spec

-----------------------------------------------------------------------------
(* The anchor.  The reconciler writes nothing but its record, and the      *)
(* chain is never shorter than it was when the bridge started; that the    *)
(* record stays where it is follows from the refinement.                   *)

AnchorInv ==
    /\ bootAt <= Len(chain)
    /\ call[Reconciler].pc # "idle" => call[Reconciler].content.act = "ledger_reconcile"
    /\ AnchoredBeforeServing

LEMMA LogKeeps ==
    ASSUME ChainTypes, ChainTypes', LogStep
    PROVE  /\ Len(chain) <= Len(chain')
           /\ Rows(chain, "ledger_reconcile") \subseteq Rows(chain', "ledger_reconcile")
  <1>1. /\ Len(chain) \in Nat /\ DOMAIN chain = 1 .. Len(chain)
        /\ Len(chain') \in Nat /\ DOMAIN chain' = 1 .. Len(chain')
    BY DEF ChainTypes
  <1>2. /\ Contents(chain) \in Seq(Content) /\ Len(Contents(chain)) = Len(chain)
        /\ Len(Contents(chain')) = Len(chain')
    <2>1. \A k \in DOMAIN chain : chain[k].content \in Content
      BY TableFacts DEF Row
    <2>2. /\ Contents(chain) \in [1 .. Len(chain) -> Content]
          /\ DOMAIN Contents(chain') = 1 .. Len(chain')
      BY <1>1, <2>1 DEF Contents
    <2>3. Contents(chain) \in Seq(Content)
      BY <1>1, <2>2, SeqDef
    <2>4. Len(Contents(chain)) = Len(chain)
      BY <1>1, <2>2, <2>3
    <2>5. chain' \in Seq(Row)
      BY DEF ChainTypes
    <2>6. \A k \in DOMAIN chain' : chain'[k].content \in Content
      <3>1. \A k \in DOMAIN chain' : chain'[k] \in Row
        BY <2>5
      <3> QED BY <3>1 DEF Row
    <2>7. Contents(chain') \in [1 .. Len(chain') -> Content]
      BY <1>1, <2>6 DEF Contents
    <2>8. Contents(chain') \in Seq(Content)
      BY <1>1, <2>7, SeqDef
    <2> QED BY <1>1, <2>2, <2>3, <2>4, <2>8
  <1>3. \/ Contents(chain') = Contents(chain)
        \/ \E e : Contents(chain') = Append(Contents(chain), e)
    BY DEF LogStep, Log!Next, Log!Extend, Log!Attest, Log!vars, Contents
  <1>4. Len(chain) <= Len(chain')
        /\ \A k \in 1 .. Len(chain) : Contents(chain')[k] = Contents(chain)[k]
    <2> DEFINE old == Contents(chain)
               new == Contents(chain')
    <2>1. old \in Seq(Content) /\ (new = old \/ \E e : new = Append(old, e))
      BY <1>2, <1>3
    <2> HIDE DEF old, new
    <2>2. Len(old) <= Len(new) /\ \A k \in 1 .. Len(old) : new[k] = old[k]
      BY <2>1
    <2> QED BY <1>2, <2>2 DEF old, new
  <1>5. \A k \in DOMAIN chain : k \in DOMAIN chain' /\ chain'[k].content = chain[k].content
    <2> SUFFICES ASSUME NEW k \in 1 .. Len(chain)
                 PROVE  k \in 1 .. Len(chain') /\ chain'[k].content = chain[k].content
      BY <1>1
    <2>1. k \in 1 .. Len(chain')
      BY <1>1, <1>4
    <2>2. Contents(chain)[k] = chain[k].content /\ Contents(chain')[k] = chain'[k].content
      BY <1>1, <2>1 DEF Contents
    <2> QED BY <1>4, <2>1, <2>2
  <1> QED BY <1>4, <1>5 DEF Rows

\* A step that claims no anchor that was not claimed before.
LEMMA AnchorKept ==
    ASSUME ChainInv, ChainInv', AnchorInv, LogStep, bootAt' = bootAt,
           call'[Reconciler] = call[Reconciler] \/ call'[Reconciler].pc = "idle"
              \/ call'[Reconciler].content.act = "ledger_reconcile",
           bridge' = "up" \/ ledger'.anchored => bridge = "up" \/ ledger.anchored
    PROVE  AnchorInv'
  <1>1. /\ Len(chain) <= Len(chain') /\ Len(chain) \in Nat /\ Len(chain') \in Nat
        /\ bootAt \in Nat
        /\ Rows(chain, "ledger_reconcile") \subseteq Rows(chain', "ledger_reconcile")
    BY LogKeeps, TableFacts DEF ChainInv, TableInv, ChainTypes, OtherTypes
  <1>2. AnchoredBeforeServing'
    BY <1>1 DEF AnchorInv, AnchoredBeforeServing
  <1>3. (call[Reconciler].pc # "idle" => call[Reconciler].content.act = "ledger_reconcile")'
    BY DEF AnchorInv
  <1>4. bootAt' <= Len(chain')
    BY <1>1 DEF AnchorInv
  <1> QED BY <1>2, <1>3, <1>4 DEF AnchorInv

\* A record that reached the chain is an anchor for this start.
LEMMA AnchorWritten ==
    ASSUME ChainInv, ChainInv', AnchorInv, ReconcileInserts, chain' # chain
    PROVE  AnchorInv'
  <1>1. Reconciler \in Processes /\ LogInsert(Reconciler)
    BY DEF Processes, ReconcileInserts, LogFail
  <1>2. UNCHANGED <<local, signer, remote, bootAt>>
    BY DEF ReconcileInserts
  <1>3. /\ call[Reconciler].pc = "insert" /\ Len(chain') = Len(chain) + 1
        /\ chain'[Len(chain) + 1].content = call[Reconciler].content
    BY <1>1, <1>2, InsertMoves
  <1>4. call[Reconciler].content.act = "ledger_reconcile"
    BY <1>3 DEF AnchorInv
  <1>5. Len(chain) \in Nat /\ bootAt \in Nat /\ bootAt <= Len(chain)
        /\ DOMAIN chain' = 1 .. Len(chain')
    BY TableFacts DEF ChainInv, TableInv, ChainTypes, OtherTypes, AnchorInv
  <1>6. Len(chain) + 1 \in Rows(chain', "ledger_reconcile") /\ Len(chain) + 1 > bootAt'
    BY <1>2, <1>3, <1>4, <1>5 DEF Rows
  <1>7. call'[Reconciler].pc = "idle"
    BY <1>1 DEF LogInsert, Idle, ChainInv, OtherTypes
  <1> QED BY <1>2, <1>3, <1>5, <1>6, <1>7 DEF AnchorInv, AnchoredBeforeServing

LEMMA AnchorStep ==
    ASSUME ChainInv, ChainInv', AnchorInv, LogStep, [Next]_vars
    PROVE  AnchorInv'
  <1> USE DEF processVars
  <1>0. /\ call \in [Processes -> CallState] /\ Reconciler \in Processes
        /\ Reconciler \notin Threads /\ Reconciler \notin Operators
    BY ChainAssumption DEF ChainInv, OtherTypes, Processes
  <1>1. CASE \E t \in Threads : ThreadReads(t) \/ ThreadInserts(t)
    <2>1. UNCHANGED <<bootAt, bridge, ledger>> /\ call'[Reconciler] = call[Reconciler]
      BY <1>0, <1>1 DEF ThreadReads, ThreadInserts, LogRead, LogInsert, LogFail
    <2> QED BY <2>1, AnchorKept
  <1>2. CASE \E o \in Operators : OperatorSteps(o)
    <2>1. UNCHANGED <<bootAt, bridge, ledger>> /\ call'[Reconciler] = call[Reconciler]
      BY <1>0, <1>2 DEF OperatorSteps, RecordDocumentSeal, RecordDesignation, RecordVoid,
           RecordAnchor, Checked, OperatorReads, OperatorInserts, LogRead, LogInsert, LogFail
    <2> QED BY <2>1, AnchorKept
  <1>3. CASE Start
    <2>1. /\ bootAt' = Len(chain) /\ chain' = chain /\ call' = call
          /\ bridge' = "boot" /\ ledger'.anchored = FALSE
      BY <1>3 DEF Start
    <2>2. Len(chain) \in Nat
      BY TableFacts DEF ChainInv, TableInv
    <2> QED BY <2>1, <2>2 DEF AnchorInv, AnchoredBeforeServing
  <1>4. CASE ReconcileReads
    <2>1. call'[Reconciler].content = Event("ledger_reconcile", 0, None)
      BY <1>0, <1>4 DEF ReconcileReads, LogRead
    <2>2. call'[Reconciler].content.act = "ledger_reconcile"
      BY <2>1 DEF Event
    <2>3. UNCHANGED <<bootAt, bridge, ledger>>
      BY <1>4 DEF ReconcileReads
    <2> QED BY <2>2, <2>3, AnchorKept
  <1>5. CASE ReconcileInserts
    <2>1. CASE chain' # chain
      BY <1>5, <2>1, AnchorWritten
    <2>2. CASE chain' = chain
      <3>1. Observe(FALSE) /\ bootAt' = bootAt
        BY <1>5, <2>2 DEF ReconcileInserts
      <3>2. call' = [call EXCEPT ![Reconciler] = Idle]
        BY <1>5 DEF ReconcileInserts, LogInsert, LogFail
      <3>3. call'[Reconciler].pc = "idle"
        BY <1>0, <3>2 DEF Idle
      <3>4. bridge' = "up" \/ ledger'.anchored => bridge = "up"
        BY <3>1 DEF Observe, Observed
      <3> QED BY <3>1, <3>3, <3>4, AnchorKept
    <2> QED BY <2>1, <2>2
  <1>6. CASE Crash
    <2>1. /\ bootAt' = bootAt /\ bridge' = "down" /\ ledger'.anchored = FALSE
          /\ call'[Reconciler].pc = "idle"
      BY <1>0, <1>6 DEF Crash, Idle
    <2> QED BY <2>1, AnchorKept
  <1>7. CASE SignHead \/ SealReads \/ SealWrites \/ SealFails \/ \E id \in signer : SealRemotely(id)
    <2>1. UNCHANGED <<bootAt, bridge, ledger, call>>
      BY <1>7 DEF SignHead, SealReads, SealWrites, SealFails, SealRemotely
    <2> QED BY <2>1, AnchorKept
  <1>8. CASE Reads \/ UNCHANGED vars
    <2>1. UNCHANGED <<bootAt, bridge, ledger, call>>
      BY <1>8 DEF Reads, ReaderStarts, FetchRows, FetchBounds, ReaderFails, vars
    <2> QED BY <2>1, AnchorKept
  <1> QED BY <1>1, <1>2, <1>3, <1>4, <1>5, <1>6, <1>7, <1>8, NextIs DEF Writes

\* The bridge serves only after the reconcile of this very start reached the
\* chain, and LedgerState never claims an anchor the chain does not hold.
THEOREM Anchored == Spec => []AnchoredBeforeServing
  <1>1. Init => ChainInv /\ ReaderTypes /\ AnchorInv
    <2>1. Init => ChainInv /\ ReaderTypes
      BY ChainInit, ReaderInit
    <2>2. Init => AnchorInv
      BY DEF Init, AnchorInv, AnchoredBeforeServing, Processes, Idle
    <2> QED BY <2>1, <2>2
  <1>2. ChainInv /\ ReaderTypes /\ AnchorInv /\ [Next]_vars
           => (ChainInv /\ ReaderTypes /\ AnchorInv)'
    BY ChainStep, AnchorStep DEF Grows
  <1>3. AnchorInv => AnchoredBeforeServing
    BY DEF AnchorInv
  <1> QED BY <1>1, <1>2, <1>3, PTL DEF Spec

-----------------------------------------------------------------------------
(* A chain read while it grows *)

LEMMA ContentsTyped ==
    ASSUME NEW c \in Seq(Row)
    PROVE  Contents(c) \in Seq(Content) /\ Len(Contents(c)) = Len(c)
  <1>1. Len(c) \in Nat /\ DOMAIN c = 1 .. Len(c) /\ \A k \in 1 .. Len(c) : c[k] \in Row
    OBVIOUS
  <1>2. \A k \in 1 .. Len(c) : c[k].content \in Content
    BY <1>1 DEF Row
  <1>3. Contents(c) \in [1 .. Len(c) -> Content]
    BY <1>1, <1>2 DEF Contents
  <1> HIDE DEF Contents
  <1>4. Contents(c) \in Seq(Content)
    BY <1>1, <1>3, SeqDef
  <1> QED BY <1>1, <1>3, <1>4

\* Every write adds a row.
LEMMA SameLength ==
    ASSUME ChainTypes, ChainTypes', Grows, Len(chain') = Len(chain)
    PROVE  chain' = chain
  <1>1. chain \in Seq(Row) /\ chain' \in Seq(Row)
    BY DEF ChainTypes
  <1>2. /\ Contents(chain) \in Seq(Content) /\ Len(Contents(chain)) = Len(chain)
        /\ Len(Contents(chain')) = Len(chain')
    BY <1>1, ContentsTyped
  <1>3. \/ Contents(chain') = Contents(chain) /\ SignedIn(chain') = SignedIn(chain)
        \/ \E e : Contents(chain') = Append(Contents(chain), e)
    BY DEF Grows, LogStep, Log!Next, Log!Extend, Log!Attest, Log!vars, Contents, SignedIn
  <1>4. ~\E e : Contents(chain') = Append(Contents(chain), e)
    <2> HIDE DEF Contents
    <2>1. \A e : Len(Append(Contents(chain), e)) = Len(Contents(chain)) + 1
      BY <1>2
    <2>2. Len(chain) \in Nat
      BY <1>1
    <2> QED BY <1>2, <2>1, <2>2
  <1>5. SignedIn(chain') = SignedIn(chain)
    BY <1>3, <1>4
  <1>6. ASSUME NEW k \in 1 .. Len(chain) PROVE chain'[k] = chain[k]
    <2>1. k \in DOMAIN chain /\ k \in DOMAIN chain' /\ chain[k] \in Row /\ chain'[k] \in Row
      BY <1>1
    <2>2. /\ chain'[k].id = chain[k].id /\ chain'[k].prev = chain[k].prev
          /\ chain'[k].content = chain[k].content /\ chain'[k].seq = chain[k].seq
      BY <2>1 DEF Grows, Kept
    <2>3. chain'[k].signed = chain[k].signed
      <3>1. chain[k].signed \in BOOLEAN /\ chain'[k].signed \in BOOLEAN
        BY <2>1 DEF Row
      <3>2. k \in SignedIn(chain') <=> k \in SignedIn(chain)
        BY <1>5
      <3> QED BY <2>1, <3>1, <3>2 DEF SignedIn
    <2> QED BY <2>1, <2>2, <2>3 DEF Row
  <1> QED BY <1>1, <1>6

\* The same row, signed meanwhile or not.
SameRow(r, q) ==
    r.seq = q.seq /\ r.prev = q.prev /\ r.id = q.id /\ r.content = q.content

\* What has been fetched is the chain's beginning, and the page follows it.
Fetched ==
    /\ Len(reader.got) <= Len(chain)
    /\ \A k \in 1 .. Len(reader.got) : SameRow(reader.got[k], chain[k])
    /\ reader.pc \in {"rows", "bounds"} =>
          reader.from = Len(reader.got) /\ reader.from < Len(chain)
    /\ reader.pc = "bounds" =>
          /\ reader.page # << >> /\ reader.from + Len(reader.page) <= Len(chain)
          /\ \A j \in 1 .. Len(reader.page) :
                SameRow(reader.page[j], chain[reader.from + j])

\* If nothing has been written since, it is the chain's beginning as it stands.
Unchanged ==
    reader.pc \in {"rows", "bounds"} /\ Len(chain) = reader.start =>
        /\ \A k \in 1 .. Len(reader.got) : reader.got[k] = chain[k]
        /\ reader.pc = "bounds" =>
              \A j \in 1 .. Len(reader.page) : reader.page[j] = chain[reader.from + j]

\* The server's claim is a length the chain had since the reading began.
Claims ==
    /\ reader.start \in 1 .. Len(chain)
    /\ reader.claimed # -1 => reader.claimed \in reader.start .. Len(chain)
    /\ reader.pc = "done" =>
          /\ reader.start <= Len(reader.got)
          /\ reader.still => reader.claimed = Len(reader.got) /\ CheckSeals(reader.got)

ReaderInv == reader.pc # "idle" => Fetched /\ Unchanged /\ Claims

\* Rows that are the chain's beginning pass the verifier's chain checks.
LEMMA PrefixChecks ==
    ASSUME TableInv, NEW got \in Seq(Row), Len(got) \in 1 .. Len(chain),
           \A k \in 1 .. Len(got) : SameRow(got[k], chain[k])
    PROVE  CheckChain(got)
  <1>1. Len(got) \in Nat /\ DOMAIN got = 1 .. Len(got) /\ DOMAIN chain = 1 .. Len(chain)
        /\ Len(chain) \in Nat /\ got # << >>
    BY TableFacts DEF TableInv
  <1>2. ASSUME NEW k \in 1 .. Len(got)
        PROVE  /\ got[k].seq = k - 1
               /\ got[k].prev = (IF k = 1 THEN << >> ELSE got[k - 1].id)
               /\ got[k].id = EventId(got[k].prev, got[k].content, k - 1)
    <2>1. /\ k \in DOMAIN chain /\ SameRow(got[k], chain[k])
          /\ k # 1 => SameRow(got[k - 1], chain[k - 1])
      BY <1>1
    <2>2. /\ chain[k].seq = k - 1
          /\ chain[k].prev = (IF k = 1 THEN << >> ELSE chain[k - 1].id)
          /\ chain[k].id = EventId(chain[k].prev, chain[k].content, k - 1)
      BY <2>1 DEF TableInv, OneLine
    <2>3. k # 1 => got[k - 1].id = chain[k - 1].id
      BY <2>1 DEF SameRow
    <2>4. got[k].prev = (IF k = 1 THEN << >> ELSE got[k - 1].id)
      BY <2>1, <2>2, <2>3 DEF SameRow
    <2> QED BY <2>1, <2>2, <2>4 DEF SameRow
  <1>3. HashesHold(got)
    BY <1>1, <1>2 DEF HashesHold
  <1>4. \A k \in DOMAIN got : got[k].seq = got[1].seq + k - 1
    <2>1. got[1].seq = 1 - 1
      BY <1>1, <1>2
    <2> SUFFICES ASSUME NEW k \in 1 .. Len(got) PROVE got[k].seq = got[1].seq + k - 1
      BY <1>1
    <2>2. got[k].seq = k - 1
      BY <1>2
    <2> QED BY <2>1, <2>2
  <1> QED BY <1>1, <1>3, <1>4 DEF CheckChain

\* The chain itself passes the seal checks.
LEMMA ChainSealsCheck ==
    ASSUME TableInv, NEW got \in Seq(Row), Len(got) = Len(chain),
           \A k \in 1 .. Len(got) : got[k] = chain[k]
    PROVE  CheckSeals(got)
  <1>1. Len(got) \in Nat /\ DOMAIN got = 1 .. Len(got) /\ DOMAIN chain = 1 .. Len(chain)
    BY TableFacts DEF TableInv
  <1>2. ASSUME NEW s \in Rows(got, "daily_seal")
        PROVE  \E k \in DOMAIN got : got[k].seq = got[s].content.of /\ got[k].signed
    <2>1. s \in 1 .. Len(got) /\ got[s] = chain[s] /\ s \in Rows(chain, "daily_seal")
      BY <1>1 DEF Rows
    <2>2. PICK k \in 1 .. s - 1 : chain[s].content.of = k - 1 /\ chain[k].signed
      BY <2>1 DEF TableInv, SealsBelong
    <2>3. k \in 1 .. Len(got)
      BY <1>1, <2>1
    <2>4. got[k] = chain[k] /\ chain[k].seq = k - 1
      BY <1>1, <2>3 DEF TableInv, OneLine
    <2> QED BY <1>1, <2>1, <2>2, <2>3, <2>4
  <1> QED BY <1>2 DEF CheckSeals

LEMMA FetchedSound ==
    ASSUME ChainInv, ReaderTypes, ReaderInv
    PROVE  ReaderSound
  <1> SUFFICES ASSUME reader.pc = "done"
               PROVE  /\ CheckChain(reader.got)
                      /\ Len(reader.got) \in reader.start .. Len(chain)
                      /\ \A k \in DOMAIN reader.got : reader.got[k].id = chain[k].id
                      /\ reader.still => reader.claimed = Len(reader.got)
                                         /\ CheckSeals(reader.got)
    BY DEF ReaderSound
  <1>1. /\ reader.got \in Seq(Row) /\ Len(reader.got) \in Nat /\ Len(chain) \in Nat
        /\ reader.start \in Nat /\ DOMAIN reader.got = 1 .. Len(reader.got)
    BY TableFacts DEF ReaderTypes, ChainInv, TableInv
  <1>2. /\ Len(reader.got) \in 1 .. Len(chain) /\ Len(reader.got) \in reader.start .. Len(chain)
        /\ \A k \in 1 .. Len(reader.got) : SameRow(reader.got[k], chain[k])
    BY <1>1 DEF ReaderInv, Fetched, Claims
  <1>3. CheckChain(reader.got)
    BY <1>1, <1>2, PrefixChecks DEF ChainInv
  <1>4. \A k \in DOMAIN reader.got : reader.got[k].id = chain[k].id
    BY <1>1, <1>2 DEF SameRow
  <1>5. reader.still => reader.claimed = Len(reader.got) /\ CheckSeals(reader.got)
    BY DEF ReaderInv, Claims
  <1> QED BY <1>2, <1>3, <1>4, <1>5

\* The chain grows behind the reader's back.
LEMMA ReaderWaits ==
    ASSUME ChainInv, ChainInv', ReaderTypes, ReaderInv, Grows, reader' = reader
    PROVE  ReaderInv'
  <1> SUFFICES ASSUME reader.pc # "idle" PROVE Fetched' /\ Unchanged' /\ Claims'
    BY DEF ReaderInv
  <1>1. /\ Len(chain) \in Nat /\ Len(chain') \in Nat /\ Len(chain) <= Len(chain')
        /\ DOMAIN chain = 1 .. Len(chain)
    <2>1. ChainTypes /\ ChainTypes' /\ LogStep
      BY DEF ChainInv, TableInv, Grows
    <2> QED BY <2>1, LogKeeps DEF ChainTypes
  <1>2. /\ reader.got \in Seq(Row) /\ reader.page \in Seq(Row) /\ reader.from \in Nat
        /\ reader.start \in Nat /\ reader.claimed \in Nat \cup {-1}
        /\ Len(reader.got) \in Nat /\ Len(reader.page) \in Nat
    BY DEF ReaderTypes
  <1>3. \A r : \A k \in 1 .. Len(chain) : SameRow(r, chain[k]) => SameRow(r, chain'[k])
    BY <1>1 DEF Grows, Kept, SameRow
  <1>4. Fetched'
    <2>1. \A k \in 1 .. Len(reader.got) : SameRow(reader.got[k], chain'[k])
      BY <1>1, <1>2, <1>3 DEF ReaderInv, Fetched
    <2>2. reader.pc = "bounds" =>
            \A j \in 1 .. Len(reader.page) : SameRow(reader.page[j], chain'[reader.from + j])
      <3> SUFFICES ASSUME reader.pc = "bounds", NEW j \in 1 .. Len(reader.page)
                   PROVE  SameRow(reader.page[j], chain'[reader.from + j])
        OBVIOUS
      <3>1. reader.from + j \in 1 .. Len(chain)
        BY <1>1, <1>2 DEF ReaderInv, Fetched
      <3> QED BY <1>3, <3>1 DEF ReaderInv, Fetched
    <2> QED BY <1>1, <1>2, <2>1, <2>2 DEF ReaderInv, Fetched
  <1>5. Claims'
    BY <1>1, <1>2 DEF ReaderInv, Claims
  <1>6. Unchanged'
    <2> SUFFICES ASSUME reader.pc \in {"rows", "bounds"}, Len(chain') = reader.start
                 PROVE  /\ \A k \in 1 .. Len(reader.got) : reader.got[k] = chain'[k]
                        /\ reader.pc = "bounds" =>
                              \A j \in 1 .. Len(reader.page) :
                                  reader.page[j] = chain'[reader.from + j]
      BY DEF Unchanged
    <2>1. Len(chain') = Len(chain)
      BY <1>1, <1>2 DEF ReaderInv, Claims
    <2>2. chain' = chain
      BY <2>1, SameLength DEF ChainInv, TableInv
    <2> QED BY <2>2 DEF ReaderInv, Unchanged
  <1> QED BY <1>4, <1>5, <1>6

\* A page is the rows after the ones that were fetched.
LEMMA PageFollows ==
    ASSUME ChainTypes, NEW from \in Nat, from < Len(chain)
    PROVE  /\ Page(chain, from) \in Seq(Row) /\ Page(chain, from) # << >>
           /\ from + Len(Page(chain, from)) <= Len(chain)
           /\ \A j \in 1 .. Len(Page(chain, from)) : Page(chain, from)[j] = chain[from + j]
  <1> DEFINE last == IF from + PageSize < Len(chain) THEN from + PageSize ELSE Len(chain)
  <1>1. Len(chain) \in Nat /\ PageSize \in Nat \ {0} /\ chain \in Seq(Row)
    BY ChainAssumption DEF ChainTypes
  <1>2. last \in Nat /\ last <= Len(chain) /\ from + 1 <= last
        /\ Page(chain, from) = SubSeq(chain, from + 1, last)
    BY <1>1 DEF Page
  <1> HIDE DEF last
  <1>3. \A k \in from + 1 .. last : chain[k] \in Row
    BY <1>1, <1>2
  <1>4. /\ Page(chain, from) \in Seq(Row)
        /\ Len(Page(chain, from)) = last - from
        /\ \A j \in 1 .. last - from : Page(chain, from)[j] = chain[from + j]
    <2>1. /\ SubSeq(chain, from + 1, last) \in Seq(Row)
          /\ Len(SubSeq(chain, from + 1, last)) =
                (IF from + 1 <= last THEN last - (from + 1) + 1 ELSE 0)
          /\ \A i \in 1 .. last - (from + 1) + 1 :
                SubSeq(chain, from + 1, last)[i] = chain[(from + 1) + i - 1]
      BY <1>1, <1>2, <1>3, SubSeqProperties
    <2>2. last - (from + 1) + 1 = last - from
      BY <1>1, <1>2
    <2>3. \A i \in 1 .. last - from : (from + 1) + i - 1 = from + i
      BY <1>1, <1>2
    <2> QED BY <1>2, <2>1, <2>2, <2>3
  <1>5. last - from \in Nat /\ last - from >= 1 /\ from + (last - from) <= Len(chain)
    BY <1>1, <1>2
  <1> HIDE DEF Page
  <1>6. Page(chain, from) # << >>
    BY <1>4, <1>5
  <1> QED BY <1>4, <1>5, <1>6

LEMMA ReaderStartsSound ==
    ASSUME ChainInv, ReaderStarts
    PROVE  ReaderInv'
  <1>1. Len(chain) \in Nat \ {0}
    BY TableFacts DEF ChainInv, TableInv
  <1>2. /\ reader'.pc = "rows" /\ reader'.start = Len(chain) /\ reader'.from = 0
        /\ reader'.got = << >> /\ reader'.page = << >> /\ reader'.claimed = -1
        /\ chain' = chain
    BY DEF ReaderStarts, ReaderIdle
  <1>3. Len(reader'.got) = 0
    BY <1>2
  <1>4. Fetched'
    BY <1>1, <1>2, <1>3 DEF Fetched
  <1>5. Unchanged' /\ Claims'
    BY <1>1, <1>2, <1>3 DEF Unchanged, Claims
  <1> QED BY <1>4, <1>5 DEF ReaderInv

LEMMA FetchRowsSound ==
    ASSUME ChainInv, ReaderTypes, ReaderInv, FetchRows
    PROVE  ReaderInv'
  <1>1. /\ reader.pc = "rows" /\ chain' = chain
        /\ reader' = [reader EXCEPT !.pc = "bounds", !.page = Page(chain, reader.from)]
    BY DEF FetchRows
  <1>2. /\ reader'.pc = "bounds" /\ reader'.page = Page(chain, reader.from)
        /\ reader'.start = reader.start /\ reader'.from = reader.from
        /\ reader'.got = reader.got /\ reader'.claimed = reader.claimed
    BY <1>1 DEF ReaderTypes
  <1>3. Fetched /\ Unchanged /\ Claims
    BY <1>1 DEF ReaderInv
  <1>4. reader.from \in Nat /\ reader.from < Len(chain) /\ ChainTypes
    BY <1>1, <1>3 DEF ReaderTypes, Fetched, ChainInv, TableInv
  <1>5. /\ Page(chain, reader.from) # << >>
        /\ reader.from + Len(Page(chain, reader.from)) <= Len(chain)
        /\ \A j \in 1 .. Len(Page(chain, reader.from)) :
              Page(chain, reader.from)[j] = chain[reader.from + j]
    BY <1>4, PageFollows
  <1>6. Fetched'
    BY <1>1, <1>2, <1>3, <1>5 DEF Fetched, SameRow
  <1>7. Unchanged'
    BY <1>1, <1>2, <1>3, <1>5 DEF Unchanged
  <1>8. Claims'
    BY <1>1, <1>2, <1>3 DEF Claims
  <1> QED BY <1>6, <1>7, <1>8 DEF ReaderInv

\* The last page ends at the newest row there is.
LEMMA FetchBoundsSound ==
    ASSUME ChainInv, ReaderTypes, ReaderInv, FetchBounds
    PROVE  ReaderInv'
  <1>0. reader.page \in Seq(Row) /\ reader.got \in Seq(Row)
    BY DEF ReaderTypes
  <1>a. PICK page \in Seq(Row) : page = reader.page
    BY <1>0
  <1>b. PICK more \in BOOLEAN : more = HasMore(chain, reader.page)
    BY DEF HasMore
  <1>c. PICK n \in Nat : n = Len(reader.got) + Len(page)
    BY <1>0
  <1>1. /\ reader.pc = "bounds" /\ chain' = chain
        /\ reader'.pc = (IF more THEN "rows" ELSE "done")
        /\ reader'.start = reader.start
        /\ reader'.still = (reader.start = Len(chain))
        /\ reader'.from = (IF more THEN page[Len(page)].seq + 1 ELSE reader.from)
        /\ reader'.got = reader.got \o page
        /\ reader'.claimed = (IF reader.claimed = -1 THEN Len(chain) ELSE reader.claimed)
    BY <1>a, <1>b DEF FetchBounds
  <1>2. Fetched /\ Unchanged /\ Claims
    BY <1>1 DEF ReaderInv
  <1>3. /\ reader.got \in Seq(Row) /\ page \in Seq(Row) /\ reader.from \in Nat
        /\ reader.start \in Nat /\ reader.claimed \in Nat \cup {-1}
        /\ Len(reader.got) \in Nat /\ Len(page) \in Nat
    BY <1>0 DEF ReaderTypes
  <1>4. /\ Len(chain) \in Nat \ {0} /\ DOMAIN chain = 1 .. Len(chain)
        /\ \A k \in 1 .. Len(chain) : chain[k].seq = k - 1
    BY TableFacts DEF ChainInv, TableInv, OneLine
  <1>5. /\ Len(page) >= 1 /\ reader.from = Len(reader.got) /\ n <= Len(chain) /\ n \in Nat
        /\ n > Len(reader.got) /\ page # << >>
    <2>1. page # << >> /\ reader.from = Len(reader.got)
          /\ reader.from + Len(page) <= Len(chain)
      BY <1>1, <1>2, <1>a DEF Fetched
    <2>2. Len(page) # 0
      BY <2>1
    <2> QED BY <1>3, <1>c, <2>1, <2>2
  <1>6. page[Len(page)].seq = n - 1
    <2>1. SameRow(page[Len(page)], chain[n])
      <3>1. \A j \in 1 .. Len(page) : SameRow(page[j], chain[reader.from + j])
        BY <1>1, <1>2, <1>a DEF Fetched
      <3>2. Len(page) \in 1 .. Len(page) /\ reader.from + Len(page) = n
        BY <1>3, <1>5, <1>c
      <3> QED BY <3>1, <3>2
    <2>2. n \in 1 .. Len(chain)
      BY <1>3, <1>4, <1>5
    <2> QED BY <1>4, <2>1, <2>2 DEF SameRow
  <1>7. /\ more <=> n < Len(chain)
        /\ more => reader'.from = n
    <2>1. chain[Len(chain)].seq = Len(chain) - 1
      BY <1>4
    <2>2. more <=> n - 1 < Len(chain) - 1
      BY <1>5, <1>6, <1>a, <1>b, <2>1 DEF HasMore
    <2> QED BY <1>1, <1>4, <1>5, <1>6, <2>2
  <1>8. /\ Len(reader'.got) = n /\ reader'.got \in Seq(Row)
        /\ \A k \in 1 .. n :
              reader'.got[k] = IF k <= Len(reader.got) THEN reader.got[k]
                               ELSE page[k - Len(reader.got)]
    <2> DEFINE g == reader.got
               q == g \o page
    <2>1. g \in Seq(Row) /\ page \in Seq(Row)
      BY <1>3
    <2>2. /\ Len(q) = Len(g) + Len(page) /\ q \in Seq(Row)
          /\ \A k \in 1 .. Len(g) + Len(page) :
                q[k] = IF k <= Len(g) THEN g[k] ELSE page[k - Len(g)]
      <3> HIDE DEF g
      <3> QED BY <2>1
    <2> QED BY <1>1, <1>c, <2>2
  <1>9. \A k \in 1 .. n : k > Len(reader.got) =>
             /\ k - Len(reader.got) \in 1 .. Len(page)
             /\ k = reader.from + (k - Len(reader.got))
    BY <1>3, <1>5, <1>c
  <1>10. \A k \in 1 .. n : SameRow(reader'.got[k], chain[k])
    <2> SUFFICES ASSUME NEW k \in 1 .. n PROVE SameRow(reader'.got[k], chain[k])
      OBVIOUS
    <2>1. CASE k <= Len(reader.got)
      BY <1>2, <1>3, <1>8, <2>1 DEF Fetched
    <2>2. CASE k > Len(reader.got)
      <3>1. reader'.got[k] = page[k - Len(reader.got)]
        BY <1>3, <1>8, <2>2
      <3>2. SameRow(page[k - Len(reader.got)], chain[reader.from + (k - Len(reader.got))])
        BY <1>1, <1>2, <1>9, <1>a, <2>2 DEF Fetched
      <3> QED BY <1>9, <2>2, <3>1, <3>2
    <2> QED BY <1>3, <2>1, <2>2
  <1>11. Len(chain) = reader.start => \A k \in 1 .. n : reader'.got[k] = chain[k]
    <2> SUFFICES ASSUME Len(chain) = reader.start, NEW k \in 1 .. n
                 PROVE  reader'.got[k] = chain[k]
      OBVIOUS
    <2>1. CASE k <= Len(reader.got)
      BY <1>1, <1>2, <1>3, <1>8, <2>1 DEF Unchanged
    <2>2. CASE k > Len(reader.got)
      <3>1. reader'.got[k] = page[k - Len(reader.got)]
        BY <1>3, <1>8, <2>2
      <3>2. page[k - Len(reader.got)] = chain[reader.from + (k - Len(reader.got))]
        BY <1>1, <1>2, <1>9, <1>a, <2>2 DEF Unchanged
      <3> QED BY <1>9, <2>2, <3>1, <3>2
    <2> QED BY <1>3, <2>1, <2>2
  <1>12. Fetched'
    BY <1>1, <1>5, <1>7, <1>8, <1>10 DEF Fetched
  <1>13. Unchanged'
    BY <1>1, <1>8, <1>11 DEF Unchanged
  <1>14. Claims'
    <2>1. reader'.claimed \in reader.start .. Len(chain) /\ reader.start \in 1 .. Len(chain)
      BY <1>1, <1>2, <1>3, <1>4 DEF Claims
    <2>2. ASSUME reader'.pc = "done"
          PROVE  /\ reader'.start <= Len(reader'.got)
                 /\ reader'.still => reader'.claimed = Len(reader'.got)
                                     /\ CheckSeals(reader'.got)
      <3>1. n = Len(chain)
        <4>1. ~(n < Len(chain))
          BY <1>1, <1>7, <2>2
        <4>2. n \in Nat /\ Len(chain) \in Nat /\ n <= Len(chain)
          BY <1>4, <1>5
        <4> QED BY <4>1, <4>2
      <3>2. reader'.start <= Len(reader'.got)
        <4>1. reader'.start = reader.start /\ Len(reader'.got) = Len(chain)
          BY <1>1, <1>8, <3>1
        <4>2. reader.start <= Len(chain)
          BY <2>1
        <4> QED BY <4>1, <4>2
      <3>3. ASSUME reader'.still
            PROVE  reader'.claimed = Len(reader'.got) /\ CheckSeals(reader'.got)
        <4>1. reader.start = Len(chain)
          BY <1>1, <3>3
        <4>2. CheckSeals(reader'.got)
          BY <1>8, <1>11, <3>1, <4>1, ChainSealsCheck DEF ChainInv
        <4>3. reader'.claimed = Len(reader'.got)
          BY <1>4, <1>8, <2>1, <3>1, <4>1
        <4> QED BY <4>2, <4>3
      <3> QED BY <3>2, <3>3
    <2> QED BY <1>1, <2>1, <2>2 DEF Claims
  <1> QED BY <1>12, <1>13, <1>14 DEF ReaderInv

LEMMA ReaderInvStep ==
    ASSUME ChainInv, ReaderTypes, ReaderInv, [Next]_vars, ChainInv', Grows
    PROVE  ReaderInv'
  <1>1. CASE Writes \/ UNCHANGED vars
    <2>1. reader' = reader
      BY <1>1, WritesLeaveReader DEF vars
    <2> QED BY <2>1, ReaderWaits
  <1>2. CASE ReaderFails
    BY <1>2 DEF ReaderFails, ReaderIdle, ReaderInv
  <1>3. CASE ReaderStarts \/ FetchRows \/ FetchBounds
    BY <1>3, ReaderStartsSound, FetchRowsSound, FetchBoundsSound
  <1> QED BY <1>1, <1>2, <1>3, NextIs DEF Reads

\* A stranger who pages through the chain while it is written to gets a beginning
\* of it, no older than when the reading began, that passes every chain check;
\* and if nothing was written meanwhile, the count and the seal checks agree too.
THEOREM ReadSoundly == Spec => []ReaderSound
  <1>1. Init => ChainInv /\ ReaderTypes /\ ReaderInv
    <2>1. Init => ReaderInv
      BY DEF Init, ReaderInv, ReaderIdle
    <2> QED BY <2>1, ChainInit, ReaderInit
  <1>2. ChainInv /\ ReaderTypes /\ ReaderInv /\ [Next]_vars
           => (ChainInv /\ ReaderTypes /\ ReaderInv)'
    BY ChainStep, ReaderInvStep
  <1>3. ChainInv /\ ReaderTypes /\ ReaderInv => ReaderSound
    BY FetchedSound
  <1> QED BY <1>1, <1>2, <1>3, PTL DEF Spec

-----------------------------------------------------------------------------
(* What the commands record *)

Of(c, k) == c[k].content.of
Val(c, k) == c[k].content.val

Designations(c) == Rows(c, "successor_designation")
Voids(c) == Rows(c, "successor_designation_void")
Anchors(c) == Rows(c, "ots_anchor")
Seals(c) == Rows(c, "document_seal")

Recorded == {"document_seal", "successor_designation", "successor_designation_void",
             "ots_anchor"}

\* RecordsSound, record by record.
KeysOnce(c) ==
    \A j, k \in Designations(c) : Val(c, j) = Val(c, k) \/ Of(c, j) = Of(c, k) => j = k
PriorNamed(c) ==
    \A k \in Designations(c) :
        Of(c, k) = 0 \/ (Of(c, k) < k - 1 /\ Of(c, k) + 1 \in Designations(c))
NotInForce(c) == \A k \in Designations(c) : Val(c, k) # SealKey
VoidsOnce(c) == \A j, k \in Voids(c) : Of(c, j) = Of(c, k) => j = k
VoidsNamed(c) ==
    \A k \in Voids(c) :
        Of(c, k) + 1 \in Designations(c) /\ Val(c, k) = Val(c, Of(c, k) + 1)
AnchorsOnce(c) == \A j, k \in Anchors(c) : Of(c, j) = Of(c, k) => j = k
AnchorsNamed(c) == \A k \in Anchors(c) : Of(c, k) < k - 1
SealsDiffer(c) ==
    \A j, k \in Seals(c) : j < k /\ Val(c, j) = Val(c, k) =>
        \E i \in Seals(c) :
            j < i /\ i < k /\ Val(c, i)[1] = Val(c, j)[1] /\ Val(c, i) # Val(c, j)

DesignationsSound(c) == KeysOnce(c) /\ PriorNamed(c) /\ NotInForce(c)
VoidsSound(c) == VoidsOnce(c) /\ VoidsNamed(c)
AnchorsSound(c) == AnchorsOnce(c) /\ AnchorsNamed(c)
AllSound(c) == DesignationsSound(c) /\ VoidsSound(c) /\ AnchorsSound(c) /\ SealsDiffer(c)

\* A record that the commands' checks let through, as the chain stands.
SealAccepted(c, x) ==
    \A j \in Seals(c) : Val(c, j) = x.val =>
        \E i \in Seals(c) : j < i /\ Val(c, i)[1] = Val(c, j)[1] /\ Val(c, i) # Val(c, j)
DesignationAccepted(c, x) ==
    /\ x.val # SealKey
    /\ \A k \in Designations(c) : Val(c, k) # x.val
    /\ Designations(c) = {} => x.of = 0
    /\ Designations(c) # {} =>
          x.of + 1 \in Designations(c) /\ \A k \in Designations(c) : k <= x.of + 1
VoidAccepted(c, x) ==
    /\ x.of + 1 \in Designations(c) /\ x.val = Val(c, x.of + 1)
    /\ \A v \in Voids(c) : Of(c, v) # x.of
AnchorAccepted(c, x) ==
    /\ x.of < Len(c)
    /\ \A a \in Anchors(c) : Of(c, a) # x.of

Accepted(c, x) ==
    /\ x.act = "document_seal" => SealAccepted(c, x)
    /\ x.act = "successor_designation" => DesignationAccepted(c, x)
    /\ x.act = "successor_designation_void" => VoidAccepted(c, x)
    /\ x.act = "ots_anchor" => AnchorAccepted(c, x)

RecordInv ==
    /\ chain[1].content.act = "genesis"
    /\ \A p \in Threads \cup {Reconciler} :
          call[p].pc # "idle" => call[p].content.act \notin Recorded
    /\ \A o \in Operators : call[o].pc # "idle" => Accepted(chain, call[o].content)
    /\ AllSound(chain)

LEMMA AllSoundIsRecordsSound == AllSound(chain) => RecordsSound
  BY DEF AllSound, DesignationsSound, VoidsSound, AnchorsSound, SealsDiffer, KeysOnce,
         PriorNamed, NotInForce, VoidsOnce, VoidsNamed, AnchorsOnce, AnchorsNamed,
         Designations, Voids, Anchors, Seals, Of, Val, RecordsSound

\* A record is a row after the first, and what it names is a number.
LEMMA RecordTyped ==
    ASSUME ChainTypes, chain[1].content.act = "genesis", NEW act \in Recorded,
           NEW k \in Rows(chain, act)
    PROVE  k \in 2 .. Len(chain) /\ Len(chain) \in Nat /\ Of(chain, k) \in Nat
           /\ chain[k].content.act = act
  <1>1. k \in 1 .. Len(chain) /\ chain[k].content.act = act /\ Len(chain) \in Nat
    BY TableFacts DEF Rows
  <1>2. k # 1
    BY <1>1 DEF Recorded
  <1>3. Of(chain, k) \in Nat
    BY <1>1, TableFacts DEF Of, Row, Content
  <1> QED BY <1>1, <1>2, <1>3

\* One row is added, with the content x.
Adds(x) ==
    /\ Len(chain') = Len(chain) + 1
    /\ chain'[Len(chain) + 1].content = x
    /\ \A k \in DOMAIN chain : k \in DOMAIN chain' /\ chain'[k].content = chain[k].content

LEMMA RowsAdded ==
    ASSUME ChainTypes, ChainTypes', NEW x, Adds(x), NEW act
    PROVE  Rows(chain', act) = Rows(chain, act)
                               \cup (IF x.act = act THEN {Len(chain) + 1} ELSE {})
  <1>1. /\ DOMAIN chain = 1 .. Len(chain) /\ Len(chain) \in Nat
        /\ DOMAIN chain' = 1 .. Len(chain) + 1
    BY DEF ChainTypes, Adds
  <1>2. \A k \in 1 .. Len(chain) : chain'[k].content = chain[k].content
    BY <1>1 DEF Adds
  <1> QED BY <1>1, <1>2 DEF Rows, Adds

\* The rows of the other kinds stay as they are.
LEMMA KindsKept ==
    ASSUME ChainTypes,
           \A k \in DOMAIN chain : chain'[k].content = chain[k].content
    PROVE  /\ Designations(chain') = Designations(chain) /\ DesignationsSound(chain)
                => DesignationsSound(chain')
           /\ Voids(chain') = Voids(chain) /\ Designations(chain) \subseteq Designations(chain')
              /\ VoidsSound(chain) => VoidsSound(chain')
           /\ Anchors(chain') = Anchors(chain) /\ AnchorsSound(chain) => AnchorsSound(chain')
           /\ Seals(chain') = Seals(chain) /\ SealsDiffer(chain) => SealsDiffer(chain')
  <1>1. \A act : \A k \in Rows(chain, act) : /\ Of(chain', k) = Of(chain, k)
                                             /\ Val(chain', k) = Val(chain, k)
    BY DEF Rows, Of, Val
  <1>2. Designations(chain') = Designations(chain) /\ DesignationsSound(chain)
            => DesignationsSound(chain')
    BY <1>1 DEF DesignationsSound, KeysOnce, PriorNamed, NotInForce, Designations
  <1>3. ASSUME Voids(chain') = Voids(chain), Designations(chain) \subseteq Designations(chain'),
               VoidsSound(chain)
        PROVE  VoidsSound(chain')
    <2>1. VoidsOnce(chain')
      BY <1>1, <1>3 DEF VoidsSound, VoidsOnce, Voids
    <2>2. ASSUME NEW k \in Voids(chain')
          PROVE  /\ Of(chain', k) + 1 \in Designations(chain')
                 /\ Val(chain', k) = Val(chain', Of(chain', k) + 1)
      <3>1. Of(chain', k) = Of(chain, k) /\ Val(chain', k) = Val(chain, k)
        BY <1>1, <1>3 DEF Voids
      <3>2. /\ Of(chain, k) + 1 \in Designations(chain)
            /\ Val(chain, k) = Val(chain, Of(chain, k) + 1)
        BY <1>3 DEF VoidsSound, VoidsNamed
      <3>3. Val(chain', Of(chain, k) + 1) = Val(chain, Of(chain, k) + 1)
        BY <1>1, <3>2 DEF Designations
      <3> QED BY <1>3, <3>1, <3>2, <3>3
    <2> QED BY <2>1, <2>2 DEF VoidsSound, VoidsNamed
  <1>4. Anchors(chain') = Anchors(chain) /\ AnchorsSound(chain) => AnchorsSound(chain')
    BY <1>1 DEF AnchorsSound, AnchorsOnce, AnchorsNamed, Anchors
  <1>5. Seals(chain') = Seals(chain) /\ SealsDiffer(chain) => SealsDiffer(chain')
    BY <1>1 DEF SealsDiffer, Seals
  <1> QED BY <1>2, <1>3, <1>4, <1>5

\* The facts about the new row and the old ones that each kind of record needs.
LEMMA AddedFacts ==
    ASSUME ChainTypes, ChainTypes', chain[1].content.act = "genesis",
           NEW x \in Content, Adds(x), NEW act \in Recorded, x.act = act
    PROVE  /\ Rows(chain', act) = Rows(chain, act) \cup {Len(chain) + 1}
           /\ \A k \in Rows(chain, act) :
                 /\ k \in 2 .. Len(chain) /\ Of(chain, k) \in Nat
                 /\ Of(chain', k) = Of(chain, k) /\ Val(chain', k) = Val(chain, k)
           /\ Of(chain', Len(chain) + 1) = x.of /\ Val(chain', Len(chain) + 1) = x.val
           /\ Len(chain) \in Nat /\ x.of \in Nat
  <1>1. Rows(chain', act) = Rows(chain, act) \cup {Len(chain) + 1}
    BY RowsAdded
  <1>2. ASSUME NEW k \in Rows(chain, act)
        PROVE  /\ k \in 2 .. Len(chain) /\ Of(chain, k) \in Nat
               /\ Of(chain', k) = Of(chain, k) /\ Val(chain', k) = Val(chain, k)
    <2>1. k \in 2 .. Len(chain) /\ Of(chain, k) \in Nat
      BY RecordTyped
    <2>2. k \in DOMAIN chain
      BY DEF Rows
    <2> QED BY <2>1, <2>2 DEF Adds, Of, Val
  <1>3. Of(chain', Len(chain) + 1) = x.of /\ Val(chain', Len(chain) + 1) = x.val
    BY DEF Adds, Of, Val
  <1>4. Len(chain) \in Nat /\ x.of \in Nat
    BY DEF ChainTypes, Content
  <1> QED BY <1>1, <1>2, <1>3, <1>4

LEMMA DesignationAdded ==
    ASSUME ChainTypes, ChainTypes', chain[1].content.act = "genesis",
           NEW x \in Content, Adds(x), x.act = "successor_designation",
           DesignationAccepted(chain, x), DesignationsSound(chain)
    PROVE  DesignationsSound(chain')
  <1> DEFINE D == Designations(chain)
  <1>0. PICK n \in Nat : n = Len(chain) + 1
    BY TableFacts
  <1>1. /\ Designations(chain') = D \cup {n}
        /\ \A k \in D : /\ k \in 2 .. n - 1 /\ Of(chain, k) \in Nat
                        /\ Of(chain', k) = Of(chain, k) /\ Val(chain', k) = Val(chain, k)
        /\ Of(chain', n) = x.of /\ Val(chain', n) = x.val
        /\ x.of \in Nat
    <2>1. "successor_designation" \in Recorded
      BY DEF Recorded
    <2>2. n - 1 = Len(chain)
      BY <1>0, TableFacts
    <2> QED BY <1>0, <2>1, <2>2, AddedFacts DEF Designations
  <1>2. /\ \A k \in D : Val(chain, k) # x.val /\ x.val # SealKey
        /\ D = {} => x.of = 0
        /\ D # {} => x.of + 1 \in D /\ \A k \in D : k <= x.of + 1
    BY DEF DesignationAccepted
  <1>3. \A k \in D : Of(chain, k) = 0 \/ (Of(chain, k) < k - 1 /\ Of(chain, k) + 1 \in D)
    BY DEF DesignationsSound, PriorNamed
  <1>4. /\ \A j, k \in D : Val(chain, j) = Val(chain, k) \/ Of(chain, j) = Of(chain, k) => j = k
        /\ \A k \in D : Val(chain, k) # SealKey
    BY DEF DesignationsSound, KeysOnce, NotInForce
  <1>5. \A k \in D : Of(chain, k) # x.of
    <2> SUFFICES ASSUME NEW k \in D PROVE Of(chain, k) # x.of
      OBVIOUS
    <2>1. x.of + 1 \in 2 .. n - 1 /\ k <= x.of + 1 /\ k \in Nat
      BY <1>1, <1>2
    <2>2. Of(chain, k) = 0 \/ Of(chain, k) < k - 1
      BY <1>3
    <2> QED BY <1>1, <2>1, <2>2
  <1> HIDE DEF D
  <1>6. KeysOnce(chain')
    BY <1>1, <1>2, <1>4, <1>5 DEF KeysOnce
  <1>7. PriorNamed(chain')
    <2>1. x.of = 0 \/ (x.of < n - 1 /\ x.of + 1 \in D)
      BY <1>1, <1>2
    <2> QED BY <1>1, <1>3, <2>1 DEF PriorNamed
  <1>8. NotInForce(chain')
    <2>1. x.val # SealKey
      BY DEF DesignationAccepted
    <2> QED BY <1>1, <1>4, <2>1 DEF NotInForce
  <1> QED BY <1>6, <1>7, <1>8 DEF DesignationsSound

LEMMA VoidAdded ==
    ASSUME ChainTypes, ChainTypes', chain[1].content.act = "genesis",
           NEW x \in Content, Adds(x), x.act = "successor_designation_void",
           VoidAccepted(chain, x), VoidsSound(chain)
    PROVE  VoidsSound(chain')
  <1> DEFINE V == Voids(chain)
             D == Designations(chain)
  <1>0. PICK n \in Nat : n = Len(chain) + 1
    BY TableFacts
  <1>1. /\ Voids(chain') = V \cup {n}
        /\ \A k \in V : /\ Of(chain', k) = Of(chain, k) /\ Val(chain', k) = Val(chain, k)
        /\ Of(chain', n) = x.of /\ Val(chain', n) = x.val
    <2>1. "successor_designation_void" \in Recorded
      BY DEF Recorded
    <2> QED BY <1>0, <2>1, AddedFacts DEF Voids
  <1>2. D \subseteq Designations(chain') /\ \A k \in D : Val(chain', k) = Val(chain, k)
    <2>1. D \subseteq Designations(chain')
      BY RowsAdded DEF Designations
    <2> QED BY <2>1 DEF Designations, Rows, Adds, Val
  <1>3. x.of + 1 \in D /\ x.val = Val(chain, x.of + 1) /\ \A v \in V : Of(chain, v) # x.of
    BY DEF VoidAccepted
  <1>4. /\ \A j, k \in V : Of(chain, j) = Of(chain, k) => j = k
        /\ \A k \in V : Of(chain, k) + 1 \in D /\ Val(chain, k) = Val(chain, Of(chain, k) + 1)
    BY DEF VoidsSound, VoidsOnce, VoidsNamed
  <1> HIDE DEF D, V
  <1>5. VoidsOnce(chain')
    BY <1>1, <1>3, <1>4 DEF VoidsOnce
  <1>6. VoidsNamed(chain')
    <2> SUFFICES ASSUME NEW k \in V \cup {n}
                 PROVE  /\ Of(chain', k) + 1 \in Designations(chain')
                        /\ Val(chain', k) = Val(chain', Of(chain', k) + 1)
      BY <1>1 DEF VoidsNamed
    <2>1. CASE k = n
      <3>1. Val(chain', x.of + 1) = Val(chain, x.of + 1)
        BY <1>2, <1>3
      <3> QED BY <1>1, <1>2, <1>3, <2>1, <3>1
    <2>2. CASE k \in V
      <3>1. Of(chain, k) + 1 \in D /\ Val(chain, k) = Val(chain, Of(chain, k) + 1)
        BY <1>4, <2>2
      <3>2. Val(chain', Of(chain, k) + 1) = Val(chain, Of(chain, k) + 1)
        BY <1>2, <3>1
      <3> QED BY <1>1, <1>2, <2>2, <3>1, <3>2
    <2> QED BY <2>1, <2>2
  <1> QED BY <1>5, <1>6 DEF VoidsSound

LEMMA AnchorAdded ==
    ASSUME ChainTypes, ChainTypes', chain[1].content.act = "genesis",
           NEW x \in Content, Adds(x), x.act = "ots_anchor",
           AnchorAccepted(chain, x), AnchorsSound(chain)
    PROVE  AnchorsSound(chain')
  <1> DEFINE A == Anchors(chain)
  <1>0. PICK n \in Nat : n = Len(chain) + 1
    BY TableFacts
  <1>1. /\ Anchors(chain') = A \cup {n}
        /\ \A k \in A : Of(chain', k) = Of(chain, k)
        /\ Of(chain', n) = x.of /\ x.of \in Nat /\ n - 1 = Len(chain)
    <2>1. "ots_anchor" \in Recorded
      BY DEF Recorded
    <2> QED BY <1>0, <2>1, AddedFacts, TableFacts DEF Anchors
  <1>2. x.of < n - 1 /\ \A k \in A : Of(chain, k) # x.of
    BY <1>1 DEF AnchorAccepted
  <1>3. /\ \A j, k \in A : Of(chain, j) = Of(chain, k) => j = k
        /\ \A k \in A : Of(chain, k) < k - 1
    BY DEF AnchorsSound, AnchorsOnce, AnchorsNamed
  <1> HIDE DEF A
  <1>4. AnchorsOnce(chain')
    BY <1>1, <1>2, <1>3 DEF AnchorsOnce
  <1>5. AnchorsNamed(chain')
    BY <1>1, <1>2, <1>3 DEF AnchorsNamed
  <1> QED BY <1>4, <1>5 DEF AnchorsSound

LEMMA SealAdded ==
    ASSUME ChainTypes, ChainTypes', chain[1].content.act = "genesis",
           NEW x \in Content, Adds(x), x.act = "document_seal",
           SealAccepted(chain, x), SealsDiffer(chain)
    PROVE  SealsDiffer(chain')
  <1> DEFINE S == Seals(chain)
  <1>0. PICK n \in Nat : n = Len(chain) + 1
    BY TableFacts
  <1>1. /\ Seals(chain') = S \cup {n}
        /\ \A k \in S : Val(chain', k) = Val(chain, k) /\ k \in Nat /\ k < n
        /\ Val(chain', n) = x.val
    <2>1. "document_seal" \in Recorded
      BY DEF Recorded
    <2>2. \A k \in S : k \in 2 .. Len(chain) /\ Val(chain', k) = Val(chain, k)
      BY <2>1, AddedFacts DEF Seals
    <2>3. Seals(chain') = S \cup {n} /\ Val(chain', n) = x.val
      BY <1>0, <2>1, AddedFacts DEF Seals
    <2>4. \A k \in S : k \in Nat /\ k < n
      BY <1>0, <2>2, TableFacts
    <2> QED BY <2>2, <2>3, <2>4
  <1> SUFFICES ASSUME NEW j \in Seals(chain'), NEW k \in Seals(chain'),
                      j < k, Val(chain', j) = Val(chain', k)
               PROVE  \E i \in Seals(chain') :
                          /\ j < i /\ i < k
                          /\ Val(chain', i)[1] = Val(chain', j)[1]
                          /\ Val(chain', i) # Val(chain', j)
    BY DEF SealsDiffer
  <1>2. j \in S
    BY <1>0, <1>1
  <1>3. CASE k = n
    <2>1. Val(chain, j) = x.val
      BY <1>1, <1>2, <1>3
    <2>2. PICK i \in S : /\ j < i /\ Val(chain, i)[1] = Val(chain, j)[1]
                         /\ Val(chain, i) # Val(chain, j)
      BY <1>2, <2>1 DEF SealAccepted
    <2> QED BY <1>1, <1>2, <1>3, <2>2
  <1>4. CASE k \in S
    <2>1. PICK i \in S : /\ j < i /\ i < k /\ Val(chain, i)[1] = Val(chain, j)[1]
                         /\ Val(chain, i) # Val(chain, j)
      <3>1. Val(chain, j) = Val(chain, k)
        BY <1>1, <1>2, <1>4
      <3> QED BY <1>2, <1>4, <3>1 DEF SealsDiffer
    <2> QED BY <1>1, <1>2, <1>4, <2>1
  <1> QED BY <1>1, <1>3, <1>4

\* A row that is no record, and a record that was let through.
LEMMA RecordAdded ==
    ASSUME ChainTypes, ChainTypes', chain[1].content.act = "genesis", AllSound(chain),
           NEW x \in Content, Adds(x), Accepted(chain, x)
    PROVE  AllSound(chain')
  <1>1. \A k \in DOMAIN chain : chain'[k].content = chain[k].content
    BY DEF Adds
  <1>2. \A act : /\ Rows(chain, act) \subseteq Rows(chain', act)
                 /\ x.act # act => Rows(chain', act) = Rows(chain, act)
    BY RowsAdded
  <1>3. /\ DesignationsSound(chain) /\ VoidsSound(chain) /\ AnchorsSound(chain)
        /\ SealsDiffer(chain)
    BY DEF AllSound
  <1>4. DesignationsSound(chain')
    <2>1. CASE x.act = "successor_designation"
      BY <1>3, <2>1, DesignationAdded DEF Accepted
    <2>2. CASE x.act # "successor_designation"
      BY <1>1, <1>2, <1>3, <2>2, KindsKept DEF Designations
    <2> QED BY <2>1, <2>2
  <1>5. VoidsSound(chain')
    <2>1. CASE x.act = "successor_designation_void"
      BY <1>3, <2>1, VoidAdded DEF Accepted
    <2>2. CASE x.act # "successor_designation_void"
      BY <1>1, <1>2, <1>3, <2>2, KindsKept DEF Voids, Designations
    <2> QED BY <2>1, <2>2
  <1>6. AnchorsSound(chain')
    <2>1. CASE x.act = "ots_anchor"
      BY <1>3, <2>1, AnchorAdded DEF Accepted
    <2>2. CASE x.act # "ots_anchor"
      BY <1>1, <1>2, <1>3, <2>2, KindsKept DEF Anchors
    <2> QED BY <2>1, <2>2
  <1>7. SealsDiffer(chain')
    <2>1. CASE x.act = "document_seal"
      BY <1>3, <2>1, SealAdded DEF Accepted
    <2>2. CASE x.act # "document_seal"
      BY <1>1, <1>2, <1>3, <2>2, KindsKept DEF Seals
    <2> QED BY <2>1, <2>2
  <1> QED BY <1>4, <1>5, <1>6, <1>7 DEF AllSound

\* A row that is no record changes no check's answer.
LEMMA AcceptedKept ==
    ASSUME ChainTypes, ChainTypes', NEW x \in Content, Adds(x), x.act \notin Recorded,
           NEW y \in Content, Accepted(chain, y)
    PROVE  Accepted(chain', y)
  <1>1. \A act \in Recorded : Rows(chain', act) = Rows(chain, act)
    BY RowsAdded
  <1>2. /\ Designations(chain') = Designations(chain) /\ Voids(chain') = Voids(chain)
        /\ Anchors(chain') = Anchors(chain) /\ Seals(chain') = Seals(chain)
    BY <1>1 DEF Designations, Voids, Anchors, Seals, Recorded
  <1>3. \A act : \A k \in Rows(chain, act) : /\ Of(chain', k) = Of(chain, k)
                                             /\ Val(chain', k) = Val(chain, k)
    BY DEF Rows, Adds, Of, Val
  <1>4. SealAccepted(chain, y) => SealAccepted(chain', y)
    BY <1>2, <1>3 DEF SealAccepted, Seals
  <1>5. DesignationAccepted(chain, y) => DesignationAccepted(chain', y)
    BY <1>2, <1>3 DEF DesignationAccepted, Designations
  <1>6. VoidAccepted(chain, y) => VoidAccepted(chain', y)
    BY <1>2, <1>3 DEF VoidAccepted, Designations, Voids
  <1>7. AnchorAccepted(chain, y) => AnchorAccepted(chain', y)
    <2>1. Len(chain) \in Nat /\ Len(chain') = Len(chain) + 1 /\ y.of \in Nat
      BY TableFacts DEF Adds, Content
    <2> QED BY <1>2, <1>3, <2>1 DEF AnchorAccepted, Anchors
  <1> QED BY <1>4, <1>5, <1>6, <1>7 DEF Accepted

-----------------------------------------------------------------------------
(* What the checks let through *)

LEMMA NewestIs ==
    ASSUME TableInv, NEW S \in SUBSET DOMAIN chain, S # {}
    PROVE  Newest(chain, S) \in S /\ \A j \in S : j <= Newest(chain, S)
  <1>1. /\ Len(chain) \in Nat /\ DOMAIN chain = 1 .. Len(chain)
        /\ \A k \in 1 .. Len(chain) : chain[k].seq = k - 1
    BY TableFacts DEF TableInv, OneLine
  <1>2. S \in SUBSET (0 .. Len(chain))
    BY <1>1
  <1>3. PICK m \in S : \A j \in S : j <= m
    BY <1>1, <1>2, NatMax
  <1>4. \A j, k \in S : chain[j].seq <= chain[k].seq <=> j <= k
    BY <1>1
  <1>5. \A j \in S : chain[j].seq <= chain[m].seq
    BY <1>3, <1>4
  <1>6. Newest(chain, S) \in S /\ \A j \in S : chain[j].seq <= chain[Newest(chain, S)].seq
    BY <1>5 DEF Newest
  <1> QED BY <1>4, <1>6

LEMMA SealLetThrough ==
    ASSUME TableInv, NEW name \in Documents, NEW digest \in Digests,
           MayRecord(chain, name, digest)
    PROVE  Accepted(chain, Event("document_seal", 0, <<name, digest>>))
  <1> DEFINE seals == {k \in Rows(chain, "document_seal") : chain[k].content.val[1] = name}
             v == <<name, digest>>
             x == Event("document_seal", 0, v)
  <1>1. x.act = "document_seal" /\ x.val = v /\ v[1] = name
    BY DEF Event
  <1>2. ASSUME NEW j \in Seals(chain), Val(chain, j) = v
        PROVE  \E i \in Seals(chain) : /\ j < i /\ Val(chain, i)[1] = Val(chain, j)[1]
                                       /\ Val(chain, i) # Val(chain, j)
    <2>1. j \in seals /\ seals \in SUBSET DOMAIN chain
      BY <1>1, <1>2 DEF Seals, Val, Rows
    <2>2. PICK m \in seals : m = Newest(chain, seals) /\ \A i \in seals : i <= m
      BY <2>1, NewestIs
    <2>3. Val(chain, m) # v
      BY <2>1, <2>2 DEF MayRecord, Val
    <2>4. m \in Seals(chain) /\ Val(chain, m)[1] = name /\ j <= m /\ m # j
      BY <1>2, <2>1, <2>2, <2>3 DEF Seals, Val
    <2>5. j \in Nat /\ m \in Nat
      <3>1. j \in DOMAIN chain /\ m \in DOMAIN chain
        BY <2>1, <2>2
      <3> QED BY <3>1, TableFacts DEF TableInv
    <2> HIDE DEF seals, v
    <2>6. j < m
      BY <2>4, <2>5
    <2> QED BY <1>1, <1>2, <2>3, <2>4, <2>6
  <1>3. SealAccepted(chain, x)
    BY <1>1, <1>2 DEF SealAccepted
  <1> QED BY <1>1, <1>3 DEF Accepted

LEMMA DesignationLetThrough ==
    ASSUME TableInv, NEW key \in Keys, \E current \in KeyRead : MayDesignate(chain, current, key)
    PROVE  Accepted(chain, Event("successor_designation", Superseded(chain), key))
  <1> DEFINE x == Event("successor_designation", Superseded(chain), key)
             D == Rows(chain, "successor_designation")
  <1>1. x.act = "successor_designation" /\ x.val = key /\ x.of = Superseded(chain)
    BY DEF Event
  <1>2. key # SealKey /\ \A k \in D : chain[k].content.val # key
    BY DEF MayDesignate, KeyRead
  <1>3. D = {} => Superseded(chain) = 0
    BY DEF Superseded
  <1>4. ASSUME D # {} PROVE Superseded(chain) + 1 \in D /\ \A k \in D : k <= Superseded(chain) + 1
    <2>1. D \in SUBSET DOMAIN chain
      BY DEF Rows
    <2>2. PICK m \in D : m = Newest(chain, D) /\ \A i \in D : i <= m
      BY <1>4, <2>1, NewestIs
    <2>3. Superseded(chain) = chain[m].seq
      BY <1>4, <2>2 DEF Superseded
    <2>4. m \in 1 .. Len(chain) /\ chain[m].seq = m - 1
      BY <2>1, TableFacts DEF TableInv, OneLine
    <2>5. Superseded(chain) + 1 = m
      BY <2>3, <2>4
    <2> QED BY <2>2, <2>5
  <1>5. DesignationAccepted(chain, x)
    BY <1>1, <1>2, <1>3, <1>4 DEF DesignationAccepted, Designations, Val
  <1> QED BY <1>1, <1>5 DEF Accepted

LEMMA VoidLetThrough ==
    ASSUME TableInv, NEW k \in DOMAIN chain, MayVoid(chain, k)
    PROVE  Accepted(chain,
               Event("successor_designation_void", chain[k].seq, chain[k].content.val))
  <1> DEFINE x == Event("successor_designation_void", chain[k].seq, chain[k].content.val)
  <1>1. /\ x.act = "successor_designation_void" /\ x.of = chain[k].seq
        /\ x.val = chain[k].content.val
    BY DEF Event
  <1>2. k \in Nat /\ chain[k].seq = k - 1
    BY TableFacts DEF TableInv, OneLine
  <1>3. x.of + 1 = k
    BY <1>1, <1>2
  <1> HIDE DEF x
  <1>4. VoidAccepted(chain, x)
    BY <1>1, <1>3 DEF VoidAccepted, MayVoid, Voids, Designations, Rows, Of, Val
  <1> QED BY <1>1, <1>4 DEF Accepted, x

LEMMA AnchorLetThrough ==
    ASSUME TableInv, NEW k \in DOMAIN chain, MayAnchor(chain, k)
    PROVE  Accepted(chain, Event("ots_anchor", chain[k].seq, None))
  <1> DEFINE x == Event("ots_anchor", chain[k].seq, None)
  <1>1. x.act = "ots_anchor" /\ x.of = chain[k].seq
    BY DEF Event
  <1>2. k \in 1 .. Len(chain) /\ Len(chain) \in Nat /\ chain[k].seq = k - 1
    BY TableFacts DEF TableInv, OneLine
  <1>3. x.of < Len(chain)
    BY <1>1, <1>2
  <1> HIDE DEF x
  <1>4. AnchorAccepted(chain, x)
    BY <1>1, <1>3 DEF AnchorAccepted, MayAnchor, Anchors, Of
  <1> QED BY <1>1, <1>4 DEF Accepted, x

-----------------------------------------------------------------------------
(* Every step *)

\* What a step does to the calls of the bridge's own threads.
LEMMA ThreadsRecordNothing ==
    ASSUME ChainInv, RecordInv, [Next]_vars, NEW p \in Threads \cup {Reconciler},
           call'[p].pc # "idle"
    PROVE  call'[p].content.act \notin Recorded
  <1>0. /\ call \in [Processes -> CallState] /\ p \in Processes /\ p \notin Operators
    BY ChainAssumption DEF ChainInv, OtherTypes, Processes
  <1>1. CASE call'[p] = call[p]
    BY <1>1 DEF RecordInv
  <1>2. CASE call'[p] # call[p]
    <2>1. \A o \in Operators : ~OperatorSteps(o)
      BY <1>0, <1>2 DEF OperatorSteps, RecordDocumentSeal, RecordDesignation, RecordVoid,
         RecordAnchor, Checked, OperatorReads, OperatorInserts, LogRead, LogInsert, LogFail
    <2>2. ~Reads /\ ~UNCHANGED vars
      BY <1>2 DEF Reads, ReaderStarts, FetchRows, FetchBounds, ReaderFails, vars
    <2>3. ~(SignHead \/ SealReads \/ SealWrites \/ SealFails \/ \E id \in signer : SealRemotely(id))
      BY <1>2 DEF SignHead, SealReads, SealWrites, SealFails, SealRemotely
    <2>4. ~Start
      BY <1>2 DEF Start
    <2>5. \/ \E t \in Threads : ThreadReads(t)
          \/ ReconcileReads
          \/ \E t \in Threads : ThreadInserts(t)
          \/ ReconcileInserts
          \/ Crash
      BY <2>1, <2>2, <2>3, <2>4, NextIs DEF Writes
    <2>6. CASE \E t \in Threads : ThreadReads(t)
      <3>1. PICK t \in Threads : LogRead(t, Event("event", 0, t))
        BY <2>6 DEF ThreadReads
      <3>2. call'[p].content = Event("event", 0, t)
        BY <1>0, <1>2, <3>1 DEF LogRead
      <3> QED BY <3>2 DEF Event, Recorded
    <2>7. CASE ReconcileReads
      <3>1. call'[p].content = Event("ledger_reconcile", 0, None)
        BY <1>0, <1>2, <2>7 DEF ReconcileReads, LogRead
      <3> QED BY <3>1 DEF Event, Recorded
    <2>8. CASE (\E t \in Threads : ThreadInserts(t)) \/ ReconcileInserts \/ Crash
      <3>1. call'[p] = Idle
        BY <1>0, <1>2, <2>8
           DEF ThreadInserts, ReconcileInserts, Crash, LogInsert, LogFail
      <3> QED BY <3>1 DEF Idle
    <2> QED BY <2>5, <2>6, <2>7, <2>8
  <1> QED BY <1>1, <1>2

\* What a step does to the calls of the operators.
LEMMA OperatorsChecked ==
    ASSUME ChainInv, RecordInv, [Next]_vars, NEW o \in Operators, call'[o].pc # "idle"
    PROVE  \/ call[o].pc # "idle" /\ call'[o].content = call[o].content
           \/ chain' = chain /\ Accepted(chain, call'[o].content)
  <1>0. /\ call \in [Processes -> CallState] /\ o \in Processes
        /\ o \notin Threads /\ o # Reconciler
    BY ChainAssumption DEF ChainInv, OtherTypes, Processes
  <1>1. CASE call'[o] = call[o]
    BY <1>1
  <1>2. CASE call'[o] # call[o]
    <2>1. ~\E t \in Threads : ThreadReads(t) \/ ThreadInserts(t)
      BY <1>0, <1>2 DEF ThreadReads, ThreadInserts, LogRead, LogInsert, LogFail
    <2>2. ~(Start \/ ReconcileReads \/ ReconcileInserts \/ Crash)
      BY <1>0, <1>2
         DEF Start, ReconcileReads, ReconcileInserts, Crash, LogRead, LogInsert, LogFail
    <2>3. ~Reads /\ ~UNCHANGED vars
      BY <1>2 DEF Reads, ReaderStarts, FetchRows, FetchBounds, ReaderFails, vars
    <2>4. ~(SignHead \/ SealReads \/ SealWrites \/ SealFails \/ \E id \in signer : SealRemotely(id))
      BY <1>2 DEF SignHead, SealReads, SealWrites, SealFails, SealRemotely
    <2>5. PICK q \in Operators : OperatorSteps(q)
      BY <2>1, <2>2, <2>3, <2>4, NextIs DEF Writes
    <2>6. ASSUME NEW x, Checked(q, x), Accepted(chain, x)
          PROVE  chain' = chain /\ Accepted(chain, call'[o].content)
      <3>1. chain' = chain /\ call'[o].content = x
        BY <1>0, <1>2, <2>6 DEF Checked
      <3> QED BY <2>6, <3>1
    <2>7. TableInv
      BY DEF ChainInv
    <2>8. CASE \E name \in Documents, digest \in Digests : RecordDocumentSeal(q, name, digest)
      BY <2>6, <2>7, <2>8, SealLetThrough DEF RecordDocumentSeal
    <2>9. CASE \E key \in Keys : RecordDesignation(q, key)
      BY <2>6, <2>7, <2>9, DesignationLetThrough DEF RecordDesignation
    <2>10. CASE \E k \in DOMAIN chain : RecordVoid(q, k) \/ RecordAnchor(q, k)
      BY <2>6, <2>7, <2>10, VoidLetThrough, AnchorLetThrough DEF RecordVoid, RecordAnchor
    <2>11. CASE OperatorReads(q)
      BY <1>0, <1>2, <2>11 DEF OperatorReads, LogRead
    <2>12. CASE OperatorInserts(q)
      <3>1. call'[o] = Idle
        BY <1>0, <1>2, <2>12 DEF OperatorInserts, LogInsert, LogFail
      <3> QED BY <3>1 DEF Idle
    <2> QED BY <2>5, <2>8, <2>9, <2>10, <2>11, <2>12 DEF OperatorSteps
  <1> QED BY <1>1, <1>2

\* A row is added by an operator's command, or is no record.
LEMMA RowWritten ==
    ASSUME ChainInv, ChainInv', Grows, RecordInv, [Next]_vars, chain' # chain
    PROVE  \E x \in Content :
               /\ Adds(x)
               /\ \/ x.act \notin Recorded
                  \/ \E o \in Operators : /\ call[o].pc # "idle" /\ x = call[o].content
                                          /\ call'[o].pc = "idle"
  <1>1. /\ call \in [Processes -> CallState]
        /\ \A k \in DOMAIN chain : k \in DOMAIN chain' /\ chain'[k].content = chain[k].content
    BY DEF ChainInv, OtherTypes, Grows, Kept
  <1>2. ~Reads /\ ~UNCHANGED vars
    BY DEF Reads, ReaderStarts, FetchRows, FetchBounds, ReaderFails, vars
  <1>3. ~(Start \/ ReconcileReads \/ Crash \/ SignHead \/ SealReads \/ SealFails)
    BY DEF Start, ReconcileReads, Crash, SignHead, SealReads, SealFails
  <1>4. ASSUME NEW p \in Processes, LogInsert(p), UNCHANGED <<local, signer, remote>>
        PROVE  /\ Adds(call[p].content) /\ call[p].content \in Content
               /\ call[p].pc = "insert" /\ call'[p].pc = "idle"
    <2>1. /\ call[p].pc = "insert" /\ Len(chain') = Len(chain) + 1
          /\ chain'[Len(chain) + 1].content = call[p].content
      BY <1>4, InsertMoves
    <2>2. call[p].content \in Content
      BY <1>1, <2>1 DEF CallState
    <2>3. call'[p].pc = "idle"
      BY <1>1, <1>4 DEF LogInsert, Idle
    <2> QED BY <1>1, <2>1, <2>2, <2>3 DEF Adds
  <1>5. CASE (\E t \in Threads : ThreadReads(t) \/ ThreadInserts(t)) \/ ReconcileInserts
    <2>1. PICK p \in Threads \cup {Reconciler} :
             LogInsert(p) /\ UNCHANGED <<local, signer, remote>>
      BY <1>5 DEF ThreadReads, ThreadInserts, ReconcileInserts, LogFail
    <2>2. p \in Processes
      BY DEF Processes
    <2>3. Adds(call[p].content) /\ call[p].content \in Content /\ call[p].pc = "insert"
      BY <1>4, <2>1, <2>2
    <2>4. call[p].content.act \notin Recorded
      BY <2>3 DEF RecordInv
    <2> QED BY <2>3, <2>4
  <1>6. CASE \E o \in Operators : OperatorSteps(o)
    <2>1. PICK o \in Operators : LogInsert(o) /\ UNCHANGED <<local, signer, remote>>
      BY <1>6 DEF OperatorSteps, RecordDocumentSeal, RecordDesignation, RecordVoid,
         RecordAnchor, Checked, OperatorReads, OperatorInserts, LogFail
    <2>2. o \in Processes
      BY DEF Processes
    <2> QED BY <1>4, <2>1, <2>2
  <1>7. CASE SealWrites \/ \E id \in signer : SealRemotely(id)
    <2>1. PICK k \in DOMAIN chain : chain' = Sealed(chain, k)
      BY <1>7 DEF SealWrites, SealRemotely
    <2>2. Len(chain') = Len(chain) + 1 /\ chain'[Len(chain')].content.act = "daily_seal"
      BY <2>1, SealedLast DEF ChainInv
    <2> DEFINE x == chain'[Len(chain')].content
    <2>3. x \in Content
      <3>1. chain' \in Seq(Row) /\ Len(chain') \in DOMAIN chain'
        BY TableFacts, <2>2 DEF ChainInv, TableInv, ChainTypes
      <3>2. chain'[Len(chain')] \in Row
        BY <3>1
      <3> QED BY <3>2 DEF Row
    <2>4. Adds(x)
      BY <1>1, <2>2 DEF Adds
    <2>5. x.act \notin Recorded
      BY <2>2 DEF Recorded
    <2> QED BY <2>3, <2>4, <2>5
  <1> QED BY <1>2, <1>3, <1>5, <1>6, <1>7, NextIs DEF Writes

\* One command at a time: nothing a check relied on changes before its write.
LEMMA RecordStep ==
    ASSUME \A o, q \in Operators : o = q,
           ChainInv, ChainInv', Grows, RecordInv, [Next]_vars
    PROVE  RecordInv'
  <1>1. ChainTypes /\ ChainTypes' /\ chain[1].content.act = "genesis" /\ AllSound(chain)
        /\ 1 \in DOMAIN chain
    BY TableFacts DEF ChainInv, TableInv, RecordInv
  <1>2. chain'[1].content.act = "genesis"
    BY <1>1 DEF Grows, Kept
  <1>3. \A p \in Threads \cup {Reconciler} :
           call'[p].pc # "idle" => call'[p].content.act \notin Recorded
    BY ThreadsRecordNothing
  <1>4. \A o \in Operators : call[o].pc # "idle" =>
           call[o].content \in Content /\ Accepted(chain, call[o].content)
    BY DEF RecordInv, ChainInv, OtherTypes, CallState, Processes
  <1>5. CASE chain' = chain
    <2>1. \A o \in Operators : call'[o].pc # "idle" => Accepted(chain', call'[o].content)
      BY <1>4, <1>5, OperatorsChecked
    <2> QED BY <1>1, <1>2, <1>3, <1>5, <2>1 DEF RecordInv
  <1>6. CASE chain' # chain
    <2>1. PICK x \in Content :
             /\ Adds(x)
             /\ \/ x.act \notin Recorded
                \/ \E o \in Operators : /\ call[o].pc # "idle" /\ x = call[o].content
                                        /\ call'[o].pc = "idle"
      BY <1>6, RowWritten
    <2>2. CASE x.act \notin Recorded
      <3>1. Accepted(chain, x)
        BY <2>2 DEF Accepted, Recorded
      <3>2. AllSound(chain')
        BY <1>1, <2>1, <3>1, RecordAdded
      <3>3. \A o \in Operators : call'[o].pc # "idle" => Accepted(chain', call'[o].content)
        <4> SUFFICES ASSUME NEW o \in Operators, call'[o].pc # "idle"
                     PROVE  Accepted(chain', call'[o].content)
          OBVIOUS
        <4>1. call[o].pc # "idle" /\ call'[o].content = call[o].content
          BY <1>6, OperatorsChecked
        <4> QED BY <1>1, <1>4, <2>1, <2>2, <4>1, AcceptedKept
      <3> QED BY <1>2, <1>3, <3>2, <3>3 DEF RecordInv
    <2>3. ASSUME NEW o \in Operators, call[o].pc # "idle", x = call[o].content,
                 call'[o].pc = "idle"
          PROVE  RecordInv'
      <3>1. Accepted(chain, x)
        BY <1>4, <2>3
      <3>2. AllSound(chain')
        BY <1>1, <2>1, <3>1, RecordAdded
      <3>3. \A q \in Operators : call'[q].pc = "idle"
        BY <2>3
      <3> QED BY <1>2, <1>3, <3>2, <3>3 DEF RecordInv
    <2> QED BY <2>1, <2>2, <2>3
  <1> QED BY <1>5, <1>6

LEMMA RecordInit == Init => RecordInv
  <1> SUFFICES ASSUME Init PROVE RecordInv
    OBVIOUS
  <1>1. chain = <<Genesis>> /\ chain[1] = Genesis /\ DOMAIN chain = {1}
    BY DEF Init
  <1>2. Genesis.content.act = "genesis"
    BY DEF Genesis, NextRow, Event
  <1>3. \A act \in Recorded : Rows(chain, act) = {}
    BY <1>1, <1>2 DEF Rows, Recorded
  <1>4. Designations(chain) = {} /\ Voids(chain) = {} /\ Anchors(chain) = {} /\ Seals(chain) = {}
    BY <1>3 DEF Designations, Voids, Anchors, Seals, Recorded
  <1>5. AllSound(chain)
    BY <1>4 DEF AllSound, DesignationsSound, VoidsSound, AnchorsSound, SealsDiffer, KeysOnce,
       PriorNamed, NotInForce, VoidsOnce, VoidsNamed, AnchorsOnce, AnchorsNamed
  <1>6. \A p \in Threads \cup {Reconciler} \cup Operators : call[p].pc = "idle"
    BY DEF Init, Processes, Idle
  <1> QED BY <1>1, <1>2, <1>5, <1>6 DEF RecordInv

\* One operator at a time, over any chain that threads, reconciles and sealers write
\* to between a command's check and its row: a key is designated once and never the
\* one in force, each designation supersedes the one before it, a retraction is of a
\* designation and the only one, a head is anchored once, and no document is sealed
\* twice in a row with the same bytes.
THEOREM RecordedSoundly ==
    ASSUME \A o, q \in Operators : o = q
    PROVE  Spec => []RecordsSound
  <1>1. Init => ChainInv /\ ReaderTypes /\ RecordInv
    BY ChainInit, ReaderInit, RecordInit
  <1>2. ChainInv /\ ReaderTypes /\ RecordInv /\ [Next]_vars
           => (ChainInv /\ ReaderTypes /\ RecordInv)'
    BY ChainStep, RecordStep
  <1>3. RecordInv => RecordsSound
    BY AllSoundIsRecordsSound DEF RecordInv
  <1> QED BY <1>1, <1>2, <1>3, PTL DEF Spec

-----------------------------------------------------------------------------
(* The pin pipeline.                                                       *)
(*                                                                         *)
(* No pending record is forgotten and no record is called pinned that no   *)
(* provider holds, for any number of mints, old records, providers, failed *)
(* writes, crashes and restarts.                                           *)
(*                                                                         *)
(* NothingForgotten alone is not inductive.  A queue written whole         *)
(* overwrites a file that knew more, and a restart reads files in place    *)
(* of what memory knew: so both indexes go with the queue in memory        *)
(* (KeptAnyway), what is queued in memory is queued on disk unless its     *)
(* write was lost (QueueWritten), and the event the thread is about to     *)
(* take off the queue is pending in neither index (Handled).               *)
(* PinnedIsHosted rests on Handled too.                                    *)

KeptAnyway == Remembers(index, queue) /\ Remembers(indexDisk, queue)

Once == Unrepeated(queue) /\ Unrepeated(queueDisk)

QueueWritten == \A e \in Events : Queued(queue, e) => Queued(queueDisk, e) \/ e \in missed

\* Nothing is queued, or worked on, that the index's file does not have.
Known ==
    /\ \A e \in Events : Has(indexDisk, e) => Has(index, e)
    /\ service = "booting" => \A e \in Events : Has(index, e) => Has(indexDisk, e)
    /\ \A e \in Events : Queued(queue, e) \/ Queued(queueDisk, e) \/ Queued(todo, e)
          => Has(indexDisk, e)

Fresh == \A r \in Mints : mint[r] = "indexed" => Has(indexDisk, EventOf[r]) /\ service = "serving"

\* The first entry of the event is not pending.
Settled(ix, e) ==
    \A i \in DOMAIN ix : EventOf[ix[i].record] = e /\ IsFirst(ix, i) => ix[i].status # "pending"

Handled ==
    /\ service = "booting" => worker = "wait"
    /\ worker \in {"confirmed", "done"} => Current \in hosted
    /\ worker = "done" => Settled(index, EventOf[Current]) /\ Settled(indexDisk, EventOf[Current])

PinInv == PinTypeOK /\ KeptAnyway /\ Once /\ PinnedIsHosted /\ QueueWritten /\ Known /\ Fresh /\ Handled

-----------------------------------------------------------------------------
(* The index's operations *)

LEMMA EventsAre == \A r \in Records : EventOf[r] \in Events
  BY DEF Events

LEMMA EntryEvents ==
    ASSUME NEW ix \in Seq(EntryType), NEW i \in DOMAIN ix
    PROVE  ix[i].record \in Records /\ EventOf[ix[i].record] \in Events
  <1>1. ix[i] \in EntryType
    OBVIOUS
  <1>2. ix[i].record \in Records
    BY <1>1 DEF EntryType
  <1> QED BY <1>2, EventsAre

LEMMA FirstFacts ==
    ASSUME NEW ix \in Seq(EntryType), NEW e, Has(ix, e)
    PROVE  /\ First(ix, e) \in DOMAIN ix
           /\ EventOf[ix[First(ix, e)].record] = e
           /\ IsFirst(ix, First(ix, e))
           /\ \A i \in DOMAIN ix :
                 EventOf[ix[i].record] = e /\ IsFirst(ix, i) => i = First(ix, e)
  <1> DEFINE T == {i \in DOMAIN ix : EventOf[ix[i].record] = e}
  <1>1. DOMAIN ix = 1 .. Len(ix) /\ Len(ix) \in Nat
    OBVIOUS
  <1>2. T \in SUBSET Nat /\ T # {}
    BY <1>1 DEF Has
  <1> HIDE DEF T
  <1>3. PICK m \in T : \A n \in T : m <= n
    BY <1>2, NatMin
  <1>4. m \in DOMAIN ix /\ EventOf[ix[m].record] = e
    BY <1>3 DEF T
  <1>5. IsFirst(ix, m)
    <2> SUFFICES ASSUME NEW j \in 1 .. m - 1, EventOf[ix[j].record] = EventOf[ix[m].record]
                 PROVE  FALSE
      BY DEF IsFirst
    <2>1. j \in DOMAIN ix /\ j < m
      BY <1>1, <1>4
    <2>2. j \in T
      BY <1>4, <2>1 DEF T
    <2>3. m \in Nat /\ j \in Nat /\ m <= j
      BY <1>1, <1>3, <1>4, <2>1, <2>2
    <2> QED BY <2>1, <2>3
  <1>6. /\ First(ix, e) \in DOMAIN ix
        /\ EventOf[ix[First(ix, e)].record] = e
        /\ IsFirst(ix, First(ix, e))
    BY <1>4, <1>5 DEF First
  <1>7. ASSUME NEW i \in DOMAIN ix, NEW j \in DOMAIN ix, EventOf[ix[i].record] = e, IsFirst(ix, i),
               EventOf[ix[j].record] = e, IsFirst(ix, j)
        PROVE  i = j
    <2>1. ~(i < j) /\ ~(j < i)
      BY <1>1, <1>7 DEF IsFirst
    <2> QED BY <1>1, <2>1
  <1> QED BY <1>6, <1>7

\* The index jx has the records of ix at their places.
SameRecords(ix, jx) ==
    DOMAIN jx = DOMAIN ix /\ \A i \in DOMAIN ix : jx[i].record = ix[i].record

LEMMA SameFirst ==
    ASSUME NEW ix \in Seq(EntryType), NEW jx, SameRecords(ix, jx)
    PROVE  /\ \A e : Has(jx, e) <=> Has(ix, e)
           /\ \A i \in DOMAIN ix : IsFirst(jx, i) <=> IsFirst(ix, i)
  <1>1. DOMAIN ix = 1 .. Len(ix) /\ Len(ix) \in Nat
    OBVIOUS
  <1>2. \A i \in DOMAIN ix : \A j \in 1 .. i - 1 : j \in DOMAIN ix
    BY <1>1
  <1> QED BY <1>2 DEF SameRecords, Has, IsFirst

LEMMA Replaced ==
    ASSUME NEW ix \in Seq(EntryType), NEW k \in DOMAIN ix, NEW entry \in EntryType,
           entry.record = ix[k].record, NEW jx, jx = [ix EXCEPT ![k] = entry]
    PROVE  /\ jx \in Seq(EntryType) /\ SameRecords(ix, jx) /\ jx[k] = entry
           /\ \A i \in DOMAIN ix \ {k} : jx[i] = ix[i]
  BY DEF SameRecords

LEMMA Appended ==
    ASSUME NEW ix \in Seq(EntryType), NEW entry \in EntryType, NEW jx, jx = Append(ix, entry)
    PROVE  /\ jx \in Seq(EntryType)
           /\ Len(ix) + 1 \in DOMAIN jx /\ jx[Len(ix) + 1] = entry
           /\ DOMAIN jx = DOMAIN ix \cup {Len(ix) + 1} /\ Len(ix) + 1 \notin DOMAIN ix
           /\ \A i \in DOMAIN ix : jx[i] = ix[i] /\ (IsFirst(jx, i) <=> IsFirst(ix, i))
           /\ \A e : Has(jx, e) <=> Has(ix, e) \/ e = EventOf[entry.record]
           /\ \A e : Has(ix, e) /\ EventOf[entry.record] = e => ~IsFirst(jx, Len(ix) + 1)
  <1> DEFINE n == Len(ix)
  <1>1. /\ DOMAIN ix = 1 .. n /\ n \in Nat /\ jx \in Seq(EntryType) /\ DOMAIN jx = 1 .. n + 1
        /\ jx[n + 1] = entry /\ \A i \in 1 .. n : jx[i] = ix[i]
    OBVIOUS
  <1> HIDE DEF n
  <1>2. \A i \in 1 .. n : IsFirst(jx, i) <=> IsFirst(ix, i)
    <2>1. \A i \in 1 .. n : \A j \in 1 .. i - 1 : j \in 1 .. n
      BY <1>1
    <2> QED BY <1>1, <2>1 DEF IsFirst
  <1>3. \A e : Has(jx, e) <=> Has(ix, e) \/ e = EventOf[entry.record]
    <2>1. 1 .. n + 1 = 1 .. n \cup {n + 1}
      BY <1>1
    <2> QED BY <1>1, <2>1 DEF Has
  <1>4. \A e : Has(ix, e) /\ EventOf[entry.record] = e => ~IsFirst(jx, n + 1)
    <2>1. n + 1 - 1 = n
      BY <1>1
    <2> QED BY <1>1, <2>1 DEF Has, IsFirst
  <1>5. n + 1 \in 1 .. n + 1 /\ n + 1 \notin 1 .. n /\ 1 .. n + 1 = 1 .. n \cup {n + 1}
    BY <1>1
  <1> QED BY <1>1, <1>2, <1>3, <1>4, <1>5 DEF n

\* No event that was covered is uncovered, and nothing becomes pending but an
\* entry whose event is covered now.
LEMMA StillRemembered ==
    ASSUME index \in Seq(EntryType), Remembers(index, queue), SameRecords(index, index'),
           NEW k, NEW e, k \in DOMAIN index => EventOf[index[k].record] = e,
           \A i \in DOMAIN index \ {k} : index'[i] = index[i],
           \A x \in Events : Covered(queue, x) => Covered(queue, x)',
           index'[k].status = "pending" => Covered(queue, e)'
    PROVE  Remembers(index, queue)'
  <1> SUFFICES ASSUME NEW i \in DOMAIN index', index'[i].status = "pending", IsFirst(index', i)
               PROVE  Covered(queue, EventOf[index[i].record])'
    BY DEF Remembers
  <1>1. i \in DOMAIN index /\ index'[i].record = index[i].record /\ IsFirst(index, i)
    BY SameFirst DEF SameRecords
  <1>x. PICK x : x = EventOf[index[i].record]
    OBVIOUS
  <1>2. x \in Events /\ EventOf[index'[i].record] = x
    BY <1>1, <1>x, EntryEvents
  <1>3. Covered(queue, x)'
    <2>1. CASE i = k
      BY <1>1, <1>x, <2>1
    <2>2. CASE i # k
      <3>1. index'[i] = index[i]
        BY <1>1, <2>2
      <3>2. Covered(queue, x)
        BY <1>1, <1>x, <3>1 DEF Remembers
      <3> QED BY <1>2, <3>2
    <2> QED BY <2>1, <2>2
  <1> QED BY <1>2, <1>3

\* The file of the queue covers what the queue does.
LEMMA OnDiskToo ==
    ASSUME NEW ix \in Seq(EntryType), Remembers(ix, queue), QueueWritten
    PROVE  Remembers(ix, queueDisk)
  <1>1. \A i \in DOMAIN ix : EventOf[ix[i].record] \in Events
    BY EntryEvents
  <1>2. \A e \in Events : Covered(queue, e) => Covered(queueDisk, e)
    BY DEF Covered, QueueWritten
  <1> QED BY <1>1, <1>2 DEF Remembers

-----------------------------------------------------------------------------
(* The queue's operations *)

LEMMA EnqueuedFacts ==
    ASSUME NEW q \in Seq(Items), NEW r \in Records
    PROVE  /\ Enqueued(q, r) \in Seq(Items)
           /\ Unrepeated(q) => Unrepeated(Enqueued(q, r))
           /\ \A x : Queued(Enqueued(q, r), x) <=> Queued(q, x) \/ x = EventOf[r]
  <1>1. CASE Queued(q, EventOf[r])
    BY <1>1 DEF Enqueued
  <1>2. CASE ~Queued(q, EventOf[r])
    <2> DEFINE t == Append(q, Item(r))
    <2>1. Item(r) \in Items /\ Item(r).record = r
      BY DEF Item, Items
    <2>2. /\ t \in Seq(Items) /\ Len(t) = Len(q) + 1
          /\ \A i \in 1 .. Len(q) : t[i] = q[i]
          /\ t[Len(q) + 1] = Item(r)
          /\ DOMAIN t = 1 .. Len(q) + 1 /\ DOMAIN q = 1 .. Len(q) /\ Len(q) \in Nat
      BY <2>1
    <2> HIDE DEF t
    <2>3. \A x : Queued(t, x) <=> Queued(q, x) \/ x = EventOf[r]
      BY <2>1, <2>2 DEF Queued
    <2>4. Unrepeated(q) => Unrepeated(t)
      BY <1>2, <2>1, <2>2 DEF Unrepeated, Queued
    <2>5. Enqueued(q, r) = t
      BY <1>2 DEF Enqueued, t
    <2> QED BY <2>2, <2>3, <2>4, <2>5
  <1> QED BY <1>1, <1>2

\* What PinQueue.add does to memory, file and history.
LEMMA QueueAddFacts ==
    ASSUME PinTypeOK, Once, QueueWritten, NEW r \in Records, NEW saved \in BOOLEAN,
           QueueAdd(r, saved)
    PROVE  /\ queue' \in Seq(Items) /\ queueDisk' \in Seq(Items) /\ Once' /\ QueueWritten'
           /\ missed \subseteq missed' /\ missed' \subseteq Events
           /\ \A e : Queued(queue', e) <=> Queued(queue, e) \/ e = EventOf[r]
           /\ queueDisk' \in {queueDisk, queue'}
           /\ Queued(queueDisk', EventOf[r]) \/ EventOf[r] \in missed'
  <1>1. EventOf[r] \in Events
    BY EventsAre
  <1>2. /\ queue' = Enqueued(queue, r)
        /\ queueDisk' = IF Queued(queue, EventOf[r]) THEN queueDisk ELSE Write(queueDisk, queue', saved)
        /\ missed' = IF Queued(queue, EventOf[r]) \/ saved THEN missed ELSE missed \cup {EventOf[r]}
    BY DEF QueueAdd
  <1>3. /\ queue' \in Seq(Items) /\ Unrepeated(queue')
        /\ \A e : Queued(queue', e) <=> Queued(queue, e) \/ e = EventOf[r]
    BY <1>2, EnqueuedFacts DEF PinTypeOK, Once
  <1>4. /\ queueDisk' \in {queueDisk, queue'}
        /\ missed \subseteq missed' /\ missed' \subseteq Events
    BY <1>1, <1>2 DEF Write, PinTypeOK
  <1>5. Queued(queueDisk', EventOf[r]) \/ EventOf[r] \in missed'
    BY <1>1, <1>2, <1>3 DEF Write, QueueWritten
  <1>6. QueueWritten'
    BY <1>3, <1>4, <1>5 DEF QueueWritten
  <1> QED BY <1>3, <1>4, <1>5, <1>6 DEF PinTypeOK, Once

LEMMA DequeueFacts ==
    ASSUME NEW q \in Seq(Items), NEW e, Unrepeated(q)
    PROVE  /\ Dequeue(q, e) \in Seq(Items)
           /\ Unrepeated(Dequeue(q, e))
           /\ \A x : Queued(Dequeue(q, e), x) <=> Queued(q, x) /\ x # e
  <1>1. CASE ~Queued(q, e)
    BY <1>1 DEF Dequeue, Queued
  <1>2. CASE Queued(q, e)
    <2> DEFINE n == CHOOSE i \in DOMAIN q : EventOf[q[i].record] = e
               r == RemoveAt(q, n)
    <2>1. n \in DOMAIN q /\ EventOf[q[n].record] = e
      BY <1>2 DEF Queued
    <2>2. Len(q) \in Nat /\ DOMAIN q = 1 .. Len(q)
      OBVIOUS
    <2> HIDE DEF n
    <2>3. /\ SubSeq(q, 1, n - 1) \in Seq(Items) /\ SubSeq(q, n + 1, Len(q)) \in Seq(Items)
          /\ Len(SubSeq(q, 1, n - 1)) = n - 1
          /\ Len(SubSeq(q, n + 1, Len(q))) = Len(q) - n
          /\ \A i \in 1 .. n - 1 : SubSeq(q, 1, n - 1)[i] = q[i]
          /\ \A i \in 1 .. Len(q) - n : SubSeq(q, n + 1, Len(q))[i] = q[n + i]
      <3>1. n \in 1 .. Len(q) /\ 1 \in Int /\ n - 1 \in Int /\ n + 1 \in Int /\ Len(q) \in Int
        BY <2>1, <2>2
      <3>2. \A i \in 1 .. n - 1 : q[i] \in Items
        BY <2>2, <3>1
      <3>3. \A i \in n + 1 .. Len(q) : q[i] \in Items
        BY <2>2, <3>1
      <3>4. /\ SubSeq(q, 1, n - 1) \in Seq(Items)
            /\ Len(SubSeq(q, 1, n - 1)) = IF 1 <= n - 1 THEN n - 1 - 1 + 1 ELSE 0
            /\ \A i \in 1 .. n - 1 - 1 + 1 : SubSeq(q, 1, n - 1)[i] = q[1 + i - 1]
        BY <3>1, <3>2, SubSeqProperties
      <3>5. /\ SubSeq(q, n + 1, Len(q)) \in Seq(Items)
            /\ Len(SubSeq(q, n + 1, Len(q))) =
                  IF n + 1 <= Len(q) THEN Len(q) - (n + 1) + 1 ELSE 0
            /\ \A i \in 1 .. Len(q) - (n + 1) + 1 : SubSeq(q, n + 1, Len(q))[i] = q[n + 1 + i - 1]
        BY <3>1, <3>3, SubSeqProperties
      <3>6. \A i \in 1 .. n - 1 : SubSeq(q, 1, n - 1)[i] = q[i]
        BY <3>1, <3>4
      <3>7. \A i \in 1 .. Len(q) - n : SubSeq(q, n + 1, Len(q))[i] = q[n + i]
        BY <3>1, <3>5
      <3> QED BY <3>1, <3>4, <3>5, <3>6, <3>7
    <2> DEFINE u == SubSeq(q, 1, n - 1)
               v == SubSeq(q, n + 1, Len(q))
               back(i) == IF i < n THEN i ELSE i + 1
    <2>r. r = u \o v
      BY DEF RemoveAt
    <2> HIDE DEF u, v, r
    <2>s. /\ r \in Seq(Items) /\ Len(r) = Len(q) - 1 /\ DOMAIN r = 1 .. Len(q) - 1
          /\ \A i \in 1 .. Len(q) - 1 :
                r[i] = IF i <= Len(u) THEN u[i] ELSE v[i - Len(u)]
      <3>1. u \in Seq(Items) /\ v \in Seq(Items) /\ Len(u) = n - 1 /\ Len(v) = Len(q) - n
        BY <2>3 DEF u, v
      <3>2. n \in 1 .. Len(q) /\ Len(u) + Len(v) = Len(q) - 1
        BY <2>1, <2>2, <3>1
      <3>3. r \in Seq(Items) /\ Len(r) = Len(q) - 1
        BY <2>r, <3>1, <3>2, ConcatProperties
      <3>4. \A i \in 1 .. Len(u) + Len(v) : r[i] = IF i <= Len(u) THEN u[i] ELSE v[i - Len(u)]
        BY <2>r, <3>1, ConcatProperties
      <3> QED BY <3>2, <3>3, <3>4
    <2>4. /\ r \in Seq(Items) /\ Len(r) = Len(q) - 1 /\ DOMAIN r = 1 .. Len(q) - 1
          /\ \A i \in DOMAIN r : back(i) \in DOMAIN q \ {n} /\ r[i] = q[back(i)]
      <3> SUFFICES ASSUME NEW i \in DOMAIN r PROVE back(i) \in DOMAIN q \ {n} /\ r[i] = q[back(i)]
        BY <2>s
      <3>1. i \in 1 .. Len(q) - 1 /\ Len(u) = n - 1 /\ n \in 1 .. Len(q)
        BY <2>s, <2>1, <2>2, <2>3 DEF u
      <3>2. CASE i < n
        BY <2>s, <2>2, <2>3, <3>1, <3>2 DEF u
      <3>3. CASE i >= n
        <4>1. r[i] = v[i - n + 1] /\ i - n + 1 \in 1 .. Len(q) - n /\ n + (i - n + 1) = i + 1
          BY <2>s, <2>2, <3>1, <3>3
        <4>2. v[i - n + 1] = q[n + (i - n + 1)]
          BY <2>3, <4>1 DEF v
        <4> QED BY <2>2, <3>1, <3>3, <4>1, <4>2
      <3> QED BY <2>2, <3>1, <3>2, <3>3
    <2>5. \A x : Queued(r, x) => Queued(q, x) /\ x # e
      BY <2>1, <2>2, <2>4 DEF Queued, Unrepeated
    <2>6. ASSUME NEW x, Queued(q, x), x # e PROVE Queued(r, x)
      <3>1. PICK i \in DOMAIN q : EventOf[q[i].record] = x
        BY <2>6 DEF Queued
      <3>2. i # n
        BY <2>1, <2>6, <3>1
      <3>3. CASE i < n
        BY <2>1, <2>2, <2>4, <3>1, <3>3 DEF Queued
      <3>4. CASE i > n
        <4>1. i - 1 \in DOMAIN r /\ r[i - 1] = q[i]
          BY <2>1, <2>2, <2>4, <3>1, <3>4
        <4> QED BY <3>1, <4>1 DEF Queued
      <3> QED BY <2>1, <2>2, <3>2, <3>3, <3>4
    <2>7. Unrepeated(r)
      <3> SUFFICES ASSUME NEW i \in DOMAIN r, NEW j \in DOMAIN r, EventOf[r[i].record] = EventOf[r[j].record]
                   PROVE  i = j
        BY DEF Unrepeated
      <3>1. back(i) = back(j)
        BY <2>4 DEF Unrepeated
      <3> QED BY <2>1, <2>2, <2>4, <3>1
    <2>8. Dequeue(q, e) = r
      BY <1>2 DEF Dequeue, r, n
    <2> QED BY <2>4, <2>5, <2>6, <2>7, <2>8
  <1> QED BY <1>1, <1>2

LEMMA SetDueFacts ==
    ASSUME NEW q \in Seq(Items), NEW e, NEW due \in BOOLEAN
    PROVE  /\ SetDue(q, e, due) \in Seq(Items)
           /\ Unrepeated(q) => Unrepeated(SetDue(q, e, due))
           /\ \A x : Queued(SetDue(q, e, due), x) <=> Queued(q, x)
  <1> DEFINE r == SetDue(q, e, due)
  <1>1. Len(q) \in Nat /\ DOMAIN q = 1 .. Len(q) /\ \A i \in 1 .. Len(q) : q[i] \in Items
    OBVIOUS
  <1>2. DOMAIN r = DOMAIN q /\ \A i \in DOMAIN q : r[i] \in Items /\ r[i].record = q[i].record
    BY <1>1 DEF SetDue, Items
  <1>3. r \in Seq(Items)
    BY <1>1, <1>2 DEF SetDue
  <1> QED BY <1>2, <1>3 DEF Unrepeated, Queued

-----------------------------------------------------------------------------
(* Every step preserves the invariant *)

USE DEF PinInv

LEMMA PinInvInit == PinInit => PinInv
  <1> SUFFICES ASSUME PinInit PROVE PinInv
    OBVIOUS
  <1> USE DEF PinInit
  <1>1. PinTypeOK
    BY PinAssumption DEF PinTypeOK, Items
  <1>2. KeptAnyway
    BY PinAssumption DEF KeptAnyway, Remembers
  <1>3. Once /\ QueueWritten
    BY DEF Once, Unrepeated, QueueWritten, Queued
  <1>4. PinnedIsHosted
    BY PinAssumption DEF PinnedIsHosted, Truthful
  <1>5. Known /\ Handled
    BY DEF Known, Queued, Handled
  <1>6. Fresh
    BY DEF Fresh
  <1> QED BY <1>1, <1>2, <1>3, <1>4, <1>5, <1>6

LEMMA BootKeeps ==
    ASSUME PinInv, NEW conf \in Configs, Boot(conf)
    PROVE  PinInv'
  <1> USE DEF Boot, fileVars
  <1>1. PinTypeOK'
    BY PinAssumption DEF PinTypeOK
  <1>2. KeptAnyway'
    <2>1. Remembers(indexDisk, queueDisk)
      BY OnDiskToo DEF KeptAnyway, PinTypeOK
    <2> QED BY <2>1 DEF KeptAnyway, Remembers, Covered
  <1>3. Once' /\ QueueWritten'
    BY DEF Once, QueueWritten
  <1>4. PinnedIsHosted'
    BY DEF PinnedIsHosted, Truthful
  <1>5. Known' /\ Handled'
    BY DEF Known, Queued, Handled
  <1>6. Fresh'
    BY DEF Fresh
  <1> QED BY <1>1, <1>2, <1>3, <1>4, <1>5, <1>6

LEMMA RestoreKeeps ==
    ASSUME PinInv, NEW r \in Files, NEW queued \in BOOLEAN,
           NEW saved \in BOOLEAN, NEW renamed \in BOOLEAN,
           Restore(r, queued, saved, renamed)
    PROVE  PinInv'
  <1>e. PICK e : e = EventOf[r]
    OBVIOUS
  <1>k. PICK k : k = First(index, e)
    OBVIOUS
  <1> DEFINE stray == index[k].cid # r
             new == [record |-> r, cid |-> r, content |-> TRUE,
                     status |-> IF stray THEN "pending" ELSE index[k].status]
  <1>0. /\ service = "booting" /\ worker = "wait" /\ r \in Records /\ e \in Events
        /\ service' \in {"down", "booting"} /\ files' \subseteq Files /\ crashes' \in Nat
        /\ UNCHANGED <<configured, mint, worker, todo, hosted>>
    BY <1>e, PinAssumption, EventsAre DEF Restore, threadVars, PinTypeOK, Handled
  <1>1. CASE ~(Has(index, e) /\ index[k].record = r /\ ~index[k].content)
    <2>1. UNCHANGED <<index, queue, indexDisk, queueDisk, missed>>
      BY <1>e, <1>k, <1>1 DEF Restore
    <2>2. PinTypeOK' /\ KeptAnyway' /\ Once' /\ QueueWritten'
      BY <1>0, <2>1 DEF PinTypeOK, KeptAnyway, Remembers, Covered, Once, QueueWritten
    <2>3. PinnedIsHosted' /\ Known' /\ Fresh' /\ Handled'
      BY <1>0, <2>1 DEF PinnedIsHosted, Truthful, Known, Fresh, Handled, Current
    <2> QED BY <2>2, <2>3
  <1>2. CASE Has(index, e) /\ index[k].record = r /\ ~index[k].content
    <2>1. /\ index' = [index EXCEPT ![k] = new]
          /\ indexDisk' = Write(indexDisk, index', queued /\ saved)
          /\ IF stray THEN QueueAdd(r, queued) ELSE UNCHANGED <<queue, queueDisk, missed>>
      BY <1>e, <1>k, <1>2 DEF Restore
    <2>i. index \in Seq(EntryType) /\ indexDisk \in Seq(EntryType)
      BY DEF PinTypeOK
    <2>2. k \in DOMAIN index /\ EventOf[index[k].record] = e
      BY <1>k, <1>2, <2>i, FirstFacts
    <2>3. index[k] \in EntryType
      BY <2>2, <2>i
    <2>4. new \in EntryType /\ new.record = index[k].record
      BY <1>0, <1>2, <2>3 DEF EntryType, Statuses
    <2>n. /\ new.cid = r
          /\ new.status = "pending" <=> stray \/ index[k].status = "pending"
          /\ new.status = "pinned" => ~stray /\ index[k].status = "pinned"
      OBVIOUS
    <2> HIDE DEF new
    <2>5. /\ index' \in Seq(EntryType) /\ SameRecords(index, index') /\ index'[k] = new
          /\ \A i \in DOMAIN index \ {k} : index'[i] = index[i]
      BY <2>i, <2>1, <2>2, <2>4, Replaced
    <2>6. /\ queue' \in Seq(Items) /\ queueDisk' \in Seq(Items) /\ Once' /\ QueueWritten'
          /\ missed \subseteq missed' /\ missed' \subseteq Events
          /\ \A x : Queued(queue', x) <=> Queued(queue, x) \/ (stray /\ x = e)
          /\ queueDisk' \in {queueDisk, queue'}
      <3>1. CASE stray
        BY <1>e, <1>0, <2>1, <3>1, QueueAddFacts
      <3>2. CASE ~stray
        BY <2>1, <3>2 DEF PinTypeOK, Once, QueueWritten
      <3> QED BY <3>1, <3>2
    <2>7. indexDisk' \in {indexDisk, index'}
      BY <2>1 DEF Write
    <2> HIDE DEF stray
    <2>8. PinTypeOK'
      BY <1>0, <2>5, <2>6, <2>7 DEF PinTypeOK
    <2>9. KeptAnyway'
      <3>1. \A x \in Events : Covered(queue, x) => Covered(queue, x)'
        BY <1>0, <2>6 DEF Covered
      <3>2. index'[k].status = "pending" => Covered(queue, e)'
        <4>1. CASE stray
          <5>1. Queued(queue', e)
            BY <2>6, <4>1
          <5> QED BY <5>1 DEF Covered
        <4>2. CASE ~stray /\ index[k].status = "pending"
          <5>1. IsFirst(index, k)
            BY <1>k, <1>2, <2>i, FirstFacts
          <5>2. Covered(queue, e)
            BY <2>2, <4>2, <5>1 DEF KeptAnyway, Remembers
          <5> QED BY <1>0, <3>1, <5>2
        <4> QED BY <2>5, <2>n, <4>1, <4>2
      <3>3. Remembers(index, queue)'
        BY <2>i, <2>2, <2>5, <3>1, <3>2, StillRemembered DEF KeptAnyway
      <3>4. Remembers(indexDisk, queue)'
        <4>1. CASE indexDisk' = index'
          BY <3>3, <4>1 DEF Remembers
        <4>2. CASE indexDisk' = indexDisk
          <5>1. \A i \in DOMAIN indexDisk : EventOf[indexDisk[i].record] \in Events
            BY <2>i, EntryEvents
          <5> QED BY <3>1, <4>2, <5>1 DEF KeptAnyway, Remembers
        <4> QED BY <2>7, <4>1, <4>2
      <3> QED BY <3>3, <3>4 DEF KeptAnyway
    <2>10. PinnedIsHosted'
      <3>1. index'[k].status = "pinned" /\ index'[k].cid \in Records =>
               index'[k].cid \in hosted /\ EventOf[index'[k].cid] = EventOf[index'[k].record]
        BY <1>0, <1>2, <2>2, <2>4, <2>5, <2>n DEF PinnedIsHosted, Truthful, stray
      <3>2. Truthful(index)'
        BY <1>0, <2>5, <3>1 DEF PinnedIsHosted, Truthful, SameRecords
      <3> QED BY <1>0, <2>7, <3>2 DEF PinnedIsHosted, Truthful
    <2>11. \A x : Has(index', x) <=> Has(index, x)
      BY <2>i, <2>5, SameFirst
    <2>12. Known'
      <3>1. \A x \in Events : Has(indexDisk', x) <=> Has(index, x)
        BY <1>0, <2>7, <2>11 DEF Known
      <3>2. \A x \in Events : Has(index, x) <=> Has(indexDisk, x)
        BY <1>0 DEF Known
      <3>3. \A x \in Events : Queued(queue', x) \/ Queued(queueDisk', x) \/ Queued(todo', x)
                                 => Has(indexDisk', x)
        BY <1>0, <1>2, <2>6, <3>1, <3>2 DEF Known
      <3> QED BY <2>11, <3>1, <3>3 DEF Known
    <2>13. Fresh' /\ Handled'
      BY <1>0 DEF Fresh, Handled
    <2> QED BY <2>6, <2>8, <2>9, <2>10, <2>12, <2>13
  <1> QED BY <1>1, <1>2

LEMMA StartKeeps ==
    ASSUME PinInv, Serve PROVE PinInv'
  <1> USE DEF Serve, fileVars, threadVars
  <1>1. PinTypeOK' /\ KeptAnyway' /\ Once' /\ QueueWritten'
    BY DEF PinTypeOK, KeptAnyway, Remembers, Covered, Once, QueueWritten
  <1>2. PinnedIsHosted' /\ Known' /\ Fresh' /\ Handled'
    BY DEF PinnedIsHosted, Truthful, Known, Fresh, Handled, Current
  <1> QED BY <1>1, <1>2

LEMMA CrashKeeps ==
    ASSUME PinInv, Stop PROVE PinInv'
  <1> USE DEF Stop, fileVars, threadVars
  <1>1. PinTypeOK'
    BY PinAssumption, EventsAre DEF PinTypeOK
  <1>2. \A e : Covered(queue, e) => Covered(queue, e)'
    BY DEF Covered
  <1>3. KeptAnyway'
    BY <1>2 DEF KeptAnyway, Remembers
  <1>4. Once' /\ QueueWritten' /\ PinnedIsHosted' /\ Known' /\ Handled'
    BY DEF Once, QueueWritten, PinnedIsHosted, Truthful, Known, Handled, Current
  <1>5. Fresh'
    BY DEF Fresh, PinTypeOK
  <1> QED BY <1>1, <1>3, <1>4, <1>5

\* What the thread has at hand is queued, and so is in both indexes.
LEMMA AtHand ==
    ASSUME PinInv, worker # "wait"
    PROVE  /\ todo \in Seq(Items) /\ todo # << >> /\ Current \in Records
           /\ EventOf[Current] \in Events
           /\ Has(indexDisk, EventOf[Current]) /\ Has(index, EventOf[Current])
  <1>1. todo \in Seq(Items) /\ todo # << >> /\ 1 \in DOMAIN todo /\ todo[1] \in Items
        /\ Current = todo[1].record
    BY DEF PinTypeOK, Current
  <1>2. Current \in Records /\ EventOf[Current] \in Events
    BY <1>1, EventsAre DEF Items
  <1>3. Queued(todo, EventOf[Current])
    BY <1>1 DEF Queued
  <1> QED BY <1>1, <1>2, <1>3 DEF Known

LEMMA IndexAddKeeps ==
    ASSUME PinInv, NEW r \in Mints, NEW built \in BOOLEAN, NEW saved \in BOOLEAN,
           IndexAdd(r, built, saved)
    PROVE  PinInv'
  <1>p. PICK n : n = Len(index) + 1
    OBVIOUS
  <1>q. PICK e : e = EventOf[r]
    OBVIOUS
  <1>r. PICK entry : entry = Entry(r, built)
    OBVIOUS
  <1>0. /\ service = "serving" /\ mint[r] = "none" /\ r \in Records /\ e \in Events
        /\ mint' = [mint EXCEPT ![r] = IF built /\ saved THEN "indexed" ELSE "over"]
        /\ UNCHANGED <<queue, queueDisk, files, service, configured, worker, todo, hosted, crashes>>
    BY <1>q, PinAssumption, EventsAre DEF IndexAdd, threadVars
  <1>i. index \in Seq(EntryType) /\ indexDisk \in Seq(EntryType)
    BY DEF PinTypeOK
  <1>e. /\ entry \in EntryType /\ entry.record = r /\ entry.status # "pinned"
        /\ entry.status = "pending" => built
    BY <1>0, <1>r DEF Entry, EntryType, Statuses
  <1>a. index' = Append(index, entry)
    BY <1>r DEF IndexAdd
  <1>1. /\ index' \in Seq(EntryType) /\ n \in DOMAIN index' /\ index'[n] = entry
        /\ DOMAIN index' = DOMAIN index \cup {n} /\ n \notin DOMAIN index
        /\ \A i \in DOMAIN index : index'[i] = index[i] /\ (IsFirst(index', i) <=> IsFirst(index, i))
    <2>1. /\ index' \in Seq(EntryType)
          /\ Len(index) + 1 \in DOMAIN index' /\ index'[Len(index) + 1] = entry
          /\ DOMAIN index' = DOMAIN index \cup {Len(index) + 1} /\ Len(index) + 1 \notin DOMAIN index
      <3>1. Len(index) \in Nat /\ DOMAIN index = 1 .. Len(index)
        BY <1>i
      <3>2. /\ index' \in Seq(EntryType) /\ DOMAIN index' = 1 .. Len(index) + 1
            /\ index'[Len(index) + 1] = entry
        BY <1>i, <1>e, <1>a
      <3>3. /\ 1 .. Len(index) + 1 = 1 .. Len(index) \cup {Len(index) + 1}
            /\ Len(index) + 1 \in 1 .. Len(index) + 1 /\ Len(index) + 1 \notin 1 .. Len(index)
        BY <3>1
      <3> QED BY <3>1, <3>2, <3>3
    <2>2. \A i \in DOMAIN index : index'[i] = index[i] /\ (IsFirst(index', i) <=> IsFirst(index, i))
      <3>1. \A i \in DOMAIN index : index'[i] = index[i] /\ \A j \in 1 .. i - 1 : j \in DOMAIN index
        BY <1>i, <1>e, <1>a
      <3> QED BY <3>1 DEF IsFirst
    <2>3. /\ index' \in Seq(EntryType) /\ n \in DOMAIN index' /\ index'[n] = entry
          /\ DOMAIN index' = DOMAIN index \cup {n} /\ n \notin DOMAIN index
      BY <1>p, <2>1
    <2> QED BY <2>2, <2>3
  <1>h. /\ \A x : Has(index', x) <=> Has(index, x) \/ x = e
        /\ \A x : Has(index, x) /\ e = x => ~IsFirst(index', n)
    BY <1>i, <1>e, <1>a, <1>p, <1>q, Appended
  <1>2. /\ indexDisk' = IF saved THEN index' ELSE indexDisk
        /\ missed \subseteq missed' /\ missed' \subseteq Events
        /\ built /\ ~saved => e \in missed'
    BY <1>0, <1>q DEF IndexAdd, Write, PinTypeOK
  <1>3. mint'[r] = (IF built /\ saved THEN "indexed" ELSE "over")
        /\ \A x \in Mints \ {r} : mint'[x] = mint[x]
    BY <1>0 DEF PinTypeOK
  <1>4. PinTypeOK'
    BY <1>0, <1>1, <1>2 DEF PinTypeOK
  <1>5. KeptAnyway'
    <2>1. \A x : Covered(queue, x) => Covered(queue, x)'
      BY <1>0, <1>2, <1>3 DEF Covered
    <2>2. index'[n].status = "pending" => Covered(queue, e)'
      <3>1. built => e \in missed' \/ (r \in Mints /\ EventOf[r] = e /\ mint'[r] = "indexed")
        BY <1>2, <1>3, <1>q
      <3> QED BY <1>1, <1>e, <3>1 DEF Covered
    <2>3. EventOf[index'[n].record] = e
      BY <1>1, <1>e, <1>q
    <2>4. Remembers(index, queue)'
      <3>1. ASSUME NEW i \in DOMAIN index', index'[i].status = "pending", IsFirst(index', i)
            PROVE  Covered(queue, EventOf[index[i].record])'
        <4>1. CASE i = n
          BY <2>2, <2>3, <3>1, <4>1
        <4>2. CASE i \in DOMAIN index
          BY <1>1, <2>1, <3>1, <4>2 DEF KeptAnyway, Remembers
        <4> QED BY <1>1, <4>1, <4>2
      <3> QED BY <3>1 DEF Remembers
    <2>5. Remembers(indexDisk, queue)'
      <3>1. CASE saved
        BY <1>2, <2>4, <3>1 DEF Remembers
      <3>2. CASE ~saved
        BY <1>2, <2>1, <3>2 DEF KeptAnyway, Remembers
      <3> QED BY <3>1, <3>2
    <2> QED BY <2>4, <2>5 DEF KeptAnyway
  <1>6. Once' /\ QueueWritten'
    BY <1>0, <1>2 DEF Once, QueueWritten
  <1>7. PinnedIsHosted'
    <2>1. Truthful(index)'
      BY <1>0, <1>1, <1>e DEF PinnedIsHosted, Truthful
    <2> QED BY <1>0, <1>2, <2>1 DEF PinnedIsHosted, Truthful
  <1>8. Known'
    <2>1. \A x \in Events : Has(indexDisk', x) => Has(index', x)
      BY <1>h, <1>2 DEF Known
    <2>2. \A x \in Events : Has(indexDisk, x) => Has(indexDisk', x)
      BY <1>h, <1>2 DEF Known
    <2> QED BY <1>0, <2>1, <2>2 DEF Known
  <1>9. Fresh'
    <2>1. \A x \in Mints : mint[x] = "indexed" => Has(indexDisk', EventOf[x])
      <3>1. \A x \in Mints : EventOf[x] \in Events
        BY PinAssumption, EventsAre
      <3> QED BY <1>h, <1>2, <3>1 DEF Fresh, Known
    <2>2. mint'[r] = "indexed" => Has(indexDisk', EventOf[r])
      BY <1>h, <1>q, <1>2, <1>3
    <2> QED BY <1>0, <1>3, <2>1, <2>2 DEF Fresh
  <1>10. Handled'
    <2>1. worker = "done" => Settled(index, EventOf[Current])'
      <3> SUFFICES ASSUME worker = "done" PROVE Settled(index, EventOf[Current])'
        OBVIOUS
      <3>1. Has(index, EventOf[Current]) /\ Settled(index, EventOf[Current])
        BY AtHand DEF Handled
      <3>2. Current' = Current
        BY <1>0 DEF Current
      <3>3. EventOf[index'[n].record] = EventOf[Current] => ~IsFirst(index', n)
        BY <1>1, <1>e, <1>h, <1>q, <3>1
      <3> QED BY <1>1, <3>1, <3>2, <3>3 DEF Settled
    <2>2. worker = "done" => Settled(indexDisk, EventOf[Current])'
      <3>1. Current' = Current
        BY <1>0 DEF Current
      <3>2. CASE saved
        BY <1>2, <2>1, <3>2 DEF Settled
      <3>3. CASE ~saved
        BY <1>2, <3>1, <3>3 DEF Settled, Handled
      <3> QED BY <3>2, <3>3
    <2> QED BY <1>0, <2>1, <2>2 DEF Handled, Current
  <1> QED BY <1>4, <1>5, <1>6, <1>7, <1>8, <1>9, <1>10

LEMMA SubmitKeeps ==
    ASSUME PinInv, NEW r \in Mints, NEW saved \in BOOLEAN, Submit(r, saved)
    PROVE  PinInv'
  <1> DEFINE e == EventOf[r]
  <1>0. /\ service = "serving" /\ mint[r] = "indexed" /\ r \in Records /\ e \in Events
        /\ Has(indexDisk, e) /\ Has(index, e)
        /\ mint' = [mint EXCEPT ![r] = "over"] /\ QueueAdd(r, saved)
        /\ UNCHANGED <<index, indexDisk, files, service, configured, worker, todo, hosted, crashes>>
    BY PinAssumption, EventsAre DEF Submit, threadVars, Fresh, Known
  <1>1. /\ queue' \in Seq(Items) /\ queueDisk' \in Seq(Items) /\ Once' /\ QueueWritten'
        /\ missed \subseteq missed' /\ missed' \subseteq Events
        /\ \A x : Queued(queue', x) <=> Queued(queue, x) \/ x = e
        /\ queueDisk' \in {queueDisk, queue'}
    BY <1>0, QueueAddFacts
  <1>3. mint'[r] = "over" /\ \A x \in Mints \ {r} : mint'[x] = mint[x]
    BY <1>0 DEF PinTypeOK
  <1>4. PinTypeOK'
    BY <1>0, <1>1 DEF PinTypeOK
  <1>5. KeptAnyway'
    <2>1. \A x : Covered(queue, x) => Covered(queue, x)'
      BY <1>0, <1>1, <1>3 DEF Covered
    <2> QED BY <1>0, <2>1 DEF KeptAnyway, Remembers
  <1>7. PinnedIsHosted' /\ Known'
    BY <1>0, <1>1 DEF PinnedIsHosted, Truthful, Known
  <1>8. Fresh' /\ Handled'
    BY <1>0, <1>3 DEF Fresh, Handled, Current
  <1> QED BY <1>1, <1>4, <1>5, <1>7, <1>8

LEMMA NextItemKeeps ==
    ASSUME PinInv, worker # "wait", NextItem
    PROVE  /\ todo' \in Seq(Items)
           /\ worker' \in {"wait", "pin"} /\ (worker' # "wait" => todo' # << >>)
           /\ \A x : Queued(todo', x) => Queued(todo, x)
  <1>1. todo \in Seq(Items) /\ Len(todo) \in Nat \ {0} /\ DOMAIN todo = 1 .. Len(todo)
    BY AtHand
  <1>2. /\ todo' \in Seq(Items) /\ Len(todo') = Len(todo) - 1 /\ DOMAIN todo' = 1 .. Len(todo) - 1
        /\ \A i \in 1 .. Len(todo) - 1 : todo'[i] = todo[i + 1] /\ i + 1 \in DOMAIN todo
    BY <1>1 DEF NextItem
  <1>3. \A x : Queued(todo', x) => Queued(todo, x)
    BY <1>2 DEF Queued
  <1>4. worker' \in {"wait", "pin"}
    BY DEF NextItem
  <1>5. worker' # "wait" => Len(todo') # 0
    BY <1>1, <1>2 DEF NextItem
  <1>6. todo' = << >> => Len(todo') = 0
    OBVIOUS
  <1> QED BY <1>2, <1>3, <1>4, <1>5, <1>6

\* A step of the thread that leaves both files and both memories alone.
LEMMA ThreadMoves ==
    ASSUME PinInv, service = "serving", configured' \subseteq Providers,
           UNCHANGED <<index, queue, fileVars, service, mint, crashes, missed>>,
           todo' \in Seq(Items), worker' \in {"wait", "pin", "failed", "confirmed"},
           worker' # "wait" => todo' # << >>,
           \A x : Queued(todo', x) => Queued(todo, x) \/ Queued(queue, x),
           hosted \subseteq hosted', hosted' \subseteq Records,
           worker' = "confirmed" => Current' \in hosted'
    PROVE  PinInv'
  <1> USE DEF fileVars
  <1>1. PinTypeOK' /\ KeptAnyway' /\ Once' /\ QueueWritten'
    BY DEF PinTypeOK, KeptAnyway, Remembers, Covered, Once, QueueWritten
  <1>2. PinnedIsHosted' /\ Fresh' /\ Handled'
    BY DEF PinnedIsHosted, Truthful, Fresh, Handled
  <1>3. Known'
    BY DEF Known
  <1> QED BY <1>1, <1>2, <1>3

LEMMA PassKeeps ==
    ASSUME PinInv, TakeAll \/ NotDue
    PROVE  PinInv'
  <1>1. CASE TakeAll
    BY <1>1, ThreadMoves DEF TakeAll, PinTypeOK
  <1>2. CASE NotDue
    BY <1>2, ThreadMoves, NextItemKeeps DEF NotDue, PinTypeOK
  <1> QED BY <1>1, <1>2

LEMMA PinKeeps ==
    ASSUME PinInv, NEW answers \in [Providers -> Answers], Pin(answers)
    PROVE  PinInv'
  <1>1. /\ service = "serving" /\ worker = "pin" /\ todo' = todo /\ Current \in Records
        /\ UNCHANGED <<index, queue, fileVars, service, configured, mint, crashes, missed>>
    BY AtHand DEF Pin
  <1>2. /\ hosted \subseteq hosted' /\ hosted' \subseteq Records
        /\ worker' \in {"failed", "confirmed"} /\ (worker' = "confirmed" => Current \in hosted')
    BY <1>1 DEF Pin, Accepts, PinTypeOK
  <1>3. Current' = Current
    BY <1>1 DEF Current
  <1> QED BY <1>1, <1>2, <1>3, ThreadMoves DEF PinTypeOK

\* The next item, or the end of a pass that raised.
LEMMA PassGoesOn ==
    ASSUME PinInv, worker # "wait", NextItem \/ EndPass
    PROVE  /\ todo' \in Seq(Items)
           /\ worker' \in {"wait", "pin"} /\ (worker' # "wait" => todo' # << >>)
           /\ \A x : Queued(todo', x) => Queued(todo, x)
  <1>1. CASE NextItem
    BY <1>1, NextItemKeeps
  <1>2. CASE EndPass
    <2>1. todo' = << >> /\ worker' = "wait"
      BY <1>2 DEF EndPass, AfterRaise
    <2>2. \A x : ~Queued(<< >>, x)
      BY DEF Queued
    <2> QED BY <2>1, <2>2
  <1> QED BY <1>1, <1>2

LEMMA FailedKeeps ==
    ASSUME PinInv, NEW saved \in BOOLEAN, Failed(saved)
    PROVE  PinInv'
  <1>0. /\ service = "serving" /\ worker = "failed" /\ (NextItem \/ EndPass)
        /\ UNCHANGED <<index, indexDisk, files, service, configured, mint, hosted, crashes, missed>>
    BY DEF Failed
  <1>1. /\ queue' \in Seq(Items) /\ Unrepeated(queue')
        /\ \A x : Queued(queue', x) <=> Queued(queue, x)
    BY SetDueFacts DEF Failed, PinTypeOK, Once
  <1>2. queueDisk' = IF saved THEN queue' ELSE queueDisk
    BY DEF Failed, Write
  <1>3. /\ todo' \in Seq(Items)
        /\ worker' \in {"wait", "pin"} /\ (worker' # "wait" => todo' # << >>)
        /\ \A x : Queued(todo', x) => Queued(todo, x)
    BY <1>0, PassGoesOn
  <1>4. PinTypeOK' /\ Once' /\ QueueWritten'
    BY <1>0, <1>1, <1>2, <1>3 DEF PinTypeOK, Once, QueueWritten
  <1>5. KeptAnyway'
    BY <1>0, <1>1 DEF KeptAnyway, Remembers, Covered
  <1>6. PinnedIsHosted' /\ Known' /\ Fresh' /\ Handled'
    BY <1>0, <1>1, <1>2, <1>3 DEF PinnedIsHosted, Truthful, Known, Fresh, Handled
  <1> QED BY <1>4, <1>5, <1>6

LEMMA OnPinnedKeeps ==
    ASSUME PinInv, NEW saved \in BOOLEAN, OnPinned(saved)
    PROVE  PinInv'
  <1>p. PICK r : r = Current
    OBVIOUS
  <1>q. PICK e : e = EventOf[r]
    OBVIOUS
  <1>r. PICK k : k = First(index, e)
    OBVIOUS
  <1>s. PICK entry : entry = [index[k] EXCEPT !.cid = r, !.status = "pinned"]
    OBVIOUS
  <1>0. /\ service = "serving" /\ worker = "confirmed" /\ r \in hosted /\ r \in Records
        /\ e \in Events /\ Has(index, e) /\ Has(indexDisk, e)
        /\ UNCHANGED <<queue, queueDisk, files, service, configured, mint, hosted, crashes, missed>>
    BY <1>p, <1>q, AtHand DEF OnPinned, Handled
  <1>i. index \in Seq(EntryType) /\ indexDisk \in Seq(EntryType)
    BY DEF PinTypeOK
  <1>f. /\ k \in DOMAIN index /\ EventOf[index[k].record] = e
        /\ \A i \in DOMAIN index : EventOf[index[i].record] = e /\ IsFirst(index, i) => i = k
    BY <1>0, <1>i, <1>r, FirstFacts
  <1>1. /\ index' = [index EXCEPT ![k].cid = r, ![k].status = "pinned"]
        /\ indexDisk' = IF saved THEN index' ELSE indexDisk
    BY <1>p, <1>q, <1>r, <1>0 DEF OnPinned, Write
  <1>e. index[k] \in EntryType
    BY <1>f, <1>i
  <1>2. /\ entry \in EntryType /\ entry.record = index[k].record
        /\ entry.cid = r /\ entry.status = "pinned"
    BY <1>s, <1>0, <1>e DEF EntryType, Statuses
  <1>3. index' = [index EXCEPT ![k] = entry]
    BY <1>s, <1>1, <1>f, <1>i
  <1>4. /\ index' \in Seq(EntryType) /\ SameRecords(index, index') /\ index'[k] = entry
        /\ \A i \in DOMAIN index \ {k} : index'[i] = index[i]
    BY <1>i, <1>f, <1>2, <1>3, Replaced
  <1>5. /\ \A x : Has(index', x) <=> Has(index, x)
        /\ \A i \in DOMAIN index : IsFirst(index', i) <=> IsFirst(index, i)
    BY <1>i, <1>4, SameFirst
  <1>6. /\ todo' \in Seq(Items) /\ (worker' # "wait" => todo' # << >>)
        /\ worker' \in {"wait", "pin"} \/ (saved /\ worker' = "done" /\ todo' = todo)
        /\ \A x : Queued(todo', x) => Queued(todo, x)
    <2>1. CASE saved
      BY <1>0, <2>1 DEF OnPinned, Unqueue, PinTypeOK
    <2>2. CASE ~saved
      <3>1. NextItem
        BY <2>2 DEF OnPinned, Unqueue
      <3> QED BY <1>0, <3>1, NextItemKeeps
    <2> QED BY <2>1, <2>2
  <1>7. PinTypeOK' /\ Once' /\ QueueWritten'
    BY <1>0, <1>1, <1>4, <1>6 DEF PinTypeOK, Once, QueueWritten
  <1>8. KeptAnyway'
    <2>1. \A x : Covered(queue, x) => Covered(queue, x)'
      BY <1>0 DEF Covered
    <2>2. index'[k].status = "pending" => Covered(queue, e)'
      BY <1>2, <1>4
    <2>3. Remembers(index, queue)'
      BY <1>i, <1>f, <1>4, <2>1, <2>2, StillRemembered DEF KeptAnyway
    <2>4. Remembers(indexDisk, queue)'
      <3>1. CASE saved
        BY <1>1, <2>3, <3>1 DEF Remembers
      <3>2. CASE ~saved
        BY <1>1, <2>1, <3>2 DEF KeptAnyway, Remembers
      <3> QED BY <3>1, <3>2
    <2> QED BY <2>3, <2>4 DEF KeptAnyway
  <1>9. PinnedIsHosted'
    <2>1. Truthful(index)'
      BY <1>0, <1>q, <1>f, <1>2, <1>4 DEF PinnedIsHosted, Truthful, SameRecords
    <2> QED BY <1>0, <1>1, <2>1 DEF PinnedIsHosted, Truthful
  <1>10. Known' /\ Fresh'
    <2>1. \A x \in Events : Has(indexDisk', x) => Has(index', x)
      BY <1>1, <1>5 DEF Known
    <2>2. \A x \in Events : Has(indexDisk, x) => Has(indexDisk', x)
      BY <1>1, <1>5 DEF Known
    <2>3. \A x \in Mints : EventOf[x] \in Events
      BY PinAssumption, EventsAre
    <2>4. Known'
      BY <1>0, <1>6, <2>1, <2>2 DEF Known
    <2> QED BY <1>0, <2>2, <2>3, <2>4 DEF Fresh
  <1>11. Handled'
    <2>1. CASE worker' = "done"
      <3>1. saved /\ todo' = todo /\ indexDisk' = index' /\ Current' = Current
        BY <1>1, <1>6, <2>1 DEF Current
      <3>2. Settled(index, EventOf[Current])'
        <4>1. \A i \in DOMAIN index' :
                 EventOf[index'[i].record] = e /\ IsFirst(index', i) => index'[i].status = "pinned"
          BY <1>f, <1>2, <1>4, <1>5 DEF SameRecords
        <4> QED BY <1>p, <1>q, <3>1, <4>1 DEF Settled
      <3> QED BY <1>0, <1>p, <2>1, <3>1, <3>2 DEF Handled, Settled
    <2>2. CASE worker' # "done"
      BY <1>0, <1>6, <2>2 DEF Handled
    <2> QED BY <2>1, <2>2
  <1> QED BY <1>7, <1>8, <1>9, <1>10, <1>11

LEMMA DoneKeeps ==
    ASSUME PinInv, NEW saved \in BOOLEAN, Done(saved)
    PROVE  PinInv'
  <1>0. /\ service = "serving" /\ worker = "done" /\ (NextItem \/ EndPass)
        /\ Settled(index, EventOf[Current]) /\ Settled(indexDisk, EventOf[Current])
        /\ UNCHANGED <<index, indexDisk, files, service, configured, mint, hosted, crashes, missed>>
    BY DEF Done, Handled
  <1>1. /\ queue' \in Seq(Items) /\ Unrepeated(queue')
        /\ \A x : Queued(queue', x) <=> Queued(queue, x) /\ x # EventOf[Current]
    BY DequeueFacts DEF Done, PinTypeOK, Once
  <1>2. queueDisk' = IF saved THEN queue' ELSE queueDisk
    BY DEF Done, Write
  <1>3. /\ todo' \in Seq(Items)
        /\ worker' \in {"wait", "pin"} /\ (worker' # "wait" => todo' # << >>)
        /\ \A x : Queued(todo', x) => Queued(todo, x)
    BY <1>0, PassGoesOn
  <1>4. PinTypeOK' /\ Once' /\ QueueWritten'
    BY <1>0, <1>1, <1>2, <1>3 DEF PinTypeOK, Once, QueueWritten
  <1>5. KeptAnyway'
    <2>1. \A x : Covered(queue, x) => Covered(queue, x)' \/ x = EventOf[Current]
      BY <1>0, <1>1 DEF Covered
    <2> QED BY <1>0, <2>1 DEF KeptAnyway, Remembers, Settled
  <1>6. PinnedIsHosted' /\ Known' /\ Fresh' /\ Handled'
    BY <1>0, <1>1, <1>2, <1>3 DEF PinnedIsHosted, Truthful, Known, Fresh, Handled
  <1> QED BY <1>4, <1>5, <1>6

LEMMA ElapseKeeps ==
    ASSUME PinInv, NEW e \in Events, Elapse(e)
    PROVE  PinInv'
  <1>0. UNCHANGED <<index, indexDisk, files, service, configured, mint, worker, todo, hosted,
                    crashes, missed>>
    BY DEF Elapse, threadVars
  <1>1. /\ queue' \in Seq(Items) /\ Unrepeated(queue')
        /\ \A x : Queued(queue', x) <=> Queued(queue, x)
    BY SetDueFacts DEF Elapse, PinTypeOK, Once
  <1>2. /\ queueDisk' \in Seq(Items) /\ Unrepeated(queueDisk')
        /\ \A x : Queued(queueDisk', x) <=> Queued(queueDisk, x)
    BY SetDueFacts DEF Elapse, PinTypeOK, Once
  <1>3. PinTypeOK' /\ Once' /\ QueueWritten'
    BY <1>0, <1>1, <1>2 DEF PinTypeOK, Once, QueueWritten
  <1>4. KeptAnyway'
    BY <1>0, <1>1 DEF KeptAnyway, Remembers, Covered
  <1>5. PinnedIsHosted' /\ Known' /\ Fresh' /\ Handled'
    BY <1>0, <1>1, <1>2 DEF PinnedIsHosted, Truthful, Known, Fresh, Handled, Current
  <1> QED BY <1>3, <1>4, <1>5

LEMMA PinStep == PinInv /\ [PinNext]_pinVars => PinInv'
  <1> SUFFICES ASSUME PinInv, [PinNext]_pinVars PROVE PinInv'
    OBVIOUS
  <1>1. CASE \E conf \in Configs : Boot(conf)
    BY <1>1, BootKeeps
  <1>2. CASE \E r \in Files, queued, saved, renamed \in BOOLEAN :
                Restore(r, queued, saved, renamed)
    BY <1>2, RestoreKeeps
  <1>3. CASE Serve
    BY <1>3, StartKeeps
  <1>4. CASE Stop
    BY <1>4, CrashKeeps
  <1>5. CASE \E r \in Mints, built, saved \in BOOLEAN : IndexAdd(r, built, saved)
    BY <1>5, IndexAddKeeps
  <1>6. CASE \E r \in Mints, saved \in BOOLEAN : Submit(r, saved)
    BY <1>6, SubmitKeeps
  <1>7. CASE TakeAll \/ NotDue
    BY <1>7, PassKeeps
  <1>8. CASE \E answers \in [Providers -> Answers] : Pin(answers)
    BY <1>8, PinKeeps
  <1>9. CASE \E saved \in BOOLEAN : Failed(saved) \/ OnPinned(saved) \/ Done(saved)
    BY <1>9, FailedKeeps, OnPinnedKeeps, DoneKeeps
  <1>10. CASE \E e \in Events : Elapse(e)
    BY <1>10, ElapseKeeps
  <1>11. CASE UNCHANGED pinVars
    <2> USE <1>11 DEF pinVars, fileVars, threadVars
    <2>1. PinTypeOK' /\ KeptAnyway' /\ Once' /\ QueueWritten'
      BY DEF PinTypeOK, KeptAnyway, Remembers, Covered, Once, QueueWritten
    <2>2. PinnedIsHosted' /\ Known' /\ Fresh' /\ Handled'
      BY DEF PinnedIsHosted, Truthful, Known, Fresh, Handled, Current
    <2> QED BY <2>1, <2>2
  <1> QED
    BY <1>1, <1>2, <1>3, <1>4, <1>5, <1>6, <1>7, <1>8, <1>9, <1>10, <1>11 DEF PinNext, ThreadStep

-----------------------------------------------------------------------------
(* Theorems *)

\* An event whose first entry is pending is in the queue, in memory and on disk,
\* once, unless the write or submit that would have queued it was itself lost:
\* through failed pins and writes, passes cut off, crashes, restarts and jobs
\* mined again (_drain, set_pinned, done, failed, restore_content).
THEOREM Remembered == PinSpec => []NothingForgotten
  <1>1. PinInv => NothingForgotten
    BY OnDiskToo DEF NothingForgotten, KeptAnyway, Once, PinTypeOK
  <1> QED BY <1>1, PinInvInit, PinStep, PTL DEF PinSpec

\* What either index calls pinned under one of our addresses is at a provider,
\* byte for byte, and is a record of the entry's event, whatever providers
\* answer and whichever writes fail (_check, pin, set_pinned).
THEOREM PinnedTruly == PinSpec => []PinnedIsHosted
  <1>1. PinInv => PinnedIsHosted
    OBVIOUS
  <1> QED BY <1>1, PinInvInit, PinStep, PTL DEF PinSpec
=============================================================================

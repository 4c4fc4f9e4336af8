-------------------------- MODULE SaveLedgerProofs --------------------------
(***************************************************************************)
(* Theorems about SaveLedger for every value of its constants.             *)
(***************************************************************************)
EXTENDS SaveLedger, SequenceTheorems, TLAPS

-----------------------------------------------------------------------------
(* What the two building blocks of the commands do to the rows.            *)

\* ensureLineage leaves at least one generation and touches existing ones not.
LEMMA LineageFacts ==
  ASSUME gens \in Seq(Generation)
  PROVE  /\ Lineage \in Seq(Generation)
         /\ Len(Lineage) \in Nat
         /\ Len(Lineage) >= 1
         /\ Len(gens) \in Nat
         /\ Len(gens) = 0 => Len(Lineage) = 1
         /\ Len(gens) # 0 => Lineage = gens
         /\ \A i \in 1 .. Len(gens) : Lineage[i] = gens[i]
         /\ \A i \in 1 .. Len(Lineage) : i > Len(gens) => Lineage[i].restartId = NoRestart
<1> DEFINE first == [kind |-> "initial", restartId |-> NoRestart]
<1>1. first \in Generation
  BY DEF Generation, Kinds
<1>2. Len(gens) \in Nat
  OBVIOUS
<1>3. CASE gens = <<>>
  <2>1. Lineage = <<first>>
    BY <1>3 DEF Lineage
  <2>2. <<first>> \in Seq(Generation) /\ Len(<<first>>) = 1 /\ <<first>>[1] = first
    BY <1>1
  <2> QED
    BY <1>2, <1>3, <2>1, <2>2 DEF Generation
<1>4. CASE gens # <<>>
  <2>1. Len(gens) # 0
    BY <1>4, EmptySeq
  <2> QED
    BY <1>2, <1>4, <2>1 DEF Lineage
<1> QED
  BY <1>3, <1>4

\* openGeneration adds one generations row on top.
LEMMA OpenedFacts ==
  ASSUME NEW gs \in Seq(Generation), NEW kind \in Kinds,
         NEW restartId \in RestartIds \cup {NoRestart}
  PROVE  /\ Opened(gs, kind, restartId) \in Seq(Generation)
         /\ Len(Opened(gs, kind, restartId)) = Len(gs) + 1
         /\ \A i \in 1 .. Len(gs) : Opened(gs, kind, restartId)[i] = gs[i]
         /\ Opened(gs, kind, restartId)[Len(gs) + 1].restartId = restartId
<1>1. [kind |-> kind, restartId |-> restartId] \in Generation
  BY DEF Generation
<1> QED
  BY <1>1, AppendProperties DEF Opened, Generation

\* insertSnapshot adds one row under the next seq and keeps the others.
LEMMA InsertFacts ==
  ASSUME TypeOK
  PROVE  \A generation \in Int, progress \in Progress,
           disposition \in Dispositions, withBlob \in BOOLEAN :
           InsertSnapshot(generation, progress, disposition, withBlob) =>
             /\ snaps' \in Seq(Snapshot)
             /\ Len(snaps') = Len(snaps) + 1
             /\ Len(snaps') <= MaxSeq
             /\ \A s \in Seqs : s \in Seqs' /\ snaps'[s] = snaps[s]
             /\ Seqs' = Seqs \cup {Len(snaps) + 1}
             /\ Len(snaps) + 1 \in 1 .. MaxSeq
             /\ Len(snaps) + 1 \notin Seqs
             /\ snaps'[Len(snaps) + 1].generation = generation
             /\ snaps'[Len(snaps) + 1].progress = progress
             /\ snaps'[Len(snaps) + 1].disposition = disposition
             /\ blobs' = IF withBlob THEN blobs \cup {Len(snaps) + 1} ELSE blobs
<1> SUFFICES ASSUME NEW generation \in Int, NEW progress \in Progress,
                    NEW disposition \in Dispositions, NEW withBlob \in BOOLEAN,
                    InsertSnapshot(generation, progress, disposition, withBlob)
             PROVE  /\ snaps' \in Seq(Snapshot)
                    /\ Len(snaps') = Len(snaps) + 1
                    /\ Len(snaps') <= MaxSeq
                    /\ \A s \in Seqs : s \in Seqs' /\ snaps'[s] = snaps[s]
                    /\ Seqs' = Seqs \cup {Len(snaps) + 1}
                    /\ Len(snaps) + 1 \in 1 .. MaxSeq
                    /\ Len(snaps) + 1 \notin Seqs
                    /\ snaps'[Len(snaps) + 1].generation = generation
                    /\ snaps'[Len(snaps) + 1].progress = progress
                    /\ snaps'[Len(snaps) + 1].disposition = disposition
                    /\ blobs' = IF withBlob THEN blobs \cup {Len(snaps) + 1} ELSE blobs
  OBVIOUS
<1> DEFINE row == [generation |-> generation, progress |-> progress,
                   disposition |-> disposition]
<1>1. row \in Snapshot
  BY DEF Snapshot
<1>2. /\ snaps \in Seq(Snapshot)
      /\ Len(snaps) \in Nat
      /\ MaxSeq \in Nat
  BY LedgerAssumption DEF TypeOK
<1>3. /\ Len(snaps) < MaxSeq
      /\ snaps' = Append(snaps, row)
      /\ blobs' = IF withBlob THEN blobs \cup {Len(snaps) + 1} ELSE blobs
  BY DEF InsertSnapshot
<1>4. /\ snaps' \in Seq(Snapshot)
      /\ Len(snaps') = Len(snaps) + 1
      /\ \A i \in 1 .. Len(snaps) : snaps'[i] = snaps[i]
      /\ snaps'[Len(snaps) + 1] = row
  BY <1>1, <1>2, <1>3, AppendProperties
<1> QED
  BY <1>2, <1>3, <1>4 DEF Seqs

\* place always answers with one of the three stored dispositions, and a
\* write it stores unrefused is as deep as every head with a blob.
LEMMA PlaceFacts ==
  ASSUME NEW write \in Writes
  PROVE  \A g \in Int :
           /\ Place(write, g) \in Dispositions
           /\ Place(write, g) # "stored_refused" =>
                /\ write.form = "valid"
                /\ \A h \in StoredHead(g) : ~(write.progress < snaps[h].progress)
BY DEF Place, Refused, Dispositions

-----------------------------------------------------------------------------
(* What a command does to the rows, and the types it keeps.                *)

\* The effect all commands but saves.review share: they store at most one row,
\* in the newest generation, change no other row, and keep the blobs that
\* generation has; a stored row that may be an anchor comes with its blob and,
\* in a generation that was already active, is as deep as its head.
StoreStep ==
  /\ ActiveGeneration <= ActiveGeneration'
  /\ Seqs' = Seqs \/ Seqs' = Seqs \cup {Len(snaps) + 1}
  /\ \A s \in Seqs : snaps'[s] = snaps[s]
  /\ \A n \in Seqs' \ Seqs :
       /\ snaps'[n].generation = ActiveGeneration'
       /\ snaps'[n].disposition # "stored_refused" => n \in blobs'
       /\ snaps'[n].disposition = "anchored" /\ ActiveGeneration' = ActiveGeneration =>
            \A h \in StoredHead(ActiveGeneration) : snaps[h].progress <= snaps'[n].progress
  /\ \A s \in blobs : snaps[s].generation = ActiveGeneration' => s \in blobs'
  /\ UNCHANGED <<reviews, doomed, reading>>

\* Opening generations without storing a row is such a step.
LEMMA OpenIsStoreStep ==
  ASSUME TypeOK,
         gens' \in Seq(Generation), Len(gens') > Len(gens),
         blobs' \subseteq blobs,
         erased' \in BOOLEAN,
         UNCHANGED <<snaps, reviews, doomed, reading>>
  PROVE  TypeOK' /\ StoreStep
<1>1. /\ ActiveGeneration \in Int /\ ActiveGeneration' \in Int
      /\ ActiveGeneration < ActiveGeneration'
      /\ Seqs' = Seqs
  BY DEF TypeOK, ActiveGeneration, Seqs
<1>2. \A s \in Seqs : /\ snaps[s].generation \in 0 .. ActiveGeneration
                       /\ snaps[s].generation \in 0 .. ActiveGeneration'
                       /\ snaps[s].generation # ActiveGeneration'
  BY <1>1 DEF TypeOK
<1>3. reading'.generation <= ActiveGeneration'
  BY <1>1 DEF TypeOK, Reading
<1>4. TypeOK'
  BY <1>1, <1>2, <1>3 DEF TypeOK
<1> QED
  BY <1>1, <1>2, <1>4 DEF TypeOK, StoreStep

\* So is storing a row in the newest generation, opened by the step or not.
LEMMA InsertIsStoreStep ==
  ASSUME TypeOK,
         gens' \in Seq(Generation), Len(gens') >= Len(gens), Len(gens') >= 1,
         UNCHANGED <<reviews, erased, doomed, reading>>
  PROVE  \A progress \in Progress, disposition \in Dispositions, withBlob \in BOOLEAN :
           /\ InsertSnapshot(Len(gens') - 1, progress, disposition, withBlob)
           /\ disposition # "stored_refused" => withBlob
           /\ disposition = "anchored" /\ Len(gens') = Len(gens) =>
                \A h \in StoredHead(ActiveGeneration) : snaps[h].progress <= progress
           => TypeOK' /\ StoreStep
<1> SUFFICES ASSUME NEW progress \in Progress, NEW disposition \in Dispositions,
                    NEW withBlob \in BOOLEAN,
                    InsertSnapshot(Len(gens') - 1, progress, disposition, withBlob),
                    disposition # "stored_refused" => withBlob,
                    disposition = "anchored" /\ Len(gens') = Len(gens) =>
                      \A h \in StoredHead(ActiveGeneration) : snaps[h].progress <= progress
             PROVE  TypeOK' /\ StoreStep
  OBVIOUS
<1>1. PICK g \in Int : g = Len(gens') - 1
  OBVIOUS
<1>2. /\ snaps' \in Seq(Snapshot)
      /\ Len(snaps') <= MaxSeq
      /\ \A s \in Seqs : s \in Seqs' /\ snaps'[s] = snaps[s]
      /\ Seqs' = Seqs \cup {Len(snaps) + 1}
      /\ snaps'[Len(snaps) + 1].generation = Len(gens') - 1
      /\ snaps'[Len(snaps) + 1].progress = progress
      /\ snaps'[Len(snaps) + 1].disposition = disposition
      /\ blobs' = IF withBlob THEN blobs \cup {Len(snaps) + 1} ELSE blobs
  BY <1>1, InsertFacts
<1>3. ActiveGeneration \in Int /\ ActiveGeneration' \in Int /\ ActiveGeneration <= ActiveGeneration'
  BY DEF TypeOK, ActiveGeneration
<1>4. \A s \in Seqs' : snaps'[s].generation \in 0 .. ActiveGeneration'
  <2>1. ASSUME NEW s \in Seqs PROVE snaps'[s].generation \in 0 .. ActiveGeneration'
    BY <1>2, <1>3 DEF TypeOK
  <2>2. snaps'[Len(snaps) + 1].generation \in 0 .. ActiveGeneration'
    BY <1>2, <1>3 DEF ActiveGeneration
  <2> QED
    BY <1>2, <2>1, <2>2
<1>5. reading'.generation <= ActiveGeneration'
  BY <1>3 DEF TypeOK, Reading
<1>6. TypeOK'
  BY <1>2, <1>4, <1>5 DEF TypeOK
<1>7. ActiveGeneration' = Len(gens') - 1
      /\ (ActiveGeneration' = ActiveGeneration => Len(gens') = Len(gens))
  BY DEF ActiveGeneration, TypeOK
<1>8. ASSUME NEW n \in Seqs' \ Seqs
      PROVE  /\ snaps'[n].generation = ActiveGeneration'
             /\ snaps'[n].disposition # "stored_refused" => n \in blobs'
             /\ snaps'[n].disposition = "anchored" /\ ActiveGeneration' = ActiveGeneration =>
                  \A h \in StoredHead(ActiveGeneration) : snaps[h].progress <= snaps'[n].progress
  <2>1. n = Len(snaps) + 1
    BY <1>2
  <2> QED
    BY <1>2, <1>7, <2>1
<1> QED
  BY <1>2, <1>3, <1>6, <1>8 DEF StoreStep

\* A write lands at or below the head it was compared with.
LEMMA SavesWriteIsStoreStep ==
  ASSUME TypeOK, NEW write \in Writes, SavesWrite(write)
  PROVE  TypeOK' /\ StoreStep
<1> DEFINE g == Len(Lineage) - 1
           disposition == Place(write, g)
<1>1. PICK recent \in 0 .. Cardinality(RefusedBlobs) :
        InsertSnapshot(g, write.progress, disposition, KeepBlob(write, disposition, recent))
  BY DEF SavesWrite
<1>2. /\ gens' = Lineage
      /\ UNCHANGED <<reviews, erased, doomed, reading>>
  BY DEF SavesWrite
<1>3. /\ gens' \in Seq(Generation)
      /\ Len(gens') >= Len(gens)
      /\ Len(gens') >= 1
      /\ Len(gens') \in Nat
  BY <1>2, LineageFacts DEF TypeOK
<1>4. write.progress \in Progress /\ write.progress \in Nat
  BY LedgerAssumption DEF Writes
<1>5. /\ disposition \in Dispositions
      /\ disposition # "stored_refused" =>
           /\ write.form = "valid"
           /\ \A h \in StoredHead(g) : ~(write.progress < snaps[h].progress)
  <2>1. PICK n \in Int : n = g
    BY <1>2, <1>3
  <2>2. /\ Place(write, n) \in Dispositions
        /\ Place(write, n) # "stored_refused" =>
             /\ write.form = "valid"
             /\ \A h \in StoredHead(n) : ~(write.progress < snaps[h].progress)
    BY PlaceFacts
  <2> QED
    BY <2>1, <2>2
<1>6. KeepBlob(write, disposition, recent) \in BOOLEAN
  BY DEF KeepBlob
<1>7. disposition # "stored_refused" => KeepBlob(write, disposition, recent)
  BY <1>5 DEF KeepBlob
<1>8. ASSUME disposition = "anchored", Len(gens') = Len(gens), NEW h \in StoredHead(ActiveGeneration)
      PROVE  snaps[h].progress <= write.progress
  <2>1. g = ActiveGeneration
    BY <1>2, <1>8 DEF ActiveGeneration
  <2>2. h \in Seqs
    BY DEF StoredHead, Eligible
  <2>3. snaps[h] \in Snapshot
    BY <2>2 DEF TypeOK, Seqs
  <2>4. snaps[h].progress \in Nat
    BY <2>3, LedgerAssumption DEF Snapshot
  <2> QED
    BY <1>4, <1>5, <1>8, <2>1, <2>4
<1>9. g = Len(gens') - 1
  BY <1>2
<1> HIDE DEF g, disposition
<1> QED
  BY <1>1, <1>2, <1>3, <1>4, <1>5, <1>6, <1>7, <1>8, <1>9, InsertIsStoreStep

\* Seeding a generation stores the row it is seeded with.
LEMMA SeedFromIsStoreStep ==
  ASSUME TypeOK, NEW s \in Seqs, NEW kind \in Kinds, SeedFrom(s, kind)
  PROVE  TypeOK' /\ StoreStep
<1>1. /\ gens' = Opened(Lineage, kind, NoRestart)
      /\ InsertSnapshot(Len(Lineage), snaps[s].progress, "anchored", TRUE)
      /\ UNCHANGED <<reviews, erased, doomed, reading>>
  BY DEF SeedFrom
<1>2. /\ gens' \in Seq(Generation)
      /\ Len(gens') = Len(Lineage) + 1
      /\ Len(gens') > Len(gens)
      /\ Len(gens') \in Nat /\ Len(gens) \in Nat /\ Len(Lineage) \in Nat
  BY <1>1, LineageFacts, OpenedFacts DEF TypeOK
<1>3. snaps[s].progress \in Progress /\ "anchored" \in Dispositions
  <2>1. snaps[s] \in Snapshot
    BY DEF TypeOK, Seqs
  <2> QED
    BY <2>1 DEF Snapshot, Dispositions
<1>4. InsertSnapshot(Len(gens') - 1, snaps[s].progress, "anchored", TRUE)
  BY <1>1, <1>2 DEF InsertSnapshot
<1>5. Len(gens') >= Len(gens) /\ Len(gens') >= 1 /\ Len(gens') # Len(gens)
  BY <1>2
<1> QED
  BY <1>1, <1>2, <1>3, <1>4, <1>5, InsertIsStoreStep

\* qa.import stores into a generation of its own.
LEMMA QaImportIsStoreStep ==
  ASSUME TypeOK, NEW progress \in Progress, QaImport(progress)
  PROVE  TypeOK' /\ StoreStep
<1>1. /\ gens' = Opened(Lineage, "admin_restore", NoRestart)
      /\ InsertSnapshot(Len(Lineage), progress, "anchored", TRUE)
      /\ UNCHANGED <<reviews, erased, doomed, reading>>
  BY DEF QaImport
<1>2. /\ gens' \in Seq(Generation)
      /\ Len(gens') = Len(Lineage) + 1
      /\ Len(gens') > Len(gens)
      /\ Len(gens') \in Nat /\ Len(gens) \in Nat /\ Len(Lineage) \in Nat
  BY <1>1, LineageFacts, OpenedFacts DEF TypeOK, Kinds
<1>3. "anchored" \in Dispositions
  BY DEF Dispositions
<1>4. InsertSnapshot(Len(gens') - 1, progress, "anchored", TRUE)
  BY <1>1, <1>2 DEF InsertSnapshot
<1>5. Len(gens') >= Len(gens) /\ Len(gens') >= 1 /\ Len(gens') # Len(gens)
  BY <1>2
<1> QED
  BY <1>1, <1>2, <1>3, <1>4, <1>5, InsertIsStoreStep

\* A reattach opens at least the client's generation, where it stores its save.
LEMMA ReattachFacts ==
  ASSUME TypeOK, NEW client \in 0 .. MaxGeneration, NEW expected \in 0 .. MaxGeneration,
         NEW progress \in Progress, LineageReattach(client, expected, progress)
  PROVE  /\ gens' \in Seq(Generation)
         /\ Len(gens') = client + 1
         /\ Len(gens') > Len(gens)
         /\ \A i \in 1 .. Len(gens') : i > Len(gens) => gens'[i].restartId = NoRestart
         /\ \A i \in 1 .. Len(gens) : gens'[i] = gens[i]
<1> DEFINE row == [kind |-> "reattach", restartId |-> NoRestart]
<1>1. /\ gens' = [i \in 1 .. client + 1 |-> IF i <= Len(Lineage) THEN Lineage[i] ELSE row]
      /\ client > Len(Lineage) - 1
  BY DEF LineageReattach
<1>2. row \in Generation
  BY DEF Generation, Kinds
<1>3. /\ Lineage \in Seq(Generation) /\ Len(Lineage) \in Nat /\ Len(gens) \in Nat
      /\ Len(Lineage) >= Len(gens) /\ client \in Nat
      /\ \A i \in 1 .. Len(gens) : Lineage[i] = gens[i]
      /\ \A i \in 1 .. Len(Lineage) : i > Len(gens) => Lineage[i].restartId = NoRestart
  BY LineageFacts, LedgerAssumption DEF TypeOK
<1>4. \A i \in 1 .. client + 1 :
        /\ gens'[i] = IF i <= Len(Lineage) THEN Lineage[i] ELSE row
        /\ gens'[i] \in Generation
  <2> TAKE i \in 1 .. client + 1
  <2>1. gens'[i] = IF i <= Len(Lineage) THEN Lineage[i] ELSE row
    BY <1>1
  <2>2. i <= Len(Lineage) => i \in 1 .. Len(Lineage)
    BY <1>3
  <2>3. i <= Len(Lineage) => Lineage[i] \in Generation
    BY <1>3, <2>2
  <2> QED
    BY <1>2, <2>1, <2>3
<1>5. gens' \in [1 .. client + 1 -> Generation]
  BY <1>1, <1>4
<1>6. gens' \in Seq(Generation) /\ Len(gens') = client + 1
  BY <1>3, <1>5, SeqDef
<1> QED
  BY <1>1, <1>3, <1>4, <1>6

\* lineage.reattach opens generations up to the client's and stores into the last.
LEMMA LineageReattachIsStoreStep ==
  ASSUME TypeOK, NEW client \in 0 .. MaxGeneration, NEW expected \in 0 .. MaxGeneration,
         NEW progress \in Progress, LineageReattach(client, expected, progress)
  PROVE  TypeOK' /\ StoreStep
<1>1. /\ InsertSnapshot(client, progress, "anchored", TRUE)
      /\ UNCHANGED <<reviews, erased, doomed, reading>>
  BY DEF LineageReattach
<1>2. gens' \in Seq(Generation) /\ Len(gens') = client + 1 /\ Len(gens') > Len(gens)
  BY ReattachFacts
<1>3. client \in Nat /\ Len(gens) \in Nat /\ "anchored" \in Dispositions
  BY LedgerAssumption DEF TypeOK, Dispositions
<1>4. InsertSnapshot(Len(gens') - 1, progress, "anchored", TRUE)
  BY <1>1, <1>2, <1>3 DEF InsertSnapshot
<1>5. Len(gens') >= Len(gens) /\ Len(gens') >= 1 /\ Len(gens') # Len(gens)
  BY <1>2, <1>3
<1> QED
  BY <1>1, <1>2, <1>3, <1>4, <1>5, InsertIsStoreStep

\* Restarting and erasing open a generation that has no row.
LEMMA LineageRestartIsStoreStep ==
  ASSUME TypeOK, NEW restartId \in RestartIds, NEW expected \in 0 .. MaxGeneration,
         LineageRestart(restartId, expected)
  PROVE  TypeOK' /\ StoreStep
<1>1. /\ gens' = Opened(Lineage, "restart", restartId)
      /\ "restart" \in Kinds
  BY DEF LineageRestart, Kinds
<1>2. gens' \in Seq(Generation) /\ Len(gens') = Len(Lineage) + 1
  BY <1>1, LineageFacts, OpenedFacts DEF TypeOK
<1>3. Len(gens') > Len(gens)
  BY <1>2, LineageFacts DEF TypeOK
<1> QED
  BY <1>2, <1>3, OpenIsStoreStep DEF LineageRestart, TypeOK

\* admin.erase opens a generation and empties the blob table.
LEMMA AdminEraseIsStoreStep ==
  ASSUME TypeOK, AdminErase
  PROVE  TypeOK' /\ StoreStep
<1>1. gens' \in Seq(Generation) /\ Len(gens') > Len(gens)
  BY LineageFacts, OpenedFacts DEF AdminErase, TypeOK, Kinds
<1> QED
  BY <1>1, OpenIsStoreStep DEF AdminErase

\* The commands above, in the order of Next.
Store ==
  \/ \E write \in Writes : SavesWrite(write)
  \/ \E expected \in 0 .. MaxGeneration :
       \/ \E restartId \in RestartIds : LineageRestart(restartId, expected)
       \/ \E s \in Seqs : LineageRestoreToSeq(s, expected) \/ AdminRestore(s, expected)
       \/ \E g \in 0 .. MaxGeneration, p \in Progress : LineageReattach(g, expected, p)
  \/ AdminErase
  \/ \E p \in Progress : QaImport(p)

\* What a step that stores does to the rows already there.
LEMMA StoreFacts ==
  ASSUME TypeOK, Store
  PROVE  TypeOK' /\ StoreStep
<1>1. ASSUME NEW expected \in 0 .. MaxGeneration, NEW s \in Seqs,
             LineageRestoreToSeq(s, expected) \/ AdminRestore(s, expected)
      PROVE  TypeOK' /\ StoreStep
  <2>1. "player_restore" \in Kinds /\ "admin_restore" \in Kinds
    BY DEF Kinds
  <2> QED
    BY <1>1, <2>1, SeedFromIsStoreStep DEF LineageRestoreToSeq, AdminRestore
<1> QED
  BY <1>1, SavesWriteIsStoreStep, LineageRestartIsStoreStep, LineageReattachIsStoreStep,
     AdminEraseIsStoreStep, QaImportIsStoreStep DEF Store

-----------------------------------------------------------------------------
(* Type correctness.                                                       *)

\* Reviewing, pruning and reading touch no row.
LEMMA RowsUntouched ==
  ASSUME TypeOK, UNCHANGED <<gens, snaps>>
  PROVE  /\ Seqs' = Seqs
         /\ ActiveGeneration' = ActiveGeneration
         /\ ActiveGeneration \in Int
BY DEF TypeOK, Seqs, ActiveGeneration

\* Which disjuncts of Next are left beside Store.
LEMMA NextCases ==
  ASSUME Next
  PROVE  \/ Store
         \/ \E s \in Seqs, action \in {"promote", "reject"} : SavesReview(s, action)
         \/ PruneSaveBlobs \/ PruneRefusedBlobs \/ PruneDelete
         \/ ReadGeneration \/ ReadAnchor \/ ReadBlob
BY DEF Next, Store

\* Every step keeps the types.
LEMMA TypeStep ==
  ASSUME TypeOK, [Next]_vars
  PROVE  TypeOK'
<1>1. CASE Store
  BY <1>1, StoreFacts
<1>2. ASSUME NEW s \in Seqs, NEW action \in {"promote", "reject"}, SavesReview(s, action)
      PROVE  TypeOK'
  <2>1. s \in 1 .. MaxSeq
    BY LedgerAssumption DEF TypeOK, Seqs
  <2> QED
    BY <1>2, <2>1, RowsUntouched DEF SavesReview, TypeOK
<1>3. CASE PruneSaveBlobs
  BY <1>3, RowsUntouched DEF PruneSaveBlobs, TypeOK
<1>4. CASE PruneRefusedBlobs
  BY <1>4, RowsUntouched DEF PruneRefusedBlobs, RefusedBlobs, TypeOK
<1>5. CASE PruneDelete
  BY <1>5, RowsUntouched DEF PruneDelete, TypeOK
<1>6. CASE ReadGeneration
  <2>1. /\ reading' = [pc |-> "anchor", generation |-> ActiveGeneration,
                       anchor |-> NoRow, blob |-> {}]
        /\ UNCHANGED <<gens, snaps, blobs, reviews, erased, doomed>>
    BY <1>6 DEF ReadGeneration, Idle
  <2>2. reading' \in Reading /\ reading'.generation <= ActiveGeneration'
    BY <2>1, RowsUntouched DEF Reading, NoRow
  <2> QED
    BY <2>1, <2>2, RowsUntouched DEF TypeOK
<1>7. CASE ReadAnchor
  <2>1. \A s \in AnchorRow(reading.generation) : s \in Nat
    BY DEF AnchorRow, Eligible, Seqs
  <2> QED
    BY <1>7, <2>1, RowsUntouched DEF ReadAnchor, TypeOK, Reading
<1>8. CASE ReadBlob
  <2>1. reading' \in Reading /\ reading'.generation <= ActiveGeneration'
    BY <1>8, RowsUntouched DEF ReadBlob, TypeOK, Reading
  <2> QED
    BY <1>8, <2>1, RowsUntouched DEF ReadBlob, TypeOK
<1>9. CASE UNCHANGED vars
  BY <1>9 DEF vars, TypeOK, Seqs, ActiveGeneration
<1> QED
  BY <1>1, <1>2, <1>3, <1>4, <1>5, <1>6, <1>7, <1>8, <1>9, NextCases

\* The initial state has the types.
LEMMA TypeInit == Init => TypeOK
<1> SUFFICES ASSUME Init PROVE TypeOK
  OBVIOUS
<1>1. Seqs = {} /\ ActiveGeneration = -1
  BY DEF Init, Seqs, ActiveGeneration
<1>2. /\ gens = <<>> /\ snaps = <<>> /\ Len(snaps) = 0
      /\ <<>> \in Seq(Generation) /\ <<>> \in Seq(Snapshot)
  BY DEF Init
<1>3. reading \in Reading /\ reading.generation = -1
  BY DEF Init, Reading, Idle, NoRow
<1>4. reviews \in [1 .. MaxSeq -> {"none", "promote", "reject"}]
      /\ \A s \in 1 .. MaxSeq : reviews[s] = "none"
  BY DEF Init
<1>5. blobs \subseteq Seqs /\ doomed \subseteq Seqs /\ erased \in BOOLEAN
  BY DEF Init
<1>6. Len(snaps) <= MaxSeq /\ reading.generation <= ActiveGeneration
  BY <1>1, <1>2, <1>3, LedgerAssumption
<1>7. \A s \in Seqs : snaps[s].generation \in 0 .. ActiveGeneration
  BY <1>1
<1> QED
  BY <1>2, <1>3, <1>4, <1>5, <1>6, <1>7 DEF TypeOK

\* Every variable keeps its type, and no row refers to a generation that does
\* not exist, for every bound and every retention setting.
THEOREM TypeCorrect == Spec => []TypeOK
BY TypeInit, TypeStep, PTL DEF Spec

-----------------------------------------------------------------------------
(* Retention: the inductive invariant.  AnchorRetained and PendingRetained *)
(* do not survive a prune on their own: between a prune's decision and its *)
(* deletion the lock-holding commands run, so what the decision spared     *)
(* must be known until then (DoomedSpares), and reviews may only ever have *)
(* touched quarantined rows.  AnchorExists stands for "a finite set has a  *)
(* deepest row": it is carried along step by step.                         *)

OnlyQuarantinedReviewed ==
  \A s \in Seqs : reviews[s] # "none" => snaps[s].disposition = "stored_quarantined"

DoomedSpares ==
  \A d \in doomed : snaps[d].generation = ActiveGeneration =>
    d \notin PendingReview \cup AnchorRow(ActiveGeneration)

AnchorExists == Eligible(ActiveGeneration) # {} => AnchorRow(ActiveGeneration) # {}

ReadEligible == reading.anchor # NoRow => reading.anchor \in Eligible(reading.generation)

RetentionInv ==
  /\ TypeOK
  /\ OnlyQuarantinedReviewed
  /\ AnchorRetained
  /\ PendingRetained
  /\ DoomedSpares
  /\ AnchorExists
  /\ ReadEligible
  /\ CurrentServed

\* Rows have natural seqs, generations and depths.
LEMMA RowTypes ==
  ASSUME TypeOK, TypeOK'
  PROVE  /\ \A s \in Seqs : /\ s \in Nat
                            /\ s <= Len(snaps)
                            /\ snaps[s].progress \in Nat
                            /\ snaps[s].progress \in Progress
                            /\ snaps[s].generation \in Nat
                            /\ snaps[s].generation <= ActiveGeneration
         /\ ActiveGeneration \in Int
         /\ ActiveGeneration' \in Int
         /\ Len(snaps) \in Nat
<1>1. \A s \in Seqs : snaps[s] \in Snapshot
  BY DEF TypeOK, Seqs
<1>2. Len(snaps) \in Nat /\ Len(gens) \in Nat /\ Len(gens') \in Nat
  BY DEF TypeOK
<1>3. \A s \in Seqs : snaps[s].progress \in Progress
  BY <1>1 DEF Snapshot
<1>4. \A s \in Seqs : snaps[s].progress \in Nat
  BY <1>3, LedgerAssumption
<1>5. \A s \in Seqs : snaps[s].generation \in 0 .. ActiveGeneration
  BY DEF TypeOK
<1>6. ActiveGeneration \in Int /\ ActiveGeneration' \in Int
  BY <1>2 DEF ActiveGeneration
<1> QED
  BY <1>2, <1>3, <1>4, <1>5, <1>6 DEF Seqs

\* What is eligible after a StoreStep: what was, and the new row if anchored.
LEMMA EligibleAfterStore ==
  ASSUME TypeOK, TypeOK', StoreStep, NEW g \in Int
  PROVE  /\ \A s \in Seqs : s \in Eligible(g)' <=> s \in Eligible(g)
         /\ Eligible(g) \subseteq Eligible(g)'
         /\ \A n \in Eligible(g)' \ Seqs :
              /\ n \in Seqs' \ Seqs
              /\ n = Len(snaps) + 1
              /\ g = ActiveGeneration'
              /\ snaps'[n].disposition = "anchored"
              /\ n \in blobs'
<1>1. \A s \in Seqs : s \in Seqs' /\ snaps'[s] = snaps[s] /\ reviews'[s] = reviews[s]
  BY DEF StoreStep
<1>2. \A s \in Seqs : s \in Eligible(g)' <=> s \in Eligible(g)
  BY <1>1 DEF Eligible
<1>3. Eligible(g) \subseteq Seqs
  BY DEF Eligible
<1>4. ASSUME NEW n \in Eligible(g)' \ Seqs
      PROVE  /\ n \in Seqs' \ Seqs
             /\ n = Len(snaps) + 1
             /\ g = ActiveGeneration'
             /\ snaps'[n].disposition = "anchored"
             /\ n \in blobs'
  <2>1. /\ n \in Seqs' \ Seqs
        /\ snaps'[n].generation = g
        /\ snaps'[n].disposition = "anchored" \/ reviews'[n] = "promote"
    BY <1>4 DEF Eligible
  <2>2. n = Len(snaps) + 1 /\ snaps'[n].generation = ActiveGeneration'
    BY <2>1 DEF StoreStep
  <2>3. reviews'[n] = "none"
    <3>1. reviews' = reviews
      BY DEF StoreStep
    <3>2. n \in 1 .. MaxSeq
      BY <2>1, LedgerAssumption DEF TypeOK, Seqs
    <3> QED
      BY <2>1, <3>1, <3>2 DEF TypeOK
  <2>4. snaps'[n].disposition = "anchored"
    BY <2>1, <2>3
  <2> QED
    BY <2>1, <2>2, <2>4 DEF StoreStep
<1> QED
  BY <1>2, <1>3, <1>4

\* A row that is the anchor after a StoreStep and existed before it was the
\* anchor before, of the same generation.
LEMMA AnchorNotRegained ==
  ASSUME TypeOK, TypeOK', StoreStep, NEW s \in Seqs, s \in AnchorRow(ActiveGeneration)'
  PROVE  /\ ActiveGeneration' = ActiveGeneration
         /\ s \in AnchorRow(ActiveGeneration)
<1>1. PICK g \in Int : g = ActiveGeneration'
  BY RowTypes
<1>2. /\ s \in Eligible(g)'
      /\ \A t \in Eligible(g)' : Deeper(s, t)'
  BY <1>1 DEF AnchorRow, Eligible, Deeper
<1>3. s \in Eligible(g)
  BY <1>2, EligibleAfterStore
<1>4. snaps[s].generation = g
  BY <1>3 DEF Eligible
<1>5. g = ActiveGeneration
  BY <1>1, <1>4, RowTypes DEF StoreStep
<1>6. ASSUME NEW t \in Eligible(g)
      PROVE  Deeper(s, t)
  <2>1. t \in Seqs /\ snaps'[t] = snaps[t] /\ snaps'[s] = snaps[s]
    BY DEF Eligible, StoreStep
  <2>2. Deeper(s, t)'
    BY <1>2, EligibleAfterStore
  <2> QED
    BY <2>1, <2>2 DEF Deeper
<1> QED
  BY <1>1, <1>3, <1>5, <1>6 DEF AnchorRow

\* Storing keeps the retention invariant: a row that becomes the anchor has its blob.
LEMMA StoreKeepsRetention ==
  ASSUME RetentionInv, TypeOK', StoreStep
  PROVE  RetentionInv'
<1>0. PICK g \in Int, new \in Int : g = ActiveGeneration' /\ new = Len(snaps) + 1
  BY RowTypes DEF RetentionInv
<1>1. /\ TypeOK
      /\ \A s \in Seqs : s \in Seqs' /\ snaps'[s] = snaps[s] /\ reviews'[s] = reviews[s]
      /\ \A s \in Seqs : s \in AnchorRow(ActiveGeneration)' =>
           ActiveGeneration' = ActiveGeneration /\ s \in AnchorRow(ActiveGeneration)
  BY AnchorNotRegained DEF RetentionInv, StoreStep
<1>2. OnlyQuarantinedReviewed'
  <2>1. ASSUME NEW s \in Seqs', reviews'[s] # "none" PROVE s \in Seqs
    <3>1. s \in 1 .. MaxSeq
      BY LedgerAssumption DEF TypeOK, Seqs
    <3> QED
      BY <2>1, <3>1, <1>1 DEF StoreStep, TypeOK
  <2> QED
    BY <1>1, <2>1 DEF OnlyQuarantinedReviewed, RetentionInv
<1>3. AnchorRetained'
  <2>1. ASSUME NEW a \in AnchorRow(ActiveGeneration)' PROVE a \in blobs'
    <3>1. a \in Eligible(g)'
      BY <1>0 DEF AnchorRow, Eligible
    <3>2. CASE a \in Seqs
      <4>1. ActiveGeneration' = ActiveGeneration /\ a \in AnchorRow(ActiveGeneration)
        BY <1>1, <2>1, <3>2
      <4>2. a \in blobs /\ snaps[a].generation = ActiveGeneration
        BY <4>1 DEF RetentionInv, AnchorRetained, AnchorRow, Eligible
      <4> QED
        BY <4>1, <4>2 DEF StoreStep
    <3>3. CASE a \notin Seqs
      BY <1>1, <3>1, <3>3, EligibleAfterStore
    <3> QED
      BY <3>2, <3>3
  <2> QED
    BY <2>1 DEF AnchorRetained
<1>4. PendingRetained'
  <2>1. ASSUME NEW s \in PendingReview', snaps'[s].generation = ActiveGeneration'
        PROVE  s \in blobs'
    <3>1. CASE s \in Seqs
      <4>1. s \in PendingReview /\ snaps[s].generation = ActiveGeneration'
        BY <1>1, <2>1, <3>1 DEF PendingReview
      <4>2. ActiveGeneration' = ActiveGeneration
        BY <1>1, <3>1, <4>1, RowTypes DEF StoreStep
      <4>3. s \in blobs
        BY <4>1, <4>2 DEF RetentionInv, PendingRetained
      <4> QED
        BY <4>1, <4>3 DEF StoreStep
    <3>2. CASE s \notin Seqs
      <4>1. s \in Seqs' \ Seqs /\ snaps'[s].disposition = "stored_quarantined"
        BY <2>1, <3>2 DEF PendingReview
      <4> QED
        BY <4>1 DEF StoreStep
    <3> QED
      BY <3>1, <3>2
  <2> QED
    BY <2>1 DEF PendingRetained
<1>5. DoomedSpares'
  <2>1. ASSUME NEW d \in doomed', snaps'[d].generation = ActiveGeneration'
        PROVE  d \notin (PendingReview \cup AnchorRow(ActiveGeneration))'
    <3>1. d \in doomed /\ d \in Seqs /\ snaps[d].generation = ActiveGeneration'
      BY <1>1, <2>1 DEF StoreStep, TypeOK
    <3>2. ActiveGeneration' = ActiveGeneration
      BY <1>1, <3>1, RowTypes DEF StoreStep
    <3>3. d \notin PendingReview \cup AnchorRow(ActiveGeneration)
      BY <3>1, <3>2 DEF RetentionInv, DoomedSpares
    <3>4. d \notin PendingReview'
      BY <1>1, <3>1, <3>3 DEF PendingReview
    <3> QED
      BY <1>1, <3>1, <3>3, <3>4
  <2> QED
    BY <2>1 DEF DoomedSpares
<1>6. AnchorExists'
  <2>1. ASSUME Eligible(ActiveGeneration)' # {} PROVE AnchorRow(ActiveGeneration)' # {}
    <3>1. /\ \A s \in Seqs : s \in Eligible(g)' <=> s \in Eligible(g)
          /\ \A n \in Eligible(g)' \ Seqs :
               n = new /\ n \in Seqs' \ Seqs /\ snaps'[n].disposition = "anchored"
      BY <1>0, <1>1, EligibleAfterStore
    <3>2. Eligible(g) \subseteq Seqs /\ Eligible(ActiveGeneration) \subseteq Seqs
      BY DEF Eligible
    <3>3. \A n : n \in Eligible(g)' /\ (\A t \in Eligible(g)' : Deeper(n, t)')
                 => n \in AnchorRow(ActiveGeneration)'
      BY <1>0 DEF AnchorRow, Eligible
    <3>4. Eligible(g)' # {}
      BY <1>0, <2>1 DEF Eligible
    <3>5. CASE ActiveGeneration' # ActiveGeneration
      <4>1. Eligible(g) = {}
        BY <1>0, <1>1, <3>5, RowTypes DEF Eligible, StoreStep
      <4>2. Eligible(g)' = {new}
        BY <3>1, <3>4, <4>1, <3>2
      <4>3. Deeper(new, new)'
        BY DEF Deeper
      <4> QED
        BY <3>3, <4>2, <4>3
    <3>6. CASE ActiveGeneration' = ActiveGeneration /\ new \in Eligible(g)' \ Seqs
      <4>1. \A h \in StoredHead(ActiveGeneration) : snaps[h].progress <= snaps'[new].progress
        BY <3>1, <3>6 DEF StoreStep
      <4>2. \A t \in Eligible(g) : snaps[t].progress <= snaps'[new].progress
        <5>1. CASE Eligible(g) = {}
          BY <5>1
        <5>2. CASE Eligible(g) # {}
          <6>1. PICK a : a \in AnchorRow(ActiveGeneration)
            BY <1>0, <3>6, <5>2 DEF RetentionInv, AnchorExists
          <6>2. a \in blobs
            BY <6>1 DEF RetentionInv, AnchorRetained
          <6>3. /\ a \in Eligible(ActiveGeneration)
                /\ \A t \in Eligible(ActiveGeneration) : Deeper(a, t)
            BY <6>1 DEF AnchorRow
          <6>4. a \in StoredHead(ActiveGeneration)
            BY <6>2, <6>3 DEF StoredHead
          <6>5. snaps[a].progress <= snaps'[new].progress
            BY <4>1, <6>4
          <6>6. ASSUME NEW t \in Eligible(g)
                PROVE  snaps[t].progress <= snaps'[new].progress
            <7>1. Deeper(a, t)
              BY <1>0, <3>6, <6>3
            <7>2. t \in Seqs /\ a \in Seqs
              BY <3>2, <6>3
            <7>3. snaps[t].progress \in Nat /\ snaps[a].progress \in Nat
              BY <1>1, <7>2, RowTypes
            <7>4. snaps'[new].progress \in Nat
              <8>1. new \in Seqs' /\ snaps' \in Seq(Snapshot)
                BY <3>1, <3>6 DEF TypeOK
              <8>2. snaps'[new] \in Snapshot
                BY <8>1 DEF Seqs
              <8> QED
                BY <8>2, LedgerAssumption DEF Snapshot
            <7> QED
              BY <6>5, <7>1, <7>3, <7>4 DEF Deeper
          <6> QED
            BY <6>6
        <5> QED
          BY <5>1, <5>2
      <4>3. ASSUME NEW t \in Eligible(g)' PROVE Deeper(new, t)'
        <5>1. CASE t \in Seqs
          <6>1. t \in Eligible(g) /\ snaps'[t] = snaps[t]
            BY <1>1, <3>1, <5>1
          <6>2. snaps'[t].progress <= snaps'[new].progress
            BY <4>2, <6>1
          <6>3. snaps'[t].progress \in Nat /\ t \in Nat /\ t <= Len(snaps) /\ Len(snaps) \in Nat
            BY <1>1, <5>1, <6>1, RowTypes
          <6>4. snaps'[new].progress \in Nat
            <7>1. new \in Seqs' /\ snaps' \in Seq(Snapshot)
              BY <3>1, <3>6 DEF TypeOK
            <7>2. snaps'[new] \in Snapshot
              BY <7>1 DEF Seqs
            <7> QED
              BY <7>2, LedgerAssumption DEF Snapshot
          <6> QED
            BY <1>0, <6>2, <6>3, <6>4 DEF Deeper
        <5>2. CASE t \notin Seqs
          <6>1. t = new
            BY <3>1, <5>2
          <6> QED
            BY <6>1 DEF Deeper
        <5> QED
          BY <5>1, <5>2
      <4> QED
        BY <3>3, <3>6, <4>3
    <3>7. CASE ActiveGeneration' = ActiveGeneration /\ new \notin Eligible(g)' \ Seqs
      <4>1. Eligible(g)' = Eligible(ActiveGeneration)
        BY <1>0, <3>1, <3>2, <3>7
      <4>2. PICK a : a \in AnchorRow(ActiveGeneration)
        BY <3>4, <4>1 DEF RetentionInv, AnchorExists
      <4>3. /\ a \in Eligible(g)'
            /\ \A t \in Eligible(g)' : Deeper(a, t) /\ t \in Seqs
            /\ a \in Seqs
        BY <3>2, <4>1, <4>2 DEF AnchorRow
      <4>4. \A t \in Eligible(g)' : Deeper(a, t)'
        BY <1>1, <4>3 DEF Deeper
      <4> QED
        BY <3>3, <4>3, <4>4
    <3> QED
      BY <3>5, <3>6, <3>7
  <2> QED
    BY <2>1 DEF AnchorExists
<1>7. ReadEligible'
  <2>1. reading' = reading /\ reading.generation \in Int
    BY <1>1 DEF StoreStep, TypeOK, Reading
  <2>2. PICK r \in Int : r = reading.generation
    BY <2>1
  <2>3. Eligible(r) \subseteq Eligible(r)'
    BY <1>1, EligibleAfterStore
  <2>4. reading.anchor # NoRow => reading.anchor \in Eligible(r)
    BY <2>2 DEF RetentionInv, ReadEligible
  <2>5. reading'.anchor # NoRow => reading'.anchor \in Eligible(r)'
    BY <2>1, <2>3, <2>4
  <2> QED
    BY <2>1, <2>2, <2>5 DEF ReadEligible, Eligible
<1>8. CurrentServed'
  <2>1. ASSUME reading'.pc = "done", reading'.anchor \in AnchorRow(ActiveGeneration)'
        PROVE  reading'.anchor \in reading'.blob
    <3>1. reading' = reading
      BY DEF StoreStep
    <3>2. reading.anchor \in Seqs
      <4>1. reading.anchor # NoRow
        BY <2>1, <3>1 DEF AnchorRow, Eligible, Seqs, NoRow
      <4> QED
        BY <4>1 DEF RetentionInv, ReadEligible, Eligible
    <3>3. reading.anchor \in AnchorRow(ActiveGeneration)
      BY <1>1, <2>1, <3>1, <3>2
    <3> QED
      BY <2>1, <3>1, <3>3 DEF RetentionInv, CurrentServed
  <2> QED
    BY <2>1 DEF CurrentServed
<1> QED
  BY <1>2, <1>3, <1>4, <1>5, <1>6, <1>7, <1>8 DEF RetentionInv

\* A review that promotes makes its row eligible, and nothing else; one that
\* rejects changes no row's eligibility.
LEMMA EligibleAfterReview ==
  ASSUME TypeOK, NEW s \in Seqs, NEW action \in {"promote", "reject"},
         SavesReview(s, action), NEW g \in Int
  PROVE  /\ Seqs' = Seqs /\ snaps' = snaps /\ ActiveGeneration' = ActiveGeneration
         /\ Eligible(g)' = IF action = "promote" /\ g = ActiveGeneration
                           THEN Eligible(g) \cup {s} ELSE Eligible(g)
         /\ PendingReview' \subseteq PendingReview
         /\ s \in PendingReview
<1>1. /\ reviews' = [reviews EXCEPT ![s] = action]
      /\ snaps' = snaps /\ gens' = gens
      /\ reviews[s] = "none"
      /\ snaps[s].disposition = "stored_quarantined"
      /\ snaps[s].generation = ActiveGeneration
  BY DEF SavesReview
<1>2. Seqs' = Seqs /\ ActiveGeneration' = ActiveGeneration
  BY <1>1, RowsUntouched
<1>3. s \in 1 .. MaxSeq /\ \A t \in Seqs : t \in 1 .. MaxSeq
  BY LedgerAssumption DEF TypeOK, Seqs
<1>4. \A t \in Seqs : reviews'[t] = IF t = s THEN action ELSE reviews[t]
  BY <1>1, <1>3 DEF TypeOK
<1>5. Eligible(g)' = IF action = "promote" /\ g = ActiveGeneration
                     THEN Eligible(g) \cup {s} ELSE Eligible(g)
  BY <1>1, <1>2, <1>4 DEF Eligible
<1>6. PendingReview' \subseteq PendingReview /\ s \in PendingReview
  BY <1>1, <1>2, <1>4 DEF PendingReview
<1> QED
  BY <1>1, <1>2, <1>5, <1>6

\* A review keeps the retention invariant: what it promotes still has its blob.
LEMMA ReviewKeepsRetention ==
  ASSUME RetentionInv, TypeOK', NEW s \in Seqs, NEW action \in {"promote", "reject"},
         SavesReview(s, action)
  PROVE  RetentionInv'
<1>1. /\ TypeOK
      /\ UNCHANGED <<gens, snaps, blobs, erased, doomed, reading>>
      /\ reviews' = [reviews EXCEPT ![s] = action]
      /\ snaps[s].disposition = "stored_quarantined"
      /\ action = "promote" =>
           /\ s \in blobs
           /\ \A a \in AnchorRow(ActiveGeneration) : snaps[s].progress >= snaps[a].progress
  BY DEF SavesReview, RetentionInv
<1>2. PICK g \in Int : g = ActiveGeneration
  BY <1>1, RowTypes
<1>3. /\ Seqs' = Seqs /\ snaps' = snaps /\ ActiveGeneration' = ActiveGeneration
      /\ Eligible(g)' = IF action = "promote" THEN Eligible(g) \cup {s} ELSE Eligible(g)
      /\ PendingReview' \subseteq PendingReview
      /\ s \in PendingReview
      /\ snaps[s].generation = ActiveGeneration
  BY <1>1, <1>2, EligibleAfterReview DEF SavesReview
<1>4. /\ \A a : a \in AnchorRow(ActiveGeneration) <=>
                  a \in Eligible(g) /\ \A t \in Eligible(g) : Deeper(a, t)
      /\ \A a : a \in AnchorRow(ActiveGeneration)' <=>
                  a \in Eligible(g)' /\ \A t \in Eligible(g)' : Deeper(a, t)
  BY <1>2, <1>3 DEF AnchorRow, Eligible, Deeper
<1>5. ASSUME NEW a \in AnchorRow(ActiveGeneration)'
      PROVE  a \in AnchorRow(ActiveGeneration) \/ (a = s /\ action = "promote")
  BY <1>3, <1>4, <1>5
<1>6. OnlyQuarantinedReviewed'
  <2>1. \A t \in Seqs : t # s => reviews'[t] = reviews[t]
    BY <1>1 DEF TypeOK
  <2> QED
    BY <1>1, <1>3, <2>1 DEF OnlyQuarantinedReviewed, RetentionInv
<1>7. AnchorRetained'
  BY <1>1, <1>5 DEF AnchorRetained, RetentionInv
<1>8. PendingRetained'
  BY <1>1, <1>3 DEF PendingRetained, RetentionInv
<1>9. DoomedSpares'
  <2>1. ASSUME NEW d \in doomed, snaps[d].generation = ActiveGeneration
        PROVE  d \notin PendingReview' /\ d \notin AnchorRow(ActiveGeneration)'
    <3>1. d \notin PendingReview /\ d \notin AnchorRow(ActiveGeneration)
      BY <2>1 DEF RetentionInv, DoomedSpares
    <3>2. d # s
      BY <1>3, <3>1
    <3> QED
      BY <1>3, <1>5, <3>1, <3>2
  <2> QED
    BY <1>1, <1>3, <2>1 DEF DoomedSpares
<1>10. AnchorExists'
  <2>1. ASSUME Eligible(g)' # {} PROVE AnchorRow(ActiveGeneration)' # {}
    <3>1. CASE action # "promote"
      <4>1. Eligible(g)' = Eligible(g) /\ Eligible(g) # {}
        BY <1>3, <2>1, <3>1
      <4>2. PICK a : a \in AnchorRow(ActiveGeneration)
        BY <1>2, <4>1 DEF RetentionInv, AnchorExists
      <4> QED
        BY <1>4, <4>1, <4>2
    <3>2. CASE action = "promote" /\ Eligible(g) = {}
      <4>1. Eligible(g)' = {s} /\ s \in Int
        BY <1>1, <1>3, <3>2, RowTypes
      <4>2. Deeper(s, s)
        BY <4>1 DEF Deeper
      <4> QED
        BY <1>4, <4>1, <4>2
    <3>3. CASE action = "promote" /\ Eligible(g) # {}
      <4>1. PICK a : a \in AnchorRow(ActiveGeneration)
        BY <1>2, <3>3 DEF RetentionInv, AnchorExists
      <4>2. /\ a \in Eligible(g) /\ \A t \in Eligible(g) : Deeper(a, t)
            /\ snaps[s].progress >= snaps[a].progress
            /\ Eligible(g)' = Eligible(g) \cup {s}
        BY <1>1, <1>3, <1>4, <3>3, <4>1
      <4>3. a \in Seqs /\ Eligible(g) \subseteq Seqs
        BY <4>2 DEF Eligible
      <4>4. /\ \A t \in Seqs : snaps[t].progress \in Nat /\ t \in Nat
            /\ snaps[a].progress \in Nat /\ a \in Nat
            /\ snaps[s].progress \in Nat /\ s \in Nat
        BY <1>1, <4>3, RowTypes
      <4>5. CASE Deeper(a, s)
        BY <1>4, <4>1, <4>2, <4>5
      <4>6. CASE ~Deeper(a, s)
        <5>1. ASSUME NEW t \in Eligible(g) PROVE Deeper(s, t)
          <6>1. Deeper(a, t) /\ snaps[t].progress \in Nat /\ t \in Nat
            BY <4>2, <4>3, <4>4
          <6> QED
            BY <4>2, <4>4, <4>6, <6>1 DEF Deeper
        <5>2. Deeper(s, s)
          BY <4>4 DEF Deeper
        <5> QED
          BY <1>4, <4>2, <5>1, <5>2
      <4> QED
        BY <4>5, <4>6
    <3> QED
      BY <3>1, <3>2, <3>3
  <2>2. Eligible(ActiveGeneration)' = Eligible(g)'
    BY <1>2, <1>3 DEF Eligible
  <2> QED
    BY <2>1, <2>2 DEF AnchorExists
<1>11. ReadEligible'
  <2>1. reading.generation \in Int /\ reading' = reading
    BY <1>1 DEF TypeOK, Reading
  <2>2. PICK r \in Int : r = reading.generation
    BY <2>1
  <2>3. Eligible(r) \subseteq Eligible(r)'
    BY <1>1, EligibleAfterReview
  <2>4. reading.anchor # NoRow => reading.anchor \in Eligible(r)'
    BY <2>2, <2>3 DEF RetentionInv, ReadEligible
  <2> QED
    BY <2>1, <2>2, <2>4 DEF ReadEligible, Eligible
<1>12. CurrentServed'
  <2>1. ASSUME reading.pc = "done", reading.anchor \in AnchorRow(ActiveGeneration)'
        PROVE  reading.anchor \in AnchorRow(ActiveGeneration)
    <3>1. reading.anchor # NoRow
      BY <2>1, <1>4, <1>3 DEF Eligible, Seqs, NoRow
    <3>2. reading.anchor \in Eligible(reading.generation)
      BY <3>1 DEF RetentionInv, ReadEligible
    <3>3. reading.anchor # s
      BY <1>3, <3>2 DEF Eligible, PendingReview
    <3> QED
      BY <1>5, <2>1, <3>3
  <2> QED
    BY <1>1, <2>1 DEF CurrentServed, RetentionInv
<1> QED
  BY <1>6, <1>7, <1>8, <1>9, <1>10, <1>11, <1>12 DEF RetentionInv

\* Steps that touch neither rows nor reviews leave every anchor where it is.
LEMMA LineageUntouched ==
  ASSUME TypeOK, UNCHANGED <<gens, snaps, reviews>>
  PROVE  /\ Seqs' = Seqs /\ ActiveGeneration' = ActiveGeneration
         /\ PendingReview' = PendingReview
         /\ \A g \in Int : Eligible(g)' = Eligible(g) /\ AnchorRow(g)' = AnchorRow(g)
         /\ Eligible(ActiveGeneration)' = Eligible(ActiveGeneration)
         /\ AnchorRow(ActiveGeneration)' = AnchorRow(ActiveGeneration)
<1>1. Seqs' = Seqs /\ ActiveGeneration' = ActiveGeneration
  BY RowsUntouched
<1> QED
  BY <1>1 DEF PendingReview, Eligible, AnchorRow, Deeper

\* A prune statement decides to delete no blob the active generation needs.
LEMMA PruneDecisionKeepsRetention ==
  ASSUME RetentionInv, TypeOK', PruneSaveBlobs \/ PruneRefusedBlobs
  PROVE  RetentionInv'
<1>1. /\ TypeOK
      /\ UNCHANGED <<gens, snaps, blobs, reviews, erased, reading>>
  BY DEF RetentionInv, PruneSaveBlobs, PruneRefusedBlobs
<1>2. \A d \in doomed' : snaps[d].generation = ActiveGeneration =>
        d \notin PendingReview \cup AnchorRow(ActiveGeneration)
  <2>1. CASE PruneSaveBlobs
    BY <2>1 DEF PruneSaveBlobs, KeptByPlan
  <2>2. CASE PruneRefusedBlobs
    <3>1. ASSUME NEW d \in doomed'
          PROVE  d \notin PendingReview \cup AnchorRow(ActiveGeneration)
      <4>1. d \in Seqs /\ snaps[d].disposition = "stored_refused"
        BY <2>2, <1>1 DEF PruneRefusedBlobs, RefusedBlobs, TypeOK
      <4>2. d \notin PendingReview
        BY <4>1 DEF PendingReview
      <4>3. reviews[d] = "none"
        BY <4>1 DEF RetentionInv, OnlyQuarantinedReviewed
      <4> QED
        BY <4>1, <4>2, <4>3 DEF AnchorRow, Eligible
    <3> QED
      BY <3>1
  <2> QED
    BY <2>1, <2>2
<1>3. DoomedSpares'
  BY <1>1, <1>2, LineageUntouched DEF DoomedSpares
<1>4. ReadEligible'
  BY <1>1, LineageUntouched DEF ReadEligible, RetentionInv, TypeOK, Reading
<1> QED
  BY <1>1, <1>3, <1>4, LineageUntouched
  DEF RetentionInv, OnlyQuarantinedReviewed, AnchorRetained, PendingRetained, AnchorExists,
      CurrentServed

\* Its deletion, whatever ran in between, deletes none either.
LEMMA PruneDeleteKeepsRetention ==
  ASSUME RetentionInv, TypeOK', PruneDelete
  PROVE  RetentionInv'
<1>1. /\ TypeOK
      /\ UNCHANGED <<gens, snaps, reviews, erased, reading>>
      /\ blobs' = blobs \ doomed
      /\ doomed' = {}
  BY DEF RetentionInv, PruneDelete
<1>2. AnchorRetained'
  <2>1. ASSUME NEW a \in AnchorRow(ActiveGeneration) PROVE a \in blobs \ doomed
    <3>1. a \in blobs /\ snaps[a].generation = ActiveGeneration
      BY <2>1 DEF RetentionInv, AnchorRetained, AnchorRow, Eligible
    <3> QED
      BY <3>1, <2>1 DEF RetentionInv, DoomedSpares
  <2> QED
    BY <1>1, <2>1, LineageUntouched DEF AnchorRetained
<1>3. PendingRetained'
  BY <1>1, LineageUntouched DEF PendingRetained, DoomedSpares, RetentionInv
<1>4. ReadEligible'
  BY <1>1, LineageUntouched DEF ReadEligible, RetentionInv, TypeOK, Reading
<1> QED
  BY <1>1, <1>2, <1>3, <1>4, LineageUntouched
  DEF RetentionInv, OnlyQuarantinedReviewed, DoomedSpares, AnchorExists, CurrentServed

\* GET saves/current reads a blob of the anchor it saw, if it still is the anchor.
LEMMA ReadKeepsRetention ==
  ASSUME RetentionInv, TypeOK', ReadGeneration \/ ReadAnchor \/ ReadBlob
  PROVE  RetentionInv'
<1>1. /\ TypeOK
      /\ UNCHANGED <<gens, snaps, blobs, reviews, erased, doomed>>
  BY DEF RetentionInv, ReadGeneration, ReadAnchor, ReadBlob
<1>2. NoRow \notin AnchorRow(ActiveGeneration)
  BY DEF AnchorRow, Eligible, Seqs, NoRow
<1>3. ReadEligible' /\ CurrentServed'
  <2>1. CASE ReadGeneration
    <3>1. reading' = [pc |-> "anchor", generation |-> ActiveGeneration,
                      anchor |-> NoRow, blob |-> {}]
      BY <2>1 DEF ReadGeneration, Idle
    <3> QED
      BY <3>1 DEF ReadEligible, CurrentServed
  <2>2. CASE ReadAnchor
    <3>1. /\ reading.pc = "anchor" /\ reading \in Reading
          /\ \/ reading' = [reading EXCEPT !.pc = "done"] /\ AnchorRow(reading.generation) = {}
             \/ \E s \in AnchorRow(reading.generation) :
                  reading' = [reading EXCEPT !.pc = "blob", !.anchor = s]
      BY <1>1, <2>2 DEF ReadAnchor, TypeOK
    <3>2. CASE reading' = [reading EXCEPT !.pc = "done"] /\ AnchorRow(reading.generation) = {}
      <4>1. reading'.anchor = reading.anchor /\ reading'.generation = reading.generation
        BY <3>1, <3>2 DEF Reading
      <4>2. PICK r \in Int : r = reading.generation
        BY <3>1 DEF Reading
      <4>3. ReadEligible'
        BY <1>1, <4>1, <4>2, LineageUntouched DEF ReadEligible, RetentionInv, Eligible
      <4>4. reading.anchor \notin AnchorRow(ActiveGeneration)
        <5>1. CASE reading.anchor = NoRow
          BY <5>1, <1>2
        <5>2. CASE reading.anchor # NoRow
          <6>1. reading.anchor \in Eligible(reading.generation)
            BY <5>2 DEF RetentionInv, ReadEligible
          <6>2. SUFFICES ASSUME reading.anchor \in AnchorRow(ActiveGeneration) PROVE FALSE
            OBVIOUS
          <6>3. reading.generation = ActiveGeneration
            BY <6>1, <6>2 DEF AnchorRow, Eligible
          <6> QED
            BY <3>2, <6>2, <6>3
        <5> QED
          BY <5>1, <5>2
      <4> QED
        BY <1>1, <4>1, <4>3, <4>4, LineageUntouched DEF CurrentServed
    <3>3. ASSUME NEW s \in AnchorRow(reading.generation),
                 reading' = [reading EXCEPT !.pc = "blob", !.anchor = s]
          PROVE  ReadEligible' /\ CurrentServed'
      <4>1. reading'.anchor = s /\ reading'.generation = reading.generation
            /\ reading'.pc = "blob"
        BY <3>1, <3>3 DEF Reading
      <4>2. s \in Eligible(reading.generation)
        BY DEF AnchorRow
      <4> QED
        BY <1>1, <4>1, <4>2, LineageUntouched DEF ReadEligible, CurrentServed, Eligible
    <3> QED
      BY <3>1, <3>2, <3>3
  <2>3. CASE ReadBlob
    <3>1. /\ reading'.anchor = reading.anchor
          /\ reading'.generation = reading.generation
          /\ reading'.blob = blobs \cap {reading.anchor}
      BY <1>1, <2>3 DEF ReadBlob, TypeOK, Reading
    <3>2. ReadEligible'
      BY <1>1, <3>1, LineageUntouched DEF ReadEligible, RetentionInv, Eligible
    <3>3. reading.anchor \in AnchorRow(ActiveGeneration) => reading.anchor \in blobs
      BY DEF RetentionInv, AnchorRetained
    <3> QED
      BY <1>1, <3>1, <3>2, <3>3, LineageUntouched DEF CurrentServed
  <2> QED
    BY <2>1, <2>2, <2>3
<1> QED
  BY <1>1, <1>3, LineageUntouched
  DEF RetentionInv, OnlyQuarantinedReviewed, AnchorRetained, PendingRetained, DoomedSpares,
      AnchorExists

\* An empty ledger satisfies the retention invariant.
LEMMA RetentionInit == Init => RetentionInv
<1> SUFFICES ASSUME Init PROVE RetentionInv
  OBVIOUS
<1>1. TypeOK
  BY TypeInit
<1>2. Seqs = {} /\ doomed = {} /\ reading.anchor = NoRow /\ reading.pc = "idle"
  BY DEF Init, Seqs, Idle
<1> QED
  BY <1>1, <1>2
  DEF RetentionInv, OnlyQuarantinedReviewed, AnchorRetained, PendingRetained, DoomedSpares,
      AnchorExists, ReadEligible, CurrentServed, AnchorRow, Eligible, PendingReview

\* Every step keeps the retention invariant.
LEMMA RetentionStep ==
  ASSUME RetentionInv, [Next]_vars
  PROVE  RetentionInv'
<1>1. TypeOK'
  BY TypeStep DEF RetentionInv
<1>2. CASE Store
  BY <1>1, <1>2, StoreFacts, StoreKeepsRetention DEF RetentionInv
<1>3. ASSUME NEW s \in Seqs, NEW action \in {"promote", "reject"}, SavesReview(s, action)
      PROVE  RetentionInv'
  BY <1>1, <1>3, ReviewKeepsRetention
<1>4. CASE PruneSaveBlobs \/ PruneRefusedBlobs
  BY <1>1, <1>4, PruneDecisionKeepsRetention
<1>5. CASE PruneDelete
  BY <1>1, <1>5, PruneDeleteKeepsRetention
<1>6. CASE ReadGeneration \/ ReadAnchor \/ ReadBlob
  BY <1>1, <1>6, ReadKeepsRetention
<1>7. CASE UNCHANGED vars
  BY <1>7, LineageUntouched
  DEF vars, RetentionInv, TypeOK, OnlyQuarantinedReviewed, AnchorRetained, PendingRetained,
      DoomedSpares, AnchorExists, ReadEligible, CurrentServed, Seqs, ActiveGeneration,
      Eligible, AnchorRow, PendingReview, Deeper
<1> QED
  BY <1>2, <1>3, <1>4, <1>5, <1>6, <1>7, NextCases

\* The active anchor always has its blob: no interleaving of prunes with writes,
\* reviews and lineage commands deletes the blob a player reads.
THEOREM AnchorAlwaysRetained == Spec => []AnchorRetained
<1>1. RetentionInv => AnchorRetained
  BY DEF RetentionInv
<1> QED
  BY <1>1, RetentionInit, RetentionStep, PTL DEF Spec

\* A quarantined save of the active generation keeps its blob until reviewed.
THEOREM PendingAlwaysRetained == Spec => []PendingRetained
<1>1. RetentionInv => PendingRetained
  BY DEF RetentionInv
<1> QED
  BY <1>1, RetentionInit, RetentionStep, PTL DEF Spec

\* saves/current never answers the current anchor without its blob.
THEOREM CurrentAlwaysServed == Spec => []CurrentServed
<1>1. RetentionInv => CurrentServed
  BY DEF RetentionInv
<1> QED
  BY <1>1, RetentionInit, RetentionStep, PTL DEF Spec

-----------------------------------------------------------------------------
(* Restarts.                                                               *)

\* The generations rows a step adds: one restart under an id no row has, or
\* rows without a restart id.
AddsGenerations ==
  /\ Len(gens') >= Len(gens)
  /\ \A i \in 1 .. Len(gens) : gens'[i] = gens[i]
  /\ \A i \in 1 .. Len(gens') : i > Len(gens) /\ gens'[i].restartId # NoRestart =>
       /\ i = Len(gens')
       /\ \A j \in 1 .. Len(gens) : gens[j].restartId # gens'[i].restartId

\* Storing leaves the generations already there as they were.
LEMMA StoreAddsGenerations ==
  ASSUME TypeOK, Store
  PROVE  AddsGenerations
<1>1. /\ Lineage \in Seq(Generation) /\ Len(Lineage) \in Nat /\ Len(gens) \in Nat
      /\ Len(Lineage) >= Len(gens)
      /\ \A i \in 1 .. Len(gens) : Lineage[i] = gens[i]
      /\ \A i \in 1 .. Len(Lineage) : i > Len(gens) => Lineage[i].restartId = NoRestart
  BY LineageFacts DEF TypeOK
<1>2. CASE gens' = Lineage
  BY <1>1, <1>2 DEF AddsGenerations
<1>3. ASSUME NEW kind \in Kinds, gens' = Opened(Lineage, kind, NoRestart)
      PROVE  AddsGenerations
  <2>1. /\ Len(gens') = Len(Lineage) + 1
        /\ \A i \in 1 .. Len(Lineage) : gens'[i] = Lineage[i]
        /\ gens'[Len(Lineage) + 1].restartId = NoRestart
    BY <1>1, <1>3, OpenedFacts
  <2> QED
    BY <1>1, <2>1 DEF AddsGenerations
<1>4. ASSUME NEW restartId \in RestartIds, NEW expected \in 0 .. MaxGeneration,
             LineageRestart(restartId, expected)
      PROVE  AddsGenerations
  <2>1. /\ \A i \in 1 .. Len(Lineage) : Lineage[i].restartId # restartId
        /\ gens' = Opened(Lineage, "restart", restartId)
        /\ "restart" \in Kinds /\ restartId \in RestartIds \cup {NoRestart}
    BY <1>1, <1>4 DEF LineageRestart, Kinds
  <2>2. /\ Len(gens') = Len(Lineage) + 1
        /\ \A i \in 1 .. Len(Lineage) : gens'[i] = Lineage[i]
        /\ gens'[Len(Lineage) + 1].restartId = restartId
    BY <1>1, <2>1, OpenedFacts
  <2> QED
    BY <1>1, <2>1, <2>2 DEF AddsGenerations
<1>5. ASSUME NEW g \in 0 .. MaxGeneration, NEW expected \in 0 .. MaxGeneration,
             NEW p \in Progress, LineageReattach(g, expected, p)
      PROVE  AddsGenerations
  <2>1. /\ Len(gens') \in Nat
        /\ Len(gens') > Len(gens)
        /\ \A i \in 1 .. Len(gens') : i > Len(gens) => gens'[i].restartId = NoRestart
        /\ \A i \in 1 .. Len(gens) : gens'[i] = gens[i]
    BY <1>5, ReattachFacts, LedgerAssumption
  <2> QED
    BY <1>1, <2>1 DEF AddsGenerations
<1>6. \A kind \in {"player_restore", "admin_restore", "erased"} : kind \in Kinds
  BY DEF Kinds
<1>7. ASSUME NEW s \in Seqs, NEW expected \in 0 .. MaxGeneration,
             LineageRestoreToSeq(s, expected) \/ AdminRestore(s, expected)
      PROVE  AddsGenerations
  BY <1>3, <1>6, <1>7 DEF LineageRestoreToSeq, AdminRestore, SeedFrom
<1>8. CASE AdminErase
  BY <1>3, <1>6, <1>8 DEF AdminErase
<1>9. ASSUME NEW p \in Progress, QaImport(p)
      PROVE  AddsGenerations
  BY <1>3, <1>6, <1>9 DEF QaImport
<1>10. ASSUME NEW write \in Writes, SavesWrite(write)
       PROVE  AddsGenerations
  BY <1>2, <1>10 DEF SavesWrite
<1> QED
  BY <1>4, <1>5, <1>7, <1>8, <1>9, <1>10 DEF Store

\* Nothing but the commands of Store adds generations.
LEMMA GensStep ==
  ASSUME TypeOK, [Next]_vars
  PROVE  AddsGenerations \/ gens' = gens
<1>1. CASE Store
  BY <1>1, StoreAddsGenerations
<1>2. CASE \E s \in Seqs, action \in {"promote", "reject"} : SavesReview(s, action)
  BY <1>2 DEF SavesReview
<1>3. CASE PruneSaveBlobs \/ PruneRefusedBlobs \/ PruneDelete
  BY <1>3 DEF PruneSaveBlobs, PruneRefusedBlobs, PruneDelete
<1>4. CASE ReadGeneration \/ ReadAnchor \/ ReadBlob
  BY <1>4 DEF ReadGeneration, ReadAnchor, ReadBlob
<1>5. CASE UNCHANGED vars
  BY <1>5 DEF vars
<1> QED
  BY <1>1, <1>2, <1>3, <1>4, <1>5, NextCases

\* However a restart is retried, its id opens one generation.
THEOREM RestartsOnce == Spec => []RestartOnce
<1>1. Init => TypeOK /\ RestartOnce
  BY TypeInit DEF Init, RestartOnce
<1>2. ASSUME TypeOK, RestartOnce, [Next]_vars
      PROVE  TypeOK' /\ RestartOnce'
  <2>1. TypeOK'
    BY <1>2, TypeStep
  <2>2. CASE gens' = gens
    BY <1>2, <2>1, <2>2, Zenon DEF RestartOnce
  <2>3. CASE AddsGenerations
    <3>1. DOMAIN gens = 1 .. Len(gens) /\ DOMAIN gens' = 1 .. Len(gens')
          /\ Len(gens) \in Nat /\ Len(gens') \in Nat
      BY <1>2, <2>1 DEF TypeOK
    <3>2. SUFFICES ASSUME NEW i \in 1 .. Len(gens'), NEW j \in 1 .. Len(gens'),
                          gens'[i].restartId = gens'[j].restartId,
                          gens'[i].restartId # NoRestart
                   PROVE  i = j
      BY <2>1, <3>1, Zenon DEF RestartOnce
    <3>3. \A k, l \in 1 .. Len(gens) :
            gens[k].restartId = gens[l].restartId /\ gens[k].restartId # NoRestart => k = l
      BY <1>2, <3>1, Zenon DEF RestartOnce
    <3>4. CASE i <= Len(gens) /\ j <= Len(gens)
      <4>1. i \in 1 .. Len(gens) /\ j \in 1 .. Len(gens)
        BY <3>1, <3>4
      <4>2. gens'[i] = gens[i] /\ gens'[j] = gens[j]
        BY <2>3, <4>1 DEF AddsGenerations
      <4> QED
        BY <3>2, <3>3, <4>1, <4>2
    <3>5. ASSUME NEW k \in 1 .. Len(gens'), NEW l \in 1 .. Len(gens'),
                 k > Len(gens), l <= Len(gens), gens'[k].restartId # NoRestart
          PROVE  gens'[k].restartId # gens'[l].restartId
      <4>1. l \in 1 .. Len(gens)
        BY <3>1, <3>5
      <4>2. gens'[l] = gens[l]
        BY <2>3, <4>1 DEF AddsGenerations
      <4>3. gens[l].restartId # gens'[k].restartId
        BY <2>3, <3>5, <4>1 DEF AddsGenerations
      <4> QED
        BY <4>2, <4>3
    <3>6. ~(i > Len(gens) /\ j <= Len(gens)) /\ ~(i <= Len(gens) /\ j > Len(gens))
      <4>1. gens'[j].restartId # NoRestart
        BY <3>2
      <4> QED
        BY <3>2, <3>5, <4>1
    <3>7. CASE i > Len(gens) /\ j > Len(gens)
      BY <2>3, <3>1, <3>2, <3>7 DEF AddsGenerations
    <3> QED
      BY <3>1, <3>4, <3>5, <3>6, <3>7
  <2> QED
    BY <1>2, <2>1, <2>2, <2>3, GensStep
<1> QED
  BY <1>1, <1>2, PTL DEF Spec

-----------------------------------------------------------------------------
(* Superseded generations.                                                 *)

\* What a generation older than the active one presents as its anchor candidates
\* never changes again.
THEOREM SupersededAlwaysFrozen == Spec => SupersededGenerationFrozen
<1>1. ASSUME TypeOK, [Next]_vars
      PROVE  [\A g \in 0 .. ActiveGeneration - 1 : Eligible(g)' = Eligible(g)]_vars
  <2>1. SUFFICES ASSUME NEW g \in 0 .. ActiveGeneration - 1, Next
                 PROVE  Eligible(g)' = Eligible(g)
    BY <1>1
  <2>2. TypeOK'
    BY <1>1, TypeStep
  <2>3. /\ ActiveGeneration \in Int /\ ActiveGeneration' \in Int
        /\ g \in Int /\ g < ActiveGeneration
    BY <1>1, <2>2, RowTypes
  <2>4. CASE Store
    <3>1. StoreStep /\ g # ActiveGeneration'
      BY <1>1, <2>3, <2>4, StoreFacts DEF StoreStep
    <3>2. Eligible(g) \subseteq Eligible(g)' /\ Eligible(g)' \subseteq Seqs
      BY <1>1, <2>2, <2>3, <3>1, EligibleAfterStore
    <3> QED
      BY <1>1, <2>2, <2>3, <3>1, <3>2, EligibleAfterStore
  <2>5. ASSUME NEW s \in Seqs, NEW action \in {"promote", "reject"}, SavesReview(s, action)
        PROVE  Eligible(g)' = Eligible(g)
    BY <1>1, <2>3, <2>5, EligibleAfterReview
  <2>6. CASE PruneSaveBlobs \/ PruneRefusedBlobs \/ PruneDelete
    BY <1>1, <2>3, <2>6, LineageUntouched DEF PruneSaveBlobs, PruneRefusedBlobs, PruneDelete
  <2>7. CASE ReadGeneration \/ ReadAnchor \/ ReadBlob
    BY <1>1, <2>3, <2>7, LineageUntouched DEF ReadGeneration, ReadAnchor, ReadBlob
  <2> QED
    BY <2>1, <2>4, <2>5, <2>6, <2>7, NextCases
<1> QED
  BY <1>1, TypeCorrect, PTL DEF Spec, SupersededGenerationFrozen

-----------------------------------------------------------------------------
(* The ledger implements the register: within a generation only deeper     *)
(* saves are added, and the way back opens a newer generation.             *)

Trail == {snaps[s].progress : s \in Eligible(ActiveGeneration)}

\* A StoreStep deepens the trail, opens a generation or changes neither.
LEMMA StoreRefines ==
  ASSUME RetentionInv, RetentionInv', StoreStep
  PROVE  Register!RegisterNext \/ (ActiveGeneration' = ActiveGeneration /\ Trail' = Trail)
<1>1. /\ TypeOK /\ TypeOK'
      /\ \A s \in Seqs : s \in Seqs' /\ snaps'[s] = snaps[s] /\ reviews'[s] = reviews[s]
      /\ ActiveGeneration <= ActiveGeneration'
  BY DEF RetentionInv, StoreStep
<1>2. ActiveGeneration \in Int /\ ActiveGeneration' \in Int
  BY <1>1, RowTypes
<1>3. PICK g \in Int, new \in Int : g = ActiveGeneration' /\ new = Len(snaps) + 1
  BY <1>1, RowTypes
<1>4. /\ \A s \in Seqs : s \in Eligible(g)' <=> s \in Eligible(g)
      /\ \A n \in Eligible(g)' \ Seqs :
           n = new /\ n \in Seqs' \ Seqs /\ snaps'[n].disposition = "anchored"
      /\ Eligible(g) \subseteq Seqs
  BY <1>1, <1>3, EligibleAfterStore DEF Eligible
<1>5. Trail' = {snaps'[s].progress : s \in Eligible(g)'}
  BY <1>3 DEF Trail, Eligible
<1>6. new \in Seqs' => snaps'[new].progress \in Progress /\ snaps'[new].progress \in Nat
  <2>1. ASSUME new \in Seqs' PROVE snaps'[new] \in Snapshot
    BY <1>1, <2>1 DEF TypeOK, Seqs
  <2> QED
    BY <2>1, LedgerAssumption DEF Snapshot
<1>7. CASE ActiveGeneration' > ActiveGeneration
  <2>1. Eligible(g) = {}
    BY <1>1, <1>2, <1>3, <1>7, RowTypes DEF Eligible
  <2>2. Eligible(g)' = {} \/ (Eligible(g)' = {new} /\ new \in Seqs')
    BY <1>4, <2>1
  <2>3. Trail' = {} \/ \E p \in Progress : Trail' = {p}
    BY <1>5, <1>6, <2>2
  <2> QED
    BY <1>2, <1>7, <2>3 DEF Register!RegisterNext, Register!OpenGeneration, Trail
<1>8. CASE ActiveGeneration' = ActiveGeneration /\ new \notin Eligible(g)' \ Seqs
  <2>1. Eligible(g)' = Eligible(ActiveGeneration)
    BY <1>3, <1>4, <1>8
  <2>2. Trail' = Trail
    BY <1>1, <1>3, <1>4, <1>5, <1>8, <2>1 DEF Trail
  <2> QED
    BY <1>8, <2>2
<1>9. CASE ActiveGeneration' = ActiveGeneration /\ new \in Eligible(g)' \ Seqs
  <2> DEFINE p == snaps'[new].progress
  <2>1. /\ new \in Seqs' \ Seqs
        /\ p \in Progress /\ p \in Nat
        /\ Eligible(g)' = Eligible(ActiveGeneration) \cup {new}
    BY <1>3, <1>4, <1>6, <1>9
  <2>2. Trail' = Trail \cup {p}
    <3>1. Trail = {snaps'[t].progress : t \in Eligible(g)}
      BY <1>1, <1>3, <1>4, <1>9 DEF Trail
    <3> QED
      BY <1>3, <1>5, <1>9, <2>1, <3>1
  <2>3. \A t \in Eligible(ActiveGeneration) : snaps[t].progress <= p
    <3>1. CASE Eligible(ActiveGeneration) = {}
      BY <3>1
    <3>2. CASE Eligible(ActiveGeneration) # {}
      <4>1. PICK a : a \in AnchorRow(ActiveGeneration)
        BY <3>2 DEF RetentionInv, AnchorExists
      <4>2. /\ a \in Eligible(ActiveGeneration) /\ a \in blobs
            /\ \A t \in Eligible(ActiveGeneration) : Deeper(a, t)
        BY <4>1 DEF RetentionInv, AnchorRetained, AnchorRow
      <4>3. a \in StoredHead(ActiveGeneration)
        BY <4>2 DEF StoredHead
      <4>4. snaps[a].progress <= p
        BY <1>4, <1>9, <2>1, <4>3 DEF StoreStep
      <4>5. ASSUME NEW t \in Eligible(ActiveGeneration) PROVE snaps[t].progress <= p
        <5>1. Deeper(a, t) /\ a \in Seqs /\ t \in Seqs
          BY <4>2 DEF Eligible
        <5>2. snaps[t].progress \in Nat /\ snaps[a].progress \in Nat
          BY <1>1, <5>1, RowTypes
        <5> HIDE DEF p
        <5> QED
          BY <2>1, <4>4, <5>1, <5>2 DEF Deeper
      <4> QED
        BY <4>5
    <3> QED
      BY <3>1, <3>2
  <2>4. \A q \in Trail : q <= p
    BY <2>3 DEF Trail
  <2>5. ActiveGeneration >= 0
    <3>1. snaps'[new].generation = ActiveGeneration' /\ snaps'[new].generation \in Nat
      <4>1. snaps'[new].generation \in 0 .. ActiveGeneration'
        BY <1>1, <2>1 DEF TypeOK
      <4> QED
        BY <1>2, <2>1, <4>1 DEF StoreStep
    <3> QED
      BY <1>9, <3>1
  <2> QED
    BY <1>9, <2>1, <2>2, <2>4, <2>5 DEF Register!RegisterNext, Register!Deepen, Trail
<1> QED
  BY <1>1, <1>2, <1>7, <1>8, <1>9

\* So does a review: what it promotes is as deep as the anchor.
LEMMA ReviewRefines ==
  ASSUME RetentionInv, NEW s \in Seqs, NEW action \in {"promote", "reject"},
         SavesReview(s, action)
  PROVE  Register!RegisterNext \/ (ActiveGeneration' = ActiveGeneration /\ Trail' = Trail)
<1>1. PICK g \in Int : g = ActiveGeneration
  BY DEF RetentionInv, TypeOK, ActiveGeneration
<1>2. /\ snaps' = snaps /\ ActiveGeneration' = ActiveGeneration
      /\ Eligible(g)' = IF action = "promote" THEN Eligible(g) \cup {s} ELSE Eligible(g)
  BY <1>1, EligibleAfterReview DEF RetentionInv
<1>3. Trail' = {snaps[t].progress : t \in Eligible(g)'}
  BY <1>1, <1>2 DEF Trail, Eligible
<1>4. CASE action # "promote"
  BY <1>1, <1>2, <1>3, <1>4 DEF Trail
<1>5. CASE action = "promote"
  <2> DEFINE p == snaps[s].progress
  <2>1. Trail' = Trail \cup {p}
    BY <1>1, <1>2, <1>3, <1>5 DEF Trail
  <2>2. /\ \A t \in Seqs : snaps[t].progress \in Nat
        /\ p \in Progress /\ p \in Nat
        /\ ActiveGeneration \in Nat
    <3>1. \A t \in Seqs : snaps[t] \in Snapshot
      BY DEF RetentionInv, TypeOK, Seqs
    <3>2. \A t \in Seqs : snaps[t].progress \in Progress
      BY <3>1 DEF Snapshot
    <3>3. snaps[s].generation = ActiveGeneration /\ snaps[s].generation \in 0 .. ActiveGeneration
      BY DEF SavesReview, RetentionInv, TypeOK
    <3>4. ActiveGeneration \in Nat
      BY <1>1, <3>3
    <3>5. \A t \in Seqs : snaps[t].progress \in Nat
      BY <3>2, LedgerAssumption
    <3> QED
      BY <3>2, <3>4, <3>5
  <2>3. \A t \in Eligible(ActiveGeneration) : snaps[t].progress <= p
    <3>1. CASE Eligible(ActiveGeneration) = {}
      BY <3>1
    <3>2. CASE Eligible(ActiveGeneration) # {}
      <4>1. PICK a : a \in AnchorRow(ActiveGeneration)
        BY <3>2 DEF RetentionInv, AnchorExists
      <4>2. /\ a \in Eligible(ActiveGeneration)
            /\ \A t \in Eligible(ActiveGeneration) : Deeper(a, t)
            /\ p >= snaps[a].progress
        BY <1>5, <4>1 DEF AnchorRow, SavesReview
      <4>3. ASSUME NEW t \in Eligible(ActiveGeneration) PROVE snaps[t].progress <= p
        <5>1. Deeper(a, t) /\ a \in Seqs /\ t \in Seqs
          BY <4>2 DEF Eligible
        <5>2. snaps[t].progress \in Nat /\ snaps[a].progress \in Nat
          BY <2>2, <5>1
        <5> HIDE DEF p
        <5> QED
          BY <2>2, <4>2, <5>1, <5>2 DEF Deeper
      <4> QED
        BY <4>3
    <3> QED
      BY <3>1, <3>2
  <2>4. \A q \in Trail : q <= p
    BY <2>3 DEF Trail
  <2> QED
    <3>1. ActiveGeneration >= 0 /\ UNCHANGED ActiveGeneration
      BY <1>2, <2>2
    <3>2. \E q \in Progress : /\ \A r \in Trail : r <= q
                              /\ Trail' = Trail \cup {q}
      BY <2>1, <2>2, <2>4
    <3> QED
      BY <3>1, <3>2 DEF Register!RegisterNext, Register!Deepen, Trail
<1> QED
  BY <1>4, <1>5

\* Every behaviour of the ledger is one of the register: the depth of a
\* generation never regresses, whatever is pruned, reviewed or erased.
THEOREM LedgerImplementsRegister == Spec => RegisterRefined
<1>1. Init => Register!RegisterInit
  <2>1. Init => Seqs = {} /\ ActiveGeneration = -1
    BY DEF Init, Seqs, ActiveGeneration
  <2> QED
    BY <2>1 DEF Register!RegisterInit, Eligible
<1>2. ASSUME RetentionInv, [Next]_vars
      PROVE  [Register!RegisterNext]_(Register!rvars)
  <2>1. RetentionInv' /\ TypeOK
    BY <1>2, RetentionStep DEF RetentionInv
  <2>2. SUFFICES Register!RegisterNext \/ (ActiveGeneration' = ActiveGeneration /\ Trail' = Trail)
    BY DEF Register!rvars, Trail
  <2>3. CASE Store
    BY <1>2, <2>1, <2>3, StoreFacts, StoreRefines
  <2>4. ASSUME NEW s \in Seqs, NEW action \in {"promote", "reject"}, SavesReview(s, action)
        PROVE  Register!RegisterNext \/ (ActiveGeneration' = ActiveGeneration /\ Trail' = Trail)
    BY <1>2, <2>4, ReviewRefines
  <2>5. CASE PruneSaveBlobs \/ PruneRefusedBlobs \/ PruneDelete
    BY <2>1, <2>5, LineageUntouched
    DEF PruneSaveBlobs, PruneRefusedBlobs, PruneDelete, Trail
  <2>6. CASE ReadGeneration \/ ReadAnchor \/ ReadBlob
    BY <2>1, <2>6, LineageUntouched DEF ReadGeneration, ReadAnchor, ReadBlob, Trail
  <2>7. CASE UNCHANGED vars
    BY <2>1, <2>7, LineageUntouched DEF vars, Trail
  <2> QED
    BY <1>2, <2>3, <2>4, <2>5, <2>6, <2>7, NextCases
<1>3. Spec => []RetentionInv
  BY RetentionInit, RetentionStep, PTL DEF Spec
<1> QED
  BY <1>1, <1>2, <1>3, PTL DEF Spec, RegisterRefined, Register!RegisterSpec
=============================================================================

----------------------------- MODULE SaveLedger -----------------------------
(***************************************************************************)
(* The server's save ledger of one player: generations, append-only        *)
(* snapshots, prunable blobs and terminal reviews (packages/server,        *)
(* features/saves, features/lineage, db/snapshots.ts and the SECURITY      *)
(* DEFINER functions of migration 0011).                                   *)
(*                                                                         *)
(* Every command below runs in one transaction that holds the player's     *)
(* advisory lock before its first read, so it is one step.  Two things run *)
(* beside the lock and are split where they can be overtaken: the pruning  *)
(* job, whose DELETE decides from its statement's snapshot and deletes     *)
(* later, and GET saves/current, four statements of their own.             *)
(* Definitions marked "Fault" are bugs the properties are tried against;   *)
(* nothing uses them.                                                      *)
(***************************************************************************)
EXTENDS Integers, Sequences, FiniteSets

CONSTANTS
  Progress,             \* the progress values saves may carry
  RestartIds,           \* client-minted restart ids
  KeepRecent,           \* retention: newest K rows
  KeepGenerations,      \* retention: deepest anchored row of the last G generations
  RefusedBlobsPerHour,  \* refused blobs kept per hour
  ReattachEnabled,      \* liveops: the operator allows lineage.reattach
  Lab,                  \* the deployment registers qa.import
  MaxSeq,               \* bound: snapshot rows
  MaxGeneration         \* bound: generation numbers

ASSUME LedgerAssumption ==
  /\ Progress \subseteq Nat
  /\ KeepRecent \in Nat
  /\ KeepGenerations \in Nat
  /\ RefusedBlobsPerHour \in Nat
  /\ ReattachEnabled \in BOOLEAN
  /\ Lab \in BOOLEAN
  /\ MaxSeq \in Nat
  /\ MaxGeneration \in Nat

VARIABLES
  gens,      \* generations rows in order: generation g is gens[g + 1]
  snaps,     \* save_snapshots rows by seq
  blobs,     \* the seqs that have a save_blobs row
  reviews,   \* save_reviews: the action taken per seq, or "none"
  erased,    \* players.erased_at IS NOT NULL
  doomed,    \* blobs a running prune statement has decided to delete
  reading    \* GET saves/current: where it is and what it has read

vars == <<gens, snaps, blobs, reviews, erased, doomed, reading>>

NoRestart == "none"
Kinds == {"initial", "restart", "player_restore", "admin_restore", "reattach", "erased"}
Dispositions == {"anchored", "stored_quarantined", "stored_refused"}
Snapshot == [generation : Int, progress : Progress, disposition : Dispositions]
Generation == [kind : Kinds, restartId : RestartIds \cup {NoRestart}]
NoRow == 0
Reading ==
  [pc : {"idle", "anchor", "blob", "done"}, generation : Int, anchor : Nat, blob : SUBSET Nat]
Idle == [pc |-> "idle", generation |-> -1, anchor |-> NoRow, blob |-> {}]

Seqs == 1 .. Len(snaps)

-----------------------------------------------------------------------------
(* Reads of the ledger.                                                    *)

\* activeGeneration: the newest generations row.
ActiveGeneration == Len(gens) - 1

ActiveKind == gens[Len(gens)].kind

\* The rows that may be the anchor of generation g: anchored, or quarantined
\* and promoted.
Eligible(g) ==
  {s \in Seqs : /\ snaps[s].generation = g
                /\ snaps[s].disposition = "anchored" \/ reviews[s] = "promote"}

\* ORDER BY progress DESC, seq DESC: s sorts before t.
Deeper(s, t) ==
  \/ snaps[s].progress > snaps[t].progress
  \/ snaps[s].progress = snaps[t].progress /\ s >= t

\* anchorRow: the first eligible row in that order (at most one).
AnchorRow(g) == {s \in Eligible(g) : \A t \in Eligible(g) : Deeper(s, t)}

\* storedHead: the same among the rows that still have a blob.
StoredHead(g) ==
  {s \in Eligible(g) \cap blobs : \A t \in Eligible(g) \cap blobs : Deeper(s, t)}

\* Quarantined rows nobody has reviewed.
PendingReview ==
  {s \in Seqs : snaps[s].disposition = "stored_quarantined" /\ reviews[s] = "none"}

RefusedBlobs == {s \in blobs : snaps[s].disposition = "stored_refused"}

-----------------------------------------------------------------------------
Init ==
  /\ gens = <<>>
  /\ snaps = <<>>
  /\ blobs = {}
  /\ reviews = [s \in 1 .. MaxSeq |-> "none"]
  /\ erased = FALSE
  /\ doomed = {}
  /\ reading = Idle

\* ensureLineage: the generations rows once the initial one is there.
Lineage ==
  IF gens = <<>> THEN <<[kind |-> "initial", restartId |-> NoRestart]>> ELSE gens

\* openGeneration on top of rows gs.
Opened(gs, kind, restartId) == Append(gs, [kind |-> kind, restartId |-> restartId])

\* insertSnapshot under the next seq, with its blob when there is one to keep.
InsertSnapshot(generation, progress, disposition, withBlob) ==
  /\ Len(snaps) < MaxSeq
  /\ snaps' = Append(snaps, [generation |-> generation, progress |-> progress,
                             disposition |-> disposition])
  /\ blobs' = IF withBlob THEN blobs \cup {Len(snaps) + 1} ELSE blobs

-----------------------------------------------------------------------------
(* saves.write                                                             *)

\* What a write may carry, as far as placement looks at it.  "form" is what
\* decoding and the game policy made of the blob: valid, invalid (decoded and
\* rejected) or garbled (not decoded).  "suspect": one of the four flags that send
\* a save to quarantine was raised.
Writes ==
  [generation : 0 .. MaxGeneration, progress : Progress,
   form : {"valid", "invalid", "garbled"}, suspect : BOOLEAN]

\* Fault: placement does not compare depths.
RefusedButForDepth(write, g) ==
  write.generation # g \/ write.form # "valid"

\* place: where a write lands when g is the active generation.
Refused(write, g) ==
  \/ write.generation # g
  \/ write.form # "valid"
  \/ \E h \in StoredHead(g) : write.progress < snaps[h].progress

Place(write, g) ==
  IF Refused(write, g) THEN "stored_refused"
  ELSE IF write.suspect THEN "stored_quarantined" ELSE "anchored"

\* Of the refused blobs, "recent" came within the hour (time is not modelled).
KeepBlob(write, disposition, recent) ==
  /\ write.form # "garbled"
  /\ disposition = "stored_refused" => recent < RefusedBlobsPerHour

SavesWrite(write) ==
  LET g == Len(Lineage) - 1
      disposition == Place(write, g)
  IN /\ ~erased
     /\ gens' = Lineage
     /\ \E recent \in 0 .. Cardinality(RefusedBlobs) :
          InsertSnapshot(g, write.progress, disposition,
                         KeepBlob(write, disposition, recent))
     /\ UNCHANGED <<reviews, erased, doomed, reading>>

-----------------------------------------------------------------------------
(* saves.review: promote_snapshot.                                         *)

\* Fault: a review promotes in any generation, at any depth.
SavesReviewAnyGeneration(s, action) ==
  /\ s \in Seqs
  /\ reviews[s] = "none"
  /\ snaps[s].disposition = "stored_quarantined"
  /\ action = "promote" => s \in blobs
  /\ reviews' = [reviews EXCEPT ![s] = action]
  /\ UNCHANGED <<gens, snaps, blobs, erased, doomed, reading>>

SavesReview(s, action) ==
  /\ s \in Seqs
  /\ reviews[s] = "none"
  /\ snaps[s].disposition = "stored_quarantined"
  /\ snaps[s].generation = ActiveGeneration
  /\ action = "promote" =>
       /\ s \in blobs
       /\ \A a \in AnchorRow(ActiveGeneration) : snaps[s].progress >= snaps[a].progress
  /\ reviews' = [reviews EXCEPT ![s] = action]
  /\ UNCHANGED <<gens, snaps, blobs, erased, doomed, reading>>

-----------------------------------------------------------------------------
(* Lineage commands.                                                       *)

\* Fault: a restart id already used opens another generation.
LineageRestartUnkeyed(restartId, expected) ==
  /\ expected = Len(Lineage) - 1
  /\ Len(Lineage) - 1 < MaxGeneration
  /\ gens' = Opened(Lineage, "restart", restartId)
  /\ UNCHANGED <<snaps, blobs, reviews, erased, doomed, reading>>

\* A restart id that already opened a generation is answered from its row.
LineageRestart(restartId, expected) ==
  /\ \A i \in DOMAIN Lineage : Lineage[i].restartId # restartId
  /\ expected = Len(Lineage) - 1
  /\ Len(Lineage) - 1 < MaxGeneration
  /\ gens' = Opened(Lineage, "restart", restartId)
  /\ UNCHANGED <<snaps, blobs, reviews, erased, doomed, reading>>

\* seedFrom: a new generation whose first row is an anchored copy of row s.
SeedFrom(s, kind) ==
  /\ s \in blobs
  /\ Len(Lineage) - 1 < MaxGeneration
  /\ gens' = Opened(Lineage, kind, NoRestart)
  /\ InsertSnapshot(Len(Lineage), snaps[s].progress, "anchored", TRUE)
  /\ UNCHANGED <<reviews, erased, doomed, reading>>

LineageRestoreToSeq(s, expected) ==
  /\ expected = Len(Lineage) - 1
  /\ SeedFrom(s, "player_restore")

AdminRestore(s, expected) ==
  /\ expected = Len(Lineage) - 1
  /\ SeedFrom(s, "admin_restore")

\* Fault: one generation too few is opened.
LineageReattachOneShort(clientGeneration, expected, progress) ==
  /\ ReattachEnabled
  /\ expected = Len(Lineage) - 1
  /\ clientGeneration > Len(Lineage) - 1
  /\ gens' = [i \in 1 .. clientGeneration |->
                IF i <= Len(Lineage) THEN Lineage[i]
                ELSE [kind |-> "reattach", restartId |-> NoRestart]]
  /\ InsertSnapshot(clientGeneration, progress, "anchored", TRUE)
  /\ UNCHANGED <<reviews, erased, doomed, reading>>

\* Generations are opened up to the client's number, then its save is stored.
LineageReattach(clientGeneration, expected, progress) ==
  /\ ReattachEnabled
  /\ expected = Len(Lineage) - 1
  /\ clientGeneration > Len(Lineage) - 1
  /\ gens' = [i \in 1 .. clientGeneration + 1 |->
                IF i <= Len(Lineage) THEN Lineage[i]
                ELSE [kind |-> "reattach", restartId |-> NoRestart]]
  /\ InsertSnapshot(clientGeneration, progress, "anchored", TRUE)
  /\ UNCHANGED <<reviews, erased, doomed, reading>>

AdminErase ==
  /\ Len(Lineage) - 1 < MaxGeneration
  /\ gens' = Opened(Lineage, "erased", NoRestart)
  /\ blobs' = {}
  /\ erased' = TRUE
  /\ UNCHANGED <<snaps, reviews, doomed, reading>>

QaImport(progress) ==
  /\ Lab
  /\ Len(Lineage) - 1 < MaxGeneration
  /\ gens' = Opened(Lineage, "admin_restore", NoRestart)
  /\ InsertSnapshot(Len(Lineage), progress, "anchored", TRUE)
  /\ UNCHANGED <<reviews, erased, doomed, reading>>

-----------------------------------------------------------------------------
(* The job saves.prune, one DELETE statement at a time.                    *)

Newest == {s \in Seqs : s > Len(snaps) - KeepRecent}

DeepestAnchored ==
  {s \in Seqs :
     /\ snaps[s].disposition = "anchored"
     /\ snaps[s].generation > ActiveGeneration - KeepGenerations
     /\ \A t \in Seqs : /\ snaps[t].disposition = "anchored"
                        /\ snaps[t].generation = snaps[s].generation
                        => Deeper(s, t)}

\* Fault: the plan forgets the anchor.
KeptWithoutAnchor(dated) ==
  Newest \cup DeepestAnchored \cup dated \cup PendingReview

\* Fault: the plan forgets the rows awaiting review.
KeptWithoutPending(dated) ==
  Newest \cup DeepestAnchored \cup dated \cup AnchorRow(ActiveGeneration)

\* The rows the plan keeps for their dates (one per day, purchase-bearing)
\* are "dated": any rows, since time and purchases are not modelled.
KeptByPlan(dated) ==
  Newest \cup DeepestAnchored \cup dated \cup PendingReview \cup AnchorRow(ActiveGeneration)

PruneSaveBlobs ==
  /\ doomed = {}
  /\ \E dated \in SUBSET blobs : doomed' = blobs \ KeptByPlan(dated)
  /\ UNCHANGED <<gens, snaps, blobs, reviews, erased, reading>>

\* Refused blobs past the hourly limit; rows of one hour are ranked by seq,
\* and which rows share an hour is left open.
PruneRefusedBlobs ==
  /\ doomed = {}
  /\ doomed' \in SUBSET {s \in RefusedBlobs :
                   Cardinality({t \in 1 .. s - 1 : snaps[t].disposition = "stored_refused"})
                     >= RefusedBlobsPerHour}
  /\ UNCHANGED <<gens, snaps, blobs, reviews, erased, reading>>

\* The rows the statement found are deleted; those that vanished are skipped.
PruneDelete ==
  /\ doomed # {}
  /\ blobs' = blobs \ doomed
  /\ doomed' = {}
  /\ UNCHANGED <<gens, snaps, reviews, erased, reading>>

-----------------------------------------------------------------------------
(* GET saves/current: no transaction around its statements.                *)

ReadGeneration ==
  /\ reading.pc \in {"idle", "done"}
  /\ gens # <<>>
  /\ ActiveKind # "erased"
  /\ reading' = [Idle EXCEPT !.pc = "anchor", !.generation = ActiveGeneration]
  /\ UNCHANGED <<gens, snaps, blobs, reviews, erased, doomed>>

ReadAnchor ==
  /\ reading.pc = "anchor"
  /\ \/ /\ AnchorRow(reading.generation) = {}
        /\ reading' = [reading EXCEPT !.pc = "done"]
     \/ \E s \in AnchorRow(reading.generation) :
          reading' = [reading EXCEPT !.pc = "blob", !.anchor = s]
  /\ UNCHANGED <<gens, snaps, blobs, reviews, erased, doomed>>

ReadBlob ==
  /\ reading.pc = "blob"
  /\ reading' = [reading EXCEPT !.pc = "done", !.blob = blobs \cap {reading.anchor}]
  /\ UNCHANGED <<gens, snaps, blobs, reviews, erased, doomed>>

-----------------------------------------------------------------------------
Next ==
  \/ \E write \in Writes : SavesWrite(write)
  \/ \E s \in Seqs, action \in {"promote", "reject"} : SavesReview(s, action)
  \/ \E expected \in 0 .. MaxGeneration :
       \/ \E restartId \in RestartIds : LineageRestart(restartId, expected)
       \/ \E s \in Seqs : LineageRestoreToSeq(s, expected) \/ AdminRestore(s, expected)
       \/ \E g \in 0 .. MaxGeneration, p \in Progress : LineageReattach(g, expected, p)
  \/ AdminErase
  \/ \E p \in Progress : QaImport(p)
  \/ PruneSaveBlobs
  \/ PruneRefusedBlobs
  \/ PruneDelete
  \/ ReadGeneration
  \/ ReadAnchor
  \/ ReadBlob

Spec == Init /\ [][Next]_vars

-----------------------------------------------------------------------------
(* Properties.                                                             *)

\* Every variable has its type; the rows of a generation refer to one that exists.
TypeOK ==
  /\ gens \in Seq(Generation)
  /\ snaps \in Seq(Snapshot)
  /\ Len(snaps) <= MaxSeq
  /\ blobs \subseteq Seqs
  /\ doomed \subseteq Seqs
  /\ reviews \in [1 .. MaxSeq -> {"none", "promote", "reject"}]
  /\ \A s \in 1 .. MaxSeq : reviews[s] # "none" => s \in Seqs
  /\ \A s \in Seqs : snaps[s].generation \in 0 .. ActiveGeneration
  /\ erased \in BOOLEAN
  /\ reading \in Reading
  /\ reading.generation <= ActiveGeneration

\* The anchor a player reads always still has its blob, whatever pruning ran
\* beside the writes and reviews that made it the anchor, so the head that
\* placement compares with (rows WITH a blob) is that anchor.
AnchorRetained == AnchorRow(ActiveGeneration) \subseteq blobs

\* A quarantined save of the active generation that awaits review keeps its
\* blob, so that it can still be promoted.
PendingRetained ==
  \A s \in PendingReview : snaps[s].generation = ActiveGeneration => s \in blobs

\* What an older generation presents as its anchor never changes again:
\* nothing is written into it and nothing in it is promoted.
SupersededGenerationFrozen ==
  [][\A g \in 0 .. ActiveGeneration - 1 : Eligible(g)' = Eligible(g)]_vars

\* No restart id opens two generations, however often it is retried.
RestartOnce ==
  \A i, j \in DOMAIN gens :
    gens[i].restartId = gens[j].restartId /\ gens[i].restartId # NoRestart => i = j

\* A response of saves/current that names the anchor carries its blob: the blob
\* can be missing only from an answer the lineage has moved past while it was
\* read (a deeper save or a newer generation took over).
CurrentServed ==
  reading.pc = "done" /\ reading.anchor \in AnchorRow(ActiveGeneration) =>
    reading.anchor \in reading.blob

\* The ledger implements the player's register: a generation's saves only get
\* deeper, and only a newer generation goes back.
Register ==
  INSTANCE SaveRegister WITH
    generation <- ActiveGeneration,
    trail <- {snaps[s].progress : s \in Eligible(ActiveGeneration)}

RegisterRefined == Register!RegisterSpec

\* "erased players: nothing is stored under the old key" (saves/server.ts).
NothingStoredAfterErasure == erased => blobs = {}
=============================================================================

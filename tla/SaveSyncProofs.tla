--------------------------- MODULE SaveSyncProofs ---------------------------
(***************************************************************************)
(* Theorems about SaveSync, a device and the server it syncs with: that a  *)
(* clean device's state is stored, that what it synced is the row its base *)
(* names, that generations never mix, that nothing is sent which was not   *)
(* persisted first, and that the server's end runs the save ledger, for    *)
(* any bounds on saves, generations, commands and progress.                *)
(***************************************************************************)
EXTENDS SaveSync, SequenceTheorems, TLAPS

-----------------------------------------------------------------------------
(* The inductive invariant.  The properties relate the two ends, the       *)
(* device and the server's rows, so what is between them must be known     *)
(* too: the requests, the answers, the heads read and not yet adopted, and *)
(* which state a command id stands for wherever it is met.                 *)

Answer == [kind : {"none", "anchored", "quarantined", "stale", "regression", "mismatch"},
           seq : 0 .. MaxSeq, generation : 0 .. MaxGeneration]
Command == [id : 0 .. MaxIds, state : State, generation : 0 .. MaxGeneration, base : 0 .. MaxSeq]

\* The types of what TypeOK leaves open.
TypeInv ==
  /\ TypeOK
  /\ Len(gens) <= MaxGeneration + 1
  /\ reviews = [s \in 1 .. MaxSeq |-> "none"]
  /\ cmds \in Seq(Command)
  /\ push \in [pc : {"idle", "ready", "sent", "answered", "head"},
               mode : {"capture", "reuse", "reassert", "stale"}, sent : Pending, answer : Answer]
  /\ push.pc \in {"sent", "answered"} => push.sent # NoPending
  /\ acks \subseteq [id : Ids, state : State, answer : Answer]
  /\ synced \subseteq [id : Ids, state : State]
  /\ ids \in 0 .. MaxIds /\ revs \in 0 .. MaxRevs

\* What the rows keep: the saves the server stored, each with its id, and among them those
\* that it anchored.
SaveOf(x) == [id |-> x.id, state |-> x.state]
StoredSaves == {SaveOf(cmds[s]) : s \in {n \in L!Seqs : snaps[n].disposition # "stored_refused"}}
AnchoredSaves == {SaveOf(cmds[s]) : s \in {n \in L!Seqs : snaps[n].disposition = "anchored"}}
StoredStates == {x.state : x \in StoredSaves}

\* An envelope is of one generation, and of one state with its pending; it is clean
\* only of a new game or of a state the server stores.
Sound(e) ==
  /\ e.state.generation = e.generation
  /\ e.pending # NoPending =>
       e.pending.generation = e.generation /\ e.pending.state = e.state /\ e.dirty
  /\ ~e.dirty => e.state.rev = 0 \/ e.state \in StoredStates

LocalInv ==
  /\ Sound(env) /\ Sound(slot)
  /\ live.generation = env.generation
  /\ ~since => live = env.state
  /\ HasPending /\ ~overlaid => slot.pending = env.pending

RowsInv ==
  \A s \in L!Seqs :
    /\ cmds[s].state.generation = cmds[s].generation
    /\ snaps[s].progress = cmds[s].state.depth
    /\ snaps[s].disposition # "stored_refused" => cmds[s].generation = snaps[s].generation

HeadInv ==
  \A x \in Fetchers : head[x].seq # 0 =>
    /\ head[x].seq \in L!Seqs
    /\ snaps[head[x].seq].disposition # "stored_refused"
    /\ snaps[head[x].seq].generation = head[x].generation

WireInv ==
  /\ \A r \in wire : /\ r.state.generation = r.generation
                     /\ r.via = "put" => push.pc = "sent" /\ r.id = push.sent.id
                                                          /\ r.state = push.sent.state
  /\ \A r, q \in wire : r.via = "put" /\ q.via = "put" => r = q

\* An acknowledgement under way is true of the rows, and so is what the player was told.
AnswerInv ==
  /\ push.pc = "answered" =>
       /\ push.answer.kind \in Acked => SaveOf(push.sent) \in StoredSaves
       /\ push.answer.kind = "anchored" => SaveOf(push.sent) \in AnchoredSaves
  /\ \A a \in acks : /\ a.answer.kind \in Acked /\ SaveOf(a) \in StoredSaves
                     /\ a.answer.kind = "anchored" => SaveOf(a) \in AnchoredSaves
  /\ synced \subseteq AnchoredSaves

\* The snapshots there are: minted under an id and not forgotten.
Made ==
  {SaveOf(p) : p \in {q \in {env.pending, slot.pending, push.sent} : q # NoPending}}
    \cup {SaveOf(r) : r \in wire} \cup {SaveOf(a) : a \in acks}
    \cup {SaveOf(cmds[s]) : s \in {n \in L!Seqs : cmds[n].id # 0}}

\* An id stands for one state, wherever it is met.
IdInv == \A x, y \in Made : x.id <= ids /\ (x.id = y.id => x = y)

SyncInv == TypeInv /\ LocalInv /\ RowsInv /\ HeadInv /\ WireInv /\ AnswerInv /\ IdInv

-----------------------------------------------------------------------------
(* The server.  Its steps are steps of the ledger, whose lemmas are taken  *)
(* over for the constants of this instance.                                *)

Ledger == INSTANCE SaveLedgerProofs WITH
            KeepRecent <- 0, KeepGenerations <- 0, RefusedBlobsPerHour <- MaxSeq + 1,
            ReattachEnabled <- FALSE, Lab <- FALSE

\* The ledger's constants are as its own proofs ask.
LEMMA LedgerConstants == Ledger!LedgerAssumption
BY SyncAssumption DEF Ledger!LedgerAssumption

\* SaveSync's instance of the ledger and that of its proofs agree on types,
LEMMA LedgerTypes == L!TypeOK <=> Ledger!TypeOK
BY DEF L!TypeOK, Ledger!TypeOK, L!Seqs, Ledger!Seqs, L!Generation, Ledger!Generation,
       L!Kinds, Ledger!Kinds, L!NoRestart, Ledger!NoRestart, L!Snapshot, Ledger!Snapshot,
       L!Dispositions, Ledger!Dispositions, L!ActiveGeneration, Ledger!ActiveGeneration,
       L!Reading, Ledger!Reading

\* on what a restart does,
LEMMA LedgerRestarts ==
  ASSUME NEW r, NEW e
  PROVE  L!LineageRestart(r, e) <=> Ledger!LineageRestart(r, e)
BY DEF L!LineageRestart, Ledger!LineageRestart, L!Lineage, Ledger!Lineage, L!Opened,
       Ledger!Opened, L!NoRestart, Ledger!NoRestart

\* on what becomes of a write,
LEMMA LedgerPlaces ==
  ASSUME NEW w, NEW g
  PROVE  L!Place(w, g) = Ledger!Place(w, g)
<1>1. L!Eligible(g) = Ledger!Eligible(g)
  BY DEF L!Eligible, Ledger!Eligible, L!Seqs, Ledger!Seqs
<1>2. \A s, t : L!Deeper(s, t) <=> Ledger!Deeper(s, t)
  BY DEF L!Deeper, Ledger!Deeper
<1>3. L!StoredHead(g) = Ledger!StoredHead(g)
  BY <1>1, <1>2 DEF L!StoredHead, Ledger!StoredHead
<1>4. L!Refused(w, g) <=> Ledger!Refused(w, g)
  BY <1>3 DEF L!Refused, Ledger!Refused
<1> QED
  BY <1>4 DEF L!Place, Ledger!Place

\* and on which writes are saves.
LEMMA LedgerWrites ==
  ASSUME NEW w \in L!Writes, L!SavesWrite(w)
  PROVE  w \in Ledger!Writes /\ Ledger!SavesWrite(w)
<1> DEFINE g == Len(L!Lineage) - 1
<1>1. L!Lineage = Ledger!Lineage
  BY DEF L!Lineage, Ledger!Lineage, L!NoRestart, Ledger!NoRestart
<1>2. L!Place(w, g) = Ledger!Place(w, Len(Ledger!Lineage) - 1)
  BY <1>1, LedgerPlaces
<1>3. L!RefusedBlobs = Ledger!RefusedBlobs
  BY DEF L!RefusedBlobs, Ledger!RefusedBlobs
<1>4. L!Cardinality(L!RefusedBlobs) = Ledger!Cardinality(Ledger!RefusedBlobs)
  BY <1>3 DEF L!Cardinality, Ledger!Cardinality
<1>5. PICK recent \in 0 .. L!Cardinality(L!RefusedBlobs) :
        L!InsertSnapshot(g, w.progress, L!Place(w, g), L!KeepBlob(w, L!Place(w, g), recent))
  BY DEF L!SavesWrite
<1>6. L!KeepBlob(w, L!Place(w, g), recent) <=> Ledger!KeepBlob(w, L!Place(w, g), recent)
  BY DEF L!KeepBlob, Ledger!KeepBlob
<1>7. Ledger!InsertSnapshot(g, w.progress, L!Place(w, g),
                            Ledger!KeepBlob(w, L!Place(w, g), recent))
  BY <1>5, <1>6 DEF L!InsertSnapshot, Ledger!InsertSnapshot
<1>8. Ledger!SavesWrite(w)
  <2>1. \E n \in 0 .. Ledger!Cardinality(Ledger!RefusedBlobs) :
          Ledger!InsertSnapshot(Len(Ledger!Lineage) - 1, w.progress,
            Ledger!Place(w, Len(Ledger!Lineage) - 1),
            Ledger!KeepBlob(w, Ledger!Place(w, Len(Ledger!Lineage) - 1), n))
    BY <1>1, <1>2, <1>4, <1>7
  <2> QED
    BY <1>1, <2>1 DEF L!SavesWrite, Ledger!SavesWrite
<1> QED
  BY <1>8 DEF L!Writes, Ledger!Writes

\* What a step does to the rows: nothing, a write of a command whose state is of its
\* own generation, or a restart.
Written(write, command) ==
  /\ L!SavesWrite(write)
  /\ cmds' = Append(cmds, command)
  /\ write.generation = command.generation
  /\ write.progress = command.state.depth
  /\ command.state.generation = command.generation
  /\ command.id # 0 => SaveOf(command) \in Made

ServerStep ==
  \/ UNCHANGED server
  \/ \E write \in L!Writes, command \in Command : Written(write, command)
  \/ \E r \in RestartIds : L!LineageRestart(r, Len(L!Lineage) - 1) /\ UNCHANGED cmds

\* No row changes or goes.
RowsStay ==
  /\ L!Seqs \subseteq L!Seqs'
  /\ \A s \in L!Seqs : cmds'[s] = cmds[s] /\ snaps'[s] = snaps[s]

\* The bounds are numbers, and progress begins at none.
LEMMA Bounds ==
  /\ MaxSeq \in Nat /\ MaxGeneration \in Nat /\ MaxIds \in Nat /\ MaxRevs \in Nat
  /\ 0 \in Progress /\ Progress \subseteq Nat
BY SyncAssumption DEF SyncAssumption

\* The lineage has a first generation and no more than MaxGeneration after it.
LEMMA LineageHere ==
  ASSUME TypeInv
  PROVE  /\ Len(L!Lineage) \in Nat /\ Len(L!Lineage) >= 1
         /\ Len(L!Lineage) - 1 \in 0 .. MaxGeneration
         /\ L!Lineage \in Seq(L!Generation)
         /\ gens # <<>> => L!Lineage = gens
<1>1. gens \in Seq(L!Generation) /\ Len(gens) <= MaxGeneration + 1
  BY DEF TypeInv, TypeOK, L!TypeOK
<1>2. CASE gens = <<>>
  <2> DEFINE first == [kind |-> "initial", restartId |-> L!NoRestart]
  <2>1. first \in L!Generation
    BY DEF L!Generation, L!Kinds
  <2>2. L!Lineage = <<first>>
    BY <1>2 DEF L!Lineage
  <2>3. <<first>> \in Seq(L!Generation) /\ Len(<<first>>) = 1
    BY <2>1
  <2> QED
    BY <1>2, <2>2, <2>3, Bounds
<1>3. CASE gens # <<>>
  BY <1>1, <1>3, Bounds, EmptySeq DEF L!Lineage
<1> QED
  BY <1>2, <1>3

\* A write stores its row last, in the active generation, and refuses what is of another.
LEMMA WriteFacts ==
  ASSUME TypeInv, NEW write \in L!Writes, L!SavesWrite(write)
  PROVE  /\ L!TypeOK'
         /\ Len(snaps) \in Nat /\ Len(snaps') = Len(snaps) + 1
         /\ \A s \in L!Seqs : snaps'[s] = snaps[s]
         /\ snaps'[Len(snaps) + 1].generation = Len(L!Lineage) - 1
         /\ snaps'[Len(snaps) + 1].progress = write.progress
         /\ snaps'[Len(snaps) + 1].disposition # "stored_refused" =>
              write.generation = Len(L!Lineage) - 1
         /\ gens' = L!Lineage /\ reviews' = reviews
<1> DEFINE g == Len(L!Lineage) - 1
           row == [generation |-> g, progress |-> write.progress,
                   disposition |-> L!Place(write, g)]
<1>1. L!TypeOK'
  <2>1. Ledger!TypeOK'
    BY LedgerConstants, LedgerTypes, LedgerWrites, Ledger!SavesWriteIsStoreStep DEF TypeInv, TypeOK
  <2>2. L!TypeOK' <=> Ledger!TypeOK'
    BY LedgerTypes, PTL
  <2> QED
    BY <2>1, <2>2
<1>2. snaps' = Append(snaps, row) /\ gens' = L!Lineage /\ reviews' = reviews
  BY DEF L!SavesWrite, L!InsertSnapshot
<1>3. snaps \in Seq(L!Snapshot)
  BY DEF TypeInv, TypeOK, L!TypeOK
<1>4. /\ Len(snaps) \in Nat /\ Len(snaps') = Len(snaps) + 1
      /\ \A s \in 1 .. Len(snaps) : snaps'[s] = snaps[s]
      /\ snaps'[Len(snaps) + 1] = row
  BY <1>2, <1>3
<1>5. row.disposition # "stored_refused" => write.generation = g
  BY DEF L!Place, L!Refused
<1> QED
  BY <1>1, <1>2, <1>4, <1>5 DEF L!Seqs

\* A restart opens the next generation and drops no save.
LEMMA RestartFacts ==
  ASSUME TypeInv, NEW r \in RestartIds, L!LineageRestart(r, Len(L!Lineage) - 1)
  PROVE  /\ L!TypeOK'
         /\ snaps' = snaps /\ reviews' = reviews
         /\ Len(gens') = Len(L!Lineage) + 1
         /\ Len(L!Lineage) - 1 < MaxGeneration
<1>1. Len(L!Lineage) - 1 \in 0 .. MaxGeneration
  BY LineageHere
<1>2. Ledger!TypeOK'
  BY <1>1, LedgerConstants, LedgerTypes, LedgerRestarts, Ledger!LineageRestartIsStoreStep
     DEF TypeInv, TypeOK
<1>3. L!TypeOK' <=> Ledger!TypeOK'
  BY LedgerTypes, PTL
<1>4. gens' = Append(L!Lineage, [kind |-> "restart", restartId |-> r])
      /\ snaps' = snaps /\ reviews' = reviews /\ Len(L!Lineage) - 1 < MaxGeneration
  BY DEF L!LineageRestart, L!Opened
<1> QED
  BY <1>2, <1>3, <1>4, LineageHere

\* Every step of the system is a step of the server's, or none.
LEMMA ServerSteps ==
  ASSUME TypeInv, WireInv, Next
  PROVE  ServerStep
<1>1. ASSUME NEW r \in wire, Arrive(r)
      PROVE  ServerStep
  <2> DEFINE written == [id |-> r.id, state |-> r.state, generation |-> r.generation, base |-> r.base]
  <2>1. r \in Request /\ r.state.generation = r.generation
    BY DEF TypeInv, TypeOK, WireInv
  <2>2. written \in Command /\ SaveOf(written) \in Made
    BY <2>1, Bounds DEF Request, Command, Ids, Made, SaveOf
  <2>3. ASSUME NEW suspect \in Suspicions
        PROVE  [generation |-> r.generation, progress |-> r.state.depth,
                form |-> "valid", suspect |-> suspect] \in L!Writes
    BY <2>1, SyncAssumption DEF SyncAssumption, Request, State, L!Writes
  <2> QED
    BY <1>1, <2>1, <2>2, <2>3 DEF Arrive, ServerStep, Written
<1>2. CASE OtherSaves
  <2>1. PICK d \in Progress :
          /\ L!SavesWrite([generation |-> Len(L!Lineage) - 1, progress |-> d, form |-> "valid",
                           suspect |-> FALSE])
          /\ cmds' = Append(cmds,
               [id |-> 0, state |-> [generation |-> Len(L!Lineage) - 1, depth |-> d,
                                     rev |-> MaxRevs + 1],
                generation |-> Len(L!Lineage) - 1, base |-> 0])
    BY <1>2 DEF OtherSaves
  <2>2. PICK g \in 0 .. MaxGeneration : g = Len(L!Lineage) - 1
    BY LineageHere
  <2>3. [id |-> 0, state |-> [generation |-> g, depth |-> d, rev |-> MaxRevs + 1],
         generation |-> g, base |-> 0] \in Command
    BY Bounds DEF Command, State
  <2>4. [generation |-> g, progress |-> d, form |-> "valid", suspect |-> FALSE] \in L!Writes
    BY DEF L!Writes
  <2> QED
    BY <2>1, <2>2, <2>3, <2>4 DEF ServerStep, Written
<1>3. CASE OtherRestarts
  BY <1>3 DEF OtherRestarts, ServerStep
<1>4. ASSUME ~OtherSaves, ~OtherRestarts, \A r \in wire : ~Arrive(r)
      PROVE  UNCHANGED server
  <2>1. CASE \/ Play \/ SaveLocal \/ PushStart \/ PushReady \/ PushGivesUp \/ PushAdopts
             \/ PushHeadFails \/ ApplyVerdict
    BY <2>1 DEF Play, SaveLocal, PushStart, PushReady, PushGivesUp, PushAdopts, PushHeadFails,
                ApplyVerdict
  <2>2. CASE Beacon \/ \E a \in acks : BeaconAcked(a)
    BY <2>2 DEF Beacon, BeaconAcked
  <2>3. CASE RecheckStart \/ BootUnreachable \/ Reconcile \/ Act \/ AnswerPrompt \/ BootRepush
    BY <2>3 DEF RecheckStart, BootUnreachable, Reconcile, Act, AnswerPrompt, BootRepush
  <2>4. CASE Reload \/ Announced \/ BroadcastAdopts \/ \E x \in Fetchers : ReadHead(x)
    BY <2>4 DEF Reload, Announced, BroadcastAdopts, ReadHead
  <2>5. CASE \E r \in wire : Lose(r)
    BY <2>5 DEF Lose
  <2> QED
    BY <1>4, <2>1, <2>2, <2>3, <2>4, <2>5 DEF Next
<1> QED
  BY <1>1, <1>2, <1>3, <1>4 DEF ServerStep

\* So rows stay, commands and rows go together, and what a row says of its state holds of
\* the new one.
LEMMA ServerFacts ==
  ASSUME TypeInv, RowsInv, ServerStep
  PROVE  /\ L!TypeOK' /\ Len(gens') <= MaxGeneration + 1 /\ reviews' = reviews
         /\ cmds' \in Seq(Command) /\ Len(cmds') = Len(snaps')
         /\ RowsStay /\ RowsInv'
<1>1. /\ cmds \in Seq(Command) /\ Len(cmds) = Len(snaps) /\ Len(snaps) \in Nat
      /\ L!TypeOK /\ Len(gens) <= MaxGeneration + 1 /\ snaps \in Seq(L!Snapshot)
  BY DEF TypeInv, TypeOK, L!TypeOK
<1>2. CASE UNCHANGED server
  <2>1. L!TypeOK' <=> L!TypeOK
    BY <1>2 DEF server, L!TypeOK, L!Seqs, L!ActiveGeneration
  <2> QED
    BY <1>1, <1>2, <2>1 DEF server, RowsInv, RowsStay, L!Seqs
<1>3. ASSUME NEW write \in L!Writes, NEW command \in Command, Written(write, command)
      PROVE  /\ L!TypeOK' /\ Len(gens') <= MaxGeneration + 1 /\ reviews' = reviews
             /\ cmds' \in Seq(Command) /\ Len(cmds') = Len(snaps')
             /\ RowsStay /\ RowsInv'
  <2> DEFINE n == Len(snaps) + 1
  <2>1. /\ L!TypeOK' /\ Len(snaps') = n
        /\ \A s \in L!Seqs : snaps'[s] = snaps[s]
        /\ snaps'[n].generation = Len(L!Lineage) - 1
        /\ snaps'[n].progress = write.progress
        /\ snaps'[n].disposition # "stored_refused" => write.generation = Len(L!Lineage) - 1
        /\ gens' = L!Lineage /\ reviews' = reviews
    BY <1>3, WriteFacts DEF Written
  <2>2. /\ cmds' \in Seq(Command) /\ Len(cmds') = n
        /\ \A s \in L!Seqs : cmds'[s] = cmds[s]
        /\ cmds'[n] = command
    BY <1>1, <1>3 DEF Written, L!Seqs
  <2>3. L!Seqs' = L!Seqs \cup {n}
    BY <1>1, <2>1 DEF L!Seqs
  <2>4. Len(gens') <= MaxGeneration + 1
    BY <2>1, LineageHere, Bounds
  <2>5. RowsStay
    BY <2>1, <2>2, <2>3 DEF RowsStay
  <2>6. RowsInv'
    <3> SUFFICES ASSUME NEW s \in L!Seqs'
                 PROVE  /\ cmds'[s].state.generation = cmds'[s].generation
                        /\ snaps'[s].progress = cmds'[s].state.depth
                        /\ snaps'[s].disposition # "stored_refused" =>
                             cmds'[s].generation = snaps'[s].generation
      BY DEF RowsInv
    <3>1. CASE s \in L!Seqs
      BY <2>1, <2>2, <3>1 DEF RowsInv
    <3>2. CASE s = n
      BY <1>3, <2>1, <2>2, <3>2 DEF Written
    <3> QED
      BY <2>3, <3>1, <3>2
  <2> QED
    BY <2>1, <2>2, <2>4, <2>5, <2>6
<1>4. ASSUME NEW r \in RestartIds, L!LineageRestart(r, Len(L!Lineage) - 1), UNCHANGED cmds
      PROVE  /\ L!TypeOK' /\ Len(gens') <= MaxGeneration + 1 /\ reviews' = reviews
             /\ cmds' \in Seq(Command) /\ Len(cmds') = Len(snaps')
             /\ RowsStay /\ RowsInv'
  <2>1. /\ L!TypeOK' /\ snaps' = snaps /\ reviews' = reviews
        /\ Len(gens') <= MaxGeneration + 1
    BY <1>4, RestartFacts, LineageHere, Bounds
  <2> QED
    BY <1>1, <1>4, <2>1 DEF RowsInv, RowsStay, L!Seqs
<1> QED
  BY <1>2, <1>3, <1>4 DEF ServerStep

\* A row that was not refused stores what it was written from.
LEMMA RowsStored ==
  ASSUME NEW s \in L!Seqs, snaps[s].disposition # "stored_refused"
  PROVE  SaveOf(cmds[s]) \in StoredSaves /\ cmds[s].state \in StoredStates
<1>1. SaveOf(cmds[s]) \in StoredSaves
  BY DEF StoredSaves
<1>2. SaveOf(cmds[s]).state = cmds[s].state
  BY DEF SaveOf
<1> QED
  BY <1>1, <1>2 DEF StoredStates

\* What is stored or anchored is so for ever.
LEMMA SavesStay ==
  ASSUME RowsStay
  PROVE  /\ StoredSaves \subseteq StoredSaves' /\ AnchoredSaves \subseteq AnchoredSaves'
         /\ StoredStates \subseteq StoredStates'
<1>1. StoredSaves \subseteq StoredSaves' /\ AnchoredSaves \subseteq AnchoredSaves'
  BY DEF RowsStay, StoredSaves, AnchoredSaves
<1> QED
  BY <1>1 DEF StoredStates

-----------------------------------------------------------------------------
(* The heads.                                                              *)

\* A head names a row that was stored in the generation it names.
HeadSound(h) ==
  h.seq # 0 => /\ h.seq \in L!Seqs
               /\ snaps[h.seq].disposition # "stored_refused"
               /\ snaps[h.seq].generation = h.generation

\* The head served has its type, and says what the rows say.
LEMMA CurrentHeadFacts ==
  ASSUME TypeInv
  PROVE  CurrentHead \in ServerHead /\ HeadSound(CurrentHead)
<1> DEFINE g == L!ActiveGeneration
<1>1. /\ gens \in Seq(L!Generation) /\ Len(gens) <= MaxGeneration + 1 /\ Len(gens) \in Nat
      /\ L!TypeOK /\ reviews = [s \in 1 .. MaxSeq |-> "none"] /\ Len(snaps) <= MaxSeq
      /\ snaps \in Seq(L!Snapshot)
  BY DEF TypeInv, TypeOK, L!TypeOK
<1>2. gens # <<>> => g \in 0 .. MaxGeneration
  BY <1>1, EmptySeq, Bounds DEF L!ActiveGeneration
<1>3. ASSUME NEW s \in L!AnchorRow(g)
      PROVE  /\ s \in L!Seqs /\ s \in 1 .. MaxSeq
             /\ snaps[s].generation = g /\ snaps[s].disposition # "stored_refused"
  <2>1. s \in L!Seqs /\ snaps[s].generation = g
        /\ (snaps[s].disposition = "anchored" \/ reviews[s] = "promote")
    BY DEF L!AnchorRow, L!Eligible
  <2>2. s \in 1 .. MaxSeq
    BY <1>1, <2>1, Bounds DEF L!Seqs
  <2> QED
    BY <1>1, <2>1, <2>2
<1>4. L!AnchorRow(g) # {} => gens # <<>>
  <2>1. ASSUME NEW s \in L!AnchorRow(g), gens = <<>> PROVE FALSE
    BY <1>1, <1>3, <2>1 DEF L!TypeOK, L!ActiveGeneration
  <2> QED
    BY <2>1
<1>5. CASE L!AnchorRow(g) = {}
  BY <1>2, <1>5, Bounds DEF CurrentHead, ServerHead, HeadSound
<1>6. CASE L!AnchorRow(g) # {}
  <2>1. PICK s : s \in L!AnchorRow(g) /\ CurrentHead = [generation |-> g, seq |-> s]
    BY <1>4, <1>6 DEF CurrentHead
  <2>2. s \in L!Seqs /\ s \in 1 .. MaxSeq
        /\ snaps[s].generation = g /\ snaps[s].disposition # "stored_refused"
    BY <1>3, <2>1
  <2> QED
    BY <1>2, <1>4, <1>6, <2>1, <2>2 DEF ServerHead, HeadSound
<1> QED
  BY <1>5, <1>6

\* A head is kept, forgotten or read.
HeadStep ==
  /\ head' \in [Fetchers -> {head[x] : x \in Fetchers} \cup {NoHead, CurrentHead}]
  /\ \A x \in Fetchers : head'[x] \in {head[x], NoHead, CurrentHead}

\* Every step changes the head as one of the kinds above.
LEMMA HeadSteps ==
  ASSUME TypeInv, Next
  PROVE  HeadStep
<1>1. head \in [Fetchers -> ServerHead]
  BY DEF TypeInv, TypeOK
<1>2. UNCHANGED head => HeadStep
  BY <1>1 DEF HeadStep
<1>3. ASSUME NEW x \in Fetchers, Forgets(x) \/ Reads(x) PROVE HeadStep
  BY <1>1, <1>3 DEF HeadStep, Forgets, Reads
<1>4. \A x \in {"push", "recheck", "bcast"} : x \in Fetchers
  BY DEF Fetchers
<1>5. CASE \/ Play \/ SaveLocal \/ PushStart \/ PushReady \/ PushGivesUp \/ PushAdopts
           \/ PushHeadFails \/ ApplyVerdict
  BY <1>2, <1>3, <1>4, <1>5 DEF Play, SaveLocal, PushStart, PushReady, PushGivesUp, PushAdopts,
       PushHeadFails, ApplyVerdict, tasks
<1>6. CASE Beacon \/ (\E a \in acks : BeaconAcked(a)) \/ OtherSaves \/ OtherRestarts
  BY <1>2, <1>6 DEF Beacon, BeaconAcked, OtherSaves, OtherRestarts, tasks
<1>7. CASE RecheckStart \/ BootUnreachable \/ Reconcile \/ Act \/ AnswerPrompt \/ BootRepush
  BY <1>2, <1>3, <1>4, <1>7 DEF RecheckStart, BootUnreachable, Reconcile, Act, AnswerPrompt,
       BootRepush, RecheckEnds
<1>8. CASE Reload
  BY <1>8 DEF Reload, HeadStep
<1>9. CASE Announced \/ BroadcastAdopts \/ \E x \in Fetchers : ReadHead(x)
  BY <1>3, <1>4, <1>9 DEF Announced, BroadcastAdopts, ReadHead
<1>10. CASE \E r \in wire : Arrive(r) \/ Lose(r)
  BY <1>2, <1>10 DEF Arrive, Lose, tasks
<1> QED
  BY <1>5, <1>6, <1>7, <1>8, <1>9, <1>10 DEF Next

\* What was read stays true of the rows, and what is read is.
LEMMA HeadsStaySound ==
  ASSUME TypeInv, HeadInv, HeadStep, RowsStay
  PROVE  head' \in [Fetchers -> ServerHead] /\ HeadInv'
<1>1. head \in [Fetchers -> ServerHead] /\ NoHead \in ServerHead /\ CurrentHead \in ServerHead
  BY CurrentHeadFacts DEF TypeInv, TypeOK, ServerHead
<1>2. \A x \in Fetchers : HeadSound(head[x])
  BY DEF HeadInv, HeadSound
<1>3. HeadSound(NoHead) /\ HeadSound(CurrentHead)
  BY CurrentHeadFacts DEF HeadSound, NoHead
<1>4. ASSUME NEW x \in Fetchers PROVE HeadSound(head'[x])
  BY <1>2, <1>3 DEF HeadStep
<1> QED
  BY <1>1, <1>4 DEF HeadStep, HeadSound, HeadInv, RowsStay

-----------------------------------------------------------------------------
(* The device: what a step may do to the game, the envelope and the slot.  *)

\* A write of the slot got through or was refused, or was not this client's to make.
Wrote(e) ==
  \/ slot' = e /\ overlaid' = FALSE
  \/ slot' = slot /\ overlaid' = TRUE
MayWrite(e) == Wrote(e) \/ UNCHANGED <<slot, overlaid>>

Played ==
  /\ live' \in Advanced(live) /\ revs < MaxRevs /\ revs' = revs + 1
  /\ env' = [env EXCEPT !.dirty = TRUE] /\ since' = TRUE
  /\ UNCHANGED <<canon, slot, overlaid, ids>>

Captured == Mint /\ Wrote(env') /\ UNCHANGED <<live, revs>>

Persisted == MayWrite(env) /\ UNCHANGED <<live, env, since, canon, ids, revs>>

\* The beacon's encoding of a pending that matches what runs.
Matched == MayMatch /\ since' = FALSE /\ UNCHANGED <<live, env, canon, slot, overlaid, ids, revs>>

Adoption(h) ==
  /\ env' = Adopted(h) /\ live' = env'.state /\ since' = FALSE /\ canon' = FALSE
  /\ MayWrite(env') /\ UNCHANGED <<ids, revs>>

\* The pending that was sent as id is settled: acknowledged, by an answer a row backs,
\* or refused.
Acknowledgement(id, seq) ==
  /\ env' = Acknowledged(id, seq)
  /\ \E x \in StoredSaves \cap Made : x.id = id
  /\ canon' = (canon /\ ~AcksCurrent(id))
  /\ MayWrite(env') /\ UNCHANGED <<live, since, ids, revs>>

Refusal(id) ==
  /\ env' = [env EXCEPT !.pending = IF AcksCurrent(id) THEN NoPending ELSE @]
  /\ canon' = (canon /\ ~AcksCurrent(id))
  /\ since' = (since \/ AcksCurrent(id))
  /\ MayWrite(env') /\ UNCHANGED <<live, ids, revs>>

Reloaded ==
  /\ env' = slot /\ live' = slot.state
  /\ since' = (slot.pending = NoPending /\ slot.dirty)
  /\ canon' = (slot.pending # NoPending)
  /\ overlaid' = FALSE
  /\ UNCHANGED <<slot, ids, revs>>

LocalStep ==
  \/ UNCHANGED <<local, ids, revs>>
  \/ Played \/ Captured \/ Persisted \/ Matched
  \/ \E x \in Fetchers : Adoption(head[x])
  \/ \E id \in Ids, seq \in 0 .. MaxSeq : Acknowledgement(id, seq)
  \/ \E id \in Ids : Refusal(id)
  \/ Reloaded

\* A push under way carries a state and its id.
LEMMA SentTypes ==
  ASSUME TypeInv
  PROVE  /\ push.answer \in Answer /\ push.sent \in Pending
         /\ push.pc \in {"sent", "answered"} =>
              push.sent # NoPending /\ push.sent.id \in Ids /\ push.sent.state \in State
BY DEF TypeInv, Pending

\* What a client persists is written if it may be.
LEMMA Writing ==
  ASSUME NEW e, NEW w \in BOOLEAN, Writes(e, w)
  PROVE  MayWrite(e) /\ (w => Wrote(e))
BY DEF Writes, MayWrite, Wrote

\* After a write the device holds the envelope, or what it held; where no write was
\* refused, it holds the envelope or was not written.
LEMMA Kept ==
  ASSUME overlaid \in BOOLEAN, NEW e, MayWrite(e)
  PROVE  /\ slot' \in {slot, e} /\ overlaid' \in BOOLEAN
         /\ ~overlaid' => slot' = e \/ (slot' = slot /\ ~overlaid)
BY DEF MayWrite, Wrote

\* Every step changes the device as one of the kinds above.
LEMMA LocalSteps ==
  ASSUME TypeInv, AnswerInv, LocalInv, Next
  PROVE  LocalStep
<1>1. Writer \in BOOLEAN /\ (~halted) \in BOOLEAN
  BY DEF Writer
<1>0. ASSUME NEW e, Persist(e) PROVE MayWrite(e) /\ (Writer => Wrote(e))
  BY <1>0, <1>1, Writing DEF Persist
<1>2. CASE Play
  BY <1>2 DEF Play, LocalStep, Played
<1>3. CASE SaveLocal
  BY <1>0, <1>3 DEF SaveLocal, Mint, LocalStep, Captured
<1>4. CASE PushReady
  <2>1. CASE Mint /\ Writer /\ UNCHANGED <<live, revs>>
    BY <1>0, <2>1 DEF Mint, LocalStep, Captured
  <2>2. CASE UNCHANGED <<live, env, since, canon, slot, overlaid, ids, revs>>
    BY <2>2 DEF LocalStep, local
  <2> QED
    BY <1>4, <2>1, <2>2 DEF PushReady
<1>5. CASE PushGivesUp
  BY <1>0, <1>5 DEF PushGivesUp, LocalStep, Persisted
<1>6. ASSUME NEW x \in Fetchers, NEW w \in BOOLEAN, Adopt(head[x], w), UNCHANGED <<ids, revs>>
      PROVE  LocalStep
  BY <1>6, Writing DEF Adopt, LocalStep, Adoption
<1>7. CASE PushAdopts
  BY <1>1, <1>6, <1>7 DEF PushAdopts, Fetchers
<1>8. CASE BroadcastAdopts
  BY <1>1, <1>6, <1>8 DEF BroadcastAdopts, Fetchers
<1>9. CASE Act
  <2>1. Remote = head["recheck"] /\ "recheck" \in Fetchers
    BY DEF Remote, Fetchers
  <2> QED
    BY <1>1, <1>6, <1>9, <2>1 DEF Act, LocalStep
<1>10. CASE AnswerPrompt
  <2>1. Remote = head["recheck"] /\ "recheck" \in Fetchers
    BY DEF Remote, Fetchers
  <2> QED
    BY <1>1, <1>6, <1>10, <2>1 DEF AnswerPrompt, LocalStep
<1>11. CASE ApplyVerdict
  <2>1. push.sent.id \in Ids /\ push.answer.seq \in 0 .. MaxSeq /\ push.sent.state \in State
        /\ push.sent # NoPending
    BY <1>11, SentTypes DEF ApplyVerdict, Answer
  <2>2. SaveOf(push.sent) \in Made /\ SaveOf(push.sent).id = push.sent.id
    BY <2>1 DEF Made, SaveOf
  <2>3. UNCHANGED <<live, ids, revs>>
    BY <1>11 DEF ApplyVerdict
  <2>4. CASE VerdictAcked
    <3>1. SaveOf(push.sent) \in StoredSaves
      BY <1>11, <2>4 DEF ApplyVerdict, VerdictAcked, AnswerInv
    <3>2. Acknowledgement(push.sent.id, push.answer.seq)
      BY <1>0, <2>2, <2>3, <2>4, <3>1 DEF VerdictAcked, Acknowledgement
    <3> QED
      BY <2>1, <3>2 DEF LocalStep
  <2>5. CASE VerdictRefused
    <3>1. Refusal(push.sent.id)
      BY <1>0, <2>3, <2>5 DEF VerdictRefused, Refusal
    <3> QED
      BY <2>1, <3>1 DEF LocalStep
  <2>6. CASE VerdictBehind
    BY <2>3, <2>6 DEF VerdictBehind, LocalStep, local
  <2>7. CASE VerdictRejected
    BY <1>0, <2>3, <2>7 DEF VerdictRejected, LocalStep, Persisted
  <2> QED
    BY <1>11, <2>4, <2>5, <2>6, <2>7 DEF ApplyVerdict
<1>12. CASE Beacon
  <2>1. CASE Mint
    BY <1>0, <1>12, <2>1 DEF Beacon, Mint, LocalStep, Captured
  <2>2. CASE MayMatch /\ since' = FALSE /\ UNCHANGED <<env, canon, slot, overlaid, ids>>
    BY <1>12, <2>2 DEF Beacon, LocalStep, Matched
  <2> QED
    BY <1>12, <2>1, <2>2 DEF Beacon
<1>13. ASSUME NEW a \in acks, BeaconAcked(a)
       PROVE  LocalStep
  <2>1. a.id \in Ids /\ a.answer.seq \in 0 .. MaxSeq
    BY DEF TypeInv, Answer
  <2>2. SaveOf(a) \in Made \cap StoredSaves /\ SaveOf(a).id = a.id
    BY DEF Made, AnswerInv, SaveOf
  <2>3. CASE AcksCurrent(a.id)
    <3>1. Acknowledgement(a.id, a.answer.seq)
      BY <1>0, <1>13, <2>1, <2>2, <2>3 DEF BeaconAcked, Acknowledgement
    <3> QED
      BY <2>1, <3>1 DEF LocalStep
  <2>4. CASE ~AcksCurrent(a.id)
    BY <1>13, <2>4 DEF BeaconAcked, LocalStep, local
  <2> QED
    BY <2>3, <2>4
<1>14. CASE Reload
  BY <1>14 DEF Reload, LocalStep, Reloaded
<1>15. CASE PushStart \/ PushHeadFails \/ RecheckStart \/ BootUnreachable \/ BootRepush \/ Reconcile
  BY <1>15 DEF PushStart, PushHeadFails, RecheckStart, BootUnreachable, BootRepush, Reconcile,
               LocalStep
<1>16. CASE Announced \/ (\E x \in Fetchers : ReadHead(x)) \/ (\E r \in wire : Arrive(r) \/ Lose(r))
            \/ OtherSaves \/ OtherRestarts
  BY <1>16 DEF Announced, ReadHead, Arrive, Lose, OtherSaves, OtherRestarts, LocalStep
<1> QED
  BY <1>2, <1>3, <1>4, <1>5, <1>7, <1>8, <1>9, <1>10, <1>11, <1>12, <1>13, <1>14, <1>15, <1>16
     DEF Next

\* The types of the device's part of the state.
LocalTypes ==
  /\ live \in State /\ env \in Envelope /\ slot \in Envelope /\ overlaid \in BOOLEAN
  /\ since \in BOOLEAN /\ (since => env.dirty)
  /\ canon \in BOOLEAN /\ (canon => HasPending)
  /\ ids \in 0 .. MaxIds /\ revs \in 0 .. MaxRevs

\* A new game is a state, of its generation, never saved.
LEMMA NewGames ==
  ASSUME NEW g \in 0 .. MaxGeneration
  PROVE  NewGame(g) \in State /\ NewGame(g).generation = g /\ NewGame(g).rev = 0
BY Bounds DEF State, NewGame

\* A pending push has its id and its state.
LEMMA Pendings ==
  ASSUME NEW p \in Pending
  PROVE  /\ p # NoPending => p.id \in Ids /\ p.id # 0 /\ p.state \in State
         /\ NoPending \in Pending
BY DEF Pending, Ids

\* What is minted has its type and names the state it encodes.
LEMMA MintFacts ==
  ASSUME TypeInv, LocalInv, ids < MaxIds
  PROVE  /\ Minted \in Pending /\ Minted # NoPending
         /\ Minted.id = ids + 1 /\ Minted.state = live /\ Minted.generation = env.generation
<1>1. /\ env \in Envelope /\ live \in State /\ ids \in 0 .. MaxIds /\ env.pending \in Pending
      /\ env.generation \in 0 .. MaxGeneration
  BY DEF TypeInv, TypeOK, Envelope
<1>2. ids + 1 \in Ids
  BY <1>1, Bounds DEF Ids
<1>3. (IF HasPending THEN env.pending.ancestors \cup {env.pending.id} ELSE {}) \in SUBSET Ids
  BY <1>1 DEF HasPending, Pending
<1>4. Minted \in [id : Ids, state : State, generation : 0 .. MaxGeneration, ancestors : SUBSET Ids]
  BY <1>1, <1>2, <1>3 DEF Minted
<1>5. Minted.id = ids + 1 /\ Minted.state = live /\ Minted.generation = env.generation
  BY DEF Minted
<1> QED
  BY <1>1, <1>4, <1>5 DEF Pending, NoPending

\* What an adoption makes of the envelope.
LEMMA AdoptionFacts ==
  ASSUME TypeInv, LocalInv, RowsInv, HeadInv, NEW x \in Fetchers
  PROVE  /\ Adopted(head[x]) \in Envelope
         /\ Sound(Adopted(head[x]))
         /\ Adopted(head[x]).pending = NoPending \/ Adopted(head[x]) = env
<1> DEFINE h == head[x]
           g == IF h.generation > env.generation THEN h.generation ELSE env.generation
<1>1. /\ h \in ServerHead /\ env \in Envelope /\ cmds \in Seq(Command)
      /\ Len(cmds) = Len(snaps) /\ Sound(env)
  BY DEF TypeInv, TypeOK, LocalInv
<1>2. env.generation \in 0 .. MaxGeneration /\ g \in 0 .. MaxGeneration
  BY <1>1, Bounds DEF Envelope, ServerHead, NoHead
<1>3. CASE h.seq = 0
  BY <1>2, <1>3, NewGames, Bounds DEF Adopted, Envelope, Sound, Pending
<1>4. CASE h.seq # 0 /\ h.generation < env.generation
  BY <1>1, <1>4 DEF Adopted
<1>5. CASE h.seq # 0 /\ ~(h.generation < env.generation)
  <2>1. /\ h.seq \in L!Seqs /\ snaps[h.seq].disposition # "stored_refused"
        /\ snaps[h.seq].generation = h.generation
    BY <1>5 DEF HeadInv
  <2>2. cmds[h.seq] \in Command /\ h.seq \in 1 .. Len(cmds)
    BY <1>1, <2>1 DEF L!Seqs
  <2>3. cmds[h.seq].state \in State /\ cmds[h.seq].state.generation = h.generation
    BY <2>1, <2>2 DEF RowsInv, Command
  <2>4. cmds[h.seq].state \in StoredStates
    BY <2>1, RowsStored
  <2>5. h.generation \in 0 .. MaxGeneration /\ h.seq \in 0 .. MaxSeq
    BY <1>1, <1>5 DEF ServerHead, NoHead
  <2> QED
    BY <1>5, <2>3, <2>4, <2>5 DEF Adopted, Envelope, Sound, Pending
<1> QED
  BY <1>3, <1>4, <1>5

\* An envelope that is sound of the rows there are is sound of those that follow.
SoundLater(e) ==
  /\ e.state.generation = e.generation
  /\ e.pending # NoPending =>
       e.pending.generation = e.generation /\ e.pending.state = e.state /\ e.dirty
  /\ ~e.dirty => e.state.rev = 0 \/ e.state \in StoredStates'

\* What was true of an envelope stays true while no row goes.
LEMMA SoundStays ==
  ASSUME RowsStay
  PROVE  \A e : Sound(e) => SoundLater(e)
BY SavesStay DEF Sound, SoundLater

\* The device's part of the invariant is kept by what a step does to the device, while no
\* row goes.
LEMMA LocalKept ==
  ASSUME TypeInv, LocalInv, RowsInv, HeadInv, IdInv, LocalStep, RowsStay
  PROVE  LocalTypes' /\ LocalInv'
<1>1. LocalTypes
  BY DEF TypeInv, TypeOK, LocalTypes
<1>2. SoundLater(env) /\ SoundLater(slot)
  BY SoundStays DEF LocalInv
<1>3. SoundLater(env') => Sound(env)'
  BY DEF Sound, SoundLater
<1>4. SoundLater(slot') => Sound(slot)'
  BY DEF Sound, SoundLater
<1>5. ASSUME LocalTypes', SoundLater(env'), SoundLater(slot'), live'.generation = env'.generation,
             ~since' => live' = env'.state,
             env'.pending # NoPending /\ ~overlaid' => slot'.pending = env'.pending
      PROVE  LocalTypes' /\ LocalInv'
  BY <1>3, <1>4, <1>5 DEF LocalInv, HasPending
<1>6. CASE UNCHANGED <<local, ids, revs>>
  BY <1>1, <1>2, <1>5, <1>6 DEF local, LocalTypes, LocalInv, HasPending
<1>7. CASE Played
  <2>1. PICK d \in Progress : live' = [live EXCEPT !.depth = d, !.rev = revs + 1]
    BY <1>7 DEF Played, Advanced
  <2>2. live' \in State /\ live'.generation = live.generation
    <3>1. live \in State /\ revs \in 0 .. MaxRevs /\ revs < MaxRevs
      BY <1>1, <1>7 DEF Played, LocalTypes
    <3>2. live' = [generation |-> live.generation, depth |-> d, rev |-> revs + 1]
      BY <2>1, <3>1 DEF State
    <3>3. revs + 1 \in 0 .. MaxRevs + 1
      BY <3>1, Bounds
    <3> QED
      BY <3>1, <3>2, <3>3 DEF State
  <2>3. env' \in Envelope /\ env'.dirty /\ env'.pending = env.pending /\ env'.state = env.state
        /\ env'.generation = env.generation
    BY <1>1, <1>7 DEF Played, LocalTypes, Envelope
  <2>4. LocalTypes'
    BY <1>1, <1>7, <2>2, <2>3, Bounds DEF Played, LocalTypes, HasPending
  <2>5. SoundLater(env') /\ SoundLater(slot')
    BY <1>2, <1>7, <2>3 DEF SoundLater, Played
  <2> QED
    BY <1>5, <1>7, <2>2, <2>3, <2>4, <2>5 DEF Played, LocalInv, HasPending
<1>8. CASE Captured
  <2>1. /\ Minted \in Pending /\ Minted # NoPending
        /\ Minted.state = live /\ Minted.generation = env.generation
    BY <1>8, MintFacts DEF Captured, Mint
  <2>2. /\ env' \in Envelope /\ env'.dirty /\ env'.pending = Minted /\ env'.state = live
        /\ env'.generation = env.generation /\ live' = live
        /\ slot' \in {slot, env'} /\ overlaid' \in BOOLEAN /\ (~overlaid' => slot' = env')
    BY <1>1, <1>8, <2>1 DEF Captured, Mint, Wrote, LocalTypes, Envelope
  <2>3. LocalTypes'
    <3>1. ids' \in 0 .. MaxIds /\ canon' = TRUE /\ since' = FALSE /\ revs' = revs
      BY <1>1, <1>8, Bounds DEF Captured, Mint, LocalTypes
    <3> QED
      BY <1>1, <2>1, <2>2, <3>1 DEF LocalTypes, HasPending
  <2>4. SoundLater(env') /\ SoundLater(slot')
    BY <1>2, <2>1, <2>2 DEF LocalInv, SoundLater
  <2> QED
    BY <1>5, <2>2, <2>3, <2>4 DEF LocalInv
<1>9. CASE Persisted
  BY <1>1, <1>2, <1>5, <1>9 DEF Persisted, MayWrite, Wrote, LocalTypes, LocalInv, HasPending
<1>10. CASE Matched
  <2>1. live = env.state
    BY <1>10 DEF Matched, MayMatch, LocalInv, Sound, HasPending
  <2>2. LocalTypes'
    BY <1>1, <1>10 DEF Matched, LocalTypes, HasPending
  <2> QED
    BY <1>2, <1>5, <1>10, <2>1, <2>2 DEF Matched, LocalInv, HasPending
<1>11. ASSUME NEW x \in Fetchers, Adoption(head[x])
       PROVE  LocalTypes' /\ LocalInv'
  <2> DEFINE e == Adopted(head[x])
  <2>1. /\ e \in Envelope /\ Sound(e) /\ (e.pending = NoPending \/ e = env)
        /\ env' = e /\ live' = e.state /\ ~since' /\ ~canon'
        /\ slot' \in {slot, e} /\ overlaid' \in BOOLEAN
        /\ ~overlaid' => slot' = e \/ (slot' = slot /\ ~overlaid)
    BY <1>1, <1>11, AdoptionFacts, Kept DEF Adoption, LocalTypes
  <2>2. SoundLater(e)
    BY <2>1, SoundStays DEF SoundLater
  <2>3. e.state \in State /\ e.state.generation = e.generation
    BY <2>1 DEF Envelope, Sound
  <2>4. LocalTypes'
    BY <1>1, <1>11, <2>1, <2>3 DEF Adoption, LocalTypes
  <2>5. env'.pending # NoPending /\ ~overlaid' => slot'.pending = env'.pending
    BY <2>1 DEF LocalInv, HasPending
  <2> QED
    BY <1>2, <1>5, <2>1, <2>2, <2>3, <2>4, <2>5
<1>12. ASSUME NEW id \in Ids, NEW seq \in 0 .. MaxSeq, Acknowledgement(id, seq)
       PROVE  LocalTypes' /\ LocalInv'
  <2>0. /\ slot' \in {slot, env'} /\ overlaid' \in BOOLEAN
        /\ ~overlaid' => slot' = env' \/ (slot' = slot /\ ~overlaid)
    BY <1>1, <1>12, Kept DEF Acknowledgement, LocalTypes
  <2>1. env \in Envelope /\ Sound(env)
    BY <1>1 DEF LocalTypes, LocalInv
  <2>2. /\ env' \in Envelope /\ env'.state = env.state /\ env'.generation = env.generation
        /\ env'.pending = IF AcksCurrent(id) THEN NoPending ELSE env.pending
        /\ env'.dirty = IF AcksCurrent(id) THEN since ELSE env.dirty
    BY <1>1, <1>12, <2>1, Pendings DEF Acknowledgement, Acknowledged, LocalTypes, Envelope
  <2>3. AcksCurrent(id) => env.state \in StoredStates
    <3> SUFFICES ASSUME AcksCurrent(id) PROVE env.state \in StoredStates
      OBVIOUS
    <3>1. PICK x \in StoredSaves \cap Made : x.id = id
      BY <1>12 DEF Acknowledgement
    <3>2. SaveOf(env.pending) \in Made /\ SaveOf(env.pending).id = id
          /\ SaveOf(env.pending).state = env.state
      BY <2>1 DEF AcksCurrent, HasPending, Made, SaveOf, Sound
    <3>3. x = SaveOf(env.pending)
      BY <3>1, <3>2 DEF IdInv
    <3> QED
      BY <3>1, <3>2, <3>3 DEF StoredStates
  <2>4. AcksCurrent(id) => env.state \in StoredStates'
    BY <2>3, SavesStay
  <2>5. SoundLater(env')
    BY <1>2, <2>2, <2>4 DEF SoundLater
  <2>6. LocalTypes'
    BY <1>1, <1>12, <2>0, <2>2 DEF Acknowledgement, LocalTypes, HasPending, AcksCurrent
  <2> QED
    BY <1>2, <1>5, <1>12, <2>0, <2>2, <2>5, <2>6 DEF Acknowledgement, LocalInv, HasPending
<1>13. ASSUME NEW id \in Ids, Refusal(id)
       PROVE  LocalTypes' /\ LocalInv'
  <2>0. /\ slot' \in {slot, env'} /\ overlaid' \in BOOLEAN
        /\ ~overlaid' => slot' = env' \/ (slot' = slot /\ ~overlaid)
    BY <1>1, <1>13, Kept DEF Refusal, LocalTypes
  <2>1. /\ env' \in Envelope /\ env'.state = env.state /\ env'.generation = env.generation
        /\ env'.pending = (IF AcksCurrent(id) THEN NoPending ELSE env.pending)
        /\ env'.dirty = env.dirty
    BY <1>1, <1>13, Pendings DEF Refusal, LocalTypes, Envelope
  <2>2. AcksCurrent(id) => env.dirty
    BY DEF AcksCurrent, LocalInv, Sound, HasPending
  <2>3. LocalTypes'
    BY <1>1, <1>13, <2>0, <2>1, <2>2 DEF Refusal, LocalTypes, HasPending, AcksCurrent
  <2>4. SoundLater(env')
    BY <1>2, <2>1 DEF SoundLater
  <2> QED
    BY <1>2, <1>5, <1>13, <2>0, <2>1, <2>3, <2>4 DEF Refusal, LocalInv, HasPending
<1>14. CASE Reloaded
  <2>1. slot.state \in State /\ slot.state.generation = slot.generation
        /\ (slot.pending # NoPending => slot.dirty) /\ slot.dirty \in BOOLEAN
    BY <1>1 DEF LocalTypes, LocalInv, Sound, Envelope
  <2>2. LocalTypes'
    BY <1>1, <1>14, <2>1 DEF Reloaded, LocalTypes, HasPending
  <2> QED
    BY <1>2, <1>5, <1>14, <2>1, <2>2 DEF Reloaded
<1> QED
  BY <1>6, <1>7, <1>8, <1>9, <1>10, <1>11, <1>12, <1>13, <1>14 DEF LocalStep

-----------------------------------------------------------------------------
(* The push, the requests and the answers.                                 *)

Modes == {"capture", "reuse", "reassert", "stale"}
PushType ==
  [pc : {"idle", "ready", "sent", "answered", "head"},
   mode : Modes, sent : Pending, answer : Answer]

\* A push at rest has its type.
LEMMA PushTypes ==
  /\ NoAnswer \in Answer /\ NoPending \in Pending
  /\ PushIdle \in PushType /\ PushIdle.pc = "idle" /\ PushIdle.sent = NoPending
BY Bounds DEF NoAnswer, Answer, Pending, PushIdle, PushType, Modes

\* The push goes on to another wait, or ends; nothing waits for an answer then.
Moved ==
  /\ push.pc # "sent"
  /\ push' \in PushType /\ push'.pc \in {"idle", "ready", "head"}
  /\ push'.sent \in {push.sent, NoPending}

Requested(p, via) ==
  [id |-> p.id, state |-> p.state, generation |-> p.generation, base |-> env.acked, via |-> via]

\* The pending is sent, by the push or by a beacon.
Sent ==
  /\ push.pc = "ready" /\ env'.pending # NoPending
  /\ push' = [push EXCEPT !.pc = "sent", !.sent = env'.pending]
  /\ wire' = wire \cup {Requested(env'.pending, "put")}
  /\ UNCHANGED <<acks, synced>>
BeaconSent ==
  /\ env'.pending # NoPending
  /\ wire' = wire \cup {Requested(env'.pending, "beacon")}
  /\ UNCHANGED <<push, acks, synced>>

Abandoned(r) ==
  /\ r.via = "put"
  /\ wire' = (wire \ {r}) \cup {[r EXCEPT !.via = "late"]}
  /\ push' = PushIdle /\ UNCHANGED <<acks, synced>>

\* An answer that acknowledges is true of the rows by then.
Answered(r, answer) ==
  /\ Answers(r, answer)
  /\ answer.kind \in Acked => SaveOf(r) \in StoredSaves'
  /\ answer.kind = "anchored" => SaveOf(r) \in AnchoredSaves'
  /\ UNCHANGED synced

Told ==
  /\ push.pc = "answered" /\ push.answer.kind = "anchored" /\ Moved
  /\ synced' = synced \cup {SaveOf(push.sent)}
  /\ UNCHANGED <<wire, acks>>
BeaconTold(a) ==
  /\ acks' = acks \ {a}
  /\ \/ synced' = synced
     \/ a.answer.kind = "anchored" /\ synced' = synced \cup {SaveOf(a)}
  /\ UNCHANGED <<push, wire>>

Gone ==
  /\ push' = PushIdle
  /\ wire' = {[r EXCEPT !.via = IF @ = "put" THEN "late" ELSE @] : r \in wire}
  /\ acks' = {} /\ UNCHANGED synced

NetStep ==
  \/ UNCHANGED <<push, wire, acks, synced>>
  \/ Moved /\ UNCHANGED <<wire, acks, synced>>
  \/ Sent \/ BeaconSent
  \/ \E r \in wire : \/ Abandoned(r)
                     \/ \E answer \in Answer : Answered(r, answer)
                     \/ wire' = wire \ {r} /\ r.via # "put" /\ UNCHANGED <<push, acks, synced>>
  \/ Told \/ \E a \in acks : BeaconTold(a)
  \/ Gone

\* What the server answers acknowledges only what it has.
RowsTyped ==
  L!TypeOK /\ cmds \in Seq(Command) /\ Len(cmds) = Len(snaps) /\ Len(gens) <= MaxGeneration + 1
OutcomesTrue ==
  \A s \in L!Seqs :
    LET answer == Outcome(s, snaps, cmds) IN
    /\ answer \in Answer
    /\ answer.kind \in Acked => SaveOf(cmds[s]) \in StoredSaves
    /\ answer.kind = "anchored" => SaveOf(cmds[s]) \in AnchoredSaves

\* An acknowledging answer names a save that is stored; an anchoring one, a save anchored.
LEMMA OutcomeFacts == RowsTyped => OutcomesTrue
<1> SUFFICES ASSUME RowsTyped, NEW s \in L!Seqs
             PROVE  LET answer == Outcome(s, snaps, cmds) IN
                    /\ answer \in Answer
                    /\ answer.kind \in Acked => SaveOf(cmds[s]) \in StoredSaves
                    /\ answer.kind = "anchored" => SaveOf(cmds[s]) \in AnchoredSaves
  BY DEF OutcomesTrue
<1>1. PICK answer : answer = Outcome(s, snaps, cmds)
  OBVIOUS
<1>2. /\ answer.kind \in {"anchored", "quarantined", "stale", "regression"}
      /\ answer.seq = s /\ answer.generation = snaps[s].generation
      /\ answer.kind = "anchored" => snaps[s].disposition = "anchored"
      /\ answer.kind = "quarantined" => snaps[s].disposition = "stored_quarantined"
      /\ answer = [kind |-> answer.kind, seq |-> answer.seq, generation |-> answer.generation]
  BY <1>1 DEF Outcome
<1>3. s \in 0 .. MaxSeq
  BY Bounds DEF RowsTyped, L!TypeOK, L!Seqs
<1>4. snaps[s].generation \in 0 .. MaxGeneration
  <2>1. snaps[s].generation \in 0 .. L!ActiveGeneration /\ Len(gens) \in Nat
    BY DEF RowsTyped, L!TypeOK
  <2> QED
    BY <2>1, Bounds DEF RowsTyped, L!ActiveGeneration
<1>5. answer \in Answer
  BY <1>2, <1>3, <1>4 DEF Answer
<1>6. answer.kind = "anchored" => SaveOf(cmds[s]) \in AnchoredSaves
  BY <1>2 DEF AnchoredSaves
<1>7. answer.kind \in Acked => SaveOf(cmds[s]) \in StoredSaves
  BY <1>2, RowsStored DEF Acked
<1> QED
  BY <1>1, <1>5, <1>6, <1>7

\* Every step changes the push and what is on the wire as one of the kinds above.
LEMMA NetSteps ==
  ASSUME TypeInv, AnswerInv, RowsTyped', Next
  PROVE  NetStep
<1>1. /\ push \in PushType
      /\ push.pc \in {"sent", "answered"} => push.sent # NoPending
  BY DEF TypeInv, PushType, Modes
<1>2. PushIdle \in PushType /\ PushIdle.pc = "idle" /\ PushIdle.sent = NoPending
  BY PushTypes
<1>3. ASSUME NEW mode \in Modes
      PROVE  /\ Started(mode) \in PushType /\ Started(mode).pc \in {"head", "ready"}
             /\ Started(mode).sent = NoPending
  BY <1>2 DEF Started, PushType
<1>4. CASE Play \/ SaveLocal
  BY <1>4 DEF Play, SaveLocal, NetStep, tasks, net
<1>5. CASE PushStart
  BY <1>3, <1>5 DEF PushStart, NetStep, Moved, net, Modes
<1>6. CASE PushReady
  <2>1. push.pc = "ready" /\ acks' = acks /\ synced' = synced
    BY <1>6 DEF PushReady
  <2>2. ASSUME NEW p, p # NoPending, p = env'.pending, Puts(p)
        PROVE  NetStep
    BY <2>1, <2>2 DEF Puts, Sends, NetStep, Sent, Requested
  <2>3. CASE HasPending /\ Puts(env.pending) /\ env' = env
    BY <2>2, <2>3 DEF HasPending
  <2>4. CASE Mint /\ Puts(env'.pending)
    <3>1. env'.pending = Minted /\ ids < MaxIds
      BY <2>4 DEF Mint, TypeInv, TypeOK, Envelope
    <3>2. Minted # NoPending
      BY <3>1, Bounds DEF Minted, NoPending, TypeInv
    <3> QED
      BY <2>2, <2>4, <3>1, <3>2
  <2>5. CASE PushEnds /\ wire' = wire
    BY <1>2, <2>1, <2>5 DEF PushEnds, NetStep, Moved
  <2> QED
    BY <1>6, <2>3, <2>4, <2>5 DEF PushReady
<1>7. CASE PushGivesUp
  BY <1>7 DEF PushGivesUp, PushEnds, NetStep, Abandoned
<1>8. CASE PushAdopts
  BY <1>1, <1>2, <1>8 DEF PushAdopts, PushEnds, NetStep, Moved, net, PushType
<1>9. CASE PushHeadFails
  BY <1>2, <1>9 DEF PushHeadFails, PushEnds, NetStep, Moved, net
<1>10. CASE ApplyVerdict
  <2>1. push.pc = "answered" /\ wire' = wire /\ acks' = acks /\ push.sent # NoPending
    BY <1>1, <1>10 DEF ApplyVerdict, net
  <2>2. CASE VerdictAcked
    BY <1>2, <2>1, <2>2 DEF VerdictAcked, PushEnds, NetStep, Moved, Told, SaveOf
  <2>3. CASE VerdictRefused
    <3>1. [PushIdle EXCEPT !.pc = "head", !.mode = "stale"] \in PushType
      BY <1>2 DEF PushType, Modes
    <3>2. [PushIdle EXCEPT !.pc = "head", !.mode = "stale"].pc = "head"
          /\ [PushIdle EXCEPT !.pc = "head", !.mode = "stale"].sent = NoPending
      BY DEF PushIdle
    <3>3. push' \in PushType /\ push'.pc \in {"idle", "head"} /\ push'.sent = NoPending
          /\ synced' = synced
      BY <1>2, <2>3, <3>1, <3>2 DEF VerdictRefused, PushEnds
    <3> QED
      BY <2>1, <3>3 DEF NetStep, Moved
  <2>4. CASE VerdictBehind \/ VerdictRejected
    BY <1>2, <2>1, <2>4 DEF VerdictBehind, VerdictRejected, PushEnds, NetStep, Moved
  <2> QED
    BY <1>10, <2>2, <2>3, <2>4 DEF ApplyVerdict
<1>11. CASE Beacon
  <2>1. env'.pending # NoPending
    <3>1. CASE MayMatch /\ env' = env
      BY <3>1 DEF MayMatch, HasPending
    <3>2. CASE Mint
      <4>1. env'.pending = Minted /\ ids < MaxIds
        BY <3>2 DEF Mint, TypeInv, TypeOK, Envelope
      <4> QED
        BY <4>1, Bounds DEF Minted, NoPending, TypeInv
    <3> QED
      BY <1>11, <3>1, <3>2 DEF Beacon
  <2> QED
    BY <1>11, <2>1 DEF Beacon, Sends, NetStep, BeaconSent, Requested, tasks
<1>12. ASSUME NEW a \in acks, BeaconAcked(a)
       PROVE  NetStep
  <2>1. synced' = synced \/ (a.answer.kind = "anchored" /\ synced' = synced \cup {SaveOf(a)})
    BY <1>12 DEF BeaconAcked, SaveOf
  <2> QED
    BY <1>12, <2>1 DEF BeaconAcked, NetStep, BeaconTold, tasks
<1>13. CASE RecheckStart \/ BootUnreachable \/ Act \/ AnswerPrompt
  BY <1>13 DEF RecheckStart, BootUnreachable, Act, AnswerPrompt, NetStep, net
<1>14. ASSUME NEW mode \in Modes, Repushes(mode), UNCHANGED <<net, synced>>
       PROVE  NetStep
  <2>1. CASE push' = push
    BY <1>14, <2>1 DEF NetStep, net
  <2>2. CASE push.pc = "idle" /\ \E m \in Modes : push' = Started(m)
    BY <1>3, <1>14, <2>2 DEF NetStep, Moved, net
  <2> QED
    BY <1>14, <2>1, <2>2 DEF Repushes, Modes
<1>15. CASE Reconcile
  BY <1>14, <1>15 DEF Reconcile, NetStep, net, Modes
<1>16. CASE BootRepush
  BY <1>14, <1>16 DEF BootRepush, Modes
<1>17. CASE Reload
  BY <1>17 DEF Reload, NetStep, Gone
<1>18. CASE Announced \/ BroadcastAdopts \/ (\E x \in Fetchers : ReadHead(x))
            \/ OtherSaves \/ OtherRestarts
  BY <1>18 DEF Announced, BroadcastAdopts, ReadHead, OtherSaves, OtherRestarts, NetStep, net, tasks
<1>19. ASSUME NEW r \in wire, Lose(r)
       PROVE  NetStep
  BY <1>19 DEF Lose, NetStep, tasks
<1>20. ASSUME NEW r \in wire, Arrive(r)
       PROVE  NetStep
  <2> DEFINE written == [id |-> r.id, state |-> r.state, generation |-> r.generation, base |-> r.base]
             n == Len(snaps')
  <2>1. SaveOf(written) = SaveOf(r) /\ synced' = synced
    BY <1>20 DEF SaveOf, Arrive
  <2>2. ASSUME NEW answer \in Answer, Answers(r, answer),
               answer.kind \in Acked => SaveOf(r) \in StoredSaves',
               answer.kind = "anchored" => SaveOf(r) \in AnchoredSaves'
        PROVE  NetStep
    BY <2>1, <2>2 DEF NetStep, Answered
  <2>3. CASE /\ \E suspect \in Suspicions :
                 L!SavesWrite([generation |-> r.generation, progress |-> r.state.depth,
                               form |-> "valid", suspect |-> suspect])
             /\ cmds' = Append(cmds, written) /\ Answers(r, Outcome(Len(snaps'), snaps', cmds'))
    <3>1. OutcomesTrue'
      BY OutcomeFacts, PTL
    <3>2. cmds \in Seq(Command) /\ Len(cmds) = Len(snaps) /\ Len(cmds') = Len(snaps')
      BY DEF TypeInv, TypeOK, RowsTyped
    <3>3. n \in L!Seqs' /\ cmds'[n] = written
      BY <2>3, <3>2 DEF L!Seqs
    <3> QED
      BY <2>1, <2>2, <2>3, <3>1, <3>3 DEF OutcomesTrue
  <2>4. ASSUME NEW s \in L!Seqs, UNCHANGED server,
               Answers(r, IF cmds[s] = written THEN Replayed(s) ELSE Mismatch)
        PROVE  NetStep
    <3>1. OutcomesTrue
      BY OutcomeFacts DEF TypeInv, TypeOK, RowsTyped
    <3>2. StoredSaves' = StoredSaves /\ AnchoredSaves' = AnchoredSaves
      BY <2>4 DEF server, StoredSaves, AnchoredSaves, L!Seqs
    <3>3. CASE cmds[s] = written
      BY <2>1, <2>2, <2>4, <3>1, <3>2, <3>3 DEF OutcomesTrue, Replayed
    <3>4. CASE cmds[s] # written
      <4>1. Mismatch \in Answer /\ Mismatch.kind = "mismatch"
        BY Bounds DEF Mismatch, NoAnswer, Answer
      <4> QED
        BY <2>2, <2>4, <3>4, <4>1 DEF Acked
    <3> QED
      BY <3>3, <3>4
  <2> QED
    BY <1>20, <2>3, <2>4 DEF Arrive
<1> QED
  BY <1>4, <1>5, <1>6, <1>7, <1>8, <1>9, <1>10, <1>11, <1>12, <1>13, <1>15, <1>16, <1>17, <1>18,
     <1>19, <1>20 DEF Next

\* A request of a pending of the envelope is well formed.
LEMMA RequestFacts ==
  ASSUME TypeInv, LocalTypes', LocalInv', env'.pending # NoPending, NEW via \in {"put", "beacon"}
  PROVE  LET r == Requested(env'.pending, via) IN
         /\ r \in Request /\ r.state.generation = r.generation
         /\ r.via = via /\ r.id = env'.pending.id /\ r.state = env'.pending.state
         /\ SaveOf(r) = SaveOf(env'.pending)
<1> DEFINE p == env'.pending
<1>1. /\ p.id \in Ids /\ p.state \in State /\ p.generation \in 0 .. MaxGeneration
      /\ env.acked \in 0 .. MaxSeq
  BY DEF LocalTypes, Envelope, Pending, TypeInv, TypeOK
<1>2. p.state.generation = p.generation
  BY DEF LocalInv, Sound, HasPending
<1> QED
  BY <1>1, <1>2 DEF Requested, Request, SaveOf

\* The requests, the answers and what was told keep their types and their truth.
NetTypes ==
  /\ push \in PushType
  /\ push.pc \in {"sent", "answered"} => push.sent # NoPending
  /\ wire \subseteq Request
  /\ acks \subseteq [id : Ids, state : State, answer : Answer]
  /\ synced \subseteq [id : Ids, state : State]

\* What is between the two ends is kept by what a step does to it, while no row goes.
LEMMA NetKept ==
  ASSUME TypeInv, WireInv, AnswerInv, LocalTypes', LocalInv', NetStep, RowsStay
  PROVE  NetTypes' /\ WireInv' /\ AnswerInv'
<1>1. NetTypes
  BY DEF TypeInv, TypeOK, NetTypes, PushType, Modes
<1>2. StoredSaves \subseteq StoredSaves' /\ AnchoredSaves \subseteq AnchoredSaves'
  BY SavesStay
<1>3. PushIdle \in PushType /\ PushIdle.pc = "idle"
  BY PushTypes
<1>4. synced \subseteq AnchoredSaves'
  BY <1>2 DEF AnswerInv
<1>5. \A a \in acks : /\ a.answer.kind \in Acked /\ SaveOf(a) \in StoredSaves'
                      /\ a.answer.kind = "anchored" => SaveOf(a) \in AnchoredSaves'
  BY <1>2 DEF AnswerInv
<1>6. \A r \in wire : r \in Request /\ r.state.generation = r.generation
                      /\ [r EXCEPT !.via = "late"] \in Request
                      /\ [r EXCEPT !.via = "late"].via = "late"
                      /\ [r EXCEPT !.via = "late"].state = r.state
                      /\ [r EXCEPT !.via = "late"].generation = r.generation
  BY <1>1 DEF NetTypes, WireInv, Request
<1>7. CASE UNCHANGED <<push, wire, acks, synced>>
  BY <1>1, <1>2, <1>4, <1>5, <1>7 DEF NetTypes, WireInv, AnswerInv
<1>8. CASE Moved /\ UNCHANGED <<wire, acks, synced>>
  BY <1>1, <1>4, <1>5, <1>8 DEF Moved, NetTypes, WireInv, AnswerInv
<1>9. CASE Sent
  <2> DEFINE p == env'.pending
             r == Requested(p, "put")
  <2>1. /\ r \in Request /\ r.state.generation = r.generation /\ r.via = "put"
        /\ r.id = p.id /\ r.state = p.state
    BY <1>9, RequestFacts DEF Sent
  <2>2. p \in Pending /\ p # NoPending
    BY <1>9 DEF Sent, LocalTypes, Envelope
  <2>3. push' \in PushType /\ push'.pc = "sent" /\ push'.sent = p
    BY <1>1, <1>9, <2>2 DEF Sent, NetTypes, PushType
  <2>4. \A q \in wire : q.via # "put"
    BY <1>9 DEF Sent, WireInv
  <2>5. wire' = wire \cup {r} /\ acks' = acks /\ synced' = synced
    BY <1>9 DEF Sent
  <2>6. NetTypes'
    BY <1>1, <2>1, <2>2, <2>3, <2>5 DEF NetTypes
  <2>7. WireInv'
    BY <1>6, <2>1, <2>3, <2>4, <2>5 DEF WireInv
  <2>8. AnswerInv'
    BY <1>4, <1>5, <2>3, <2>5 DEF AnswerInv
  <2> QED
    BY <2>6, <2>7, <2>8
<1>10. CASE BeaconSent
  <2> DEFINE r == Requested(env'.pending, "beacon")
  <2>1. r \in Request /\ r.state.generation = r.generation /\ r.via = "beacon"
    BY <1>10, RequestFacts DEF BeaconSent
  <2>2. wire' = wire \cup {r} /\ push' = push /\ acks' = acks /\ synced' = synced
    BY <1>10 DEF BeaconSent
  <2>3. NetTypes'
    BY <1>1, <2>1, <2>2 DEF NetTypes
  <2>4. WireInv'
    BY <2>1, <2>2 DEF WireInv
  <2>5. AnswerInv'
    BY <1>2, <1>4, <1>5, <2>2 DEF AnswerInv
  <2> QED
    BY <2>3, <2>4, <2>5
<1>11. ASSUME NEW r \in wire, Abandoned(r)
       PROVE  NetTypes' /\ WireInv' /\ AnswerInv'
  <2>1. NetTypes'
    BY <1>1, <1>3, <1>6, <1>11 DEF Abandoned, NetTypes
  <2>2. \A q \in wire' : q.via # "put" /\ q.state.generation = q.generation
    <3>1. \A q \in wire \ {r} : q.via # "put"
      BY <1>11 DEF Abandoned, WireInv
    <3> DEFINE late == [r EXCEPT !.via = "late"]
    <3>2. wire' = (wire \ {r}) \cup {late}
      BY <1>11 DEF Abandoned
    <3>3. late.via = "late" /\ late.state.generation = late.generation
      BY <1>6
    <3> HIDE DEF late
    <3> QED
      BY <1>6, <3>1, <3>2, <3>3
  <2>3. AnswerInv'
    BY <1>3, <1>4, <1>5, <1>11 DEF Abandoned, AnswerInv
  <2> QED
    BY <2>1, <2>2, <2>3 DEF WireInv
<1>12. ASSUME NEW r \in wire, NEW answer \in Answer, Answered(r, answer)
       PROVE  NetTypes' /\ WireInv' /\ AnswerInv'
  <2>1. /\ wire' = wire \ {r} /\ synced' = synced
        /\ push' = IF r.via = "put" THEN [push EXCEPT !.pc = "answered", !.answer = answer] ELSE push
    BY <1>12 DEF Answered, Answers
  <2>2. r.via = "put" => /\ push.pc = "sent" /\ push.sent # NoPending
                         /\ SaveOf(r) = SaveOf(push.sent)
                         /\ \A q \in wire' : q.via # "put"
    BY <1>1, <2>1 DEF WireInv, SaveOf, NetTypes
  <2>3. r.via = "put" => /\ push' \in PushType /\ push'.pc = "answered"
                         /\ push'.sent = push.sent /\ push'.answer = answer
    BY <1>1, <2>1 DEF NetTypes, PushType
  <2>4. ASSUME NEW a \in acks'
        PROVE  /\ a \in [id : Ids, state : State, answer : Answer]
               /\ a.answer.kind \in Acked /\ SaveOf(a) \in StoredSaves'
               /\ a.answer.kind = "anchored" => SaveOf(a) \in AnchoredSaves'
    <3>1. CASE a \in acks
      BY <1>1, <1>5, <3>1 DEF NetTypes
    <3>2. CASE a = [id |-> r.id, state |-> r.state, answer |-> answer] /\ answer.kind \in Acked
      BY <1>6, <1>12, <3>2 DEF Answered, SaveOf, Request
    <3> QED
      BY <1>12, <3>1, <3>2 DEF Answered, Answers
  <2>5. NetTypes'
    BY <1>1, <2>1, <2>2, <2>3, <2>4 DEF NetTypes
  <2>6. WireInv'
    BY <2>1, <2>2 DEF WireInv
  <2>7. AnswerInv'
    <3>1. push'.pc = "answered" =>
            /\ push'.answer.kind \in Acked => SaveOf(push'.sent) \in StoredSaves'
            /\ push'.answer.kind = "anchored" => SaveOf(push'.sent) \in AnchoredSaves'
      BY <1>2, <1>12, <2>1, <2>2, <2>3 DEF Answered, AnswerInv
    <3> QED
      BY <1>4, <2>1, <2>4, <3>1 DEF AnswerInv
  <2> QED
    BY <2>5, <2>6, <2>7
<1>13. ASSUME NEW r \in wire, wire' = wire \ {r}, UNCHANGED <<push, acks, synced>>
       PROVE  NetTypes' /\ WireInv' /\ AnswerInv'
  BY <1>1, <1>2, <1>4, <1>5, <1>13 DEF NetTypes, WireInv, AnswerInv
<1>14. CASE Told
  <2>1. SaveOf(push.sent) \in [id : Ids, state : State] /\ SaveOf(push.sent) \in AnchoredSaves'
    BY <1>1, <1>2, <1>14 DEF Told, AnswerInv, NetTypes, PushType, Pending, SaveOf, Acked
  <2> QED
    BY <1>1, <1>4, <1>5, <1>14, <2>1 DEF Told, Moved, NetTypes, WireInv, AnswerInv
<1>15. ASSUME NEW a \in acks, BeaconTold(a)
       PROVE  NetTypes' /\ WireInv' /\ AnswerInv'
  <2>1. SaveOf(a) \in [id : Ids, state : State]
        /\ (a.answer.kind = "anchored" => SaveOf(a) \in AnchoredSaves')
    BY <1>1, <1>5 DEF NetTypes, SaveOf
  <2> QED
    BY <1>1, <1>2, <1>4, <1>5, <1>15, <2>1 DEF BeaconTold, NetTypes, WireInv, AnswerInv
<1>16. CASE Gone
  <2>1. ASSUME NEW q \in wire'
        PROVE  q \in Request /\ q.via # "put" /\ q.state.generation = q.generation
    <3>1. PICK r \in wire : q = [r EXCEPT !.via = IF @ = "put" THEN "late" ELSE @]
      BY <1>16 DEF Gone
    <3>2. CASE r.via = "put"
      BY <1>6, <3>1, <3>2
    <3>3. CASE r.via # "put"
      BY <1>6, <3>1, <3>3 DEF Request
    <3> QED
      BY <3>2, <3>3
  <2>2. NetTypes'
    BY <1>1, <1>3, <1>16, <2>1 DEF Gone, NetTypes
  <2>3. AnswerInv'
    BY <1>3, <1>4, <1>16 DEF Gone, AnswerInv
  <2> QED
    BY <2>1, <2>2, <2>3 DEF WireInv
<1> QED
  BY <1>7, <1>8, <1>9, <1>10, <1>11, <1>12, <1>13, <1>14, <1>15, <1>16 DEF NetStep

-----------------------------------------------------------------------------
(* The ids.                                                                *)

\* A step adds no snapshot to those there are but the one it mints.
LEMMA MadeSteps ==
  ASSUME TypeInv, LocalStep, ServerStep, NetStep
  PROVE  \/ Made' \subseteq Made
         \/ Captured /\ Made' \subseteq Made \cup {SaveOf(Minted)}
<1> DEFINE more == IF Captured THEN {Minted} ELSE {}
           here == {env.pending, slot.pending, NoPending} \cup more
<1>1. env'.pending \in here /\ slot'.pending \in here
  <2>1. env \in Envelope /\ slot \in Envelope
    BY DEF TypeInv, TypeOK
  <2>2. CASE Captured
    BY <2>1, <2>2 DEF Captured, Mint, Wrote, Envelope
  <2>3. CASE UNCHANGED <<local, ids, revs>> \/ Played \/ Persisted \/ Matched \/ Reloaded
    BY <2>1, <2>3 DEF local, Played, Persisted, MayWrite, Wrote, Matched, Reloaded, Envelope
  <2>4. ASSUME NEW x \in Fetchers, Adoption(head[x]) PROVE env'.pending \in here /\ slot'.pending \in here
    BY <2>4 DEF Adoption, MayWrite, Wrote, Adopted
  <2>5. ASSUME NEW id, NEW seq, Acknowledgement(id, seq) PROVE env'.pending \in here /\ slot'.pending \in here
    BY <2>1, <2>5 DEF Acknowledgement, MayWrite, Wrote, Acknowledged, Envelope
  <2>6. ASSUME NEW id, Refusal(id) PROVE env'.pending \in here /\ slot'.pending \in here
    BY <2>1, <2>6 DEF Refusal, MayWrite, Wrote, Envelope
  <2> QED
    BY <2>2, <2>3, <2>4, <2>5, <2>6 DEF LocalStep
<1> DEFINE before == Made \cup {SaveOf(m) : m \in more}
<1>2. \A p \in here : p # NoPending => SaveOf(p) \in before
  BY DEF Made
<1>3. \A r \in wire \cup acks : SaveOf(r) \in before
  BY DEF Made
<1>4. push.sent # NoPending => SaveOf(push.sent) \in before
  BY DEF Made
<1>5. \A s \in L!Seqs : cmds[s].id # 0 => SaveOf(cmds[s]) \in before
  BY DEF Made
<1> HIDE DEF here, before
<1>6. push'.sent # NoPending => SaveOf(push'.sent) \in before
  <2>1. push \in PushType /\ PushIdle.sent = NoPending
    BY PushTypes DEF TypeInv, PushType, Modes
  <2>2. push'.sent \in {push.sent, NoPending, env'.pending}
    BY <2>1 DEF NetStep, Moved, Sent, BeaconSent, Abandoned, Answered, Answers, Told, BeaconTold,
                Gone, PushType
  <2> QED
    BY <1>1, <1>2, <1>4, <2>2
<1>7. ASSUME NEW r \in wire' PROVE SaveOf(r) \in before
  <2>1. CASE r \in wire
    BY <1>3, <2>1
  <2>2. CASE Sent \/ BeaconSent
    <3>1. SaveOf(Requested(env'.pending, "put")) = SaveOf(env'.pending)
          /\ SaveOf(Requested(env'.pending, "beacon")) = SaveOf(env'.pending)
      BY DEF SaveOf, Requested
    <3> QED
      BY <1>1, <1>2, <2>1, <2>2, <3>1 DEF Sent, BeaconSent
  <2>3. ASSUME NEW q \in wire, NEW via, r = [q EXCEPT !.via = via] PROVE SaveOf(r) \in before
    <3>1. q \in Request
      BY DEF TypeInv, TypeOK
    <3>2. SaveOf(r) = SaveOf(q)
      BY <2>3, <3>1 DEF SaveOf, Request
    <3> QED
      BY <1>3, <3>2
  <2>4. ASSUME NEW q \in wire, Abandoned(q) PROVE SaveOf(r) \in before
    BY <2>1, <2>3, <2>4 DEF Abandoned
  <2>5. CASE Gone
    <3>1. PICK q \in wire : r = [q EXCEPT !.via = IF @ = "put" THEN "late" ELSE @]
      BY <2>5 DEF Gone
    <3>2. PICK via : via = IF q.via = "put" THEN "late" ELSE q.via
      OBVIOUS
    <3> QED
      BY <2>3, <3>1, <3>2
  <2>6. CASE wire' \subseteq wire
    BY <2>1, <2>6
  <2> QED
    BY <2>2, <2>4, <2>5, <2>6 DEF NetStep, Answered, Answers, Told, BeaconTold
<1>8. ASSUME NEW a \in acks' PROVE SaveOf(a) \in before
  <2>1. ASSUME NEW r \in wire, NEW answer, a = [id |-> r.id, state |-> r.state, answer |-> answer]
        PROVE  SaveOf(a) \in before
    <3>1. SaveOf(a) = SaveOf(r)
      BY <2>1 DEF SaveOf
    <3> QED
      BY <1>3, <3>1
  <2>2. a \in acks \/ \E r \in wire, answer \in Answer : a = [id |-> r.id, state |-> r.state, answer |-> answer]
    BY DEF NetStep, Moved, Sent, BeaconSent, Abandoned, Answered, Answers, Told, BeaconTold, Gone
  <2> QED
    BY <1>3, <2>1, <2>2
<1>9. ASSUME NEW s \in L!Seqs', cmds'[s].id # 0 PROVE SaveOf(cmds'[s]) \in before
  <2>1. cmds \in Seq(Command) /\ Len(cmds) = Len(snaps) /\ Len(snaps) \in Nat
    BY DEF TypeInv, TypeOK, L!TypeOK
  <2>2. CASE s \in L!Seqs /\ cmds'[s] = cmds[s]
    BY <1>5, <1>9, <2>2
  <2>3. CASE UNCHANGED server
    BY <2>2, <2>3 DEF server, L!Seqs
  <2>4. ASSUME NEW write \in L!Writes, NEW command \in Command, Written(write, command)
        PROVE  SaveOf(cmds'[s]) \in before
    <3>1. Len(snaps') = Len(snaps) + 1
      BY <2>4, WriteFacts DEF Written
    <3>2. CASE s \in L!Seqs
      BY <2>1, <2>2, <2>4, <3>2 DEF Written, L!Seqs
    <3>3. CASE s = Len(snaps) + 1
      BY <1>9, <2>1, <2>4, <3>3 DEF Written, before
    <3> QED
      BY <2>1, <3>1, <3>2, <3>3 DEF L!Seqs
  <2>5. ASSUME NEW r \in RestartIds, L!LineageRestart(r, Len(L!Lineage) - 1), UNCHANGED cmds
        PROVE  SaveOf(cmds'[s]) \in before
    BY <2>2, <2>5, RestartFacts DEF L!Seqs
  <2> QED
    BY <2>3, <2>4, <2>5 DEF ServerStep
<1>10. Made' \subseteq before
  <2>1. \A p \in {env'.pending, slot'.pending, push'.sent} : p # NoPending => SaveOf(p) \in before
    BY <1>1, <1>2, <1>6
  <2> QED
    BY <1>7, <1>8, <1>9, <2>1 DEF Made
<1> QED
  BY <1>10 DEF before

\* The ids made so far are numbers.
LEMMA MadeIds ==
  ASSUME TypeInv
  PROVE  \A x \in Made : x.id \in Nat
<1>1. \A p \in {env.pending, slot.pending, push.sent} : p # NoPending => p.id \in Ids
  BY Pendings DEF TypeInv, TypeOK, Envelope
<1>2. (\A r \in wire : r.id \in Ids) /\ (\A a \in acks : a.id \in Ids)
  BY DEF TypeInv, TypeOK, Request
<1>3. \A s \in L!Seqs : cmds[s].id \in 0 .. MaxIds
  <2>1. \A s \in L!Seqs : cmds[s] \in Command
    BY DEF TypeInv, TypeOK, L!Seqs
  <2> QED
    BY <2>1 DEF Command
<1> QED
  BY <1>1, <1>2, <1>3 DEF Made, SaveOf, Ids

\* So the counter stays ahead of the ids in use, and an id keeps its one state.
LEMMA IdsKept ==
  ASSUME TypeInv, LocalInv, IdInv, LocalStep, ServerStep, NetStep
  PROVE  IdInv'
<1>1. ids \in Nat /\ \A x \in Made : x.id \in Nat
  BY MadeIds, Bounds DEF TypeInv
<1>2. CASE Made' \subseteq Made
  <2>1. ids' = ids \/ ids' = ids + 1
    BY DEF LocalStep, Played, Captured, Mint, Persisted, Matched, Adoption, Acknowledgement,
           Refusal, Reloaded
  <2> QED
    BY <1>1, <1>2, <2>1 DEF IdInv
<1>3. CASE Captured /\ Made' \subseteq Made \cup {SaveOf(Minted)}
  <2>1. SaveOf(Minted).id = ids + 1 /\ ids' = ids + 1
    BY <1>3, MintFacts DEF Captured, Mint, SaveOf
  <2>2. \A x \in Made : x.id <= ids
    BY DEF IdInv
  <2> QED
    BY <1>1, <1>3, <2>1, <2>2 DEF IdInv
<1> QED
  BY <1>2, <1>3, MadeSteps

-----------------------------------------------------------------------------
(* The inductive invariant holds.                                          *)

ModeTypes ==
  /\ recheck \in [pc : {"idle", "asked", "first", "act", "prompt", "repush"}, boot : BOOLEAN]
  /\ bcast \in {"idle", "asked"}
  /\ phase \in {"boot", "live", "prompt"}
  /\ awaiting \in BOOLEAN /\ halted \in BOOLEAN

\* The mode of a push keeps its type.
LEMMA ModesKept ==
  ASSUME TypeInv, Next
  PROVE  ModeTypes'
<1>1. ModeTypes
  BY DEF TypeInv, TypeOK, ModeTypes
<1>2. RecheckIdle \in [pc : {"idle", "asked", "first", "act", "prompt", "repush"}, boot : BOOLEAN]
  BY DEF RecheckIdle
<1>3. ASSUME NEW pc \in {"idle", "asked", "first", "act", "prompt", "repush"}
      PROVE  [recheck EXCEPT !.pc = pc]
               \in [pc : {"idle", "asked", "first", "act", "prompt", "repush"}, boot : BOOLEAN]
  BY <1>1 DEF ModeTypes
<1>4. CASE \/ Play \/ SaveLocal \/ PushStart \/ Beacon \/ (\E a \in acks : BeaconAcked(a))
           \/ (\E r \in wire : Arrive(r) \/ Lose(r)) \/ OtherSaves \/ OtherRestarts
           \/ (\E x \in Fetchers : ReadHead(x))
  BY <1>1, <1>4 DEF Play, SaveLocal, PushStart, Beacon, BeaconAcked, Arrive, Lose, OtherSaves,
       OtherRestarts, ReadHead, ModeTypes, modes, tasks
<1>5. CASE PushReady \/ PushGivesUp \/ PushHeadFails
  BY <1>1, <1>3, <1>5 DEF PushReady, PushGivesUp, PushHeadFails, PushEnds, ModeTypes, modes
<1>6. CASE PushAdopts
  BY <1>1, <1>3, <1>6 DEF PushAdopts, Adopt, PushEnds, ModeTypes
<1>7. CASE ApplyVerdict
  BY <1>1, <1>3, <1>7 DEF ApplyVerdict, VerdictAcked, VerdictRefused, VerdictBehind,
       VerdictRejected, PushEnds, ModeTypes
<1>8. CASE RecheckStart \/ BootUnreachable
  <2>1. CASE RecheckStart
    BY <1>1, <2>1 DEF RecheckStart, ModeTypes, modes
  <2>2. CASE BootUnreachable
    <3>1. recheck' = [recheck EXCEPT !.pc = "repush"] /\ UNCHANGED <<bcast, phase, awaiting, halted>>
      BY <2>2 DEF BootUnreachable, modes
    <3> QED
      BY <1>1, <1>3, <3>1 DEF ModeTypes
  <2> QED
    BY <1>8, <2>1, <2>2
<1>9. CASE Reconcile
  BY <1>1, <1>2, <1>3, <1>9 DEF Reconcile, RecheckEnds, ModeTypes, modes
<1>10. CASE Act
  BY <1>1, <1>2, <1>3, <1>10 DEF Act, Adopt, RecheckEnds, ModeTypes
<1>11. CASE AnswerPrompt
  BY <1>1, <1>2, <1>3, <1>11 DEF AnswerPrompt, Adopt, RecheckEnds, ModeTypes
<1>12. CASE BootRepush
  BY <1>1, <1>2, <1>12 DEF BootRepush, ModeTypes
<1>13. CASE Reload
  BY <1>1, <1>13 DEF Reload, ModeTypes
<1>14. CASE Announced \/ BroadcastAdopts
  BY <1>1, <1>14 DEF Announced, BroadcastAdopts, Adopt, ModeTypes, modes
<1> QED
  BY <1>4, <1>5, <1>6, <1>7, <1>8, <1>9, <1>10, <1>11, <1>12, <1>13, <1>14 DEF Next

\* The types are those of the five parts.
LEMMA TypeParts ==
  TypeInv <=> /\ RowsTyped /\ LocalTypes /\ NetTypes /\ ModeTypes
              /\ reviews = [s \in 1 .. MaxSeq |-> "none"]
              /\ head \in [Fetchers -> ServerHead]
<1>1. TypeInv => /\ RowsTyped /\ LocalTypes /\ NetTypes /\ ModeTypes
                 /\ reviews = [s \in 1 .. MaxSeq |-> "none"]
                 /\ head \in [Fetchers -> ServerHead]
  BY DEF TypeInv, TypeOK, RowsTyped, LocalTypes, NetTypes, PushType, Modes, ModeTypes
<1>2. ASSUME RowsTyped, LocalTypes, NetTypes, ModeTypes,
             reviews = [s \in 1 .. MaxSeq |-> "none"], head \in [Fetchers -> ServerHead]
      PROVE  TypeInv
  <2>1. push.pc \in {"idle", "ready", "sent", "answered", "head"} /\ push.mode \in Modes
    BY <1>2 DEF NetTypes, PushType
  <2>2. {awaiting, halted} \subseteq BOOLEAN
    BY <1>2 DEF ModeTypes
  <2>3. TypeOK
    BY <1>2, <2>1, <2>2 DEF RowsTyped, LocalTypes, NetTypes, ModeTypes, Modes, TypeOK
  <2> QED
    BY <1>2, <2>3 DEF TypeInv, RowsTyped, LocalTypes, NetTypes, PushType, Modes
<1> QED
  BY <1>1, <1>2

\* A device that never synced, before a server that never saw it.
LEMMA SyncInit == Init => SyncInv
<1> SUFFICES ASSUME Init PROVE SyncInv
  OBVIOUS
<1>1. gens = <<>> /\ snaps = <<>> /\ cmds = <<>> /\ L!Seqs = {} /\ Len(gens) = 0
      /\ reviews = [s \in 1 .. MaxSeq |-> "none"]
  BY DEF Init, L!Init, L!Seqs
<1>2. L!TypeOK
  <2>1. Ledger!Init
    BY DEF Init, L!Init, Ledger!Init, L!Idle, Ledger!Idle, L!NoRow, Ledger!NoRow
  <2> QED
    BY <2>1, LedgerConstants, LedgerTypes, Ledger!TypeInit
<1>3. RowsTyped
  BY <1>1, <1>2, Bounds DEF RowsTyped
<1>4. NewGame(0) \in State /\ NewGame(0).generation = 0 /\ NewGame(0).rev = 0
      /\ NoPending \in Pending
  BY NewGames, Bounds DEF Pending
<1>5. /\ env = [generation |-> 0, state |-> NewGame(0), pending |-> NoPending, acked |-> 0,
                dirty |-> FALSE]
      /\ slot = env /\ overlaid = FALSE /\ live = NewGame(0) /\ since = FALSE /\ canon = FALSE /\ ids = 0 /\ revs = 0
  BY DEF Init
<1>6. env \in Envelope
  BY <1>4, <1>5, Bounds DEF Envelope
<1>7. LocalTypes
  <2>1. live \in State /\ slot \in Envelope /\ ids \in 0 .. MaxIds /\ revs \in 0 .. MaxRevs
    BY <1>4, <1>5, <1>6, Bounds
  <2> QED
    BY <1>5, <1>6, <2>1 DEF LocalTypes
<1>8. push = PushIdle /\ wire = {} /\ acks = {} /\ synced = {}
  BY DEF Init
<1>9. NetTypes
  BY <1>8, PushTypes DEF NetTypes
<1>10. ModeTypes
  BY DEF Init, ModeTypes, RecheckIdle
<1>11. head \in [Fetchers -> ServerHead] /\ \A x \in Fetchers : head[x] = NoHead
  BY DEF Init, ServerHead
<1>12. TypeInv
  BY <1>1, <1>3, <1>7, <1>9, <1>10, <1>11, TypeParts
<1>13. LocalInv
  BY <1>4, <1>5 DEF LocalInv, Sound, HasPending
<1>14. RowsInv /\ HeadInv
  BY <1>1, <1>11 DEF RowsInv, HeadInv, NoHead
<1>15. WireInv /\ AnswerInv
  BY <1>8, PushTypes DEF WireInv, AnswerInv
<1>16. Made = {}
  BY <1>1, <1>5, <1>8, PushTypes DEF Made
<1> QED
  BY <1>12, <1>13, <1>14, <1>15, <1>16 DEF SyncInv, IdInv

\* What every step does, and what it keeps.
LEMMA SyncStep ==
  ASSUME SyncInv, Next
  PROVE  SyncInv' /\ ServerStep /\ LocalStep /\ NetStep /\ RowsStay
<1>1. TypeInv /\ LocalInv /\ RowsInv /\ HeadInv /\ WireInv /\ AnswerInv /\ IdInv
  BY DEF SyncInv
<1>2. ServerStep /\ HeadStep /\ LocalStep
  BY <1>1, ServerSteps, HeadSteps, LocalSteps
<1>3. RowsTyped' /\ RowsStay /\ RowsInv' /\ reviews' = reviews
  BY <1>1, <1>2, ServerFacts DEF RowsTyped
<1>4. head' \in [Fetchers -> ServerHead] /\ HeadInv'
  BY <1>1, <1>2, <1>3, HeadsStaySound
<1>5. NetStep
  BY <1>1, <1>3, NetSteps
<1>6. LocalTypes' /\ LocalInv'
  BY <1>1, <1>2, <1>3, LocalKept
<1>7. NetTypes' /\ WireInv' /\ AnswerInv'
  BY <1>1, <1>3, <1>5, <1>6, NetKept
<1>8. IdInv'
  BY <1>1, <1>2, <1>5, IdsKept
<1>9. ModeTypes' /\ reviews' = [s \in 1 .. MaxSeq |-> "none"]
  BY <1>1, <1>3, ModesKept DEF TypeInv
<1>10. TypeInv'
  <2>1. (/\ RowsTyped /\ LocalTypes /\ NetTypes /\ ModeTypes
         /\ reviews = [s \in 1 .. MaxSeq |-> "none"]
         /\ head \in [Fetchers -> ServerHead])'
    BY <1>3, <1>4, <1>6, <1>7, <1>9
  <2> QED
    BY <2>1, TypeParts, PTL
<1> QED
  BY <1>2, <1>3, <1>4, <1>5, <1>6, <1>7, <1>8, <1>10 DEF SyncInv

\* The invariant holds in every state.
THEOREM SyncAlways == Spec => []SyncInv
<1>1. SyncInv /\ UNCHANGED vars => SyncInv'
  <2> SUFFICES ASSUME SyncInv, UNCHANGED vars PROVE SyncInv'
    OBVIOUS
  <2>1. TypeInv' <=> TypeInv
    BY DEF vars, server, local, tasks, modes, net, TypeInv, TypeOK, L!TypeOK, L!Seqs,
           L!ActiveGeneration, HasPending
  <2>2. StoredSaves' = StoredSaves /\ AnchoredSaves' = AnchoredSaves /\ StoredStates' = StoredStates
        /\ Made' = Made
    BY DEF vars, server, local, tasks, net, StoredSaves, AnchoredSaves, StoredStates, Made, L!Seqs
  <2>3. LocalInv' /\ RowsInv' /\ HeadInv'
    BY <2>2 DEF SyncInv, vars, server, local, tasks, LocalInv, Sound, HasPending, RowsInv, HeadInv,
                L!Seqs
  <2>4. WireInv' /\ AnswerInv' /\ IdInv'
    BY <2>2 DEF SyncInv, vars, tasks, net, WireInv, AnswerInv, IdInv
  <2> QED
    BY <2>1, <2>3, <2>4 DEF SyncInv
<1> QED
  BY <1>1, SyncInit, SyncStep, PTL DEF Spec

-----------------------------------------------------------------------------
(* The properties.                                                         *)

\* Every variable keeps its type, for every bound.
THEOREM TypeCorrect == Spec => []TypeOK
<1>1. SyncInv => TypeOK
  BY DEF SyncInv, TypeInv
<1> QED
  BY <1>1, SyncAlways, PTL

\* A client that believes itself saved runs a new game or a state the server stores.
THEOREM CleanAlwaysMeansStored == Spec => []CleanMeansStored
<1>1. SyncInv => CleanMeansStored
  <2> SUFFICES ASSUME SyncInv, ~Unpushed PROVE live.rev = 0 \/ \E s \in L!Seqs :
                 /\ cmds[s].state = live /\ snaps[s].generation = live.generation
                 /\ snaps[s].disposition # "stored_refused"
    BY DEF CleanMeansStored
  <2>1. live = env.state /\ (env.state.rev = 0 \/ env.state \in StoredStates)
    BY DEF SyncInv, LocalInv, Sound, Unpushed
  <2>2. ASSUME live \in StoredStates
        PROVE  \E s \in L!Seqs : /\ cmds[s].state = live /\ snaps[s].generation = live.generation
                                 /\ snaps[s].disposition # "stored_refused"
    <3>1. PICK s \in L!Seqs : snaps[s].disposition # "stored_refused"
                              /\ SaveOf(cmds[s]).state = live
      BY <2>2 DEF StoredStates, StoredSaves
    <3>2. cmds[s].state = live
      BY <3>1 DEF SaveOf
    <3> QED
      BY <3>1, <3>2 DEF SyncInv, RowsInv
  <2> QED
    BY <2>1, <2>2
<1> QED
  BY <1>1, SyncAlways, PTL

\* What the player was told is saved is anchored, and its generation's anchor never gets
\* shallower.
THEOREM SyncedAlwaysAnchored == Spec => []SyncedAnchored
<1>1. SyncInv => SyncedAnchored
  <2> SUFFICES ASSUME SyncInv, NEW x \in synced
               PROVE  /\ \E s \in L!Seqs : /\ cmds[s].id = x.id /\ cmds[s].state = x.state
                                           /\ snaps[s].disposition = "anchored"
                                           /\ snaps[s].generation = x.state.generation
                      /\ \A s \in L!AnchorRow(x.state.generation) : snaps[s].progress >= x.state.depth
    BY DEF SyncedAnchored
  <2>1. PICK s \in L!Seqs : snaps[s].disposition = "anchored" /\ x = SaveOf(cmds[s])
    BY DEF SyncInv, AnswerInv, AnchoredSaves
  <2>2. cmds[s].id = x.id /\ cmds[s].state = x.state
    BY <2>1 DEF SaveOf
  <2>3. snaps[s].generation = x.state.generation /\ snaps[s].progress = x.state.depth
    BY <2>1, <2>2 DEF SyncInv, RowsInv
  <2>4. ASSUME NEW t \in L!AnchorRow(x.state.generation)
        PROVE  snaps[t].progress >= x.state.depth
    <3>1. s \in L!Eligible(x.state.generation)
      BY <2>1, <2>3 DEF L!Eligible
    <3>2. t \in L!Seqs /\ L!Deeper(t, s)
      BY <3>1 DEF L!AnchorRow, L!Eligible
    <3>3. snaps[s] \in L!Snapshot /\ snaps[t] \in L!Snapshot
      BY <3>2 DEF SyncInv, TypeInv, TypeOK, L!TypeOK, L!Seqs
    <3>4. snaps[s].progress \in Nat /\ snaps[t].progress \in Nat
      BY <3>3, Bounds DEF L!Snapshot
    <3> QED
      BY <2>3, <3>2, <3>4 DEF L!Deeper
  <2> QED
    BY <2>1, <2>2, <2>3, <2>4
<1> QED
  BY <1>1, SyncAlways, PTL

\* A state of an abandoned generation never enters a newer one.
THEOREM GenerationsAlwaysApart == Spec => []GenerationsApart
<1>1. SyncInv => GenerationsApart
  BY DEF SyncInv, LocalInv, Sound, RowsInv, HasPending, GenerationsApart
<1> QED
  BY <1>1, SyncAlways, PTL

\* A command id is on the device before it is first sent, but for one whose write the
\* device refused.
THEOREM AlwaysPersistedBeforeSent == Spec => PersistedBeforeSent
<1> DEFINE Fresh == \A r \in wire' \ wire :
             (\A q \in wire : q.id # r.id) /\ (\A s \in L!Seqs : cmds[s].id # r.id)
               => slot'.pending.id = r.id \/ overlaid'
<1>1. SyncInv /\ [Next]_vars => [Fresh]_vars
  <2> SUFFICES ASSUME SyncInv, Next, NEW r \in wire' \ wire, \A q \in wire : q.id # r.id
               PROVE  slot'.pending.id = r.id \/ overlaid'
    OBVIOUS
  <2>1. NetStep /\ SyncInv'
    BY SyncStep
  <2>2. CASE Sent \/ BeaconSent
    <3>1. env'.pending # NoPending /\ r.id = env'.pending.id
      BY <2>2 DEF Sent, BeaconSent, Requested
    <3>2. ~overlaid' => slot'.pending = env'.pending
      BY <2>1, <3>1 DEF SyncInv, LocalInv, HasPending
    <3> QED
      BY <3>1, <3>2
  <2>3. ASSUME NEW q \in wire, NEW via, r = [q EXCEPT !.via = via] PROVE FALSE
    <3>1. q \in Request
      BY DEF SyncInv, TypeInv, TypeOK
    <3>2. r.id = q.id
      BY <2>3, <3>1 DEF Request
    <3> QED
      BY <3>2
  <2>4. ASSUME NEW q \in wire, Abandoned(q) PROVE FALSE
    BY <2>3, <2>4 DEF Abandoned
  <2>5. CASE Gone
    <3>1. PICK q \in wire : r = [q EXCEPT !.via = IF @ = "put" THEN "late" ELSE @]
      BY <2>5 DEF Gone
    <3>2. PICK via : via = IF q.via = "put" THEN "late" ELSE q.via
      OBVIOUS
    <3> QED
      BY <2>3, <3>1, <3>2
  <2>6. ~(wire' \subseteq wire)
    OBVIOUS
  <2> QED
    BY <2>1, <2>2, <2>4, <2>5, <2>6 DEF NetStep, Answered, Answers, Told, BeaconTold
<1> QED
  BY <1>1, SyncAlways, PTL DEF Spec, PersistedBeforeSent

\* The server the clients run against behaves as the ledger on its own does, so what holds
\* of every ledger holds of this one.
THEOREM SyncRunsTheLedger == Spec => L!Spec
<1>1. Init => L!Init
  BY DEF Init
<1>2. SyncInv /\ [Next]_vars => [L!Next]_(L!vars)
  <2> SUFFICES ASSUME SyncInv, Next PROVE [L!Next]_(L!vars)
    BY DEF vars, server, L!vars
  <2>1. ServerStep /\ TypeInv
    BY SyncStep DEF SyncInv
  <2>2. Len(L!Lineage) - 1 \in 0 .. MaxGeneration
    BY <2>1, LineageHere
  <2> QED
    BY <2>1, <2>2 DEF ServerStep, Written, server, L!vars, L!Next
<1> QED
  BY <1>1, <1>2, SyncAlways, PTL DEF Spec, L!Spec

\* So what is proved of every ledger is proved of this one: whatever the clients send, late,
\* twice or from an abandoned generation, the anchor's blob stays, a restart opens one
\* generation, what a superseded generation would restore to never changes, and the lineage is
\* a register that only deepens but for a newer generation.
THEOREM SyncKeepsTheLedger ==
  Spec => /\ [](L!AnchorRetained /\ L!RestartOnce)
          /\ L!SupersededGenerationFrozen
          /\ L!RegisterRefined
<1>1. Init => Ledger!Init
  BY DEF Init, L!Init, Ledger!Init, L!NoRow, Ledger!NoRow, L!Idle, Ledger!Idle
<1>2. SyncInv /\ [Next]_vars => [Ledger!Next]_(Ledger!vars)
  <2> SUFFICES ASSUME SyncInv, Next PROVE [Ledger!Next]_(Ledger!vars)
    BY DEF vars, server, Ledger!vars
  <2>1. ServerStep /\ TypeInv
    BY SyncStep DEF SyncInv
  <2>2. Len(L!Lineage) - 1 \in 0 .. MaxGeneration
    BY <2>1, LineageHere
  <2>3. CASE UNCHANGED server
    BY <2>3 DEF server, Ledger!vars
  <2>4. ASSUME NEW write \in L!Writes, NEW command \in Command, Written(write, command)
        PROVE  Ledger!Next
    <3>1. write \in Ledger!Writes /\ Ledger!SavesWrite(write)
      BY <2>4, LedgerWrites DEF Written
    <3> QED
      BY <3>1 DEF Ledger!Next
  <2>5. ASSUME NEW r \in RestartIds, L!LineageRestart(r, Len(L!Lineage) - 1)
        PROVE  Ledger!Next
    <3>1. Ledger!LineageRestart(r, Len(L!Lineage) - 1)
      BY <2>5, LedgerRestarts
    <3> QED
      BY <2>2, <3>1 DEF Ledger!Next
  <2> QED
    BY <2>1, <2>3, <2>4, <2>5 DEF ServerStep
<1>3. Spec => Ledger!Spec
  BY <1>1, <1>2, SyncAlways, PTL DEF Spec, Ledger!Spec
<1>4. Ledger!Spec => []Ledger!AnchorRetained
  BY LedgerConstants, Ledger!AnchorAlwaysRetained
<1>5. Ledger!Spec => []Ledger!RestartOnce
  BY LedgerConstants, Ledger!RestartsOnce
<1>6. Ledger!Spec => Ledger!SupersededGenerationFrozen
  BY LedgerConstants, Ledger!SupersededAlwaysFrozen
<1>7. Ledger!AnchorRetained => L!AnchorRetained
  <2>1. \A g : L!Eligible(g) = Ledger!Eligible(g)
    BY DEF L!Eligible, Ledger!Eligible, L!Seqs, Ledger!Seqs
  <2>2. \A s, t : L!Deeper(s, t) <=> Ledger!Deeper(s, t)
    BY DEF L!Deeper, Ledger!Deeper
  <2>3. \A g : L!AnchorRow(g) = Ledger!AnchorRow(g)
    BY <2>1, <2>2 DEF L!AnchorRow, Ledger!AnchorRow
  <2> QED
    BY <2>3 DEF L!AnchorRetained, Ledger!AnchorRetained, L!ActiveGeneration, Ledger!ActiveGeneration
<1>8. Ledger!RestartOnce => L!RestartOnce
  BY DEF L!RestartOnce, Ledger!RestartOnce, L!NoRestart, Ledger!NoRestart
<1>9. [\A g \in 0 .. Ledger!ActiveGeneration - 1 : Ledger!Eligible(g)' = Ledger!Eligible(g)]_(Ledger!vars)
        => [\A g \in 0 .. L!ActiveGeneration - 1 : L!Eligible(g)' = L!Eligible(g)]_(L!vars)
  BY DEF L!ActiveGeneration, Ledger!ActiveGeneration, L!Eligible, Ledger!Eligible, L!Seqs,
         Ledger!Seqs, L!vars, Ledger!vars
<1>10. Ledger!Spec => Ledger!RegisterRefined
  BY LedgerConstants, Ledger!LedgerImplementsRegister
<1>11. Ledger!Register!RegisterInit => L!Register!RegisterInit
  BY DEF L!Register!RegisterInit, Ledger!Register!RegisterInit, L!ActiveGeneration,
         Ledger!ActiveGeneration, L!Eligible, Ledger!Eligible, L!Seqs, Ledger!Seqs
<1>12. [Ledger!Register!RegisterNext]_(Ledger!Register!rvars) => [L!Register!RegisterNext]_(L!Register!rvars)
  BY DEF L!Register!RegisterNext, Ledger!Register!RegisterNext, L!Register!rvars,
         Ledger!Register!rvars, L!Register!Deepen, Ledger!Register!Deepen,
         L!Register!OpenGeneration, Ledger!Register!OpenGeneration, L!ActiveGeneration,
         Ledger!ActiveGeneration, L!Eligible, Ledger!Eligible, L!Seqs, Ledger!Seqs
<1> QED
  BY <1>3, <1>4, <1>5, <1>6, <1>7, <1>8, <1>9, <1>10, <1>11, <1>12, PTL
  DEF L!RegisterRefined, Ledger!RegisterRefined, L!Register!RegisterSpec, Ledger!Register!RegisterSpec,
       L!SupersededGenerationFrozen, Ledger!SupersededGenerationFrozen
=============================================================================

---------------------------- MODULE OutboxProofs ----------------------------
(***************************************************************************)
(* Theorems about Outbox for any messages, consumers, workers and bounds.  *)
(*                                                                         *)
(* The refinement rests on the lease token: only the worker whose lease is *)
(* current may settle a row, so what it settles is leased, and a consumer  *)
(* that ended well under that lease has performed the delivery since it    *)
(* was queued (PerformedUnderLease).                                       *)
(***************************************************************************)
EXTENDS Outbox, TLAPS

\* Deliveries and open dead letters reference an outbox row that is there.
RowsReferToLive ==
  \A d \in Deliveries : row[d].state # "none" => outbox[d[1]] = "live"

PerformedUnderLease ==
  \A w \in Workers, d \in Deliveries :
    held[w][d].pc = "ok" /\ row[d].token = w => d \in handled

OutboxInv ==
  /\ TypeOK
  /\ DeadLettersMatch
  /\ RowsReferToLive
  /\ PerformedUnderLease

-----------------------------------------------------------------------------
(* What the steps of a worker do to the types.                             *)

\* The absent and the freshly queued delivery rows have their type.
LEMMA RowConstants ==
  /\ NoRow \in Row /\ Queued \in Row /\ NotHeld \in Lease
  /\ NoRow.token = Nobody /\ Queued.token = Nobody
  /\ NoRow.state = "none" /\ Queued.state = "pending"
  /\ ~NoRow.lapsed /\ ~Queued.lapsed
  /\ NotHeld.pc = "none"
BY OutboxAssumption DEF NoRow, Queued, Row, NotHeld, Lease

\* A delivery is a message and a consumer.
LEMMA DeliveryParts ==
  ASSUME NEW d \in Deliveries
  PROVE  d[1] \in Messages /\ d[2] \in Consumers /\ d = <<d[1], d[2]>>
BY DEF Deliveries

\* What the leasing statement makes of a row.
LEMMA LeasedFacts ==
  ASSUME TypeOK, NEW w \in Workers, NEW d \in Deliveries
  PROVE  /\ Leased(w, d) \in Row
         /\ Leased(w, d).token = w
         /\ Leased(w, d).state = "leased"
         /\ ~Leased(w, d).lapsed
         /\ [pc |-> "leased", attempts |-> Leased(w, d).attempts] \in Lease
<1>1. row[d].attempts \in 0 .. MaxAttempts /\ MaxAttempts \in Nat
  BY OutboxAssumption DEF TypeOK, Row
<1> QED
  BY <1>1, OutboxAssumption DEF Leased, Row, Lease

\* What the finalising statements make of a row.
LEMMA SettledFacts ==
  ASSUME TypeOK, NEW d \in Deliveries, NEW state \in {"pending", "delivered", "dead"}
  PROVE  /\ Settled(state, d) \in Row
         /\ Settled(state, d).token = Nobody
         /\ Settled(state, d).state = state
         /\ ~Settled(state, d).lapsed
<1>1. row[d] \in Row
  BY DEF TypeOK
<1> QED
  BY <1>1 DEF Settled, Row

\* Giving up a lease keeps the type of what is held.
LEMMA ReleaseFacts ==
  ASSUME TypeOK, NEW w \in Workers, NEW d \in Deliveries, Release(w, d)
  PROVE  /\ held' \in [Workers -> [Deliveries -> Lease]]
         /\ held'[w][d].pc = "none"
         /\ \A v \in Workers, e \in Deliveries : v # w \/ e # d => held'[v][e] = held[v][e]
<1>1. held \in [Workers -> [Deliveries -> Lease]] /\ held' = [held EXCEPT ![w][d] = NotHeld]
  BY DEF TypeOK, Release
<1> QED
  BY <1>1, RowConstants

\* A row changed to one that is not leased and has no token is still well typed.
LEMMA OneRowType ==
  ASSUME TypeOK, NEW d \in Deliveries, NEW r \in Row, r.state # "leased",
         r.token = Nobody, ~r.lapsed, row' = [row EXCEPT ![d] = r]
  PROVE  /\ row' \in [Deliveries -> Row]
         /\ \A e \in Deliveries : /\ row'[e].token # Nobody <=> row'[e].state = "leased"
                                  /\ row'[e].lapsed => row'[e].state = "leased"
         /\ row'[d] = r
         /\ \A e \in Deliveries : e # d => row'[e] = row[e]
BY DEF TypeOK

-----------------------------------------------------------------------------
(* Each action keeps the invariant.                                        *)

\* emitOutbox keeps the invariant.
LEMMA EmitKeeps ==
  ASSUME OutboxInv, NEW m \in Messages, NEW wanting \in SUBSET Consumers, Emit(m, wanting)
  PROVE  OutboxInv'
<1> USE DEF OutboxInv
<1>1. /\ outbox[m] = "unborn"
      /\ outbox' = [outbox EXCEPT ![m] = "live"]
      /\ row' = [d \in Deliveries |-> IF d[1] = m /\ d[2] \in wanting THEN Queued ELSE row[d]]
      /\ UNCHANGED <<letters, held, handled, oldMessages, oldDeliveries, mishaps, replays>>
  BY DEF Emit
<1>2. \A d \in Deliveries : d[1] = m => row[d].state = "none"
  BY <1>1 DEF RowsReferToLive
<1>3. \A d \in Deliveries : row'[d] = IF d[1] = m /\ d[2] \in wanting THEN Queued ELSE row[d]
  BY <1>1
<1>4. \A d \in Deliveries : outbox'[d[1]] = IF d[1] = m THEN "live" ELSE outbox[d[1]]
  BY <1>1, DeliveryParts DEF TypeOK
<1>5. TypeOK'
  <2>1. row' \in [Deliveries -> Row]
    BY <1>1, <1>3, RowConstants DEF TypeOK
  <2>2. outbox' \in [Messages -> {"unborn", "live", "purged"}]
    BY <1>1 DEF TypeOK
  <2> QED
    BY <1>1, <1>3, <2>1, <2>2, RowConstants DEF TypeOK
<1>6. DeadLettersMatch'
  BY <1>1, <1>2, <1>3, RowConstants DEF DeadLettersMatch
<1>7. RowsReferToLive'
  BY <1>3, <1>4 DEF RowsReferToLive
<1>8. PerformedUnderLease'
  BY <1>1, <1>3, RowConstants, OutboxAssumption DEF PerformedUnderLease
<1> QED
  BY <1>5, <1>6, <1>7, <1>8

\* The leasing statement keeps the invariant: whatever it re-leases, its former
\* holder no longer owns.
LEMMA DrainKeeps ==
  ASSUME OutboxInv, NEW w \in Workers, Drain(w)
  PROVE  OutboxInv'
<1> USE DEF OutboxInv
<1>1. PICK D \in SUBSET Candidates :
        /\ row' = [d \in Deliveries |-> IF d \in D THEN Leased(w, d) ELSE row[d]]
        /\ held' = [held EXCEPT ![w] =
                      [d \in Deliveries |->
                         IF d \in D THEN [pc |-> "leased", attempts |-> Leased(w, d).attempts]
                         ELSE NotHeld]]
  BY DEF Drain
<1>2. UNCHANGED <<outbox, letters, handled, oldMessages, oldDeliveries, mishaps, replays>>
  BY DEF Drain
<1>3. \A d \in D : d \in Deliveries /\ row[d].state \in {"pending", "leased"}
  BY DEF Candidates
<1>4. \A d \in Deliveries : row'[d] = IF d \in D THEN Leased(w, d) ELSE row[d]
  BY <1>1
<1>5. /\ held' \in [Workers -> [Deliveries -> Lease]]
      /\ \A d \in Deliveries : held'[w][d].pc # "ok"
      /\ \A v \in Workers : v # w => held'[v] = held[v]
  <2> DEFINE batch == [d \in Deliveries |->
                         IF d \in D THEN [pc |-> "leased", attempts |-> Leased(w, d).attempts]
                         ELSE NotHeld]
  <2>1. batch \in [Deliveries -> Lease]
    BY LeasedFacts, RowConstants
  <2>2. \A d \in Deliveries : batch[d].pc # "ok"
    BY RowConstants
  <2>3. held \in [Workers -> [Deliveries -> Lease]] /\ held' = [held EXCEPT ![w] = batch]
    BY <1>1 DEF TypeOK
  <2> HIDE DEF batch
  <2> QED
    BY <2>1, <2>2, <2>3
<1>6. TypeOK'
  <2>1. row' \in [Deliveries -> Row]
    BY <1>1, <1>4, LeasedFacts DEF TypeOK
  <2>2. \A d \in Deliveries : /\ row'[d].token # Nobody <=> row'[d].state = "leased"
                              /\ row'[d].lapsed => row'[d].state = "leased"
    <3> TAKE d \in Deliveries
    <3>1. CASE d \in D
      <4>1. row'[d] = Leased(w, d)
        BY <1>4, <3>1
      <4>2. /\ Leased(w, d).token = w /\ Leased(w, d).state = "leased"
            /\ w # Nobody
        BY LeasedFacts, OutboxAssumption
      <4> QED
        BY <4>1, <4>2
    <3>2. CASE d \notin D
      <4>1. row'[d] = row[d]
        BY <1>4, <3>2
      <4> QED
        BY <4>1 DEF TypeOK
    <3> QED
      BY <3>1, <3>2
  <2> QED
    BY <1>2, <1>5, <2>1, <2>2 DEF TypeOK
<1>7. DeadLettersMatch'
  BY <1>2, <1>3, <1>4, LeasedFacts DEF DeadLettersMatch
<1>8. RowsReferToLive'
  BY <1>2, <1>3, <1>4 DEF RowsReferToLive
<1>9. PerformedUnderLease'
  <2>1. ASSUME NEW v \in Workers, NEW d \in Deliveries,
               held'[v][d].pc = "ok", row'[d].token = v
        PROVE  d \in handled
    <3>1. v # w /\ held[v][d].pc = "ok"
      BY <1>5, <2>1
    <3>2. d \notin D
      <4>1. Leased(w, d).token = w
        BY LeasedFacts
      <4> QED
        BY <1>4, <2>1, <3>1, <4>1
    <3>3. row[d].token = v
      BY <1>4, <2>1, <3>2
    <3> QED
      BY <3>1, <3>3 DEF PerformedUnderLease
  <2> QED
    BY <1>2, <2>1 DEF PerformedUnderLease
<1> QED
  BY <1>6, <1>7, <1>8, <1>9

\* A consumer's run keeps the invariant, whether it throws or not.
LEMMA HandleKeeps ==
  ASSUME OutboxInv, NEW w \in Workers, NEW d \in Deliveries, Handle(w, d)
  PROVE  OutboxInv'
<1> USE DEF OutboxInv
<1>1. /\ UNCHANGED <<outbox, row, letters, oldMessages, oldDeliveries, mishaps, replays>>
      /\ handled \subseteq handled' /\ handled' \subseteq Deliveries
      /\ \/ held' = [held EXCEPT ![w][d].pc = "ok"] /\ d \in handled'
         \/ held' = [held EXCEPT ![w][d].pc = "error"]
  BY DEF Handle, TypeOK
<1>2. held \in [Workers -> [Deliveries -> Lease]]
  BY DEF TypeOK
<1>3. /\ held' \in [Workers -> [Deliveries -> Lease]]
      /\ held'[w][d].pc = "ok" => d \in handled'
      /\ \A v \in Workers, e \in Deliveries : v # w \/ e # d => held'[v][e] = held[v][e]
  <2>1. ASSUME held' = [held EXCEPT ![w][d].pc = "ok"], d \in handled'
        PROVE  /\ held' \in [Workers -> [Deliveries -> Lease]]
               /\ \A v \in Workers, e \in Deliveries : v # w \/ e # d => held'[v][e] = held[v][e]
    BY <1>2, <2>1 DEF Lease
  <2>2. ASSUME held' = [held EXCEPT ![w][d].pc = "error"]
        PROVE  /\ held' \in [Workers -> [Deliveries -> Lease]]
               /\ held'[w][d].pc = "error"
               /\ \A v \in Workers, e \in Deliveries : v # w \/ e # d => held'[v][e] = held[v][e]
    BY <1>2, <2>2 DEF Lease
  <2> QED
    BY <1>1, <2>1, <2>2
<1>4. PerformedUnderLease'
  BY <1>1, <1>3 DEF PerformedUnderLease
<1> QED
  BY <1>1, <1>3, <1>4 DEF TypeOK, DeadLettersMatch, RowsReferToLive

\* Releasing a lease without touching the row: skipping, or finalising too late.
LEMMA ReleaseKeeps ==
  ASSUME OutboxInv, NEW w \in Workers, NEW d \in Deliveries, Release(w, d),
         UNCHANGED <<outbox, row, letters, handled, oldMessages, oldDeliveries, mishaps, replays>>
  PROVE  OutboxInv'
<1> USE DEF OutboxInv
<1>1. PerformedUnderLease'
  <2>1. ASSUME NEW v \in Workers, NEW e \in Deliveries, held'[v][e].pc = "ok"
        PROVE  held[v][e].pc = "ok"
    BY <2>1, ReleaseFacts
  <2> QED
    BY <2>1 DEF PerformedUnderLease
<1> QED
  BY <1>1, ReleaseFacts DEF TypeOK, DeadLettersMatch, RowsReferToLive

\* Settling a row under its own lease, with a dead letter if it is dead.
LEMMA SettleKeeps ==
  ASSUME OutboxInv, NEW w \in Workers, NEW d \in Deliveries, Release(w, d), Owns(w, d),
         NEW state \in {"pending", "delivered", "dead"},
         row' = [row EXCEPT ![d] = Settled(state, d)],
         letters' = IF state = "dead" THEN [letters EXCEPT ![d].open = @ + 1] ELSE letters,
         UNCHANGED <<outbox, handled, oldMessages, oldDeliveries, mishaps, replays>>
  PROVE  OutboxInv'
<1> USE DEF OutboxInv
<1>1. row[d].state = "leased"
  BY OutboxAssumption DEF Owns, TypeOK
<1>2. /\ row' \in [Deliveries -> Row]
      /\ \A e \in Deliveries : /\ row'[e].token # Nobody <=> row'[e].state = "leased"
                               /\ row'[e].lapsed => row'[e].state = "leased"
      /\ row'[d].state = state /\ row'[d].token = Nobody
      /\ \A e \in Deliveries : e # d => row'[e] = row[e]
  <2>1. \E r \in Row : /\ r = Settled(state, d) /\ r.state = state /\ r.token = Nobody /\ ~r.lapsed
    BY SettledFacts
  <2>2. PICK r \in Row : /\ r = Settled(state, d) /\ r.state = state /\ r.token = Nobody /\ ~r.lapsed
    BY <2>1
  <2> QED
    BY <2>2, OneRowType
<1>3. letters[d].open = 0
  BY <1>1 DEF DeadLettersMatch
<1>4. /\ letters' \in [Deliveries -> [open : Nat, replayed : BOOLEAN]]
      /\ letters'[d].open = IF state = "dead" THEN 1 ELSE 0
      /\ \A e \in Deliveries : e # d => letters'[e] = letters[e]
  BY <1>3 DEF TypeOK
<1>5. TypeOK'
  BY <1>2, <1>4, ReleaseFacts DEF TypeOK
<1>6. DeadLettersMatch'
  BY <1>2, <1>4 DEF DeadLettersMatch
<1>7. RowsReferToLive'
  BY <1>1, <1>2 DEF RowsReferToLive
<1>8. PerformedUnderLease'
  <2>1. ASSUME NEW v \in Workers, NEW e \in Deliveries, held'[v][e].pc = "ok", row'[e].token = v
        PROVE  held[v][e].pc = "ok" /\ row[e].token = v
    BY <1>2, <2>1, ReleaseFacts, OutboxAssumption
  <2> QED
    BY <2>1 DEF PerformedUnderLease
<1> QED
  BY <1>5, <1>6, <1>7, <1>8

\* Finalising under the lease token keeps the invariant, owner or not.
LEMMA FinaliseKeeps ==
  ASSUME OutboxInv, NEW w \in Workers, NEW d \in Deliveries,
         FinaliseDelivered(w, d) \/ FinaliseFailed(w, d) \/ FinaliseDead(w, d)
  PROVE  OutboxInv'
<1>1. /\ Release(w, d)
      /\ UNCHANGED <<outbox, handled, oldMessages, oldDeliveries, mishaps, replays>>
  BY DEF FinaliseDelivered, FinaliseFailed, FinaliseDead
<1>2. CASE ~Owns(w, d)
  <2>1. UNCHANGED <<row, letters>>
    BY <1>2 DEF FinaliseDelivered, FinaliseFailed, FinaliseDead
  <2> QED
    BY <1>1, <2>1, ReleaseKeeps
<1>3. CASE Owns(w, d)
  <2>1. \E state \in {"pending", "delivered", "dead"} :
          /\ row' = [row EXCEPT ![d] = Settled(state, d)]
          /\ letters' = IF state = "dead" THEN [letters EXCEPT ![d].open = @ + 1] ELSE letters
    BY <1>3 DEF FinaliseDelivered, FinaliseFailed, FinaliseDead
  <2> QED
    BY <1>1, <1>3, <2>1, SettleKeeps
<1> QED
  BY <1>2, <1>3

\* A lost worker keeps the invariant.
LEMMA AbandonKeeps ==
  ASSUME OutboxInv, NEW w \in Workers, Abandon(w)
  PROVE  OutboxInv'
<1> USE DEF OutboxInv
<1>1. /\ UNCHANGED <<outbox, row, letters, handled, oldMessages, oldDeliveries, replays>>
      /\ held' = [held EXCEPT ![w] = [d \in Deliveries |-> NotHeld]]
      /\ mishaps < MaxMishaps /\ mishaps' = mishaps + 1
  BY DEF Abandon
<1>2. [d \in Deliveries |-> NotHeld] \in [Deliveries -> Lease]
  BY RowConstants
<1>3. /\ held' \in [Workers -> [Deliveries -> Lease]]
      /\ \A v \in Workers, d \in Deliveries : held'[v][d].pc = "ok" => held[v][d].pc = "ok"
  BY <1>1, <1>2, RowConstants DEF TypeOK
<1>4. mishaps' \in 0 .. MaxMishaps
  BY <1>1, OutboxAssumption DEF TypeOK
<1>5. TypeOK'
  BY <1>1, <1>3, <1>4 DEF TypeOK
<1> QED
  BY <1>1, <1>3, <1>5 DEF DeadLettersMatch, RowsReferToLive, PerformedUnderLease

\* A lease that runs out keeps the invariant.
LEMMA LapseKeeps ==
  ASSUME OutboxInv, NEW d \in Deliveries, LapseAbandoned(d) \/ LapseUnderWay(d)
  PROVE  OutboxInv'
<1> USE DEF OutboxInv
<1>1. /\ row[d].state = "leased"
      /\ row' = [row EXCEPT ![d].lapsed = TRUE]
      /\ UNCHANGED <<outbox, letters, held, handled, oldMessages, oldDeliveries, replays>>
      /\ mishaps' \in 0 .. MaxMishaps
  BY OutboxAssumption DEF LapseAbandoned, LapseUnderWay, Lapse, TypeOK
<1>2. /\ row' \in [Deliveries -> Row]
      /\ \A e \in Deliveries : /\ row'[e].state = row[e].state
                               /\ row'[e].token = row[e].token
                               /\ e # d => row'[e] = row[e]
  BY <1>1 DEF TypeOK, Row
<1>3. TypeOK'
  BY <1>1, <1>2 DEF TypeOK
<1> QED
  BY <1>1, <1>2, <1>3 DEF DeadLettersMatch, RowsReferToLive, PerformedUnderLease

\* Age alone keeps the invariant.
LEMMA AgeKeeps ==
  ASSUME OutboxInv,
         (\E m \in Messages : AgeMessage(m)) \/ (\E d \in Deliveries : AgeDelivery(d))
  PROVE  OutboxInv'
BY DEF OutboxInv, AgeMessage, AgeDelivery, TypeOK, DeadLettersMatch, RowsReferToLive,
       PerformedUnderLease

\* replayInTx keeps the invariant: the dead letter is closed with the row requeued.
LEMMA ReplayKeeps ==
  ASSUME OutboxInv, NEW d \in Deliveries, Replay(d)
  PROVE  OutboxInv'
<1> USE DEF OutboxInv
<1>1. /\ outbox[d[1]] = "live"
      /\ row' = [row EXCEPT ![d] = Queued]
      /\ letters' = [letters EXCEPT ![d] = [open |-> 0, replayed |-> @.replayed \/ @.open > 0]]
      /\ handled' = handled \ {d}
      /\ oldDeliveries' = oldDeliveries \ {d}
      /\ UNCHANGED <<outbox, held, oldMessages, mishaps>>
      /\ replays' \in 0 .. MaxReplays
  BY OutboxAssumption DEF Replay, TypeOK
<1>2. /\ row' \in [Deliveries -> Row]
      /\ \A e \in Deliveries : /\ row'[e].token # Nobody <=> row'[e].state = "leased"
                               /\ row'[e].lapsed => row'[e].state = "leased"
      /\ row'[d].state = "pending" /\ row'[d].token = Nobody
      /\ \A e \in Deliveries : e # d => row'[e] = row[e]
  <2>1. PICK r \in Row : r = Queued
    BY RowConstants
  <2> QED
    BY <1>1, <2>1, RowConstants, OneRowType
<1>3. /\ letters' \in [Deliveries -> [open : Nat, replayed : BOOLEAN]]
      /\ letters'[d].open = 0
      /\ \A e \in Deliveries : e # d => letters'[e] = letters[e]
  <2> DEFINE was == letters[d].replayed \/ letters[d].open > 0
  <2>1. letters \in [Deliveries -> [open : Nat, replayed : BOOLEAN]]
    BY DEF TypeOK
  <2>2. letters' = [letters EXCEPT ![d] = [open |-> 0, replayed |-> was]]
    BY <1>1
  <2>3. was \in BOOLEAN
    OBVIOUS
  <2>4. [open |-> 0, replayed |-> was] \in [open : Nat, replayed : BOOLEAN]
    BY <2>3
  <2> HIDE DEF was
  <2> QED
    BY <2>1, <2>2, <2>4
<1>4. TypeOK'
  BY <1>1, <1>2, <1>3 DEF TypeOK
<1>5. DeadLettersMatch'
  BY <1>2, <1>3 DEF DeadLettersMatch
<1>6. RowsReferToLive'
  BY <1>1, <1>2 DEF RowsReferToLive
<1>7. PerformedUnderLease'
  BY <1>1, <1>2, OutboxAssumption DEF PerformedUnderLease
<1> QED
  BY <1>4, <1>5, <1>6, <1>7

\* apply_retention keeps the invariant: it drops delivered rows alone.
LEMMA ApplyRetentionKeeps ==
  ASSUME OutboxInv, ApplyRetention
  PROVE  OutboxInv'
<1> USE DEF OutboxInv
<1>1. /\ row' = [d \in Deliveries |-> IF d \in Expired THEN NoRow ELSE row[d]]
      /\ oldDeliveries' = oldDeliveries \ Expired
      /\ outbox' = [m \in Messages |-> IF m \in Purgeable THEN "purged" ELSE outbox[m]]
      /\ oldMessages' = oldMessages \ Purgeable
      /\ UNCHANGED <<letters, held, handled, mishaps, replays>>
  BY DEF ApplyRetention
<1>2. \A d \in Deliveries : /\ row'[d] = IF d \in Expired THEN NoRow ELSE row[d]
                            /\ d \in Expired => row[d].state = "delivered"
  BY <1>1 DEF Expired
<1>3. TypeOK'
  <2>1. row' \in [Deliveries -> Row] /\ outbox' \in [Messages -> {"unborn", "live", "purged"}]
    BY <1>1, RowConstants DEF TypeOK
  <2>2. \A d \in Deliveries : /\ row'[d].token # Nobody <=> row'[d].state = "leased"
                              /\ row'[d].lapsed => row'[d].state = "leased"
    BY <1>2, RowConstants DEF TypeOK
  <2> QED
    BY <1>1, <2>1, <2>2 DEF TypeOK
<1>4. DeadLettersMatch'
  BY <1>1, <1>2, RowConstants DEF DeadLettersMatch
<1>5. RowsReferToLive'
  <2>1. ASSUME NEW d \in Deliveries, row'[d].state # "none"
        PROVE  outbox'[d[1]] = "live"
    <3>1. d \notin Expired /\ row[d].state # "none"
      BY <1>2, <2>1, RowConstants
    <3>2. d[1] \in Messages /\ d[2] \in Consumers /\ d = <<d[1], d[2]>>
      BY DeliveryParts
    <3>3. d[1] \notin Purgeable
      BY <3>1, <3>2 DEF Purgeable
    <3>4. outbox[d[1]] = "live"
      BY <3>1 DEF RowsReferToLive
    <3> QED
      BY <1>1, <3>2, <3>3, <3>4
  <2> QED
    BY <2>1 DEF RowsReferToLive
<1>6. PerformedUnderLease'
  BY <1>1, <1>2, RowConstants, OutboxAssumption DEF PerformedUnderLease
<1> QED
  BY <1>3, <1>4, <1>5, <1>6

-----------------------------------------------------------------------------
\* Empty outbox tables satisfy the invariant.
LEMMA OutboxInit == Init => OutboxInv
<1> SUFFICES ASSUME Init PROVE OutboxInv
  OBVIOUS
<1>1. /\ row \in [Deliveries -> Row] /\ held \in [Workers -> [Deliveries -> Lease]]
      /\ \A d \in Deliveries : row[d].state = "none" /\ row[d].token = Nobody /\ ~row[d].lapsed
      /\ \A w \in Workers, d \in Deliveries : held[w][d].pc = "none"
  BY RowConstants DEF Init
<1>2. TypeOK
  BY <1>1, OutboxAssumption DEF Init, TypeOK
<1> QED
  BY <1>1, <1>2 DEF Init, OutboxInv, DeadLettersMatch, RowsReferToLive, PerformedUnderLease

\* Every step keeps the invariant.
LEMMA OutboxStep == OutboxInv /\ [Next]_vars => OutboxInv'
<1> SUFFICES ASSUME OutboxInv, [Next]_vars PROVE OutboxInv'
  OBVIOUS
<1>1. ASSUME NEW m \in Messages, NEW wanting \in SUBSET Consumers, Emit(m, wanting)
      PROVE  OutboxInv'
  BY <1>1, EmitKeeps
<1>2. ASSUME NEW w \in Workers, Work(w) \/ Abandon(w)
      PROVE  OutboxInv'
  <2>1. CASE Drain(w)
    BY <2>1, DrainKeeps
  <2>2. ASSUME NEW d \in Deliveries, Handle(w, d) PROVE OutboxInv'
    BY <2>2, HandleKeeps
  <2>3. ASSUME NEW d \in Deliveries, SkipPurged(w, d) PROVE OutboxInv'
    BY <2>3, ReleaseKeeps DEF SkipPurged
  <2>4. ASSUME NEW d \in Deliveries,
               FinaliseDelivered(w, d) \/ FinaliseFailed(w, d) \/ FinaliseDead(w, d)
        PROVE  OutboxInv'
    BY <2>4, FinaliseKeeps
  <2>5. CASE Abandon(w)
    BY <2>5, AbandonKeeps
  <2> QED
    BY <1>2, <2>1, <2>2, <2>3, <2>4, <2>5 DEF Work
<1>3. ASSUME NEW d \in Deliveries, LapseAbandoned(d) \/ LapseUnderWay(d)
      PROVE  OutboxInv'
  BY <1>3, LapseKeeps
<1>4. ASSUME (\E m \in Messages : AgeMessage(m)) \/ (\E d \in Deliveries : AgeDelivery(d))
      PROVE  OutboxInv'
  BY <1>4, AgeKeeps
<1>5. ASSUME NEW d \in Deliveries, Replay(d)
      PROVE  OutboxInv'
  BY <1>5, ReplayKeeps
<1>6. CASE ApplyRetention
  BY <1>6, ApplyRetentionKeeps
<1>7. CASE UNCHANGED vars
  BY <1>7 DEF OutboxInv, TypeOK, DeadLettersMatch, RowsReferToLive, PerformedUnderLease, vars
<1> QED
  BY <1>1, <1>2, <1>3, <1>4, <1>5, <1>6, <1>7 DEF Next

\* The inductive invariant of the outbox holds in every reachable state: dead
\* letters match dead rows, and an owner that reports success performed its work.
THEOREM OutboxInvariant == Spec => []OutboxInv
BY OutboxInit, OutboxStep, PTL DEF Spec

\* Every variable keeps its type, and a delivery is leased exactly while its row
\* carries a lease token, however workers, lapses and replays interleave.
THEOREM OutboxTypeCorrect == Spec => []TypeOK
<1>1. OutboxInv => TypeOK
  BY DEF OutboxInv
<1> QED
  BY <1>1, OutboxInvariant, PTL

\* A delivery is dead exactly while it has one open dead letter (deliverLeased's
\* dead-letter transaction, replayInTx).
THEOREM DeadLettersAlwaysMatch == Spec => []DeadLettersMatch
<1>1. OutboxInv => DeadLettersMatch
  BY DEF OutboxInv
<1> QED
  BY <1>1, OutboxInvariant, PTL

-----------------------------------------------------------------------------
(* The outbox implements the fan-out.                                      *)

StatusOf(r) == IF r.state \in {"pending", "leased"} THEN "owed" ELSE r.state
Status == [d \in Deliveries |-> StatusOf(row[d])]

FanoutStep == FanoutOf!FanoutNext \/ UNCHANGED <<Status, handled>>

\* Rows that keep their state keep the status of every delivery.
LEMMA StatusKept ==
  ASSUME \A d \in Deliveries : StatusOf(row'[d]) = StatusOf(row[d])
  PROVE  Status' = Status
BY DEF Status

\* Changing one row changes one status that consumers see.
LEMMA OneStatus ==
  ASSUME NEW d \in Deliveries, NEW s, StatusOf(row'[d]) = s,
         \A e \in Deliveries : e # d => row'[e] = row[e]
  PROVE  Status' = [Status EXCEPT ![d] = s]
<1>1. \A e \in Deliveries : Status'[e] = [Status EXCEPT ![d] = s][e]
  BY DEF Status
<1> QED
  BY <1>1 DEF Status

\* Emitting owes the deliveries of the consumers that asked for the message.
LEMMA EmitRefines ==
  ASSUME OutboxInv, NEW m \in Messages, NEW wanting \in SUBSET Consumers, Emit(m, wanting)
  PROVE  FanoutStep
<1> DEFINE D == {d \in Deliveries : d[1] = m /\ d[2] \in wanting}
<1>1. /\ outbox[m] = "unborn"
      /\ row' = [d \in Deliveries |-> IF d[1] = m /\ d[2] \in wanting THEN Queued ELSE row[d]]
      /\ handled' = handled
  BY DEF Emit
<1>2. \A d \in D : StatusOf(row[d]) = "none"
  BY <1>1 DEF OutboxInv, RowsReferToLive, StatusOf
<1>3. Status' = [d \in Deliveries |-> IF d \in D THEN "owed" ELSE Status[d]]
  BY <1>1, RowConstants DEF Status, StatusOf
<1>4. D \in SUBSET {d \in Deliveries : Status[d] = "none"}
  BY <1>2 DEF Status
<1> HIDE DEF D
<1> QED
  BY <1>1, <1>3, <1>4
  DEF FanoutStep, FanoutOf!FanoutNext, FanoutOf!Owe, Status, StatusOf

\* Leasing changes nothing a consumer can tell.
LEMMA DrainRefines ==
  ASSUME OutboxInv, NEW w \in Workers, Drain(w)
  PROVE  FanoutStep
<1>1. PICK D \in SUBSET Candidates :
        row' = [d \in Deliveries |-> IF d \in D THEN Leased(w, d) ELSE row[d]]
  BY DEF Drain
<1>2. \A d \in Deliveries : StatusOf(row'[d]) = StatusOf(row[d])
  BY <1>1, LeasedFacts DEF Candidates, StatusOf, OutboxInv
<1> QED
  BY <1>2, StatusKept DEF Drain, FanoutStep

\* A consumer's run is a Perform of Fanout.
LEMMA HandleRefines ==
  ASSUME OutboxInv, NEW w \in Workers, NEW d \in Deliveries, Handle(w, d)
  PROVE  FanoutStep
<1>1. row' = row /\ handled' \in {handled, handled \cup {d}}
  BY DEF Handle
<1>2. Status' = Status
  BY <1>1 DEF Status
<1> QED
  BY <1>1, <1>2
  DEF FanoutStep, FanoutOf!FanoutNext, FanoutOf!Perform, Status, StatusOf

\* Finalising settles an owed delivery, as delivered only if it was performed; it
\* stutters when the lease was lost or the delivery is to be tried again.
LEMMA FinaliseRefines ==
  ASSUME OutboxInv, NEW w \in Workers, NEW d \in Deliveries,
         FinaliseDelivered(w, d) \/ FinaliseFailed(w, d) \/ FinaliseDead(w, d)
  PROVE  FanoutStep
<1>1. handled' = handled
  BY DEF FinaliseDelivered, FinaliseFailed, FinaliseDead
<1>2. CASE ~Owns(w, d)
  <2>1. row' = row
    BY <1>2 DEF FinaliseDelivered, FinaliseFailed, FinaliseDead
  <2> QED
    BY <1>1, <2>1 DEF FanoutStep, Status
<1>3. CASE Owns(w, d)
  <2>1. row[d].state = "leased" /\ TypeOK
    BY <1>3, OutboxAssumption DEF Owns, OutboxInv, TypeOK
  <2>2. Status[d] = "owed"
    BY <2>1 DEF Status, StatusOf
  <2>3. PICK state \in {"pending", "delivered", "dead"} :
          /\ row' = [row EXCEPT ![d] = Settled(state, d)]
          /\ state = "delivered" => held[w][d].pc = "ok"
    BY <1>3 DEF FinaliseDelivered, FinaliseFailed, FinaliseDead
  <2>4. /\ row'[d].state = state
        /\ \A e \in Deliveries : e # d => row'[e] = row[e]
    <3>1. Settled(state, d).state = state
      BY <2>1, SettledFacts
    <3> QED
      BY <2>1, <2>3, <3>1 DEF TypeOK
  <2>5. state = "delivered" => d \in handled
    BY <1>3, <2>3 DEF Owns, OutboxInv, PerformedUnderLease
  <2>6. CASE state = "pending"
    <3>1. Status' = Status
      BY <2>1, <2>4, <2>6, StatusKept DEF StatusOf
    <3> QED
      BY <1>1, <3>1 DEF FanoutStep
  <2>7. CASE state # "pending"
    <3>1. StatusOf(row'[d]) = state
      BY <2>3, <2>4, <2>7 DEF StatusOf
    <3>2. Status' = [Status EXCEPT ![d] = state]
      BY <2>4, <3>1, OneStatus
    <3>3. FanoutOf!Settle
      BY <1>1, <2>2, <2>5, <2>7, <3>2 DEF FanoutOf!Settle, Status, StatusOf
    <3> QED
      BY <3>3 DEF FanoutStep, FanoutOf!FanoutNext
  <2> QED
    BY <2>6, <2>7
<1> QED
  BY <1>2, <1>3

\* A lease that runs out changes nothing that Fanout sees.
LEMMA LapseRefines ==
  ASSUME OutboxInv, NEW d \in Deliveries, LapseAbandoned(d) \/ LapseUnderWay(d)
  PROVE  FanoutStep
<1>1. row' = [row EXCEPT ![d].lapsed = TRUE] /\ handled' = handled
  BY DEF LapseAbandoned, LapseUnderWay, Lapse
<1>2. row \in [Deliveries -> Row]
  BY DEF OutboxInv, TypeOK
<1>3. \A e \in Deliveries : row'[e].state = row[e].state
  BY <1>1, <1>2 DEF Row
<1> QED
  BY <1>1, <1>3, StatusKept DEF FanoutStep, StatusOf

\* A replay requeues the delivery it names.
LEMMA ReplayRefines ==
  ASSUME OutboxInv, NEW d \in Deliveries, Replay(d)
  PROVE  FanoutStep
<1>1. row' = [row EXCEPT ![d] = Queued] /\ handled' = handled \ {d}
  BY DEF Replay
<1>2. row \in [Deliveries -> Row]
  BY DEF OutboxInv, TypeOK
<1>3. StatusOf(row'[d]) = "owed"
  BY <1>1, <1>2, RowConstants DEF StatusOf
<1>4. Status' = [Status EXCEPT ![d] = "owed"]
  BY <1>1, <1>2, <1>3, OneStatus
<1>5. FanoutOf!Requeue
  BY <1>1, <1>4 DEF FanoutOf!Requeue, Status, StatusOf
<1> QED
  BY <1>5 DEF FanoutStep, FanoutOf!FanoutNext

\* The sweep forgets delivered rows only.
LEMMA RetentionRefines ==
  ASSUME OutboxInv, ApplyRetention
  PROVE  FanoutStep
<1>1. /\ row' = [d \in Deliveries |-> IF d \in Expired THEN NoRow ELSE row[d]]
      /\ handled' = handled
  BY DEF ApplyRetention
<1>2. \A d \in Expired : d \in oldDeliveries /\ Status[d] = "delivered" /\ d \in Deliveries
  BY DEF Expired, Status, StatusOf, OutboxInv, TypeOK
<1>3. Status' = [d \in Deliveries |-> IF d \in Expired THEN "none" ELSE Status[d]]
  BY <1>1, RowConstants DEF Status, StatusOf
<1>4. PICK D \in SUBSET {d \in Deliveries : Status[d] = "delivered"} : D = Expired
  BY <1>2
<1>5. FanoutOf!Forget
  BY <1>1, <1>3, <1>4 DEF FanoutOf!Forget, Status, StatusOf
<1> QED
  BY <1>5 DEF FanoutStep, FanoutOf!FanoutNext

\* Each delivery is handled at least once: it is settled as delivered only after
\* the consumer performed it since it was queued, and stays settled until replayed.
THEOREM OutboxImplementsFanout == Spec => FanoutRefined
<1>1. Init => FanoutOf!FanoutInit
  <2> SUFFICES ASSUME Init PROVE FanoutOf!FanoutInit
    OBVIOUS
  <2>1. \A d \in Deliveries : row[d].state = "none"
    BY RowConstants DEF Init
  <2> QED
    BY <2>1 DEF Init, FanoutOf!FanoutInit
<1>2. ASSUME OutboxInv, [Next]_vars PROVE [FanoutOf!FanoutNext]_(FanoutOf!fvars)
  <2>1. SUFFICES FanoutStep
    BY <2>1 DEF FanoutStep, FanoutOf!fvars, Status, StatusOf
  <2>2. ASSUME NEW m \in Messages, NEW wanting \in SUBSET Consumers, Emit(m, wanting)
        PROVE  FanoutStep
    BY <1>2, <2>2, EmitRefines
  <2>3. ASSUME NEW w \in Workers, Work(w) \/ Abandon(w)
        PROVE  FanoutStep
    <3>1. CASE Drain(w)
      BY <1>2, <3>1, DrainRefines
    <3>2. ASSUME NEW d \in Deliveries, Handle(w, d) PROVE FanoutStep
      BY <1>2, <3>2, HandleRefines
    <3>3. ASSUME NEW d \in Deliveries, SkipPurged(w, d) PROVE FanoutStep
      BY <3>3 DEF SkipPurged, FanoutStep, Status
    <3>4. ASSUME NEW d \in Deliveries,
                 FinaliseDelivered(w, d) \/ FinaliseFailed(w, d) \/ FinaliseDead(w, d)
          PROVE  FanoutStep
      BY <1>2, <3>4, FinaliseRefines
    <3>5. CASE Abandon(w)
      BY <3>5 DEF Abandon, FanoutStep, Status
    <3> QED
      BY <2>3, <3>1, <3>2, <3>3, <3>4, <3>5 DEF Work
  <2>4. ASSUME NEW d \in Deliveries, LapseAbandoned(d) \/ LapseUnderWay(d)
        PROVE  FanoutStep
    BY <1>2, <2>4, LapseRefines
  <2>5. ASSUME (\E m \in Messages : AgeMessage(m)) \/ (\E d \in Deliveries : AgeDelivery(d))
        PROVE  FanoutStep
    BY <2>5 DEF AgeMessage, AgeDelivery, FanoutStep, Status
  <2>6. ASSUME NEW d \in Deliveries, Replay(d) PROVE FanoutStep
    BY <1>2, <2>6, ReplayRefines
  <2>7. CASE ApplyRetention
    BY <1>2, <2>7, RetentionRefines
  <2>8. CASE UNCHANGED vars
    BY <2>8 DEF vars, FanoutStep, Status
  <2> QED
    BY <1>2, <2>2, <2>3, <2>4, <2>5, <2>6, <2>7, <2>8 DEF Next
<1> QED
  BY <1>1, <1>2, OutboxInvariant, PTL DEF Spec, FanoutRefined, FanoutOf!FanoutSpec
=============================================================================

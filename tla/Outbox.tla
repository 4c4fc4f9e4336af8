------------------------------- MODULE Outbox -------------------------------
(***************************************************************************)
(* The outbox (packages/server, outbox/index.ts): messages emitted with    *)
(* one delivery per consumer, drained by workers under leases, retried,    *)
(* dead-lettered, replayed by an operator and swept by apply_retention.    *)
(*                                                                         *)
(* Each SQL statement is a step, and so is a transaction.  A worker may    *)
(* outlive its lease or be lost between any two of its steps.  It runs one *)
(* drain at a time, so the lease token, fresh per lease, is named by the   *)
(* worker the lease was given to.  Definitions marked "Fault" are bugs the *)
(* properties are tried against; nothing uses them.                        *)
(***************************************************************************)
EXTENDS Integers, FiniteSets

CONSTANTS
  Messages,       \* what commands may emit
  Consumers,      \* registered consumers
  Workers,        \* processes that run the outbox.drain job
  Nobody,         \* no lease token
  MaxAttempts,    \* attempts after which a failure is a dead letter
  Batch,          \* rows one drain may lease
  MaxMishaps,     \* bound: leases outlived and workers lost
  MaxReplays      \* bound: operator replays

ASSUME OutboxAssumption ==
  /\ Nobody \notin Workers
  /\ MaxAttempts \in Nat \ {0}
  /\ Batch \in Nat
  /\ MaxMishaps \in Nat
  /\ MaxReplays \in Nat

VARIABLES
  outbox,         \* the row of each message: unborn, live or purged
  row,            \* outbox_deliveries, by message and consumer
  letters,        \* outbox_dead_letters: how many open, whether any replayed
  held,           \* what each worker still has of the batch it leased
  handled,        \* the deliveries performed since they were last queued
  oldMessages,    \* messages created more than seven days ago
  oldDeliveries,  \* deliveries made more than seven days ago
  mishaps, replays

vars == <<outbox, row, letters, held, handled, oldMessages, oldDeliveries, mishaps, replays>>

Deliveries == Messages \X Consumers

\* attempts saturates at MaxAttempts, which is all the code compares it with;
\* lapsed stands for lease_until < now.
Row == [state : {"none", "pending", "leased", "delivered", "dead"},
        attempts : 0 .. MaxAttempts, token : Workers \cup {Nobody}, lapsed : BOOLEAN]
NoRow == [state |-> "none", attempts |-> 0, token |-> Nobody, lapsed |-> FALSE]
Queued == [state |-> "pending", attempts |-> 0, token |-> Nobody, lapsed |-> FALSE]

\* What a worker knows of a row it leased, and how the consumer ended.
Lease == [pc : {"none", "leased", "ok", "error"}, attempts : 0 .. MaxAttempts]
NotHeld == [pc |-> "none", attempts |-> 0]

Init ==
  /\ outbox = [m \in Messages |-> "unborn"]
  /\ row = [d \in Deliveries |-> NoRow]
  /\ letters = [d \in Deliveries |-> [open |-> 0, replayed |-> FALSE]]
  /\ held = [w \in Workers |-> [d \in Deliveries |-> NotHeld]]
  /\ handled = {}
  /\ oldMessages = {}
  /\ oldDeliveries = {}
  /\ mishaps = 0
  /\ replays = 0

-----------------------------------------------------------------------------
\* emitOutbox, in the emitting command's transaction: "wanting" are the
\* consumers that asked for the message's kind.
Emit(m, wanting) ==
  /\ outbox[m] = "unborn"
  /\ outbox' = [outbox EXCEPT ![m] = "live"]
  /\ row' = [d \in Deliveries |-> IF d[1] = m /\ d[2] \in wanting THEN Queued ELSE row[d]]
  /\ UNCHANGED <<letters, held, handled, oldMessages, oldDeliveries, mishaps, replays>>

-----------------------------------------------------------------------------
(* drain and deliverLeased.                                                *)

\* Fault: a lapsed lease is never taken over.
CandidatesPendingOnly == {d \in Deliveries : row[d].state = "pending"}

\* The rows the leasing statement may pick.  Which of them are due
\* (next_attempt_at) and come first in the batch is left open.
Candidates ==
  {d \in Deliveries : \/ row[d].state = "pending"
                      \/ row[d].state = "leased" /\ row[d].lapsed}

Leased(w, d) ==
  [state |-> "leased", token |-> w, lapsed |-> FALSE,
   attempts |-> IF row[d].attempts < MaxAttempts THEN row[d].attempts + 1 ELSE MaxAttempts]

Drain(w) ==
  /\ \A d \in Deliveries : held[w][d].pc = "none"
  /\ \E D \in SUBSET Candidates :
       /\ D # {} /\ Cardinality(D) <= Batch
       /\ row' = [d \in Deliveries |-> IF d \in D THEN Leased(w, d) ELSE row[d]]
       /\ held' = [held EXCEPT ![w] =
                     [d \in Deliveries |->
                        IF d \in D THEN [pc |-> "leased", attempts |-> Leased(w, d).attempts]
                        ELSE NotHeld]]
  /\ UNCHANGED <<outbox, letters, handled, oldMessages, oldDeliveries, mishaps, replays>>

\* The consumer runs, one delivery of the batch at a time.  It may throw after
\* its effect committed, and so may the statement that should record success:
\* either way the failure is what gets recorded.
Handle(w, d) ==
  /\ held[w][d].pc = "leased"
  /\ \A e \in Deliveries : held[w][e].pc \in {"none", "leased"}
  /\ outbox[d[1]] = "live"
  /\ \/ /\ held' = [held EXCEPT ![w][d].pc = "ok"]
        /\ handled' = handled \cup {d}
     \/ /\ held' = [held EXCEPT ![w][d].pc = "error"]
        /\ handled' \in {handled, handled \cup {d}}
  /\ UNCHANGED <<outbox, row, letters, oldMessages, oldDeliveries, mishaps, replays>>

Release(w, d) == held' = [held EXCEPT ![w][d] = NotHeld]

\* The message's row is gone: nothing to deliver.
SkipPurged(w, d) ==
  /\ held[w][d].pc = "leased"
  /\ \A e \in Deliveries : held[w][e].pc \in {"none", "leased"}
  /\ outbox[d[1]] # "live"
  /\ Release(w, d)
  /\ UNCHANGED <<outbox, row, letters, handled, oldMessages, oldDeliveries, mishaps, replays>>

\* Finalising is a compare-and-set on the lease token: it changes the row only
\* while the worker's own lease is the current one.
Owns(w, d) == row[d].token = w

\* Fault: finalising leaves the lease token in place.
SettledKeepingToken(state, d) == [row[d] EXCEPT !.state = state]

Settled(state, d) == [row[d] EXCEPT !.state = state, !.token = Nobody, !.lapsed = FALSE]

\* Fault: success is recorded without looking at the lease token.
FinaliseDeliveredByAnyone(w, d) ==
  /\ held[w][d].pc = "ok"
  /\ row' = [row EXCEPT ![d] = Settled("delivered", d)]
  /\ Release(w, d)
  /\ UNCHANGED <<outbox, letters, handled, oldMessages, oldDeliveries, mishaps, replays>>

FinaliseDelivered(w, d) ==
  /\ held[w][d].pc = "ok"
  /\ row' = IF Owns(w, d) THEN [row EXCEPT ![d] = Settled("delivered", d)] ELSE row
  /\ Release(w, d)
  /\ UNCHANGED <<outbox, letters, handled, oldMessages, oldDeliveries, mishaps, replays>>

FinaliseFailed(w, d) ==
  /\ held[w][d].pc = "error"
  /\ held[w][d].attempts < MaxAttempts
  /\ row' = IF Owns(w, d) THEN [row EXCEPT ![d] = Settled("pending", d)] ELSE row
  /\ Release(w, d)
  /\ UNCHANGED <<outbox, letters, handled, oldMessages, oldDeliveries, mishaps, replays>>

\* The row is marked dead and its dead letter written in one transaction.
FinaliseDead(w, d) ==
  /\ held[w][d].pc = "error"
  /\ held[w][d].attempts >= MaxAttempts
  /\ \/ /\ Owns(w, d)
        /\ row' = [row EXCEPT ![d] = Settled("dead", d)]
        /\ letters' = [letters EXCEPT ![d].open = @ + 1]
     \/ ~Owns(w, d) /\ UNCHANGED <<row, letters>>
  /\ Release(w, d)
  /\ UNCHANGED <<outbox, handled, oldMessages, oldDeliveries, mishaps, replays>>

\* The worker is lost, or a failure it could not record ended its drain: what it
\* had leased stays leased.
Abandon(w) ==
  /\ mishaps < MaxMishaps
  /\ \E d \in Deliveries : held[w][d].pc # "none"
  /\ held' = [held EXCEPT ![w] = [d \in Deliveries |-> NotHeld]]
  /\ mishaps' = mishaps + 1
  /\ UNCHANGED <<outbox, row, letters, handled, oldMessages, oldDeliveries, replays>>

-----------------------------------------------------------------------------
(* Time.                                                                   *)

Lapse(d) ==
  /\ row[d].state = "leased" /\ ~row[d].lapsed
  /\ row' = [row EXCEPT ![d].lapsed = TRUE]
  /\ UNCHANGED <<outbox, letters, held, handled, oldMessages, oldDeliveries, replays>>

\* A lease nobody works on any more runs out.
LapseAbandoned(d) ==
  /\ \A w \in Workers : Owns(w, d) => held[w][d].pc = "none"
  /\ Lapse(d)
  /\ UNCHANGED mishaps

\* A worker is slower than its lease.
LapseUnderWay(d) ==
  /\ mishaps < MaxMishaps
  /\ \E w \in Workers : Owns(w, d) /\ held[w][d].pc # "none"
  /\ Lapse(d)
  /\ mishaps' = mishaps + 1

AgeMessage(m) ==
  /\ outbox[m] = "live"
  /\ oldMessages' = oldMessages \cup {m}
  /\ UNCHANGED <<outbox, row, letters, held, handled, oldDeliveries, mishaps, replays>>

AgeDelivery(d) ==
  /\ row[d].state = "delivered"
  /\ oldDeliveries' = oldDeliveries \cup {d}
  /\ UNCHANGED <<outbox, row, letters, held, handled, oldMessages, mishaps, replays>>

-----------------------------------------------------------------------------
\* Fault: a replay leaves the dead letter open.
ReplayForgettingLetters(d) ==
  /\ replays < MaxReplays
  /\ outbox[d[1]] = "live"
  /\ row' = [row EXCEPT ![d] = Queued]
  /\ handled' = handled \ {d}
  /\ oldDeliveries' = oldDeliveries \ {d}
  /\ replays' = replays + 1
  /\ UNCHANGED <<outbox, letters, held, oldMessages, mishaps>>

\* outbox.replay(id, consumer): any delivery of a message that still has its
\* row is queued afresh, created if the consumer has none.
Replay(d) ==
  /\ replays < MaxReplays
  /\ outbox[d[1]] = "live"
  /\ row' = [row EXCEPT ![d] = Queued]
  /\ letters' = [letters EXCEPT ![d] = [open |-> 0, replayed |-> @.replayed \/ @.open > 0]]
  /\ handled' = handled \ {d}
  /\ oldDeliveries' = oldDeliveries \ {d}
  /\ replays' = replays + 1
  /\ UNCHANGED <<outbox, held, oldMessages, mishaps>>

-----------------------------------------------------------------------------
(* apply_retention, as far as it sweeps the outbox: one transaction.       *)

Expired == {d \in oldDeliveries : row[d].state = "delivered"}

\* The outbox rows its second DELETE picks, once the expired deliveries are gone.
Purgeable ==
  {m \in oldMessages :
     /\ outbox[m] = "live"
     /\ \A c \in Consumers : row[m, c].state = "none" \/ <<m, c>> \in Expired
     /\ \A c \in Consumers : letters[m, c].open = 0}

\* A dead letter, replayed or not, references its outbox row: while one does, the
\* DELETE fails and the whole transaction is rolled back.
ApplyRetention ==
  /\ \A m \in Purgeable, c \in Consumers : ~letters[m, c].replayed
  /\ row' = [d \in Deliveries |-> IF d \in Expired THEN NoRow ELSE row[d]]
  /\ oldDeliveries' = oldDeliveries \ Expired
  /\ outbox' = [m \in Messages |-> IF m \in Purgeable THEN "purged" ELSE outbox[m]]
  /\ oldMessages' = oldMessages \ Purgeable
  /\ UNCHANGED <<letters, held, handled, mishaps, replays>>

-----------------------------------------------------------------------------
Work(w) ==
  \/ Drain(w)
  \/ \E d \in Deliveries :
       \/ Handle(w, d)
       \/ SkipPurged(w, d)
       \/ FinaliseDelivered(w, d)
       \/ FinaliseFailed(w, d)
       \/ FinaliseDead(w, d)

Next ==
  \/ \E m \in Messages, wanting \in SUBSET Consumers : Emit(m, wanting)
  \/ \E w \in Workers : Work(w) \/ Abandon(w)
  \/ \E d \in Deliveries : LapseAbandoned(d) \/ LapseUnderWay(d) \/ AgeDelivery(d) \/ Replay(d)
  \/ \E m \in Messages : AgeMessage(m)
  \/ ApplyRetention

Spec == Init /\ [][Next]_vars

\* The drain job is scheduled every two seconds and a drain works through its
\* batch; a lease nobody works on runs out; the sweep is scheduled hourly.
Fairness ==
  /\ \A w \in Workers : WF_vars(Work(w))
  /\ \A d \in Deliveries : WF_vars(LapseAbandoned(d)) /\ WF_vars(AgeDelivery(d))
  /\ \A m \in Messages : WF_vars(AgeMessage(m))
  /\ WF_vars(ApplyRetention)

FairSpec == Spec /\ Fairness

-----------------------------------------------------------------------------
(* Properties.                                                             *)

\* Every variable has its type, and a row carries a lease token exactly while it
\* is leased.
TypeOK ==
  /\ outbox \in [Messages -> {"unborn", "live", "purged"}]
  /\ row \in [Deliveries -> Row]
  /\ letters \in [Deliveries -> [open : Nat, replayed : BOOLEAN]]
  /\ held \in [Workers -> [Deliveries -> Lease]]
  /\ handled \subseteq Deliveries
  /\ oldMessages \subseteq Messages
  /\ oldDeliveries \subseteq Deliveries
  /\ mishaps \in 0 .. MaxMishaps
  /\ replays \in 0 .. MaxReplays
  /\ \A d \in Deliveries : /\ row[d].token # Nobody <=> row[d].state = "leased"
                           /\ row[d].lapsed => row[d].state = "leased"

\* A delivery is dead exactly while it has one open dead letter, the one an
\* operator is paged for: none is buried silently and none is paged for twice.
DeadLettersMatch ==
  \A d \in Deliveries : letters[d].open = IF row[d].state = "dead" THEN 1 ELSE 0

\* Each delivery is handled at least once, and a settled one is reopened by a
\* replay alone, whatever stale workers do.
FanoutOf ==
  INSTANCE Fanout WITH
    status <- [d \in Deliveries |->
                 IF row[d].state \in {"pending", "leased"} THEN "owed" ELSE row[d].state],
    performed <- handled

FanoutRefined == FanoutOf!FanoutSpec

\* Whatever is queued ends up delivered or dead, if mishaps end.
EventuallySettled ==
  \A d \in Deliveries :
    row[d].state \in {"pending", "leased"} ~> row[d].state \in {"delivered", "dead"}

\* A message whose deliveries are all made lingers in the outbox for at most the
\* retention period ("delivered outbox rows older than 7 d", migration 0011).
Finished(m) ==
  /\ outbox[m] = "live"
  /\ \A c \in Consumers : row[m, c].state \in {"none", "delivered"}

DeliveredRowsPurged == \A m \in Messages : Finished(m) ~> ~Finished(m)
=============================================================================

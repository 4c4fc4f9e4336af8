------------------------------- MODULE Fanout -------------------------------
(***************************************************************************)
(* What the outbox promises each consumer of a message, with nothing of    *)
(* workers and leases: a delivery stays owed until it is settled, it is    *)
(* settled as delivered only after the consumer performed it since it was  *)
(* last (re)queued, and a settled delivery is reopened by a replay alone.  *)
(***************************************************************************)

CONSTANT Deliveries

VARIABLES
  status,        \* of each delivery
  performed      \* the deliveries performed since they were last queued

fvars == <<status, performed>>

FanoutInit ==
  /\ status = [d \in Deliveries |-> "none"]
  /\ performed = {}

\* Messages are emitted with what they owe.
Owe ==
  /\ \E D \in SUBSET {d \in Deliveries : status[d] = "none"} :
       status' = [d \in Deliveries |-> IF d \in D THEN "owed" ELSE status[d]]
  /\ UNCHANGED performed

\* A consumer performs a delivery: possibly twice, possibly after it is settled.
Perform ==
  /\ \E d \in Deliveries : performed' = performed \cup {d}
  /\ UNCHANGED status

Settle ==
  /\ \E d \in Deliveries :
       /\ status[d] = "owed"
       /\ \/ d \in performed /\ status' = [status EXCEPT ![d] = "delivered"]
          \/ status' = [status EXCEPT ![d] = "dead"]
  /\ UNCHANGED performed

Requeue ==
  \E d \in Deliveries :
    /\ status' = [status EXCEPT ![d] = "owed"]
    /\ performed' = performed \ {d}

\* Only what was delivered is ever forgotten.
Forget ==
  /\ \E D \in SUBSET {d \in Deliveries : status[d] = "delivered"} :
       status' = [d \in Deliveries |-> IF d \in D THEN "none" ELSE status[d]]
  /\ UNCHANGED performed

FanoutNext == Owe \/ Perform \/ Settle \/ Requeue \/ Forget

FanoutSpec == FanoutInit /\ [][FanoutNext]_fvars
=============================================================================

------------------------------ MODULE MCOutbox ------------------------------
(* Outbox with one message, two consumers and two workers, so that one      *)
(* batch holds two deliveries and a delivery can have two holders.          *)
EXTENDS Outbox
=============================================================================

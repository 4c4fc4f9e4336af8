---------------------------- MODULE MCSaveLedger ----------------------------
(* SaveLedger on a small instance: two depths, so that a save can regress   *)
(* and tie, and enough rows that the anchor falls out of the newest K.      *)
EXTENDS SaveLedger

MCProgress == {1, 2}
=============================================================================

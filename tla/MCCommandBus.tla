---------------------------- MODULE MCCommandBus ----------------------------
(* CommandBus for TLC: command ids a client may reuse for three requests,  *)
(* one with an outcomeRef, one that takes no lock.                         *)
EXTENDS CommandBus, TLC

CONSTANTS save, other, review

MCRequests == {save, other, review}
MCReferenced == {save, other}
MCLocking == {save, other}
MCSymmetry == Permutations(Executions)
=============================================================================

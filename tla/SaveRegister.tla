---------------------------- MODULE SaveRegister ----------------------------
(***************************************************************************)
(* What the save ledger promises the player, with nothing of how it is     *)
(* stored: a lineage is one register that only ever gets deeper, and the   *)
(* only way back is to open a newer generation.                            *)
(***************************************************************************)
EXTENDS Integers

CONSTANT Progress           \* the game-supplied monotone ordinal

VARIABLES
  generation,               \* the active generation, -1 before the first one
  trail                     \* every progress the generation's saves have had

rvars == <<generation, trail>>

RegisterInit ==
  /\ generation = -1
  /\ trail = {}

\* A save enters the generation: it is as deep as every save before it.
Deepen ==
  /\ generation >= 0
  /\ \E p \in Progress :
       /\ \A q \in trail : q <= p
       /\ trail' = trail \cup {p}
  /\ UNCHANGED generation

\* A newer generation opens, empty or seeded with one save.
OpenGeneration ==
  /\ generation' \in Int
  /\ generation' > generation
  /\ trail' = {} \/ \E p \in Progress : trail' = {p}

RegisterNext == Deepen \/ OpenGeneration

RegisterSpec == RegisterInit /\ [][RegisterNext]_rvars
=============================================================================

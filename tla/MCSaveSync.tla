------------------------------ MODULE MCSaveSync ------------------------------
(* SaveSync on three small worlds that share no behaviour, chosen at the   *)
(* start: one generation with two depths, so that a head can be deeper,    *)
(* equal or shallower and two requests can overtake each other; three      *)
(* generations without depth, so that an answer can be two generations     *)
(* late; or two generations and one row without depth, on a device that    *)
(* refuses whichever writes of the slot it likes.  Restart ids are only    *)
(* ever compared with each other, so they are interchangeable.             *)
EXTENDS SaveSync, TLC

VARIABLE world

MCSymmetry == Permutations(RestartIds)

Flat == /\ live.depth = 0 /\ Cardinality(wire) <= 1
        /\ \A s \in L!Seqs : snaps[s].progress = 0 /\ snaps[s].disposition # "stored_quarantined"

Within ==
  \/ world = "depths" /\ Len(gens) <= 1 /\ ~overlaid
  \/ world = "generations" /\ Flat /\ ~overlaid
  \/ world = "full" /\ Flat /\ Len(gens) <= 2 /\ Len(snaps) <= 1

MCInit == Init /\ world \in {"depths", "generations", "full"}
MCNext == Next /\ UNCHANGED world /\ Within'
MCSpec == MCInit /\ [][MCNext]_<<vars, world>>
=============================================================================

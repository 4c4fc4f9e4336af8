----------------------------- MODULE MCFeatures -----------------------------
(* Grants, purchases, daily rewards, jobs, seasons, delivery, the voyage of *)
(* Warp Crew, the beats of one of its fights and the live copy of its tabs  *)
(* share no state with each other.  One run checks them all: `focus` names  *)
(* the part that moves in a behaviour, the others stay as they began, so    *)
(* the states of the parts add up.                                          *)
EXTENDS Grants, Purchases, Daily, Jobs, Seasons, Delivery, Voyage, CrewFight, LiveCopy, TLC

VARIABLE focus

MCSignedFor == ({"b1"} \X {1, 2, 3}) \cup ({"b2"} \X {2, 3})
MCPackOf == [k \in Tokens |-> "once"]
MCKindOf == [k \in Tokens |-> IF k = 1 THEN "sandbox" ELSE "paid"]
MCBuilds == {{}, {"paid", "sandbox"}}

MCDocuments ==
  {[cadence |-> "utc_day", ladder |-> 3, minProgress |-> 0],
   [cadence |-> "rolling_24h", ladder |-> 2, minProgress |-> 1]}

MCRacer == [n \in Runs |-> IF n = 2 THEN 2 ELSE 1]
MCScore == [n \in Runs |-> n]

\* The same two values stand for the transactions, replicas and tabs of every part.
MCSymmetry == Permutations(Sessions)

Parts == {"grants", "purchases", "daily", "jobs", "seasons", "delivery", "voyage", "fight", "screen"}

\* A part that stays as it began begins in one way.
FeaturesInit ==
  /\ focus \in Parts
  /\ GrantsInit /\ PurchasesInit /\ DailyInit /\ JobsInit /\ SeasonsInit /\ DeliveryInit /\ VoyageInit
  /\ CrewFightInit /\ LiveInit
  /\ focus # "grants" => budget = 1
  /\ focus # "daily" => cadence = "utc_day"
  /\ focus # "screen" => helm
  /\ focus # "fight" => fight = NewFight("shades", "none", Hull, {}, {})

Grant == UNCHANGED grantsVars
Purchase == UNCHANGED purchasesVars
Day == UNCHANGED dailyVars
Job == UNCHANGED jobsVars
Season == UNCHANGED seasonsVars
Deliver == UNCHANGED deliveryVars
Sail == UNCHANGED voyageVars
Shoot == UNCHANGED fight
Draw == UNCHANGED liveVars

FeaturesNext ==
  /\ UNCHANGED focus
  /\ \/ focus = "grants" /\ GrantsNext /\ Purchase /\ Day /\ Job /\ Season /\ Deliver /\ Sail /\ Shoot /\ Draw
     \/ focus = "purchases" /\ PurchasesNext /\ Grant /\ Day /\ Job /\ Season /\ Deliver /\ Sail /\ Shoot /\ Draw
     \/ focus = "daily" /\ DailyNext /\ Grant /\ Purchase /\ Job /\ Season /\ Deliver /\ Sail /\ Shoot /\ Draw
     \/ focus = "jobs" /\ JobsNext /\ Grant /\ Purchase /\ Day /\ Season /\ Deliver /\ Sail /\ Shoot /\ Draw
     \/ focus = "seasons" /\ SeasonsNext /\ Grant /\ Purchase /\ Day /\ Job /\ Deliver /\ Sail /\ Shoot /\ Draw
     \/ focus = "delivery" /\ DeliveryNext /\ Grant /\ Purchase /\ Day /\ Job /\ Season /\ Sail /\ Shoot /\ Draw
     \/ focus = "voyage" /\ VoyageNext /\ Grant /\ Purchase /\ Day /\ Job /\ Season /\ Deliver /\ Shoot /\ Draw
     \/ focus = "fight" /\ CrewFightNext /\ Grant /\ Purchase /\ Day /\ Job /\ Season /\ Deliver /\ Sail /\ Draw
     \/ focus = "screen" /\ LiveNext /\ Grant /\ Purchase /\ Day /\ Job /\ Season /\ Deliver /\ Sail /\ Shoot

FeaturesSpec ==
  FeaturesInit /\ [][FeaturesNext]_<<grantsVars, purchasesVars, dailyVars, jobsVars, seasonsVars,
                                    deliveryVars, voyageVars, fight, liveVars, focus>>

\* The part that moves keeps the types of its state; the others are as they began.
FeaturesTypeOK ==
  /\ focus = "grants" => GrantsTypeOK
  /\ focus = "purchases" => PurchasesTypeOK
  /\ focus = "daily" => DailyTypeOK
  /\ focus = "jobs" => JobsTypeOK
  /\ focus = "seasons" => SeasonsTypeOK
  /\ focus = "delivery" => DeliveryTypeOK
  /\ focus = "voyage" => VoyageTypeOK
  /\ focus = "fight" => CrewFightTypeOK
  /\ focus = "screen" => LiveTypeOK
=============================================================================

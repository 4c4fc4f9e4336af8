--------------------------- MODULE FeaturesProofs ---------------------------
(***************************************************************************)
(* What is proved of each feature holds of all of them side by side: every *)
(* behaviour of the features together is one of each feature, so that the  *)
(* run of MCFeatures checks the specifications the theorems are about.     *)
(***************************************************************************)
EXTENDS MCFeatures, EconomyProofs, ScheduleProofs, WarpCrewProofs

\* The state of every part.
features ==
  <<grantsVars, purchasesVars, dailyVars, jobsVars, seasonsVars, deliveryVars, voyageVars, fight,
    liveVars, focus>>

\* A step of the features is one of each of them, or leaves its state alone.
LEMMA StepsOfParts ==
  ASSUME [FeaturesNext]_features
  PROVE  /\ [GrantsNext]_grantsVars
         /\ [PurchasesNext]_purchasesVars
         /\ [DailyNext]_dailyVars
         /\ [JobsNext]_jobsVars
         /\ [SeasonsNext]_seasonsVars
         /\ [DeliveryNext]_deliveryVars
         /\ [VoyageNext]_voyageVars
         /\ [CrewFightNext]_fight
         /\ [LiveNext]_liveVars
<1>1. CASE UNCHANGED features
  BY <1>1 DEF features
<1>2. CASE GrantsNext /\ Purchase /\ Day /\ Job /\ Season /\ Deliver /\ Sail /\ Shoot /\ Draw
  BY <1>2 DEF Purchase, Day, Job, Season, Deliver, Sail, Shoot, Draw
<1>3. CASE PurchasesNext /\ Grant /\ Day /\ Job /\ Season /\ Deliver /\ Sail /\ Shoot /\ Draw
  BY <1>3 DEF Grant, Day, Job, Season, Deliver, Sail, Shoot, Draw
<1>4. CASE DailyNext /\ Grant /\ Purchase /\ Job /\ Season /\ Deliver /\ Sail /\ Shoot /\ Draw
  BY <1>4 DEF Grant, Purchase, Job, Season, Deliver, Sail, Shoot, Draw
<1>5. CASE JobsNext /\ Grant /\ Purchase /\ Day /\ Season /\ Deliver /\ Sail /\ Shoot /\ Draw
  BY <1>5 DEF Grant, Purchase, Day, Season, Deliver, Sail, Shoot, Draw
<1>6. CASE SeasonsNext /\ Grant /\ Purchase /\ Day /\ Job /\ Deliver /\ Sail /\ Shoot /\ Draw
  BY <1>6 DEF Grant, Purchase, Day, Job, Deliver, Sail, Shoot, Draw
<1>7. CASE DeliveryNext /\ Grant /\ Purchase /\ Day /\ Job /\ Season /\ Sail /\ Shoot /\ Draw
  BY <1>7 DEF Grant, Purchase, Day, Job, Season, Sail, Shoot, Draw
<1>8. CASE VoyageNext /\ Grant /\ Purchase /\ Day /\ Job /\ Season /\ Deliver /\ Shoot /\ Draw
  BY <1>8 DEF Grant, Purchase, Day, Job, Season, Deliver, Shoot, Draw
<1>9. CASE CrewFightNext /\ Grant /\ Purchase /\ Day /\ Job /\ Season /\ Deliver /\ Sail /\ Draw
  BY <1>9 DEF Grant, Purchase, Day, Job, Season, Deliver, Sail, Draw
<1>10. CASE LiveNext /\ Grant /\ Purchase /\ Day /\ Job /\ Season /\ Deliver /\ Sail /\ Shoot
  BY <1>10 DEF Grant, Purchase, Day, Job, Season, Deliver, Sail, Shoot
<1>. QED  BY <1>1, <1>2, <1>3, <1>4, <1>5, <1>6, <1>7, <1>8, <1>9, <1>10 DEF FeaturesNext

\* Every behaviour of the features together is a behaviour of each of them.
THEOREM FeaturesRunTheirParts ==
  FeaturesSpec
    => /\ GrantsSpec
       /\ PurchasesSpec
       /\ DailySpec
       /\ JobsSpec
       /\ SeasonsSpec
       /\ DeliverySpec
       /\ VoyageSpec
       /\ CrewFightSpec
       /\ LiveSpec
<1>1. FeaturesInit => GrantsInit /\ PurchasesInit /\ DailyInit /\ JobsInit /\ SeasonsInit
                      /\ DeliveryInit /\ VoyageInit /\ CrewFightInit /\ LiveInit /\ focus \in Parts
  BY DEF FeaturesInit
<1>2. [FeaturesNext]_features
        => /\ [GrantsNext]_grantsVars
           /\ [PurchasesNext]_purchasesVars
           /\ [DailyNext]_dailyVars
           /\ [JobsNext]_jobsVars
           /\ [SeasonsNext]_seasonsVars
           /\ [DeliveryNext]_deliveryVars
           /\ [VoyageNext]_voyageVars
           /\ [CrewFightNext]_fight
           /\ [LiveNext]_liveVars
  BY StepsOfParts
<1>. QED  BY <1>1, <1>2, PTL DEF FeaturesSpec, features,
             GrantsSpec, PurchasesSpec, DailySpec, JobsSpec, SeasonsSpec, DeliverySpec, VoyageSpec, CrewFightSpec, LiveSpec

\* Every part keeps the types of its state, whichever moves, for any constants that their
\* assumptions allow, where the run knows small ones.
THEOREM FeaturesTypesKept ==
  FeaturesSpec =>
    /\ []FeaturesTypeOK
    /\ [](/\ GrantsTypeOK /\ PurchasesTypeOK /\ DailyTypeOK /\ JobsTypeOK /\ SeasonsTypeOK
         /\ DeliveryTypeOK /\ VoyageTypeOK /\ CrewFightTypeOK /\ LiveTypeOK)
<1>1. FeaturesSpec => []GrantsTypeOK /\ []PurchasesTypeOK /\ []DailyTypeOK /\ []JobsTypeOK
  BY FeaturesRunTheirParts, GrantsTypeCorrect, PurchasesTypeCorrect, DailyTypeCorrect, JobsTypeCorrect
<1>2. FeaturesSpec => []SeasonsTypeOK /\ []DeliveryTypeOK /\ []VoyageTypeOK /\ []CrewFightTypeOK
  BY FeaturesRunTheirParts, SeasonsTypesKept, DeliveryTypeCorrect, VoyageTypesKept, FightTypesKept
<1>3. FeaturesSpec => []LiveTypeOK
  <2>1. LiveInv => LiveTypeOK
    BY DEF LiveInv
  <2>. QED  BY <2>1, FeaturesRunTheirParts, LiveAlways, PTL
<1>4. /\ GrantsTypeOK /\ PurchasesTypeOK /\ DailyTypeOK /\ JobsTypeOK /\ SeasonsTypeOK
      /\ DeliveryTypeOK /\ VoyageTypeOK /\ CrewFightTypeOK /\ LiveTypeOK
      => FeaturesTypeOK
  BY DEF FeaturesTypeOK
<1>. QED  BY <1>1, <1>2, <1>3, <1>4, PTL
=============================================================================

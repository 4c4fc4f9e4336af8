--------------------------- MODULE WarpCrewProofs ---------------------------
(***************************************************************************)
(* Theorems about Warp Crew.  Delivery: that what was bought is applied    *)
(* once, and that a claim is accounted for, for any numbers of tabs and    *)
(* purchases.  LiveCopy: that a completed purchase stays in the player     *)
(* through every other wait of the tab.  Voyage: that an offer pays once,  *)
(* that the ship is in one thing at a time, that a contract's fight begins *)
(* whole, and that the wall falls once, for any crew, any offers and any   *)
(* steps of the clock.  CrewFight: that a fight loads again after every    *)
(* beat, but for two exceptions, for any hulls, any lengths and any dice.  *)
(***************************************************************************)
EXTENDS Delivery, LiveCopy, Voyage, CrewFight, Integers, FiniteSetTheorems, WellFoundedInduction, TLAPS

-----------------------------------------------------------------------------
(* Delivery, and the live copy. *)

-----------------------------------------------------------------------------
(* The inductive invariant.  Of the flows that race for a token one has    *)
(* won it, and until it applies it nobody holds it (WonIsFresh).  A save   *)
(* writes the whole player, so it must not lose what an earlier one wrote: *)
(* the leader's player has all that the slot has (LeaderSeesSlot).         *)

\* A flow under way is of an open tab; what it claims was granted.
FlowsLive ==
  \A f \in Flows : flow[f].pc # "idle" =>
    /\ TabOf(f) \in running /\ flow[f].token \in Bought
    /\ flow[f].pc # "verify" => flow[f].token \in granted

\* What is not claimed nobody holds.
UnclaimedUnheld ==
  \A k \in Bought \ claimed : slot[k] = 0 /\ \A t \in Tabs : state[t][k] = 0

\* A token that is won and not applied nobody holds, and one flow has won it.
WonIsFresh ==
  \A f \in Flows : flow[f].pc = "won" =>
    /\ flow[f].token \in claimed /\ slot[flow[f].token] = 0
    /\ \A t \in Tabs : state[t][flow[f].token] = 0
    /\ \A g \in Flows : flow[g].pc = "won" /\ flow[g].token = flow[f].token => g = f

LeaderSeesSlot ==
  leader # NoTab => \A k \in Bought : slot[k] <= state[leader][k]

\* A save under way, whose tab has not read the slot again, saves its token.
SavesToken ==
  \A f \in Flows : flow[f].pc = "saving" => state[TabOf(f)][flow[f].token] >= 1

DeliveryInv ==
  /\ DeliveryTypeOK /\ FlowsLive /\ UnclaimedUnheld /\ WonIsFresh
  /\ LeaderSeesSlot /\ SavesToken /\ AppliedOnce /\ ClaimAccounted

-----------------------------------------------------------------------------
(* Steps. *)

\* A flow runs in a tab.
LEMMA FlowsAreTabs == \A f \in Flows : TabOf(f) \in Tabs
  BY DEF Flows, TabOf

\* A flow not begun has its type.
LEMMA IdleFlowType == IdleFlow \in Flow
  BY DEF IdleFlow, Flow

\* At first nothing is bought or applied.
LEMMA DeliveryInitial == DeliveryInit => DeliveryInv
<1> SUFFICES ASSUME DeliveryInit PROVE DeliveryInv
  OBVIOUS
<1>1. DeliveryTypeOK
  BY IdleFlowType DEF DeliveryInit, DeliveryTypeOK
<1>2. \A f \in Flows : flow[f].pc = "idle"
  BY DEF DeliveryInit, IdleFlow
<1>3. FlowsLive /\ WonIsFresh /\ SavesToken /\ LeaderSeesSlot
  BY <1>2 DEF DeliveryInit, FlowsLive, WonIsFresh, SavesToken, LeaderSeesSlot
<1>4. UnclaimedUnheld /\ AppliedOnce /\ ClaimAccounted
  BY DEF DeliveryInit, UnclaimedUnheld, AppliedOnce, ClaimAccounted
<1> QED
  BY <1>1, <1>3, <1>4 DEF DeliveryInv

\* A flow goes on without touching the players, the slot or the claims.
LEMMA FlowGoes ==
  ASSUME DeliveryInv, NEW f \in Flows, NEW p, NEW k \in Bought,
         p \in {"verify", "verified", "asked", "complete"},
         p # "verify" => k \in granted', TabOf(f) \in running,
         ~Unsaved(f),
         flow' = [flow EXCEPT ![f] = [pc |-> p, token |-> k]],
         granted \subseteq granted', granted' \subseteq Bought,
         provider' \in [Bought -> {"none", "incomplete", "done"}],
         UNCHANGED <<claimed, slot, tabs, state, reported, mishaps>>
  PROVE  DeliveryInv'
<1>1. [pc |-> p, token |-> k] \in Flow
  BY DEF Flow
<1>2. DeliveryTypeOK'
  BY <1>1 DEF DeliveryInv, DeliveryTypeOK, tabs
<1>3. /\ flow'[f].pc = p /\ flow'[f].token = k
      /\ \A g \in Flows \ {f} : flow'[g] = flow[g]
  BY DEF DeliveryInv, DeliveryTypeOK
<1>4. FlowsLive'
  BY <1>3 DEF DeliveryInv, FlowsLive, tabs
<1>5. WonIsFresh' /\ SavesToken'
  BY <1>3 DEF DeliveryInv, WonIsFresh, SavesToken
<1>6. UnclaimedUnheld' /\ LeaderSeesSlot' /\ AppliedOnce'
  BY DEF DeliveryInv, UnclaimedUnheld, LeaderSeesSlot, AppliedOnce, tabs
<1>7. ClaimAccounted'
  <2> SUFFICES ASSUME NEW j \in claimed,
                      NEW g \in Flows, flow[g].token = j, Unsaved(g)
               PROVE  flow'[g].token = j /\ Unsaved(g)'
    BY DEF DeliveryInv, ClaimAccounted
  <2> QED
    BY <1>3 DEF Unsaved
<1> QED
  BY <1>2, <1>4, <1>5, <1>6, <1>7 DEF DeliveryInv

\* A flow ends that holds nothing unsaved, or whose claim is noted.
LEMMA FlowStops ==
  ASSUME DeliveryInv, NEW f \in Flows, Stops(f),
         Unsaved(f) => flow[f].token \in reported' \cup mishaps',
         granted \subseteq granted', granted' \subseteq Bought,
         provider' \in [Bought -> {"none", "incomplete", "done"}],
         reported \subseteq reported', mishaps \subseteq mishaps',
         reported' \subseteq Bought, mishaps' \subseteq Bought,
         UNCHANGED <<claimed, slot, tabs, state>>
  PROVE  DeliveryInv'
<1>2. DeliveryTypeOK'
  BY IdleFlowType DEF DeliveryInv, DeliveryTypeOK, tabs, Stops
<1>3. /\ flow'[f].pc = "idle"
      /\ \A g \in Flows \ {f} : flow'[g] = flow[g]
  BY DEF DeliveryInv, DeliveryTypeOK, Stops, IdleFlow
<1>4. FlowsLive'
  BY <1>3 DEF DeliveryInv, FlowsLive, tabs
<1>5. WonIsFresh' /\ SavesToken'
  BY <1>3 DEF DeliveryInv, WonIsFresh, SavesToken
<1>6. UnclaimedUnheld' /\ LeaderSeesSlot' /\ AppliedOnce'
  BY DEF DeliveryInv, UnclaimedUnheld, LeaderSeesSlot, AppliedOnce, tabs
<1>7. ClaimAccounted'
  <2> SUFFICES ASSUME NEW j \in claimed, j \notin reported' \cup mishaps',
                      NEW g \in Flows, flow[g].token = j, Unsaved(g)
               PROVE  flow'[g].token = j /\ Unsaved(g)'
    BY DEF DeliveryInv, ClaimAccounted
  <2> QED
    BY <1>3 DEF Unsaved
<1> QED
  BY <1>2, <1>4, <1>5, <1>6, <1>7 DEF DeliveryInv

LEMMA OpenTabKeeps == ASSUME DeliveryInv, NEW t \in Tabs, OpenTab(t) PROVE DeliveryInv'
<1> USE DeliveryAssumption
<1>1. \A f \in Flows : TabOf(f) = t => flow[f].pc = "idle"
  BY DEF DeliveryInv, FlowsLive, OpenTab
<1>2. DeliveryTypeOK'
  BY DEF DeliveryInv, DeliveryTypeOK, OpenTab, server
<1>3. state'[t] = slot /\ \A s \in Tabs \ {t} : state'[s] = state[s]
  BY DEF DeliveryInv, DeliveryTypeOK, OpenTab
<1>4. FlowsLive' /\ UnclaimedUnheld' /\ AppliedOnce'
  BY <1>3 DEF DeliveryInv, FlowsLive, UnclaimedUnheld, AppliedOnce, OpenTab, server
<1>5. WonIsFresh'
  BY <1>3 DEF DeliveryInv, WonIsFresh, OpenTab, server
<1>6. LeaderSeesSlot'
  BY <1>3 DEF DeliveryInv, DeliveryTypeOK, LeaderSeesSlot, OpenTab
<1>7. SavesToken'
  BY <1>1, <1>3, FlowsAreTabs DEF DeliveryInv, SavesToken, OpenTab
<1>8. ClaimAccounted'
  BY DEF DeliveryInv, ClaimAccounted, OpenTab, server, Unsaved
<1> QED
  BY <1>2, <1>4, <1>5, <1>6, <1>7, <1>8 DEF DeliveryInv

LEMMA CloseTabKeeps == ASSUME DeliveryInv, NEW t \in Tabs, CloseTab(t) PROVE DeliveryInv'
<1>1. \A f \in Flows : flow'[f] = IF TabOf(f) = t THEN IdleFlow ELSE flow[f]
  BY DEF CloseTab
<1>2. flow' \in [Flows -> Flow]
  BY <1>1, IdleFlowType DEF CloseTab, DeliveryInv, DeliveryTypeOK
<1>3. \A f \in Flows : Unsaved(f) => flow[f].token \in Bought
  BY DEF DeliveryInv, FlowsLive, Unsaved
<1>4. /\ mishaps \subseteq mishaps' /\ mishaps' \subseteq Bought
      /\ \A f \in Flows : TabOf(f) = t /\ Unsaved(f) => flow[f].token \in mishaps'
  BY <1>3 DEF CloseTab, DeliveryInv, DeliveryTypeOK
<1>5. DeliveryTypeOK'
  BY <1>2, <1>4 DEF DeliveryInv, DeliveryTypeOK, CloseTab, server
<1>6. IdleFlow.pc = "idle"
  BY DEF IdleFlow
<1>7. FlowsLive'
  BY <1>1, <1>6 DEF DeliveryInv, FlowsLive, CloseTab, server
<1>8. WonIsFresh' /\ SavesToken'
  BY <1>1, <1>6 DEF DeliveryInv, WonIsFresh, SavesToken, CloseTab, server
<1>9. UnclaimedUnheld' /\ AppliedOnce' /\ LeaderSeesSlot'
  BY DEF DeliveryInv, UnclaimedUnheld, AppliedOnce, LeaderSeesSlot, CloseTab, server
<1>10. ClaimAccounted'
  <2> SUFFICES ASSUME NEW j \in claimed, j \notin mishaps',
                      NEW g \in Flows, flow[g].token = j, Unsaved(g)
               PROVE  flow'[g].token = j /\ Unsaved(g)'
    BY <1>4 DEF DeliveryInv, ClaimAccounted, CloseTab, server
  <2> QED
    BY <1>1, <1>4 DEF Unsaved
<1> QED
  BY <1>5, <1>7, <1>8, <1>9, <1>10 DEF DeliveryInv

LEMMA PlayHereKeeps == ASSUME DeliveryInv, NEW t \in Tabs, PlayHere(t) PROVE DeliveryInv'
<1> DEFINE Swaps(f) == TabOf(f) = t /\ flow[f].pc = "saving"
<1>1. \A f \in Flows : /\ ~Swaps(f) => flow'[f] = flow[f]
                       /\ Swaps(f) => flow'[f] = [flow[f] EXCEPT !.pc = "swapped"]
  BY DEF PlayHere
<1>2. \A f \in Flows : /\ flow[f] \in Flow
                       /\ flow'[f] \in Flow /\ flow'[f].token = flow[f].token
                       /\ Swaps(f) => flow'[f].pc = "swapped"
  BY <1>1, ZenonT(30) DEF DeliveryInv, DeliveryTypeOK, Flow
<1>3. DeliveryTypeOK'
  <2>1. flow' \in [Flows -> Flow]
    BY <1>2 DEF PlayHere
  <2> QED
    BY <2>1 DEF DeliveryInv, DeliveryTypeOK, PlayHere, server
<1>4. state'[t] = slot /\ \A s \in Tabs \ {t} : state'[s] = state[s]
  BY DEF DeliveryInv, DeliveryTypeOK, PlayHere
<1>5. FlowsLive'
  BY <1>1, <1>2 DEF DeliveryInv, FlowsLive, PlayHere, server
<1>6. WonIsFresh'
  BY <1>1, <1>2, <1>4 DEF DeliveryInv, WonIsFresh, PlayHere, server
<1>7. SavesToken'
  BY <1>1, <1>2, <1>4, FlowsAreTabs DEF DeliveryInv, SavesToken, PlayHere
<1>8. UnclaimedUnheld' /\ AppliedOnce'
  BY <1>4 DEF DeliveryInv, UnclaimedUnheld, AppliedOnce, PlayHere, server
<1>9. LeaderSeesSlot'
  BY <1>4 DEF DeliveryInv, DeliveryTypeOK, LeaderSeesSlot, PlayHere
<1>10. ClaimAccounted'
  BY <1>1, <1>2 DEF DeliveryInv, ClaimAccounted, Unsaved, PlayHere, server
<1> QED
  BY <1>3, <1>5, <1>6, <1>7, <1>8, <1>9, <1>10 DEF DeliveryInv

\* The leader writes its player: nothing the slot had is lost.
LEMMA SlotWritten ==
  ASSUME DeliveryInv, NEW t \in Tabs, leader = t, slot' = state[t]
  PROVE  /\ slot' \in [Bought -> Nat]
         /\ \A k \in Bought : slot'[k] = state[t][k] /\ slot[k] <= slot'[k] /\ slot'[k] <= 1
<1>1. t # NoTab
  BY DeliveryAssumption
<1> QED
  BY <1>1 DEF DeliveryInv, DeliveryTypeOK, LeaderSeesSlot, AppliedOnce

LEMMA AutosaveKeeps == ASSUME DeliveryInv, NEW t \in Tabs, Autosave(t) PROVE DeliveryInv'
<1>1. leader = t /\ slot' = state[t]
  BY DEF Autosave
<1>2. /\ slot' \in [Bought -> Nat]
      /\ \A k \in Bought : slot'[k] = state[t][k] /\ slot[k] <= slot'[k] /\ slot'[k] <= 1
  BY <1>1, SlotWritten
<1>3. DeliveryTypeOK' /\ FlowsLive'
  BY <1>2 DEF DeliveryInv, DeliveryTypeOK, FlowsLive, Autosave, server, tabs
<1>4. UnclaimedUnheld' /\ AppliedOnce'
  BY <1>2 DEF DeliveryInv, UnclaimedUnheld, AppliedOnce, Autosave, server
<1>5. WonIsFresh' /\ SavesToken'
  BY <1>2 DEF DeliveryInv, FlowsLive, WonIsFresh, SavesToken, Autosave, server
<1>6. LeaderSeesSlot'
  BY <1>2 DEF DeliveryInv, DeliveryTypeOK, LeaderSeesSlot, Autosave, tabs
<1>7. ClaimAccounted'
  BY <1>2 DEF DeliveryInv, DeliveryTypeOK, ClaimAccounted, Unsaved, Autosave, server
<1> QED
  BY <1>3, <1>4, <1>5, <1>6, <1>7 DEF DeliveryInv

LEMMA BeginKeeps ==
  ASSUME DeliveryInv, NEW f \in Flows, NEW k \in Bought, NEW p \in {"verify", "verified"},
         Begin(f, k, p), p # "verify" => k \in granted,
         provider' \in [Bought -> {"none", "incomplete", "done"}]
  PROVE  DeliveryInv'
<1>1. TabOf(f) \in running
  BY FlowsAreTabs, DeliveryAssumption DEF DeliveryInv, DeliveryTypeOK, Begin, CanApply
<1>2. ~Unsaved(f)
  BY DEF Begin, Unsaved
<1>3. /\ flow' = [flow EXCEPT ![f] = [pc |-> p, token |-> k]]
      /\ UNCHANGED <<claimed, slot, tabs, state, reported, mishaps, granted>>
  BY DEF Begin, server
<1>4. granted \subseteq Bought
  BY DEF DeliveryInv, DeliveryTypeOK
<1> QED
  BY <1>1, <1>2, <1>3, <1>4, FlowGoes

LEMMA BeginsKeep ==
  ASSUME DeliveryInv, NEW f \in Flows, NEW k \in Bought,
         Checkout(f, k) \/ RecoverPurchase(f, k) \/ Pending(f, k)
  PROVE  DeliveryInv'
<1>1. provider' \in [Bought -> {"none", "incomplete", "done"}]
  BY DEF DeliveryInv, DeliveryTypeOK, Checkout, RecoverPurchase, Pending
<1>2. CASE Checkout(f, k) \/ RecoverPurchase(f, k)
  <2>1. Begin(f, k, "verify")
    BY <1>2 DEF Checkout, RecoverPurchase
  <2> QED
    BY <2>1, <1>1, BeginKeeps
<1>3. CASE Pending(f, k)
  <2>1. Begin(f, k, "verified") /\ k \in granted
    BY <1>3 DEF Pending
  <2> QED
    BY <2>1, <1>1, BeginKeeps
<1> QED
  BY <1>2, <1>3

\* What a step of a flow that goes on makes of the flow.
LEMMA GoesTo ==
  ASSUME DeliveryInv, NEW f \in Flows, NEW p, Goes(f, p)
  PROVE  /\ flow' = [flow EXCEPT ![f] = [pc |-> p, token |-> flow[f].token]]
         /\ flow'[f].pc = p /\ flow'[f].token = flow[f].token
         /\ \A g \in Flows \ {f} : flow'[g] = flow[g]
<1>1. flow \in [Flows -> Flow] /\ flow[f] \in Flow
  BY DEF DeliveryInv, DeliveryTypeOK
<1>2. [flow[f] EXCEPT !.pc = p] = [pc |-> p, token |-> flow[f].token]
  BY <1>1 DEF Flow
<1>3. flow' = [flow EXCEPT ![f] = [flow[f] EXCEPT !.pc = p]]
  BY DEF Goes
<1> QED
  BY <1>1, <1>2, <1>3

\* A flow past its beginning is live.
LEMMA FlowLive ==
  ASSUME DeliveryInv, NEW f \in Flows, flow[f].pc # "idle"
  PROVE  /\ TabOf(f) \in running /\ flow[f].token \in Bought
         /\ flow[f].pc # "verify" => flow[f].token \in granted
         /\ granted \subseteq Bought /\ reported \subseteq Bought /\ mishaps \subseteq Bought
         /\ provider \in [Bought -> {"none", "incomplete", "done"}]
  BY DEF DeliveryInv, DeliveryTypeOK, FlowsLive

LEMMA VerifyPurchaseKeeps ==
  ASSUME DeliveryInv, NEW f \in Flows, VerifyPurchase(f) PROVE DeliveryInv'
<1>1. flow[f].pc = "verify" /\ ~Unsaved(f)
  BY DEF VerifyPurchase, Unsaved
<1>2. /\ granted \subseteq granted' /\ granted' \subseteq Bought
      /\ provider' \in [Bought -> {"none", "incomplete", "done"}]
      /\ UNCHANGED <<claimed, slot, tabs, state, reported, mishaps>>
  BY <1>1, FlowLive DEF VerifyPurchase
<1>3. CASE flow[f].token \in granted' /\ Goes(f, "verified")
  BY <1>1, <1>2, <1>3, FlowLive, GoesTo, FlowGoes
<1>4. CASE Stops(f)
  BY <1>1, <1>2, <1>4, FlowLive, FlowStops
<1> QED
  BY <1>3, <1>4 DEF VerifyPurchase

LEMMA AskClaimKeeps ==
  ASSUME DeliveryInv, NEW f \in Flows, AskClaim(f) PROVE DeliveryInv'
<1>1. flow[f].pc = "verified" /\ ~Unsaved(f)
  BY DEF AskClaim, Unsaved
<1>2. UNCHANGED <<provider, granted, claimed, slot, tabs, state, reported, mishaps>>
  BY DEF AskClaim, server
<1>3. CASE Goes(f, "asked")
  BY <1>1, <1>2, <1>3, FlowLive, GoesTo, FlowGoes
<1>4. CASE Stops(f)
  BY <1>1, <1>2, <1>4, FlowLive, FlowStops
<1> QED
  BY <1>3, <1>4 DEF AskClaim

\* Of those who ask, the first wins.
LEMMA ServerClaimsKeeps ==
  ASSUME DeliveryInv, NEW f \in Flows, ServerClaims(f) PROVE DeliveryInv'
<1> DEFINE k == flow[f].token
<1>1. flow[f].pc = "asked" /\ ~Unsaved(f)
  BY DEF ServerClaims, Unsaved
<1>2. k \in Bought /\ k \in granted /\ TabOf(f) \in running
  BY <1>1, FlowLive
<1>3. UNCHANGED <<provider, granted, slot, tabs, state, reported>> /\ claimed' = claimed \cup {k}
  BY DEF ServerClaims
<1>4. CASE k \in claimed
  <2>1. claimed' = claimed /\ UNCHANGED mishaps
    BY <1>3, <1>4 DEF ServerClaims
  <2>2. CASE Goes(f, "complete")
    BY <1>1, <1>2, <1>3, <2>1, <2>2, FlowLive, GoesTo, FlowGoes
  <2>3. CASE Stops(f)
    BY <1>1, <1>3, <2>1, <2>3, FlowLive, FlowStops
  <2> QED
    BY <1>4, <2>2, <2>3 DEF ServerClaims
<1>5. CASE k \notin claimed
  <2>1. slot[k] = 0 /\ \A t \in Tabs : state[t][k] = 0
    BY <1>2, <1>5 DEF DeliveryInv, UnclaimedUnheld
  <2>2. \A g \in Flows : flow[g].pc = "won" => flow[g].token # k
    BY <1>5 DEF DeliveryInv, WonIsFresh
  <2>3. \/ Goes(f, "won") /\ UNCHANGED mishaps
        \/ Stops(f) /\ mishaps' = mishaps \cup {k}
    BY <1>5 DEF ServerClaims
  <2>4. /\ \/ flow'[f].pc = "won" /\ flow'[f].token = k
           \/ flow'[f].pc = "idle" /\ k \in mishaps'
        /\ \A g \in Flows \ {f} : flow'[g] = flow[g]
        /\ flow' \in [Flows -> Flow]
    <3>1. [pc |-> "won", token |-> k] \in Flow
      BY <1>2 DEF Flow
    <3>2. flow \in [Flows -> Flow]
      BY DEF DeliveryInv, DeliveryTypeOK
    <3>3. CASE Goes(f, "won")
      BY <3>1, <3>2, <3>3, GoesTo
    <3>4. CASE Stops(f) /\ mishaps' = mishaps \cup {k}
      BY <3>2, <3>4, IdleFlowType DEF Stops, IdleFlow
    <3> QED
      BY <2>3, <3>3, <3>4
  <2>5. mishaps \subseteq mishaps' /\ mishaps' \subseteq Bought
    BY <1>2, <2>3 DEF DeliveryInv, DeliveryTypeOK
  <2>6. DeliveryTypeOK'
    BY <1>2, <1>3, <2>4, <2>5 DEF DeliveryInv, DeliveryTypeOK, tabs
  <2>7. FlowsLive'
    BY <1>2, <1>3, <2>4 DEF DeliveryInv, FlowsLive, tabs
  <2>8. UnclaimedUnheld' /\ AppliedOnce' /\ LeaderSeesSlot'
    BY <1>3 DEF DeliveryInv, UnclaimedUnheld, AppliedOnce, LeaderSeesSlot, tabs
  <2>9. WonIsFresh'
    BY <1>3, <2>1, <2>2, <2>4 DEF DeliveryInv, WonIsFresh
  <2>10. SavesToken'
    BY <1>3, <2>4 DEF DeliveryInv, SavesToken
  <2>11. ClaimAccounted'
    <3> SUFFICES ASSUME NEW j \in claimed', slot'[j] # 1, j \notin reported' \cup mishaps'
                 PROVE  \E g \in Flows : flow'[g].token = j /\ Unsaved(g)'
      BY DEF ClaimAccounted
    <3>1. CASE j = k
      BY <3>1, <2>4 DEF Unsaved
    <3>2. CASE j # k
      <4>1. PICK g \in Flows : flow[g].token = j /\ Unsaved(g)
        BY <1>3, <2>5, <3>2 DEF DeliveryInv, ClaimAccounted
      <4>2. flow'[g] = flow[g]
        BY <1>1, <2>4, <4>1
      <4> QED
        BY <4>1, <4>2 DEF Unsaved
    <3> QED
      BY <3>1, <3>2
  <2> QED
    BY <2>6, <2>7, <2>8, <2>9, <2>10, <2>11 DEF DeliveryInv
<1> QED
  BY <1>4, <1>5

LEMMA ApplyKeeps == ASSUME DeliveryInv, NEW f \in Flows, Apply(f) PROVE DeliveryInv'
<1> DEFINE k == flow[f].token
           t == TabOf(f)
<1>1. flow[f].pc = "won" /\ k \in Bought /\ k \in granted /\ t \in running /\ t \in Tabs
  BY FlowLive, FlowsAreTabs DEF Apply
<1>2. UNCHANGED <<provider, granted, claimed, slot, tabs, mishaps>>
  BY DEF Apply, server
<1>3. CASE leader # t
  <2>1. reported' = reported \cup {k} /\ Stops(f) /\ UNCHANGED state
    BY <1>3 DEF Apply, CanApply
  <2> QED
    BY <1>1, <1>2, <2>1, FlowLive, FlowStops
<1>4. CASE leader = t
  <2>1. /\ state' = [state EXCEPT ![t][k] = @ + 1]
        /\ Goes(f, "saving") /\ UNCHANGED reported
    BY <1>4 DEF Apply, CanApply
  <2>2. /\ slot[k] = 0 /\ \A s \in Tabs : state[s][k] = 0
        /\ \A g \in Flows \ {f} : flow[g].pc = "won" => flow[g].token # k
        /\ k \in claimed
    BY <1>1 DEF DeliveryInv, WonIsFresh
  <2>3. /\ state' \in [Tabs -> [Bought -> Nat]] /\ state'[t][k] = 1
        /\ \A s \in Tabs, j \in Bought : s # t \/ j # k => state'[s][j] = state[s][j]
    BY <1>1, <2>1, <2>2 DEF DeliveryInv, DeliveryTypeOK
  <2>4. /\ flow'[f].pc = "saving" /\ flow'[f].token = k
        /\ \A g \in Flows \ {f} : flow'[g] = flow[g]
        /\ flow' \in [Flows -> Flow]
    <3>1. [pc |-> "saving", token |-> k] \in Flow
      BY <1>1 DEF Flow
    <3> QED
      BY <2>1, <3>1, GoesTo DEF DeliveryInv, DeliveryTypeOK
  <2>5. DeliveryTypeOK'
    BY <1>2, <2>1, <2>3, <2>4 DEF DeliveryInv, DeliveryTypeOK, tabs
  <2>6. FlowsLive'
    BY <1>1, <1>2, <2>4 DEF DeliveryInv, FlowsLive, tabs
  <2>7. UnclaimedUnheld'
    BY <1>2, <2>2, <2>3 DEF DeliveryInv, UnclaimedUnheld
  <2>8. WonIsFresh'
    <3> SUFFICES ASSUME NEW g \in Flows, flow'[g].pc = "won"
                 PROVE  /\ flow'[g].token \in claimed' /\ slot'[flow'[g].token] = 0
                        /\ \A s \in Tabs : state'[s][flow'[g].token] = 0
                        /\ \A h \in Flows : flow'[h].pc = "won" /\ flow'[h].token = flow'[g].token => h = g
      BY DEF WonIsFresh
    <3>1. g # f /\ flow'[g] = flow[g] /\ flow[g].token # k
      BY <2>2, <2>4
    <3>2. flow[g].token \in Bought
      BY <3>1, FlowLive
    <3> QED
      BY <1>2, <2>3, <2>4, <3>1, <3>2 DEF DeliveryInv, WonIsFresh
  <2>9. LeaderSeesSlot'
    BY <1>2, <1>4, <1>1, <2>2, <2>3 DEF DeliveryInv, LeaderSeesSlot, tabs
  <2>10. SavesToken'
    <3> SUFFICES ASSUME NEW g \in Flows, flow'[g].pc = "saving"
                 PROVE  state'[TabOf(g)][flow'[g].token] >= 1
      BY DEF SavesToken
    <3>1. CASE g = f
      BY <2>3, <2>4, <3>1
    <3>2. CASE g # f
      <4>1. flow'[g] = flow[g] /\ flow[g].token \in Bought /\ TabOf(g) \in Tabs
        BY <2>4, <3>2, FlowLive, FlowsAreTabs
      <4>2. state[TabOf(g)][flow[g].token] >= 1
        BY <4>1 DEF DeliveryInv, SavesToken
      <4> QED
        BY <2>3, <4>1, <4>2
    <3> QED
      BY <3>1, <3>2
  <2>11. AppliedOnce'
    BY <1>2, <2>3 DEF DeliveryInv, DeliveryTypeOK, AppliedOnce
  <2>12. ClaimAccounted'
    <3> SUFFICES ASSUME NEW j \in claimed, NEW g \in Flows, flow[g].token = j, Unsaved(g)
                 PROVE  flow'[g].token = j /\ Unsaved(g)'
      BY <1>2, <2>1 DEF DeliveryInv, ClaimAccounted
    <3> QED
      BY <2>4 DEF Unsaved
  <2> QED
    BY <2>5, <2>6, <2>7, <2>8, <2>9, <2>10, <2>11, <2>12 DEF DeliveryInv
<1> QED
  BY <1>3, <1>4

LEMMA SaveDurablyKeeps == ASSUME DeliveryInv, NEW f \in Flows, SaveDurably(f) PROVE DeliveryInv'
<1> DEFINE k == flow[f].token
           t == TabOf(f)
<1>1. /\ flow[f].pc \in {"saving", "swapped"}
      /\ k \in Bought /\ k \in granted /\ t \in running /\ t \in Tabs
  BY FlowLive, FlowsAreTabs DEF SaveDurably
<1>2. UNCHANGED <<provider, granted, claimed, tabs, state, mishaps>>
  BY DEF SaveDurably, server
<1>3. CASE reported' = reported \cup {k} /\ Stops(f) /\ UNCHANGED slot
  BY <1>1, <1>2, <1>3, FlowLive, FlowStops
<1>4. CASE flow[f].pc = "saving" /\ CanApply(f) /\ slot' = state[t] /\ Goes(f, "complete")
           /\ UNCHANGED reported
  <2>1. /\ slot' \in [Bought -> Nat]
        /\ \A j \in Bought : slot'[j] = state[t][j] /\ slot[j] <= slot'[j] /\ slot'[j] <= 1
    BY <1>1, <1>4, SlotWritten DEF CanApply
  <2>2. slot'[k] = 1
    BY <1>1, <1>4, <2>1 DEF DeliveryInv, DeliveryTypeOK, SavesToken
  <2>3. /\ flow'[f].pc = "complete" /\ flow'[f].token = k
        /\ \A g \in Flows \ {f} : flow'[g] = flow[g]
        /\ flow' \in [Flows -> Flow]
    <3>1. [pc |-> "complete", token |-> k] \in Flow
      BY <1>1 DEF Flow
    <3> QED
      BY <1>4, <3>1, GoesTo DEF DeliveryInv, DeliveryTypeOK
  <2>4. DeliveryTypeOK'
    BY <1>2, <1>4, <2>1, <2>3 DEF DeliveryInv, DeliveryTypeOK, tabs
  <2>5. FlowsLive'
    BY <1>1, <1>2, <2>3 DEF DeliveryInv, FlowsLive, tabs
  <2>6. UnclaimedUnheld' /\ AppliedOnce'
    BY <1>1, <1>2, <2>1 DEF DeliveryInv, UnclaimedUnheld, AppliedOnce
  <2>7. WonIsFresh'
    <3> SUFFICES ASSUME NEW g \in Flows, flow'[g].pc = "won"
                 PROVE  /\ flow'[g].token \in claimed' /\ slot'[flow'[g].token] = 0
                        /\ \A s \in Tabs : state'[s][flow'[g].token] = 0
                        /\ \A h \in Flows : flow'[h].pc = "won" /\ flow'[h].token = flow'[g].token => h = g
      BY DEF WonIsFresh
    <3>1. g # f /\ flow'[g] = flow[g] /\ flow[g].token \in Bought
      BY <2>3, FlowLive
    <3> QED
      BY <1>1, <1>2, <2>1, <2>3, <3>1 DEF DeliveryInv, WonIsFresh
  <2>8. LeaderSeesSlot'
    BY <1>1, <1>2, <1>4, <2>1 DEF DeliveryInv, DeliveryTypeOK, LeaderSeesSlot, CanApply, tabs
  <2>9. SavesToken'
    BY <1>2, <2>3 DEF DeliveryInv, SavesToken
  <2>10. ClaimAccounted'
    <3> SUFFICES ASSUME NEW j \in claimed, slot'[j] # 1, j \notin reported \cup mishaps
                 PROVE  \E g \in Flows : flow'[g].token = j /\ Unsaved(g)'
      BY <1>2, <1>4 DEF ClaimAccounted
    <3>1. j \in Bought /\ j # k
      BY <2>2 DEF DeliveryInv, DeliveryTypeOK
    <3>2. slot[j] # 1
      BY <2>1, <3>1 DEF DeliveryInv, DeliveryTypeOK
    <3>3. PICK g \in Flows : flow[g].token = j /\ Unsaved(g)
      BY <3>2 DEF DeliveryInv, ClaimAccounted
    <3> QED
      BY <2>3, <3>1, <3>3 DEF Unsaved
  <2> QED
    BY <2>4, <2>5, <2>6, <2>7, <2>8, <2>9, <2>10 DEF DeliveryInv
<1> QED
  BY <1>3, <1>4 DEF SaveDurably

LEMMA CompleteKeeps == ASSUME DeliveryInv, NEW f \in Flows, Complete(f) PROVE DeliveryInv'
<1>1. flow[f].pc = "complete" /\ ~Unsaved(f)
  BY DEF Complete, Unsaved
<1>2. provider' \in [Bought -> {"none", "incomplete", "done"}]
  BY <1>1, FlowLive DEF Complete
<1>3. Stops(f) /\ UNCHANGED <<granted, claimed, slot, tabs, state, reported, mishaps>>
  BY DEF Complete, server
<1> QED
  BY <1>1, <1>2, <1>3, FlowLive, FlowStops

\* No step leaves the invariant.
LEMMA DeliveryInductive == DeliveryInv /\ [DeliveryNext]_deliveryVars => DeliveryInv'
<1> SUFFICES ASSUME DeliveryInv, [DeliveryNext]_deliveryVars PROVE DeliveryInv'
  OBVIOUS
<1>1. ASSUME NEW t \in Tabs, OpenTab(t) \/ CloseTab(t) \/ PlayHere(t) \/ Autosave(t)
      PROVE  DeliveryInv'
  BY <1>1, OpenTabKeeps, CloseTabKeeps, PlayHereKeeps, AutosaveKeeps
<1>2. ASSUME NEW f \in Flows, NEW k \in Bought,
             Checkout(f, k) \/ RecoverPurchase(f, k) \/ Pending(f, k)
      PROVE  DeliveryInv'
  BY <1>2, BeginsKeep
<1>3. ASSUME NEW f \in Flows, \/ VerifyPurchase(f) \/ AskClaim(f) \/ ServerClaims(f)
                              \/ Apply(f) \/ SaveDurably(f) \/ Complete(f)
      PROVE  DeliveryInv'
  BY <1>3, VerifyPurchaseKeeps, AskClaimKeeps, ServerClaimsKeeps, ApplyKeeps, SaveDurablyKeeps,
     CompleteKeeps
<1>4. CASE UNCHANGED deliveryVars
  BY <1>4 DEF deliveryVars, server, tabs, DeliveryInv, DeliveryTypeOK, FlowsLive, UnclaimedUnheld,
     WonIsFresh, LeaderSeesSlot, SavesToken, AppliedOnce, ClaimAccounted, Unsaved
<1> QED
  BY <1>1, <1>2, <1>3, <1>4 DEF DeliveryNext

\* The invariant holds in every state.
LEMMA DeliveryAlways == DeliverySpec => []DeliveryInv
<1> QED
  BY DeliveryInitial, DeliveryInductive, PTL DEF DeliverySpec

-----------------------------------------------------------------------------
(* Theorems. *)

\* The types of the tabs, the flows, the slot and the server's claims.
THEOREM DeliveryTypeCorrect == DeliverySpec => []DeliveryTypeOK
<1>1. DeliveryInv => DeliveryTypeOK
  BY DEF DeliveryInv
<1> QED
  BY <1>1, DeliveryAlways, PTL

\* deliverPurchase never has a purchase applied twice, in whichever tabs its
\* flows race, die, take over and reload.
THEOREM PurchaseAppliedOnce == DeliverySpec => []AppliedOnce
<1>1. DeliveryInv => AppliedOnce
  BY DEF DeliveryInv
<1> QED
  BY <1>1, DeliveryAlways, PTL

\* A claim the server recorded is saved, under way or reported, but for a
\* claimer that died before it saved or never heard the answer.
THEOREM ClaimAlwaysAccounted == DeliverySpec => []ClaimAccounted
<1>1. DeliveryInv => ClaimAccounted
  BY DEF DeliveryInv
<1> QED
  BY <1>1, DeliveryAlways, PTL
-----------------------------------------------------------------------------
(* The live copy.  A grant that is being saved, or was, is in the core's   *)
(* player, in the live copy that a handler will persist, and in whatever   *)
(* player a waiting checkout will bring back; a completed one is in the    *)
(* slot, from which the player is loaded.                                  *)

CarriedEverywhere(k) ==
  /\ k \in core.packs /\ k \in live.packs
  /\ \A h \in Handlers : handler[h].at = "checkout" => k \in handler[h].copy.packs

PaidCarried ==
  \A k \in Paid \ overlapped :
    /\ stage[k] \in {"saving", "completed"} => CarriedEverywhere(k)
    /\ stage[k] = "completed" => k \in saved.packs

LiveInv == LiveTypeOK /\ ScreenFollows /\ PaidCarried

\* What persist leaves is the new player or the old one, in both places.
LEMMA PersistedEither ==
  ASSUME NEW next, Persisted(next)
  PROVE  /\ live' = core'
         /\ core' = next \/ core' = core
BY DEF Persisted, Published

\* At first every copy is the player.
LEMMA LiveStart == LiveInit => LiveInv
<1> SUFFICES ASSUME LiveInit PROVE LiveInv
  OBVIOUS
<1>1. NewSkipper \in Skipper
  BY LiveAssumption DEF NewSkipper, Skipper
<1>2. LiveTypeOK
  BY <1>1 DEF LiveInit, LiveTypeOK, HandlerState, Vacant
<1>3. ScreenFollows
  BY DEF LiveInit, ScreenFollows
<1>4. PaidCarried
  BY DEF LiveInit, PaidCarried
<1> QED
  BY <1>2, <1>3, <1>4 DEF LiveInv

\* A handler that moves keeps the handlers' type.
LEMMA HandlersTyped ==
  ASSUME LiveTypeOK, NEW h \in Handlers,
         \/ Leaves(h)
         \/ \E at \in {"idle", "checkout", "buying", "notifying"}, copy \in Skipper : Sits(h, at, copy)
  PROVE  handler' \in [Handlers -> HandlerState]
<1>1. Vacant \in HandlerState /\ NewSkipper \in Skipper
  BY LiveAssumption DEF Vacant, HandlerState, NewSkipper, Skipper
<1>2. CASE Leaves(h)
  BY <1>1, <1>2 DEF Leaves, LiveTypeOK
<1>3. CASE \E at \in {"idle", "checkout", "buying", "notifying"}, copy \in Skipper : Sits(h, at, copy)
  <2>1. PICK at \in {"idle", "checkout", "buying", "notifying"}, copy \in Skipper : Sits(h, at, copy)
    BY <1>3
  <2>2. [at |-> at, copy |-> copy] \in HandlerState
    BY DEF HandlerState
  <2> QED
    BY <2>1, <2>2 DEF Sits, LiveTypeOK
<1> QED
  BY <1>2, <1>3

\* A handler that stops waiting at a checkout, or never was at one, leaves the
\* other checkouts as they are.
LEMMA CheckoutsShrink ==
  ASSUME LiveTypeOK, NEW h \in Handlers,
         \/ Leaves(h)
         \/ \E at \in {"idle", "buying", "notifying"} : Sits(h, at, NewSkipper)
  PROVE  \A g \in Handlers : handler'[g].at = "checkout" => handler[g].at = "checkout" /\ handler'[g] = handler[g]
BY DEF Leaves, Sits, Vacant, LiveTypeOK, HandlerState

\* What the handlers' steps leave alone: grants, the slot and the lead.
HandlerStep(h) ==
  \/ Notified(h) \/ CloseCheckout(h) \/ OpenPurchase(h) \/ ClosePurchase(h)
  \/ \E m \in Recruits : HireAndNotify(h, m)

\* A copy of the player stays one through a recruit, and keeps its packs.
LEMMA SkipperTyped ==
  ASSUME LiveTypeOK
  PROVE  /\ NewSkipper \in Skipper
         /\ \A m \in Recruits : SignedOn(m) \in Skipper /\ SignedOn(m).packs = core.packs
         /\ \A h \in Handlers : handler[h].copy \in Skipper
<1>1. NewSkipper \in Skipper
  BY LiveAssumption DEF NewSkipper, Skipper
<1>2. ASSUME NEW m \in Recruits PROVE SignedOn(m) \in Skipper /\ SignedOn(m).packs = core.packs
  BY DEF SignedOn, LiveTypeOK, Skipper
<1>3. \A h \in Handlers : handler[h].copy \in Skipper
  BY DEF LiveTypeOK, HandlerState
<1> QED
  BY <1>1, <1>2, <1>3

\* The grants stay carried when no grant moves, the checkouts only shrink and
\* both players come from those that carried them.
LEMMA CarriedOn ==
  ASSUME PaidCarried,
         UNCHANGED <<stage, saved, overlapped>>,
         \A g \in Handlers : handler'[g].at = "checkout" => handler[g].at = "checkout" /\ handler'[g] = handler[g],
         \A k \in Paid : CarriedEverywhere(k) => k \in core'.packs /\ k \in live'.packs
  PROVE  PaidCarried'
BY DEF PaidCarried, CarriedEverywhere

LEMMA HandlerStepKeeps ==
  ASSUME LiveInv, NEW h \in Handlers, HandlerStep(h)
  PROVE  LiveInv'
<1> USE DEF LiveInv
<1>1. CASE Notified(h)
  <2>1. live' = core' /\ (core' = live \/ core' = core)
    BY <1>1, PersistedEither DEF Notified
  <2>2. handler' \in [Handlers -> HandlerState]
    BY <1>1, HandlersTyped DEF Notified
  <2>3. \A g \in Handlers : handler'[g].at = "checkout" => handler[g].at = "checkout" /\ handler'[g] = handler[g]
    BY <1>1, CheckoutsShrink DEF Notified
  <2>4. PaidCarried'
    BY <1>1, <2>1, <2>3, CarriedOn DEF Notified, CarriedEverywhere
  <2> QED
    BY <1>1, <2>1, <2>2, <2>4 DEF Notified, LiveTypeOK, ScreenFollows
<1>2. CASE CloseCheckout(h)
  <2>1. \/ live' = core' /\ (core' = handler[h].copy \/ core' = core)
        \/ live' = live /\ core' = core
    BY <1>2, PersistedEither DEF CloseCheckout
  <2>2. handler' \in [Handlers -> HandlerState]
    BY <1>2, HandlersTyped, SkipperTyped DEF CloseCheckout
  <2>3. \A g \in Handlers : handler'[g].at = "checkout" => handler[g].at = "checkout" /\ handler'[g] = handler[g]
    BY <1>2, CheckoutsShrink DEF CloseCheckout
  <2>4. PaidCarried'
    BY <1>2, <2>1, <2>3, CarriedOn DEF CloseCheckout, CarriedEverywhere
  <2>5. ScreenFollows'
    <3>1. handler[h].at # "notifying" /\ \A g \in Handlers \ {h} : handler'[g] = handler[g]
      BY <1>2 DEF CloseCheckout, Leaves, Sits, LiveTypeOK
    <3> QED
      BY <2>1, <3>1 DEF ScreenFollows
  <2> QED
    BY <1>2, <2>1, <2>2, <2>4, <2>5, SkipperTyped DEF CloseCheckout, LiveTypeOK
<1>3. CASE OpenPurchase(h) \/ ClosePurchase(h)
  <2>1. live' = core /\ UNCHANGED <<core, stage, saved, helm, overlapped>>
    BY <1>3 DEF OpenPurchase, ClosePurchase
  <2>2. handler' \in [Handlers -> HandlerState]
    BY <1>3, HandlersTyped, SkipperTyped DEF OpenPurchase, ClosePurchase
  <2>3. \A g \in Handlers : handler'[g].at = "checkout" => handler[g].at = "checkout" /\ handler'[g] = handler[g]
    BY <1>3, CheckoutsShrink DEF OpenPurchase, ClosePurchase
  <2>4. PaidCarried'
    BY <2>1, <2>3, CarriedOn DEF CarriedEverywhere
  <2> QED
    BY <2>1, <2>2, <2>4 DEF LiveTypeOK, ScreenFollows
<1>4. CASE \E m \in Recruits : HireAndNotify(h, m)
  <2>1. PICK m \in Recruits : HireAndNotify(h, m)
    BY <1>4
  <2>2. UNCHANGED <<core, stage, saved, helm, overlapped>> /\ live' \in Skipper /\ live'.packs = core.packs
    BY <2>1, SkipperTyped DEF HireAndNotify, LiveTypeOK
  <2>3. handler' \in [Handlers -> HandlerState]
    BY <2>1, HandlersTyped, SkipperTyped DEF HireAndNotify
  <2>4. \A g \in Handlers : handler'[g].at = "checkout" => handler[g].at = "checkout" /\ handler'[g] = handler[g]
    BY <2>1, CheckoutsShrink DEF HireAndNotify
  <2>5. PaidCarried'
    BY <2>2, <2>4, CarriedOn DEF CarriedEverywhere
  <2>6. handler'[h].at = "notifying"
    BY <2>1 DEF HireAndNotify, Sits, LiveTypeOK
  <2> QED
    BY <2>2, <2>3, <2>5, <2>6 DEF LiveTypeOK, ScreenFollows
<1> QED
  BY <1>1, <1>2, <1>3, <1>4 DEF HandlerStep

\* A checkout takes the core's player along, which carries every grant.
LEMMA OpenCheckoutKeeps ==
  ASSUME LiveInv, NEW h \in Handlers, OpenCheckout(h)
  PROVE  LiveInv'
<1> USE DEF LiveInv
<1>1. live' = core /\ UNCHANGED <<core, stage, saved, helm, overlapped>>
  BY DEF OpenCheckout
<1>2. handler' \in [Handlers -> HandlerState]
  BY HandlersTyped DEF OpenCheckout, LiveTypeOK
<1>3. \A g \in Handlers : handler'[g] = handler[g] \/ handler'[g].copy = core
  BY DEF OpenCheckout, Sits, LiveTypeOK
<1>4. PaidCarried'
  BY <1>1, <1>3 DEF PaidCarried, CarriedEverywhere
<1> QED
  BY <1>1, <1>2, <1>4 DEF LiveTypeOK, ScreenFollows

\* The core's own steps, with no handler: taps that look, acts, hires, saves and the lead.
LEMMA CoreStepKeeps ==
  ASSUME LiveInv,
         Look \/ SessionAct \/ RoutineSave \/ LoseHelm \/ \E m \in Recruits : HireAtOnce(m)
  PROVE  LiveInv'
<1> USE DEF LiveInv
<1>1. CASE Look
  BY <1>1 DEF Look, LiveTypeOK, ScreenFollows, PaidCarried, CarriedEverywhere
<1>2. CASE SessionAct
  <2>1. core' = [core EXCEPT !.progress = core.progress + 1] /\ live' = core'
    BY <1>2 DEF SessionAct, Published
  <2>2. core' \in Skipper /\ core'.packs = core.packs
    BY <1>2, <2>1, LiveAssumption DEF SessionAct, LiveTypeOK, Skipper
  <2> QED
    BY <1>2, <2>1, <2>2 DEF SessionAct, LiveTypeOK, ScreenFollows, PaidCarried, CarriedEverywhere
<1>3. CASE RoutineSave \/ LoseHelm
  BY <1>3 DEF RoutineSave, LoseHelm, LiveTypeOK, ScreenFollows, PaidCarried, CarriedEverywhere
<1>4. CASE \E m \in Recruits : HireAtOnce(m)
  <2>1. PICK m \in Recruits : HireAtOnce(m)
    BY <1>4
  <2>2. live' = core' /\ (core' = SignedOn(m) \/ core' = core)
    BY <2>1, PersistedEither DEF HireAtOnce
  <2>3. core' \in Skipper /\ core'.packs = core.packs
    BY <2>2, SkipperTyped DEF LiveTypeOK
  <2> QED
    BY <2>1, <2>2, <2>3 DEF HireAtOnce, LiveTypeOK, ScreenFollows, PaidCarried, CarriedEverywhere
<1> QED
  BY <1>1, <1>2, <1>3, <1>4

\* "Play here" loads the slot, which has every completed grant; a grant that was
\* being saved is reported.
LEMMA TakeHelmKeeps ==
  ASSUME LiveInv, TakeHelm
  PROVE  LiveInv'
<1> USE DEF LiveInv
<1>1. saved' \in Skipper /\ saved'.packs = saved.packs /\ core' = saved' /\ live' = saved'
  BY LiveAssumption DEF TakeHelm, Published, LiveTypeOK, Skipper
<1>2. stage' \in [Paid -> {"none", "paid", "saving", "completed", "lost"}]
  BY DEF TakeHelm, LiveTypeOK
<1>3. \A k \in Paid : stage'[k] # "saving" /\ (stage'[k] = "completed" => stage[k] = "completed")
  BY DEF TakeHelm
<1>4. PaidCarried'
  BY <1>1, <1>3 DEF TakeHelm, PaidCarried, CarriedEverywhere
<1> QED
  BY <1>1, <1>2, <1>4 DEF TakeHelm, LiveTypeOK, ScreenFollows

\* A grant is applied to both players; if a checkout waits, it is overlapped.
LEMMA GrantStepKeeps ==
  ASSUME LiveInv, NEW k \in Paid,
         Pay(k) \/ ApplyGrant(k) \/ CompleteGrant(k) \/ GrantLost(k)
  PROVE  LiveInv'
<1> USE DEF LiveInv
<1>1. CASE Pay(k) \/ GrantLost(k)
  <2>1. \A j \in Paid : stage'[j] \in {"saving", "completed"} => stage[j] = stage'[j]
    BY <1>1 DEF Pay, GrantLost, LiveTypeOK
  <2> QED
    BY <1>1, <2>1 DEF Pay, GrantLost, LiveTypeOK, ScreenFollows, PaidCarried, CarriedEverywhere
<1>2. CASE ApplyGrant(k)
  <2>1. core' = [core EXCEPT !.packs = core.packs \cup {k}] /\ live' = core'
    BY <1>2 DEF ApplyGrant, Published
  <2>2. core' \in Skipper /\ core'.packs = core.packs \cup {k}
    BY <2>1 DEF LiveTypeOK, Skipper
  <2>3. overlapped' \subseteq Paid /\ overlapped \subseteq overlapped'
    BY <1>2 DEF ApplyGrant, LiveTypeOK
  <2>4. k \notin overlapped' => \A h \in Handlers : handler[h].at # "checkout"
    BY <1>2 DEF ApplyGrant
  <2>5. \A j \in Paid \ {k} : stage'[j] = stage[j]
    BY <1>2 DEF ApplyGrant, LiveTypeOK
  <2>6. stage'[k] = "saving"
    BY <1>2 DEF ApplyGrant, LiveTypeOK
  <2>7. PaidCarried'
    BY <1>2, <2>1, <2>2, <2>3, <2>4, <2>5, <2>6 DEF ApplyGrant, PaidCarried, CarriedEverywhere
  <2> QED
    BY <1>2, <2>1, <2>2, <2>3, <2>7 DEF ApplyGrant, LiveTypeOK, ScreenFollows
<1>3. CASE CompleteGrant(k)
  <2>1. \A j \in Paid : stage'[j] \in {"saving", "completed"} => stage[j] \in {"saving", "completed"}
    BY <1>3 DEF CompleteGrant, LiveTypeOK
  <2> QED
    BY <1>3, <2>1 DEF CompleteGrant, LiveTypeOK, ScreenFollows, PaidCarried, CarriedEverywhere
<1> QED
  BY <1>1, <1>2, <1>3

\* The invariant holds in every state.
LEMMA LiveAlways == LiveSpec => []LiveInv
<1>1. ASSUME LiveInv, [LiveNext]_liveVars PROVE LiveInv'
  <2>1. CASE UNCHANGED liveVars
    BY <1>1, <2>1 DEF liveVars, LiveInv, LiveTypeOK, ScreenFollows, PaidCarried, CarriedEverywhere
  <2>2. CASE TakeHelm
    BY <1>1, <2>2, TakeHelmKeeps
  <2>3. CASE Look \/ SessionAct \/ RoutineSave \/ LoseHelm \/ \E m \in Recruits : HireAtOnce(m)
    BY <1>1, <2>3, CoreStepKeeps
  <2>4. CASE \E h \in Handlers : OpenCheckout(h)
    BY <1>1, <2>4, OpenCheckoutKeeps
  <2>5. CASE \E h \in Handlers : HandlerStep(h)
    BY <1>1, <2>5, HandlerStepKeeps
  <2>6. CASE \E k \in Paid : Pay(k) \/ ApplyGrant(k) \/ CompleteGrant(k) \/ GrantLost(k)
    BY <1>1, <2>6, GrantStepKeeps
  <2> QED
    BY <1>1, <2>1, <2>2, <2>3, <2>4, <2>5, <2>6 DEF LiveNext, HandlerStep
<1> QED
  BY <1>1, LiveStart, PTL DEF LiveSpec

\* main.js's subscriber, which makes the live copy follow every publication, keeps a
\* completed purchase in the player and in the slot, in whatever order handlers wait for
\* reminders and purchases; only a checkout of the subscription may undo it.
THEOREM PurchasesKept == LiveSpec => []KeptUnlessOverlapped
<1>1. LiveInv => KeptUnlessOverlapped
  BY DEF LiveInv, PaidCarried, CarriedEverywhere, KeptUnlessOverlapped
<1> QED
  BY <1>1, LiveAlways, PTL

\* While no handler waits for the reminders, main.js draws exactly the core's player.
THEOREM ScreenAlwaysFollows == LiveSpec => []ScreenFollows
<1>1. LiveInv => ScreenFollows
  BY DEF LiveInv
<1> QED
  BY <1>1, LiveAlways, PTL

-----------------------------------------------------------------------------
(* The voyage. *)

\* The saved record.
Player ==
  [fuel : 0 .. MaxFuel, crippled : BOOLEAN, crew : [Crew -> Status], away : SUBSET (Crew \ {Captain}),
   board : Days, done : SUBSET AllOffers, wall : ({"wall"} \X {"risky"} \X Nat) \cup {None},
   sequence : 0 .. MaxAccepts, siege : [day : Days, damage : 0 .. Pool, attempts : 0 .. MaxAccepts],
   fallen : BOOLEAN, contract : Contract \cup {None}, encounter : Encounter \cup {None},
   fight : TravelFight \cup {None}, event : BOOLEAN]

\* A contract under way: its offer is open, the wall it assaults stands, and what it brings
\* home is known when it returns; a takedown takes what is left of the flagship.
Contracted(p, d) ==
  p.contract # None =>
    /\ p.contract.offer \notin p.done
    /\ IsWall(p.contract.offer) => ~p.fallen /\ p.siege.attempts < p.sequence
    /\ p.contract.stage = "return" => p.contract.result # None
    /\ p.contract.result # None /\ p.contract.result.defeated =>
         IsWall(p.contract.offer) /\ d + p.contract.result.dealt >= Pool
    /\ p.contract.stage \in {"briefing", "choice"} => ~p.contract.mode
    /\ p.contract.stage = "briefing" => p.contract.revision = 0
    /\ p.contract.stage = "choice" => p.contract.revision = 1
    /\ p.contract.mode /\ p.encounter # None /\ IsWall(p.contract.offer) => p.encounter.segment \in Nat
    /\ p.sequence >= 1

\* A fight belongs to the contract or the jump that is under way.
OneThing(p) ==
  /\ p.contract # None => p.fight = None /\ ~p.event
  /\ p.fight # None => ~p.event
  /\ p.encounter # None =>
       \/ p.contract # None /\ p.contract.mode /\ p.contract.id = p.encounter.id
       \/ p.fight # None /\ p.fight.id = p.encounter.id

PaidOnceEach(p, paid) == \A o \in AllOffers : paid[o] <= 1 /\ (o \in p.done <=> paid[o] = 1)

\* The wall stands while nothing was paid for its fall, and falls to what was dealt.
Siege(p, d, k) ==
  /\ p.siege.damage <= d
  /\ ~p.fallen => k = 0 /\ p.siege.damage < Pool
  /\ p.fallen => d >= Pool
  /\ k <= 1 /\ k <= p.sequence
  /\ p.siege.attempts <= p.sequence

\* The wall on offer is that of the next attempt.
WallPosted(p) ==
  p.wall # None => p.wall = <<"wall", "risky", p.siege.attempts + 1>> /\ ~p.fallen

Good(p, paid, d, k) ==
  /\ p \in Player
  /\ Contracted(p, d) /\ OneThing(p) /\ PaidOnceEach(p, paid) /\ Siege(p, d, k)

VoyageInv ==
  /\ Good(player, timesPaid, dealt, takedowns) /\ WallPosted(player)
  /\ now \in 0 .. MaxTime /\ setBacks \in 0 .. MaxSetBacks
  /\ timesPaid \in [AllOffers -> Nat] /\ dealt \in Nat /\ takedowns \in Nat

-----------------------------------------------------------------------------
(* Days, offers and the crew. *)

\* A time within the clock has its day.
LEMMA DaysCounted == ASSUME NEW t \in 0 .. MaxTime PROVE DayOf(t) \in Days
<1>1. DayLength \in Nat /\ DayLength > 0 /\ MaxTime \in Nat
  BY VoyageAssumption
<1>2. \A a, b \in Nat : a <= b => a \div DayLength <= b \div DayLength /\ a \div DayLength \in Nat
  BY <1>1
<1>. QED  BY <1>1, <1>2 DEF DayOf, Days

\* An offer of the wall is one of its attempts.
LEMMA WallNumbers ==
  ASSUME NEW n, <<"wall", "risky", n>> \in AllOffers PROVE n \in 1 .. MaxAccepts
  BY DEF AllOffers, DailyOffers, WallOffers, Attempts

\* The two kinds of offer.
LEMMA OfferKinds ==
  /\ \A f, n : ~IsWall(<<"daily", f, n>>)
  /\ \A f, n : IsWall(<<"wall", f, n>>)
  BY DEF IsWall

\* What the later lemmas compare: everything but fuel, hull, crew, board and wall.
Alike(p, q) ==
  /\ q \in Player
  /\ q.contract = p.contract /\ q.encounter = p.encounter /\ q.fight = p.fight /\ q.event = p.event
  /\ q.done = p.done /\ q.siege = p.siege /\ q.fallen = p.fallen /\ q.sequence = p.sequence

\* A good record stays good through what Alike leaves open.
LEMMA GoodAlike ==
  ASSUME NEW p, NEW q, NEW paid, NEW d, NEW k, Good(p, paid, d, k), Alike(p, q)
  PROVE  Good(q, paid, d, k)
  BY DEF Good, Alike, Contracted, OneThing, PaidOnceEach, Siege

\* Healing touches the crew only.
LEMMA HealFacts ==
  ASSUME NEW p \in Player, NEW t \in 0 .. MaxTime
  PROVE  Alike(p, Heal(p, t))
<1>1. Fit \in Status
  BY VoyageAssumption DEF Fit, Status
<1>. DEFINE crew == [c \in Crew |-> IF p.crew[c].kind = "injured" /\ p.crew[c].until <= t THEN Fit ELSE p.crew[c]]
<1>2. crew \in [Crew -> Status]
  BY <1>1 DEF Player
<1>3. Heal(p, t) = [p EXCEPT !.crew = crew]
  BY DEF Heal
<1>. HIDE DEF crew
<1>. QED  BY <1>2, <1>3 DEF Alike, Player

\* A board posted touches the board only.
LEMMA BoardFacts ==
  ASSUME NEW p \in Player, NEW t \in 0 .. MaxTime
  PROVE  Alike(p, PostBoard(p, t))
<1>1. [p EXCEPT !.board = DayOf(t)] \in Player
  BY DaysCounted DEF Player
<1>. QED  BY <1>1 DEF PostBoard, Alike, Player

\* A wall posted is that of the next attempt, and touches the wall only.
LEMMA WallFacts ==
  ASSUME NEW p \in Player
  PROVE  Alike(p, PostWall(p)) /\ WallPosted(PostWall(p))
<1>. DEFINE w == IF p.fallen \/ (p.contract # None /\ IsWall(p.contract.offer))
                   THEN None ELSE <<"wall", "risky", p.siege.attempts + 1>>
<1>1. p.siege.attempts + 1 \in Nat
  BY VoyageAssumption DEF Player
<1>2. w \in ({"wall"} \X {"risky"} \X Nat) \cup {None}
  BY <1>1
<1>3. PostWall(p) = [p EXCEPT !.wall = w]
  BY DEF PostWall
<1>4. w # None => w = <<"wall", "risky", p.siege.attempts + 1>> /\ ~p.fallen
  OBVIOUS
<1>. HIDE DEF w
<1>. QED  BY <1>2, <1>3, <1>4 DEF Alike, WallPosted, Player

\* The render's prepare touches crew, board and wall only.
LEMMA PrepareFacts ==
  ASSUME NEW p \in Player, NEW t \in 0 .. MaxTime
  PROVE  Alike(p, Prepare(p, t)) /\ WallPosted(Prepare(p, t))
<1>1. Alike(p, Heal(p, t)) /\ Heal(p, t) \in Player
  BY HealFacts DEF Alike
<1>2. Alike(Heal(p, t), PostBoard(Heal(p, t), t)) /\ PostBoard(Heal(p, t), t) \in Player
  BY <1>1, BoardFacts DEF Alike
<1>3. Alike(PostBoard(Heal(p, t), t), Prepare(p, t)) /\ WallPosted(Prepare(p, t))
  BY <1>2, WallFacts DEF Prepare
<1>. QED  BY <1>1, <1>2, <1>3 DEF Alike

\* A click that leaves a good record leaves one after the render too.
LEMMA Arrives ==
  ASSUME VoyageInv, NEW p, Becomes(p), timesPaid' \in [AllOffers -> Nat], dealt' \in Nat, takedowns' \in Nat,
         Good(p, timesPaid', dealt', takedowns')
  PROVE  VoyageInv'
<1>1. p \in Player /\ now \in 0 .. MaxTime
  BY DEF Good, VoyageInv
<1>2. Alike(p, player') /\ WallPosted(player')
  BY <1>1, PrepareFacts DEF Becomes
<1>3. Good(player', timesPaid', dealt', takedowns')
  BY <1>2, GoodAlike
<1>. QED  BY <1>2, <1>3 DEF VoyageInv, Becomes, time

\* An injury touches the crew only.
LEMMA InjureFacts ==
  ASSUME NEW p \in Player, NEW S, NEW t \in 0 .. MaxTime
  PROVE  Alike(p, Injure(p, S, t))
<1>. DEFINE hurt == [kind |-> "injured", until |-> t + InjuryTime]
            crew == [c \in Crew |-> IF c \in S THEN hurt ELSE p.crew[c]]
<1>1. hurt \in Status
  BY VoyageAssumption DEF Status
<1>. HIDE DEF hurt
<1>2. crew \in [Crew -> Status]
  BY <1>1 DEF Player
<1>3. Injure(p, S, t) = [p EXCEPT !.crew = crew]
  BY DEF Injure, hurt
<1>. HIDE DEF crew
<1>. QED  BY <1>2, <1>3 DEF Alike, Player

\* Wear touches the hull only.
LEMMA WornFacts == ASSUME NEW p \in Player, NEW q \in Worn(p) PROVE Alike(p, q)
  BY DEF Worn, Alike, Player

\* Who is hurt changes the crew only.
LEMMA HurtFacts ==
  ASSUME NEW p \in Player, NEW S, NEW t \in 0 .. MaxTime, NEW q \in Hurt(p, S, t)
  PROVE  Alike(p, q)
<1>1. q = p \/ \E c \in S : q = Injure(p, {c}, t)
  BY DEF Hurt
<1>2. Alike(p, p)
  BY DEF Alike
<1>3. ASSUME NEW c \in S PROVE Alike(p, Injure(p, {c}, t))
  BY InjureFacts
<1>. QED  BY <1>1, <1>2, <1>3

-----------------------------------------------------------------------------
(* The clicks, one by one. *)

\* What the invariant says, in the words the actions use.
LEMMA Before ==
  ASSUME VoyageInv
  PROVE  /\ player \in Player /\ now \in 0 .. MaxTime
         /\ Good(player, timesPaid, dealt, takedowns)
         /\ Contracted(player, dealt) /\ OneThing(player) /\ PaidOnceEach(player, timesPaid)
         /\ Siege(player, dealt, takedowns)
         /\ player.contract # None => player.contract \in Contract
         /\ player.encounter # None => player.encounter \in Encounter
         /\ player.fight # None => player.fight \in TravelFight
         /\ timesPaid \in [AllOffers -> Nat] /\ dealt \in Nat /\ takedowns \in Nat
  BY DEF VoyageInv, Good, Player

\* A click that pays nothing and leaves the rest of the record alone.
LEMMA ArrivesAlike ==
  ASSUME VoyageInv, NEW p, Alike(player, p), Becomes(p), UNCHANGED ghosts
  PROVE  VoyageInv'
<1>1. Good(p, timesPaid, dealt, takedowns)
  BY Before, GoodAlike
<1>. QED  BY <1>1, Before, Arrives DEF ghosts

LEMMA AcceptKeeps ==
  ASSUME VoyageInv, NEW o \in AllOffers, Accept(o)
  PROVE  VoyageInv'
<1>. DEFINE k == [id |-> player.sequence + 1, offer |-> o, stage |-> "briefing", revision |-> 0,
                  choice |-> None, mode |-> FALSE, parts |-> {}, result |-> None]
            p == [player EXCEPT !.sequence = player.sequence + 1, !.contract = k]
<1>1. player.sequence + 1 \in 0 .. MaxAccepts /\ player.sequence + 1 \in Nat /\ player.sequence \in Nat
  BY Before, VoyageAssumption DEF Accept, Player
<1>2. k \in Contract
  BY <1>1 DEF Contract
<1>3. /\ k.offer = o /\ k.stage = "briefing" /\ k.revision = 0 /\ ~k.mode /\ k.result = None
  OBVIOUS
<1>. HIDE DEF k
<1>4. /\ p \in Player /\ p.contract = k /\ p.sequence = player.sequence + 1
      /\ p.encounter = player.encounter /\ p.fight = player.fight /\ p.event = player.event
      /\ p.done = player.done /\ p.siege = player.siege /\ p.fallen = player.fallen
  BY <1>1, <1>2, Before DEF Player
<1>5. Becomes(p) /\ UNCHANGED ghosts
  BY DEF Accept, k
<1>. HIDE DEF p
<1>6. IsWall(o) => ~player.fallen
  <2>1. o \in Posted(player)
    BY DEF Accept
  <2>2. IsWall(o) => o = player.wall /\ o # None
    BY <2>1, OfferKinds DEF Posted
  <2>. QED  BY <2>2 DEF VoyageInv, WallPosted
<1>7. Contracted(p, dealt)
  <2>1. player.siege.attempts <= player.sequence /\ player.siege.attempts \in Nat
    BY Before, VoyageAssumption DEF Siege, Player
  <2>2. o \notin player.done
    BY DEF Accept
  <2>. QED  BY <1>1, <1>3, <1>4, <1>6, <2>1, <2>2 DEF Contracted
<1>8. OneThing(p)
  BY <1>3, <1>4, Before DEF OneThing, Accept
<1>9. PaidOnceEach(p, timesPaid) /\ Siege(p, dealt, takedowns)
  <2>1. player.siege.attempts \in Nat
    BY Before, VoyageAssumption DEF Player
  <2>. QED  BY <1>1, <1>4, <2>1, Before DEF PaidOnceEach, Siege
<1>10. Good(p, timesPaid, dealt, takedowns)
  BY <1>4, <1>7, <1>8, <1>9 DEF Good
<1>. QED  BY <1>5, <1>10, Before, Arrives DEF ghosts

\* The record with another contract.
LEMMA WithContract ==
  ASSUME NEW p \in Player, NEW k \in Contract \cup {None}
  PROVE  /\ [p EXCEPT !.contract = k] \in Player /\ [p EXCEPT !.contract = k].contract = k
         /\ [p EXCEPT !.contract = k].encounter = p.encounter
         /\ [p EXCEPT !.contract = k].fight = p.fight /\ [p EXCEPT !.contract = k].event = p.event
         /\ [p EXCEPT !.contract = k].done = p.done /\ [p EXCEPT !.contract = k].siege = p.siege
         /\ [p EXCEPT !.contract = k].fallen = p.fallen
         /\ [p EXCEPT !.contract = k].sequence = p.sequence
         /\ [p EXCEPT !.contract = k].crew = p.crew
  BY DEF Player

\* A contract that moves on, perhaps with its fight.
LEMMA ContractMoves ==
  ASSUME VoyageInv, NEW p \in Player, player.contract # None, p.contract \in Contract,
         p.fight = player.fight, p.event = player.event, p.done = player.done,
         p.siege = player.siege, p.fallen = player.fallen, p.sequence = player.sequence,
         p.contract.offer = player.contract.offer,
         p.encounter # None =>
           /\ p.contract.mode /\ p.contract.id = p.encounter.id
           /\ IsWall(p.contract.offer) => p.encounter.segment \in Nat,
         p.contract.stage \in {"briefing", "choice"} => ~p.contract.mode,
         p.contract.stage = "briefing" => p.contract.revision = 0,
         p.contract.stage = "choice" => p.contract.revision = 1,
         p.contract.stage = "return" => p.contract.result # None,
         p.contract.result # None /\ p.contract.result.defeated =>
           IsWall(p.contract.offer) /\ dealt + p.contract.result.dealt >= Pool
  PROVE  Good(p, timesPaid, dealt, takedowns)
<1>1. Contracted(p, dealt)
  BY Before DEF Contracted
<1>2. OneThing(p)
  BY Before, VoyageAssumption DEF OneThing
<1>3. PaidOnceEach(p, timesPaid) /\ Siege(p, dealt, takedowns)
  BY Before DEF PaidOnceEach, Siege
<1>. QED  BY <1>1, <1>2, <1>3 DEF Good

LEMMA LaunchKeeps == ASSUME VoyageInv, Launch PROVE VoyageInv'
<1>. DEFINE k == [player.contract EXCEPT !.revision = player.contract.revision + 1, !.stage = "choice"]
            p == [player EXCEPT !.fuel = player.fuel - 1, !.contract = k]
<1>1. player.contract \in Contract /\ player.contract # None /\ player.contract.stage = "briefing"
  BY Before DEF Launch
<1>2. player.contract.revision = 0 /\ ~player.contract.mode
  BY <1>1, Before DEF Contracted
<1>3. /\ k \in Contract /\ k.stage = "choice" /\ k.revision = 1 /\ k.mode = player.contract.mode
      /\ k.id = player.contract.id /\ k.offer = player.contract.offer /\ k.result = player.contract.result
  <2>1. player.contract.revision + 1 \in Nat /\ player.contract.revision + 1 = 1
    BY <1>2
  <2>. QED  BY <1>1, <2>1 DEF Contract
<1>. HIDE DEF k
<1>4. player.fuel - 1 \in 0 .. MaxFuel
  BY Before, VoyageAssumption DEF Launch, HasFuel, Player
<1>5. /\ p \in Player /\ p.contract = k /\ p.sequence = player.sequence
      /\ p.encounter = player.encounter /\ p.fight = player.fight /\ p.event = player.event
      /\ p.done = player.done /\ p.siege = player.siege /\ p.fallen = player.fallen
  BY <1>3, <1>4, Before DEF Player
<1>6. Becomes(p) /\ UNCHANGED ghosts
  BY DEF Launch, k
<1>. HIDE DEF p
<1>7. player.encounter = None
  BY <1>1, <1>2, Before DEF OneThing
<1>8. player.contract.result # None /\ player.contract.result.defeated =>
        IsWall(k.offer) /\ dealt + player.contract.result.dealt >= Pool
  BY <1>1, <1>3, Before DEF Contracted
<1>9. Good(p, timesPaid, dealt, takedowns)
  BY <1>1, <1>2, <1>3, <1>5, <1>7, <1>8, ContractMoves
<1>. QED  BY <1>6, <1>9, Before, Arrives DEF ghosts

\* The siege of the day is within the flagship's hull.
LEMMA SiegeBounds ==
  ASSUME NEW p \in Player, NEW t
  PROVE  SiegeDamage(p, t) \in 0 .. Pool /\ Remaining(p, t) \in 0 .. Pool
         /\ SiegeDamage(p, t) \in Nat /\ Remaining(p, t) \in Nat
         /\ SiegeDamage(p, t) <= p.siege.damage
  BY VoyageAssumption DEF SiegeDamage, Remaining, Player

\* The smaller of two numbers.
LEMMA Smaller == ASSUME NEW a \in Nat, NEW b \in Nat
                 PROVE  AtMost(a, b) \in Nat /\ AtMost(a, b) <= a /\ AtMost(a, b) <= b
  BY DEF AtMost

\* The record after a choice is paid, and after a confrontation is begun on it.
Charged(action) ==
  [player EXCEPT !.fuel = @ - 1, !.contract.revision = @ + 1, !.contract.choice = action]

\* What the payment of a choice changes.
LEMMA ChargedFacts ==
  ASSUME VoyageInv, NEW action \in {"secure", "push"},
         player.contract # None, player.contract.stage = "choice", HasFuel(1)
  PROVE  /\ Charged(action) \in Player /\ Charged(action).contract \in Contract
         /\ Charged(action).contract.offer = player.contract.offer
         /\ Charged(action).contract.id = player.contract.id
         /\ Charged(action).contract.result = player.contract.result
         /\ Charged(action).contract.choice = action
         /\ Charged(action).contract.mode = FALSE /\ Charged(action).contract.revision = 2
         /\ Charged(action).crew = player.crew
         /\ Charged(action).sequence = player.sequence /\ Charged(action).fallen = player.fallen
         /\ Charged(action).encounter = player.encounter /\ Charged(action).fight = player.fight
         /\ Charged(action).event = player.event
         /\ Charged(action).done = player.done /\ Charged(action).siege = player.siege
<1>. DEFINE k == [player.contract EXCEPT !.revision = player.contract.revision + 1, !.choice = action]
<1>1. player.contract \in Contract /\ player.contract.revision = 1 /\ ~player.contract.mode
  BY Before DEF Contracted
<1>2. player.contract.revision + 1 \in Nat /\ player.contract.revision + 1 = 2
  BY <1>1
<1>3. /\ k \in Contract /\ k.offer = player.contract.offer /\ k.id = player.contract.id
      /\ k.result = player.contract.result /\ k.choice = action /\ k.mode = player.contract.mode
      /\ k.revision = 2
  BY <1>1, <1>2 DEF Contract
<1>4. Charged(action) = [player EXCEPT !.fuel = player.fuel - 1, !.contract = k]
  BY Before DEF Charged, Player
<1>5. k.mode = FALSE
  BY <1>1, <1>3 DEF Contract
<1>6. player.fuel - 1 \in 0 .. MaxFuel
  BY Before, VoyageAssumption DEF HasFuel, Player
<1>. HIDE DEF k
<1>. QED  BY <1>3, <1>4, <1>5, <1>6, Before, ZenonT(30) DEF Player

\* What a confrontation begun changes.
LEMMA ConfrontFacts ==
  ASSUME NEW p \in Player, p.contract \in Contract, now \in 0 .. MaxTime
  PROVE  /\ Confront(p) \in Player
         /\ Confront(p).contract \in Contract /\ Confront(p).encounter \in Encounter
         /\ Confront(p).contract.offer = p.contract.offer /\ Confront(p).contract.id = p.contract.id
         /\ Confront(p).contract.result = p.contract.result
         /\ Confront(p).contract.choice = p.contract.choice
         /\ Confront(p).contract.revision = p.contract.revision
         /\ Confront(p).contract.stage = "confrontation" /\ Confront(p).contract.mode = TRUE
         /\ Confront(p).contract.parts = Aboard(p, now)
         /\ Confront(p).encounter.id = p.contract.id /\ Confront(p).encounter.beat = 0
         /\ Confront(p).encounter.crew = Squad(p, now) /\ Confront(p).encounter.result = None
         /\ IsWall(p.contract.offer) => Confront(p).encounter.segment \in Nat
         /\ Confront(p).sequence = p.sequence /\ Confront(p).fallen = p.fallen
         /\ Confront(p).fight = p.fight /\ Confront(p).event = p.event
         /\ Confront(p).done = p.done /\ Confront(p).siege = p.siege
<1>. DEFINE k == [p.contract EXCEPT !.stage = "confrontation", !.mode = TRUE, !.parts = Aboard(p, now)]
            seg == IF IsWall(p.contract.offer) THEN AtMost(Segment, Remaining(p, now)) ELSE None
            e == [id |-> p.contract.id, crew |-> Squad(p, now), beat |-> 0, result |-> None, segment |-> seg]
<1>1. Aboard(p, now) \in SUBSET Crew /\ Squad(p, now) \in SUBSET Crew
  BY DEF Aboard, Squad
<1>2. /\ k \in Contract /\ k.offer = p.contract.offer /\ k.id = p.contract.id
      /\ k.result = p.contract.result /\ k.choice = p.contract.choice /\ k.revision = p.contract.revision
      /\ k.stage = "confrontation" /\ k.mode = TRUE /\ k.parts = Aboard(p, now)
  BY <1>1 DEF Contract
<1>3. seg \in Nat \cup {None} /\ (IsWall(p.contract.offer) => seg \in Nat)
  BY SiegeBounds, Smaller, VoyageAssumption
<1>. HIDE DEF seg
<1>4. e \in Encounter /\ e.id = p.contract.id /\ e.beat = 0 /\ e.crew = Squad(p, now)
      /\ e.result = None /\ e.segment = seg
  BY <1>1, <1>3 DEF Encounter, Contract
<1>5. Confront(p) = [p EXCEPT !.contract = k, !.encounter = e]
  BY DEF Confront, FightOf, Player, seg
<1>. HIDE DEF k, e
<1>. QED  BY <1>2, <1>3, <1>4, <1>5, ZenonT(30) DEF Player

LEMMA ChooseKeeps ==
  ASSUME VoyageInv, NEW action \in {"secure", "push"}, Choose(action)
  PROVE  VoyageInv'
<1>. DEFINE paid == Charged(action)
            k == [paid.contract EXCEPT !.stage = "return",
                    !.result = [success |-> TRUE, dealt |-> 0, defeated |-> FALSE]]
            home == [paid EXCEPT !.contract = k]
<1>1. player.contract # None /\ player.contract.stage = "choice" /\ HasFuel(1)
  BY DEF Choose
<1>2. player.contract.mode = FALSE /\ player.encounter = None
  <2>1. ~player.contract.mode
    BY <1>1, Before DEF Contracted
  <2>2. player.contract.mode \in BOOLEAN
    BY <1>1, Before DEF Contract
  <2>. QED  BY <1>1, <2>1, <2>2, Before DEF OneThing
<1>3. player.contract.result # None /\ player.contract.result.defeated =>
        IsWall(player.contract.offer) /\ dealt + player.contract.result.dealt >= Pool
  BY <1>1, Before DEF Contracted
<1>4. CASE Becomes(Confront(paid)) /\ UNCHANGED ghosts
  <2>1. paid \in Player /\ paid.contract \in Contract /\ now \in 0 .. MaxTime
    BY <1>1, ChargedFacts, Before
  <2>2. /\ paid.contract.offer = player.contract.offer /\ paid.contract.result = player.contract.result
        /\ paid.sequence = player.sequence /\ paid.fallen = player.fallen
        /\ paid.fight = player.fight /\ paid.event = player.event
        /\ paid.done = player.done /\ paid.siege = player.siege
    BY <1>1, ChargedFacts
  <2>. HIDE DEF paid
  <2>3. /\ Confront(paid) \in Player /\ Confront(paid).contract \in Contract
        /\ Confront(paid).contract.offer = player.contract.offer
        /\ Confront(paid).contract.result = player.contract.result
        /\ Confront(paid).contract.stage = "confrontation" /\ Confront(paid).contract.mode = TRUE
        /\ Confront(paid).encounter.id = Confront(paid).contract.id
        /\ IsWall(player.contract.offer) => Confront(paid).encounter.segment \in Nat
        /\ Confront(paid).sequence = player.sequence /\ Confront(paid).fallen = player.fallen
        /\ Confront(paid).fight = player.fight /\ Confront(paid).event = player.event
        /\ Confront(paid).done = player.done /\ Confront(paid).siege = player.siege
    BY <2>1, <2>2, ConfrontFacts
  <2>4. Good(Confront(paid), timesPaid, dealt, takedowns)
    BY <1>1, <1>3, <2>3, ContractMoves
  <2>. QED  BY <1>4, <2>4, Before, Arrives DEF ghosts
<1>5. CASE Becomes(home) /\ UNCHANGED ghosts
  <2>1. [success |-> TRUE, dealt |-> 0, defeated |-> FALSE] \in Outcome
    BY DEF Outcome
  <2>2. /\ k \in Contract /\ k.offer = player.contract.offer /\ k.stage = "return"
        /\ k.result # None /\ k.result.defeated = FALSE
    BY <1>1, <2>1, ChargedFacts, VoyageAssumption, ZenonT(30) DEF Contract
  <2>. HIDE DEF k
  <2>3. /\ home \in Player /\ home.contract = k /\ home.sequence = player.sequence
        /\ home.fallen = player.fallen /\ home.encounter = player.encounter
        /\ home.fight = player.fight /\ home.event = player.event
        /\ home.done = player.done /\ home.siege = player.siege
    <3>1. /\ paid \in Player /\ paid.sequence = player.sequence /\ paid.fallen = player.fallen
          /\ paid.encounter = player.encounter /\ paid.fight = player.fight
          /\ paid.event = player.event /\ paid.done = player.done /\ paid.siege = player.siege
      BY <1>1, ChargedFacts
    <3>. HIDE DEF paid
    <3>. QED  BY <2>2, <3>1, WithContract
  <2>. HIDE DEF home
  <2>4. Good(home, timesPaid, dealt, takedowns)
    BY <1>1, <1>2, <2>2, <2>3, ContractMoves
  <2>. QED  BY <1>5, <2>4, Before, Arrives DEF ghosts
<1>6. home = [paid EXCEPT !.contract.stage = "return",
                !.contract.result = [success |-> TRUE, dealt |-> 0, defeated |-> FALSE]]
  BY <1>1, ChargedFacts DEF Player
<1>. QED  BY <1>4, <1>5, <1>6 DEF Choose, Charged

\* A beat of a fight, as it leaves the encounter.
LEMMA BeatFacts ==
  ASSUME NEW p \in Player, p.encounter # None, NEW r \in Results \cup {None}
  PROVE  /\ Fought(p, r) \in Player /\ Fought(p, r).encounter \in Encounter
         /\ Fought(p, r).encounter.id = p.encounter.id
         /\ Fought(p, r).encounter.segment = p.encounter.segment
         /\ Fought(p, r).contract = p.contract /\ Fought(p, r).fight = p.fight
         /\ Fought(p, r).event = p.event /\ Fought(p, r).done = p.done
         /\ Fought(p, r).siege = p.siege /\ Fought(p, r).fallen = p.fallen
         /\ Fought(p, r).sequence = p.sequence /\ Fought(p, r).crew = p.crew
<1>. DEFINE e == [p.encounter EXCEPT !.beat = p.encounter.beat + 1, !.result = r]
<1>1. p.encounter \in Encounter
  BY DEF Player
<1>2. e \in Encounter /\ e.id = p.encounter.id /\ e.segment = p.encounter.segment
  <2>1. p.encounter.beat + 1 \in Nat
    BY <1>1 DEF Encounter
  <2>. QED  BY <1>1, <2>1 DEF Encounter
<1>3. Fought(p, r) = [p EXCEPT !.encounter = e]
  BY DEF Fought, Player
<1>. HIDE DEF e
<1>. QED  BY <1>2, <1>3 DEF Player

\* What an outcome says of the wall: a takedown takes what is left of it today.
LEMMA OutcomeFacts ==
  ASSUME VoyageInv, ValidSnapshot(player),
         NEW outcome \in Outcomes(player, TRUE) \cup Outcomes(player, FALSE)
  PROVE  /\ outcome \in Outcome
         /\ outcome.defeated => IsWall(player.contract.offer) /\ dealt + outcome.dealt >= Pool
<1>1. /\ player.contract # None /\ player.contract \in Contract /\ player.contract.mode
      /\ player.encounter # None /\ player.encounter \in Encounter
  BY Before DEF ValidSnapshot
<1>2. PICK won \in BOOLEAN : outcome \in Outcomes(player, won)
  OBVIOUS
<1>3. CASE ~IsWall(player.contract.offer)
  <2>1. outcome = [success |-> won, dealt |-> 0, defeated |-> FALSE]
    BY <1>2, <1>3 DEF Outcomes
  <2>. QED  BY <2>1 DEF Outcome
<1>4. CASE IsWall(player.contract.offer)
  <2>1. player.encounter.segment \in Nat
    BY <1>1, <1>4, Before DEF Contracted
  <2>2. PICK d \in IF won THEN {player.encounter.segment} ELSE 0 .. player.encounter.segment - 1 :
          outcome = [success |-> won, dealt |-> d, defeated |-> Defeated(player, now, won)]
    BY <1>2, <1>4 DEF Outcomes
  <2>3. d \in Nat
    BY <2>1, <2>2
  <2>4. Defeated(player, now, won) \in BOOLEAN
    BY DEF Defeated
  <2>5. Defeated(player, now, won) => dealt + d >= Pool
    <3>. SUFFICES ASSUME Defeated(player, now, won) PROVE dealt + d >= Pool
      OBVIOUS
    <3>1. won /\ Remaining(player, now) <= player.encounter.segment
      BY DEF Defeated
    <3>2. d = player.encounter.segment
      BY <2>2, <3>1
    <3>3. SiegeDamage(player, now) <= dealt /\ SiegeDamage(player, now) \in Nat
      <4>1. player.siege.damage <= dealt /\ player.siege.damage \in Nat
        BY Before, VoyageAssumption DEF Siege, Player
      <4>. QED  BY <4>1, SiegeBounds, Before
    <3>4. Remaining(player, now) = Pool - SiegeDamage(player, now)
      BY DEF Remaining
    <3>. QED  BY <2>1, <3>1, <3>2, <3>3, <3>4, Before, VoyageAssumption
  <2>. QED  BY <1>4, <2>2, <2>3, <2>4, <2>5 DEF Outcome
<1>. QED  BY <1>3, <1>4

LEMMA ContractBeatKeeps == ASSUME VoyageInv, ContractBeat PROVE VoyageInv'
<1>1. /\ player.contract # None /\ player.contract \in Contract /\ player.contract.mode
      /\ player.encounter # None /\ player.contract.id = player.encounter.id
      /\ player.contract.stage \in {"confrontation", "return"}
  BY Before DEF ValidSnapshot, ContractBeat, Contract
<1>2. /\ player.contract.stage = "return" => player.contract.result # None
      /\ IsWall(player.contract.offer) => player.encounter.segment \in Nat
      /\ player.contract.result # None /\ player.contract.result.defeated =>
           IsWall(player.contract.offer) /\ dealt + player.contract.result.dealt >= Pool
  BY <1>1, Before DEF Contracted
<1>3. player.contract.revision + 1 \in Nat
  BY <1>1 DEF Contract
<1>4. CASE Becomes([Fought(player, None) EXCEPT !.contract.revision = @ + 1])
  <2>. DEFINE b == Fought(player, None)
              k == [player.contract EXCEPT !.revision = player.contract.revision + 1]
              p == [b EXCEPT !.contract = k]
  <2>1. /\ k \in Contract /\ k.offer = player.contract.offer /\ k.id = player.contract.id
        /\ k.mode = player.contract.mode /\ k.stage = player.contract.stage
        /\ k.result = player.contract.result
    BY <1>1, <1>3 DEF Contract
  <2>2. Becomes(p)
    <3>1. [b EXCEPT !.contract.revision = @ + 1] = p
      BY <1>1, BeatFacts, Before DEF Player
    <3>. QED  BY <1>4, <3>1
  <2>. HIDE DEF k
  <2>3. /\ b \in Player /\ b.encounter # None /\ b.encounter.id = player.encounter.id
        /\ b.encounter.segment = player.encounter.segment /\ b.fight = player.fight
        /\ b.event = player.event /\ b.done = player.done /\ b.siege = player.siege
        /\ b.fallen = player.fallen /\ b.sequence = player.sequence
    BY <1>1, BeatFacts, Before, VoyageAssumption
  <2>. HIDE DEF b
  <2>4. /\ p \in Player /\ p.contract = k /\ p.encounter = b.encounter /\ p.fight = player.fight
        /\ p.event = player.event /\ p.done = player.done /\ p.siege = player.siege
        /\ p.fallen = player.fallen /\ p.sequence = player.sequence
    BY <2>1, <2>3, WithContract
  <2>. HIDE DEF p
  <2>5. Good(p, timesPaid, dealt, takedowns)
    BY <1>1, <1>2, <2>1, <2>3, <2>4, ContractMoves
  <2>6. UNCHANGED ghosts
    BY DEF ContractBeat
  <2>. QED  BY <2>2, <2>5, <2>6, Before, Arrives DEF ghosts
<1>5. ASSUME NEW result \in Results, NEW outcome \in Outcomes(player, TRUE) \cup Outcomes(player, FALSE),
             NEW p \in Worn([Fought(player, result) EXCEPT !.contract.revision = @ + 1,
                               !.contract.stage = "return", !.contract.result = outcome]),
             NEW q \in Hurt(p, p.contract.parts, now), Becomes(q)
      PROVE  VoyageInv'
  <2>. DEFINE b == Fought(player, result)
              k == [player.contract EXCEPT !.revision = player.contract.revision + 1,
                      !.stage = "return", !.result = outcome]
              h == [b EXCEPT !.contract = k]
  <2>0. outcome \in Outcome /\ outcome # None
        /\ (outcome.defeated => IsWall(player.contract.offer) /\ dealt + outcome.dealt >= Pool)
    BY OutcomeFacts, VoyageAssumption DEF ContractBeat
  <2>1. /\ k \in Contract /\ k.offer = player.contract.offer /\ k.id = player.contract.id
        /\ k.mode = player.contract.mode /\ k.stage = "return" /\ k.result = outcome
    BY <1>1, <1>3, <2>0 DEF Contract
  <2>2. p \in Worn(h)
    <3>1. b \in Player /\ b.contract = player.contract
      BY <1>1, BeatFacts, Before
    <3>2. [b EXCEPT !.contract.revision = b.contract.revision + 1, !.contract.stage = "return",
                    !.contract.result = outcome] = h
      <4>. HIDE DEF b
      <4>. QED  BY <1>1, <3>1 DEF Player, Contract
    <3>. QED  BY <1>5, <3>2
  <2>. HIDE DEF k
  <2>3. /\ b \in Player /\ b.encounter # None /\ b.encounter.id = player.encounter.id
        /\ b.encounter.segment = player.encounter.segment /\ b.fight = player.fight
        /\ b.event = player.event /\ b.done = player.done /\ b.siege = player.siege
        /\ b.fallen = player.fallen /\ b.sequence = player.sequence
    BY <1>1, BeatFacts, Before, VoyageAssumption
  <2>. HIDE DEF b
  <2>4. /\ h \in Player /\ h.contract = k /\ h.encounter = b.encounter /\ h.fight = player.fight
        /\ h.event = player.event /\ h.done = player.done /\ h.siege = player.siege
        /\ h.fallen = player.fallen /\ h.sequence = player.sequence
    BY <2>1, <2>3, WithContract
  <2>. HIDE DEF h
  <2>5. Good(h, timesPaid, dealt, takedowns)
    BY <1>1, <1>2, <2>0, <2>1, <2>3, <2>4, ContractMoves
  <2>6. Alike(h, p) /\ p \in Player
    <3>1. Alike(h, p)
      BY <2>2, <2>4, WornFacts
    <3>. QED  BY <3>1 DEF Alike
  <2>7. Alike(p, q)
    BY <2>6, HurtFacts, Before
  <2>8. Good(q, timesPaid, dealt, takedowns)
    BY <2>5, <2>6, <2>7, GoodAlike
  <2>9. UNCHANGED ghosts
    BY DEF ContractBeat
  <2>. QED  BY <1>5, <2>8, <2>9, Before, Arrives DEF ghosts
<1>. QED  BY <1>4, <1>5 DEF ContractBeat, Results

\* The siege after an attempt is brought home.
LEMMA RecordFacts ==
  ASSUME VoyageInv, NEW outcome \in Outcome, ~player.fallen, player.siege.attempts < player.sequence,
         outcome.defeated => dealt + outcome.dealt >= Pool, player.sequence >= 1,
         NEW k \in Nat, k = takedowns + IF outcome.defeated THEN 1 ELSE 0
  PROVE  LET p == RecordSiege(player, outcome)
         IN  /\ p \in Player /\ Siege(p, dealt + outcome.dealt, k)
             /\ p.contract = player.contract /\ p.fight = player.fight /\ p.event = player.event
             /\ p.done = player.done /\ p.sequence = player.sequence
<1>. DEFINE damage == AtMost(Pool, SiegeDamage(player, now) + outcome.dealt)
            s == [day |-> DayOf(now), damage |-> damage, attempts |-> player.siege.attempts + 1]
            f == player.fallen \/ outcome.defeated \/ damage >= Pool
            p == [player EXCEPT !.siege = s, !.fallen = f]
<1>1. /\ player.siege.attempts \in Nat /\ player.sequence \in 0 .. MaxAccepts
      /\ player.siege.damage \in Nat /\ player.siege.damage <= dealt
      /\ dealt \in Nat /\ outcome.dealt \in Nat /\ takedowns = 0
  BY Before, VoyageAssumption DEF Player, Siege, Outcome
<1>2. SiegeDamage(player, now) \in Nat /\ SiegeDamage(player, now) <= dealt
  BY <1>1, SiegeBounds, Before
<1>3. damage \in 0 .. Pool /\ damage <= dealt + outcome.dealt
  <2>1. Pool \in Nat /\ SiegeDamage(player, now) + outcome.dealt \in Nat
    BY <1>1, <1>2, VoyageAssumption
  <2>2. damage \in Nat /\ damage <= Pool /\ damage <= SiegeDamage(player, now) + outcome.dealt
    BY <2>1, Smaller
  <2>. HIDE DEF damage
  <2>. QED  BY <1>1, <1>2, <2>1, <2>2
<1>4. s \in [day : Days, damage : 0 .. Pool, attempts : 0 .. MaxAccepts]
  <2>1. player.siege.attempts + 1 \in 0 .. MaxAccepts
    BY <1>1, VoyageAssumption
  <2>. HIDE DEF damage
  <2>. QED  BY <1>3, <2>1, DaysCounted, Before
<1>5. f \in BOOLEAN
  BY Before DEF Player, Outcome
<1>6. s.damage = damage /\ s.attempts = player.siege.attempts + 1
  OBVIOUS
<1>7. RecordSiege(player, outcome) = p
  BY Before DEF RecordSiege, Player
<1>8. /\ ~f => ~outcome.defeated /\ damage < Pool
      /\ f => outcome.defeated \/ damage >= Pool
  BY <1>3, VoyageAssumption
<1>. HIDE DEF s, f, damage
<1>9. /\ p \in Player /\ p.siege = s /\ p.fallen = f
      /\ p.contract = player.contract /\ p.fight = player.fight /\ p.event = player.event
      /\ p.done = player.done /\ p.sequence = player.sequence
  BY <1>4, <1>5, Before DEF Player
<1>. HIDE DEF p
<1>10. Siege(p, dealt + outcome.dealt, k)
  BY <1>1, <1>3, <1>6, <1>8, <1>9, VoyageAssumption DEF Siege
<1>. QED  BY <1>7, <1>9, <1>10

LEMMA ClaimContractKeeps == ASSUME VoyageInv, ClaimContract PROVE VoyageInv'
<1>. DEFINE o == player.contract.offer
            r == player.contract.result
            recorded == IF IsWall(o) THEN RecordSiege(player, r) ELSE player
            p == [recorded EXCEPT !.done = @ \cup {o}, !.contract = None, !.encounter = None]
<1>1. /\ player.contract # None /\ player.contract.stage = "return" /\ player.contract \in Contract
      /\ o \notin player.done /\ o \in AllOffers
  BY Before DEF ClaimContract, Contract
<1>2. /\ r \in Outcome
      /\ IsWall(o) => ~player.fallen /\ player.siege.attempts < player.sequence
      /\ r.defeated => IsWall(o) /\ dealt + r.dealt >= Pool
      /\ player.sequence >= 1
  BY <1>1, Before DEF Contracted, Contract
<1>3. /\ Becomes(p)
      /\ timesPaid' = [timesPaid EXCEPT ![o] = timesPaid[o] + 1]
      /\ dealt' = dealt + r.dealt
      /\ takedowns' = takedowns + IF r.defeated THEN 1 ELSE 0
  BY DEF ClaimContract
<1>4. /\ timesPaid' \in [AllOffers -> Nat] /\ dealt' \in Nat /\ takedowns' \in Nat
      /\ r.dealt \in Nat /\ r.defeated \in BOOLEAN /\ timesPaid[o] = 0
  <2>1. timesPaid[o] = 0 /\ timesPaid \in [AllOffers -> Nat]
    BY <1>1, Before DEF PaidOnceEach
  <2>2. r.dealt \in Nat /\ r.defeated \in BOOLEAN
    BY <1>2 DEF Outcome
  <2>. QED  BY <1>1, <1>3, <2>1, <2>2, Before
<1>5. /\ recorded \in Player /\ Siege(recorded, dealt', takedowns')
      /\ recorded.contract = player.contract /\ recorded.fight = player.fight
      /\ recorded.event = player.event /\ recorded.done = player.done
      /\ recorded.sequence = player.sequence
  <2>1. CASE IsWall(o)
    BY <1>2, <1>3, <1>4, <2>1, RecordFacts
  <2>2. CASE ~IsWall(o)
    <3>1. takedowns' = takedowns
      BY <1>2, <1>3, <2>2, Before
    <3>2. Siege(player, dealt + r.dealt, takedowns)
      BY <1>4, Before, VoyageAssumption DEF Siege, Player
    <3>. QED  BY <1>3, <2>2, <3>1, <3>2, Before
  <2>. QED  BY <2>1, <2>2
<1>. HIDE DEF recorded
<1>6. /\ p \in Player /\ p.contract = None /\ p.encounter = None /\ p.fight = player.fight
      /\ p.event = player.event /\ p.done = player.done \cup {o} /\ p.siege = recorded.siege
      /\ p.fallen = recorded.fallen /\ p.sequence = recorded.sequence
  <2>1. player.done \cup {o} \in SUBSET AllOffers
    BY <1>1, Before DEF Player
  <2>2. p = [recorded EXCEPT !.done = player.done \cup {o}, !.contract = None, !.encounter = None]
    BY <1>5
  <2>. HIDE DEF p
  <2>. QED  BY <1>5, <2>1, <2>2 DEF Player
<1>. HIDE DEF p
<1>7. Contracted(p, dealt') /\ Siege(p, dealt', takedowns')
  BY <1>5, <1>6 DEF Contracted, Siege
<1>8. OneThing(p)
  BY <1>1, <1>6, Before DEF OneThing
<1>9. PaidOnceEach(p, timesPaid')
  BY <1>1, <1>3, <1>4, <1>6, Before DEF PaidOnceEach
<1>10. Good(p, timesPaid', dealt', takedowns')
  BY <1>6, <1>7, <1>8, <1>9 DEF Good
<1>. QED  BY <1>3, <1>4, <1>10, Arrives

\* The contract and its fight are dropped.
LEMMA DropKeeps ==
  ASSUME VoyageInv, NEW p, p \in Player, p.contract = None, p.encounter = None,
         p.fight = player.fight \/ p.fight = None, p.event = player.event \/ p.event = FALSE,
         p.done = player.done, p.siege = player.siege, p.fallen = player.fallen,
         p.sequence = player.sequence, Becomes(p), UNCHANGED ghosts
  PROVE  VoyageInv'
<1>1. Contracted(p, dealt) /\ PaidOnceEach(p, timesPaid) /\ Siege(p, dealt, takedowns) /\ OneThing(p)
  BY Before DEF Contracted, PaidOnceEach, Siege, OneThing
<1>2. Good(p, timesPaid, dealt, takedowns)
  BY <1>1 DEF Good
<1>. QED  BY <1>2, Before, Arrives DEF ghosts

LEMMA AbandonKeeps == ASSUME VoyageInv, Abandon PROVE VoyageInv'
<1>. DEFINE p == [player EXCEPT !.contract = None, !.encounter = None]
<1>1. /\ p \in Player /\ p.contract = None /\ p.encounter = None /\ p.fight = player.fight
      /\ p.event = player.event /\ p.done = player.done /\ p.siege = player.siege
      /\ p.fallen = player.fallen /\ p.sequence = player.sequence
  BY Before DEF Player
<1>2. Becomes(p) /\ UNCHANGED ghosts
  BY DEF Abandon
<1>. HIDE DEF p
<1>. QED  BY <1>1, <1>2, DropKeeps

LEMMA RecoverEncounterKeeps == ASSUME VoyageInv, RecoverEncounter PROVE VoyageInv'
<1>1. PICK worn \in Worn(player) : Becomes([worn EXCEPT !.contract = None, !.encounter = None])
  BY DEF RecoverEncounter
<1>. DEFINE p == [worn EXCEPT !.contract = None, !.encounter = None]
<1>2. Alike(player, worn)
  BY Before, WornFacts
<1>3. /\ p \in Player /\ p.contract = None /\ p.encounter = None /\ p.fight = player.fight
      /\ p.event = player.event /\ p.done = player.done /\ p.siege = player.siege
      /\ p.fallen = player.fallen /\ p.sequence = player.sequence
  BY <1>2 DEF Player, Alike
<1>4. Becomes(p) /\ UNCHANGED ghosts
  BY <1>1 DEF RecoverEncounter
<1>. HIDE DEF p
<1>. QED  BY <1>3, <1>4, DropKeeps

\* A jump's fight begins on a ship that is in nothing else.
LEMMA TravelFightKeeps ==
  ASSUME VoyageInv, NEW p \in Player, NEW cost \in {0, 1}, p.fuel >= cost,
         player.contract = None, player.fight = None, p.contract = None, p.event = FALSE,
         p.done = player.done, p.siege = player.siege, p.fallen = player.fallen,
         p.sequence = player.sequence, player.sequence < MaxAccepts,
         Becomes(BeginTravelFight(p, cost)), UNCHANGED ghosts
  PROVE  VoyageInv'
<1>. DEFINE f == [id |-> p.sequence + 1, stage |-> "fight", revision |-> 0, parts |-> Aboard(p, now)]
            e == [id |-> p.sequence + 1, crew |-> Squad(p, now), beat |-> 0, result |-> None,
                  segment |-> None]
            q == [p EXCEPT !.fuel = p.fuel - cost, !.sequence = p.sequence + 1, !.fight = f, !.encounter = e]
<1>1. p.sequence + 1 \in 0 .. MaxAccepts /\ p.sequence + 1 \in Nat /\ p.sequence \in Nat
  BY VoyageAssumption DEF Player
<1>2. p.fuel - cost \in 0 .. MaxFuel
  BY VoyageAssumption DEF Player
<1>3. f \in TravelFight /\ e \in Encounter /\ f.id = e.id
  BY <1>1 DEF TravelFight, Encounter, Aboard, Squad
<1>4. Becomes(q)
  BY DEF BeginTravelFight, FightOf, Player
<1>. HIDE DEF f, e
<1>5. /\ q \in Player /\ q.sequence = p.sequence + 1 /\ q.fight = f /\ q.encounter = e
      /\ q.contract = None /\ q.event = FALSE /\ q.done = player.done
      /\ q.siege = player.siege /\ q.fallen = player.fallen
  BY <1>1, <1>2, <1>3 DEF Player
<1>. HIDE DEF q
<1>6. Contracted(q, dealt) /\ PaidOnceEach(q, timesPaid)
  BY <1>5, Before DEF Contracted, PaidOnceEach
<1>7. OneThing(q)
  BY <1>3, <1>5, VoyageAssumption DEF OneThing
<1>8. Siege(q, dealt, takedowns)
  <2>1. player.siege.attempts \in Nat
    BY Before, VoyageAssumption DEF Player
  <2>. QED  BY <1>1, <1>5, <2>1, Before DEF Siege
<1>9. Good(q, timesPaid, dealt, takedowns)
  BY <1>5, <1>6, <1>7, <1>8 DEF Good
<1>. QED  BY <1>4, <1>9, Before, Arrives DEF ghosts

LEMMA TravelToKeeps == ASSUME VoyageInv, TravelTo PROVE VoyageInv'
<1>1. /\ player.contract = None /\ player.fight = None /\ player.encounter = None
      /\ player.event = FALSE /\ player.fuel >= 1 /\ player.fuel - 1 \in 0 .. MaxFuel
      /\ UNCHANGED ghosts
  BY Before, VoyageAssumption DEF TravelTo, Idle, HasFuel, Player
<1>2. CASE player.sequence < MaxAccepts /\ Becomes(BeginTravelFight(player, 1))
  BY <1>1, <1>2, Before, TravelFightKeeps
<1>3. CASE Becomes([player EXCEPT !.fuel = @ - 1, !.event = TRUE])
  <2>. DEFINE p == [player EXCEPT !.fuel = player.fuel - 1, !.event = TRUE]
  <2>1. /\ p \in Player /\ p.contract = None /\ p.fight = None /\ p.encounter = None
        /\ p.done = player.done /\ p.siege = player.siege /\ p.fallen = player.fallen
        /\ p.sequence = player.sequence
    BY <1>1, Before DEF Player
  <2>. HIDE DEF p
  <2>2. Good(p, timesPaid, dealt, takedowns)
    BY <2>1, Before DEF Good, Contracted, OneThing, PaidOnceEach, Siege
  <2>3. Becomes(p)
    BY <1>3 DEF p
  <2>. QED  BY <1>1, <2>2, <2>3, Before, Arrives DEF ghosts
<1>4. CASE Becomes([player EXCEPT !.fuel = @ - 1])
  <2>1. Alike(player, [player EXCEPT !.fuel = player.fuel - 1])
    BY <1>1, Before DEF Alike, Player
  <2>. QED  BY <1>1, <1>4, <2>1, ArrivesAlike
<1>. QED  BY <1>2, <1>3, <1>4 DEF TravelTo

LEMMA ResolveEventKeeps == ASSUME VoyageInv, ResolveEvent PROVE VoyageInv'
<1>1. /\ player.contract = None /\ player.fight = None /\ player.encounter = None
      /\ UNCHANGED ghosts
  BY DEF ResolveEvent, ValidEvent
<1>2. PICK cost \in {0, 1} :
        /\ HasFuel(cost)
        /\ LET closed == [player EXCEPT !.event = FALSE, !.fuel = @ - cost]
           IN  \/ Becomes(closed)
               \/ Becomes([closed EXCEPT !.crippled = TRUE])
               \/ \E c \in Squad(player, now) : Becomes(Injure(closed, {c}, now))
               \/ player.sequence < MaxAccepts /\ Becomes(BeginTravelFight(closed, 0))
  BY DEF ResolveEvent
<1>. DEFINE closed == [player EXCEPT !.event = FALSE, !.fuel = player.fuel - cost]
<1>3. player.fuel - cost \in 0 .. MaxFuel
  BY <1>2, Before, VoyageAssumption DEF HasFuel, Player
<1>4. /\ closed \in Player /\ closed.contract = None /\ closed.fight = None
      /\ closed.encounter = None /\ closed.event = FALSE /\ closed.done = player.done
      /\ closed.siege = player.siege /\ closed.fallen = player.fallen
      /\ closed.sequence = player.sequence /\ closed.fuel >= 0
  <2>1. closed.fuel = player.fuel - cost /\ player.fuel - cost >= 0
    BY <1>3, Before DEF Player
  <2>2. player.fuel - cost \in 0 .. MaxFuel /\ FALSE \in BOOLEAN
    BY <1>3
  <2>3. closed \in Player
    BY <2>2, Before DEF Player
  <2>. QED  BY <1>1, <2>1, <2>3, Before DEF Player
<1>5. \/ Becomes(closed)
      \/ Becomes([closed EXCEPT !.crippled = TRUE])
      \/ \E c \in Squad(player, now) : Becomes(Injure(closed, {c}, now))
      \/ player.sequence < MaxAccepts /\ Becomes(BeginTravelFight(closed, 0))
  BY <1>2
<1>. HIDE DEF closed
<1>6. ASSUME NEW q, Alike(closed, q), Becomes(q) PROVE VoyageInv'
  <2>1. Alike(closed, q) /\ q \in Player
    BY <1>6 DEF Alike
  <2>. QED  BY <1>1, <1>4, <1>6, <2>1, DropKeeps DEF Alike
<1>7. Alike(closed, closed) /\ Alike(closed, [closed EXCEPT !.crippled = TRUE])
  BY <1>4 DEF Alike, Player
<1>8. \A c : Alike(closed, Injure(closed, {c}, now))
  BY <1>4, InjureFacts, Before
<1>9. CASE player.sequence < MaxAccepts /\ Becomes(BeginTravelFight(closed, 0))
  BY <1>1, <1>4, <1>9, TravelFightKeeps
<1>. QED  BY <1>5, <1>6, <1>7, <1>8, <1>9

\* The record with another jump's fight.
LEMMA WithFight ==
  ASSUME NEW p \in Player, NEW f \in TravelFight
  PROVE  /\ [p EXCEPT !.fight = f] \in Player /\ [p EXCEPT !.fight = f].fight = f
         /\ [p EXCEPT !.fight = f].encounter = p.encounter
         /\ [p EXCEPT !.fight = f].contract = p.contract /\ [p EXCEPT !.fight = f].event = p.event
         /\ [p EXCEPT !.fight = f].done = p.done /\ [p EXCEPT !.fight = f].siege = p.siege
         /\ [p EXCEPT !.fight = f].fallen = p.fallen /\ [p EXCEPT !.fight = f].sequence = p.sequence
  BY DEF Player

LEMMA TravelBeatKeeps == ASSUME VoyageInv, TravelBeat PROVE VoyageInv'
<1>1. /\ player.contract = None /\ player.fight # None /\ player.fight \in TravelFight
      /\ player.encounter # None /\ player.fight.id = player.encounter.id /\ UNCHANGED ghosts
  BY Before DEF TravelBeat, ValidTravelFight
<1>2. player.fight.revision + 1 \in Nat
  BY <1>1 DEF TravelFight
<1>3. ASSUME NEW r \in Results \cup {None}, NEW f \in TravelFight, f.id = player.fight.id
      PROVE  Good([Fought(player, r) EXCEPT !.fight = f], timesPaid, dealt, takedowns)
  <2>. DEFINE b == Fought(player, r)
              p == [b EXCEPT !.fight = f]
  <2>1. /\ b \in Player /\ b.encounter.id = player.encounter.id /\ b.contract = player.contract
        /\ b.event = player.event /\ b.done = player.done /\ b.siege = player.siege
        /\ b.fallen = player.fallen /\ b.sequence = player.sequence
    BY <1>1, BeatFacts, Before
  <2>. HIDE DEF b
  <2>2. /\ p \in Player /\ p.fight = f /\ p.encounter.id = f.id /\ p.contract = None
        /\ p.event = player.event /\ p.done = player.done /\ p.siege = player.siege
        /\ p.fallen = player.fallen /\ p.sequence = player.sequence
    BY <1>1, <1>3, <2>1, WithFight
  <2>. HIDE DEF p
  <2>3. f # None
    BY VoyageAssumption
  <2>4. OneThing(p) /\ Contracted(p, dealt) /\ PaidOnceEach(p, timesPaid) /\ Siege(p, dealt, takedowns)
    BY <1>1, <2>2, <2>3, Before DEF OneThing, Contracted, PaidOnceEach, Siege
  <2>5. Good(p, timesPaid, dealt, takedowns)
    BY <2>2, <2>4 DEF Good
  <2>. QED  BY <2>5 DEF p, b
<1>4. CASE Becomes([Fought(player, None) EXCEPT !.fight.revision = @ + 1])
  <2>. DEFINE f == [player.fight EXCEPT !.revision = player.fight.revision + 1]
  <2>1. f \in TravelFight /\ f.id = player.fight.id
    BY <1>1, <1>2 DEF TravelFight
  <2>2. [Fought(player, None) EXCEPT !.fight.revision = @ + 1] = [Fought(player, None) EXCEPT !.fight = f]
    BY <1>1, BeatFacts, Before DEF Player
  <2>. HIDE DEF f
  <2>3. Good([Fought(player, None) EXCEPT !.fight = f], timesPaid, dealt, takedowns)
    BY <1>3, <2>1
  <2>. QED  BY <1>1, <1>4, <2>2, <2>3, Before, Arrives DEF ghosts
<1>5. ASSUME NEW result \in Results,
             NEW p \in Worn([Fought(player, result) EXCEPT !.fight.revision = @ + 1, !.fight.stage = "return"]),
             NEW q \in Hurt(p, p.fight.parts, now), Becomes(q)
      PROVE  VoyageInv'
  <2>. DEFINE f == [player.fight EXCEPT !.revision = player.fight.revision + 1, !.stage = "return"]
              h == [Fought(player, result) EXCEPT !.fight = f]
  <2>1. f \in TravelFight /\ f.id = player.fight.id
    BY <1>1, <1>2 DEF TravelFight
  <2>2. [Fought(player, result) EXCEPT !.fight.revision = @ + 1, !.fight.stage = "return"] = h
    <3>. DEFINE b == Fought(player, result)
    <3>1. b \in Player /\ b.fight = player.fight
      BY <1>1, BeatFacts, Before
    <3>2. [b EXCEPT !.fight.revision = b.fight.revision + 1, !.fight.stage = "return"] = [b EXCEPT !.fight = f]
      <4>. HIDE DEF b
      <4>. QED  BY <1>1, <3>1 DEF Player, TravelFight
    <3>. QED  BY <3>2
  <2>3. p \in Worn(h)
    BY <1>5, <2>2
  <2>. HIDE DEF f
  <2>4. Good(h, timesPaid, dealt, takedowns) /\ h \in Player
    BY <1>3, <2>1 DEF Good
  <2>. HIDE DEF h
  <2>5. Alike(h, p)
    BY <2>3, <2>4, WornFacts
  <2>6. Alike(p, q) /\ p \in Player
    BY <2>5, HurtFacts, Before DEF Alike
  <2>7. Good(q, timesPaid, dealt, takedowns)
    BY <2>4, <2>5, <2>6, GoodAlike
  <2>. QED  BY <1>1, <1>5, <2>7, Before, Arrives DEF ghosts
<1>. QED  BY <1>4, <1>5 DEF TravelBeat, Results

LEMMA ClaimTravelKeeps == ASSUME VoyageInv, ClaimTravel PROVE VoyageInv'
<1>. DEFINE p == [player EXCEPT !.fight = None, !.encounter = None]
<1>1. /\ p \in Player /\ p.contract = None /\ p.encounter = None /\ p.fight = None
      /\ p.event = player.event /\ p.done = player.done /\ p.siege = player.siege
      /\ p.fallen = player.fallen /\ p.sequence = player.sequence
  BY Before, ZenonT(30) DEF Player, ClaimTravel
<1>2. Becomes(p) /\ UNCHANGED ghosts
  BY DEF ClaimTravel
<1>. HIDE DEF p
<1>. QED  BY <1>1, <1>2, DropKeeps

-----------------------------------------------------------------------------
(* The rest of the day. *)

LEMMA StartExpeditionKeeps ==
  ASSUME VoyageInv, NEW S \in SUBSET Crew, StartExpedition(S) PROVE VoyageInv'
<1>. DEFINE crew == [c \in Crew |-> IF c \in S THEN [player.crew[c] EXCEPT !.kind = "away"] ELSE player.crew[c]]
            p == [player EXCEPT !.away = S, !.crew = crew]
<1>1. crew \in [Crew -> Status]
  BY Before DEF Player, Status
<1>2. S \in SUBSET (Crew \ {Captain})
  BY DEF StartExpedition
<1>3. Becomes(p) /\ UNCHANGED ghosts
  BY Before DEF StartExpedition, Player
<1>. HIDE DEF crew
<1>4. Alike(player, p)
  BY <1>1, <1>2, Before DEF Alike, Player
<1>. HIDE DEF p
<1>. QED  BY <1>3, <1>4, ArrivesAlike

LEMMA ResolveExpeditionKeeps == ASSUME VoyageInv, ResolveExpedition PROVE VoyageInv'
<1>. DEFINE crew == [c \in Crew |-> IF c \in player.away THEN [player.crew[c] EXCEPT !.kind = "ready"]
                                                        ELSE player.crew[c]]
            home == [player EXCEPT !.away = {}, !.crew = crew]
<1>1. crew \in [Crew -> Status]
  BY Before DEF Player, Status
<1>2. (Becomes(home) \/ Becomes(Injure(home, player.away, now))) /\ UNCHANGED ghosts
  BY Before DEF ResolveExpedition, Player
<1>. HIDE DEF crew
<1>3. Alike(player, home) /\ home \in Player
  BY <1>1, Before DEF Alike, Player
<1>. HIDE DEF home
<1>4. Alike(home, Injure(home, player.away, now))
  BY <1>3, InjureFacts, Before
<1>5. Alike(player, Injure(home, player.away, now))
  BY <1>3, <1>4 DEF Alike
<1>. QED  BY <1>2, <1>3, <1>5, ArrivesAlike

LEMMA DockKeeps == ASSUME VoyageInv, Refuel \/ Repair \/ Render PROVE VoyageInv'
<1>1. MaxFuel \in 0 .. MaxFuel
  BY VoyageAssumption
<1>2. /\ Alike(player, player) /\ Alike(player, [player EXCEPT !.fuel = MaxFuel])
      /\ Alike(player, [player EXCEPT !.crippled = FALSE])
  BY <1>1, Before, ZenonT(30) DEF Alike, Player
<1>. QED  BY <1>2, ArrivesAlike DEF Refuel, Repair, Render

\* A load keeps the record, or drops what it cannot make sense of.
LEMMA NormalizeFacts ==
  ASSUME VoyageInv
  PROVE  Good(Normalize(player), timesPaid, dealt, takedowns)
<1>. DEFINE n1 == NormalizeEncounter(player)
            n2 == NormalizeTravelFight(n1)
            n3 == NormalizeEvent(n2)
<1>1. ASSUME NEW p, NEW q, Good(p, timesPaid, dealt, takedowns), q \in Player,
             q.contract \in {p.contract, None}, q.encounter = None,
             q.fight \in {p.fight, None}, q.event = p.event,
             q.done = p.done, q.siege = p.siege, q.fallen = p.fallen, q.sequence = p.sequence
      PROVE  Good(q, timesPaid, dealt, takedowns)
  BY <1>1 DEF Good, Contracted, OneThing, PaidOnceEach, Siege
<1>2. Good(n1, timesPaid, dealt, takedowns)
  <2>1. n1 = player \/ n1 = [player EXCEPT !.encounter = None]
        \/ n1 = [player EXCEPT !.contract = None, !.encounter = None]
    BY DEF NormalizeEncounter
  <2>. HIDE DEF n1
  <2>2. CASE n1 = [player EXCEPT !.encounter = None]
    <3>1. /\ n1 \in Player /\ n1.contract = player.contract /\ n1.encounter = None
          /\ n1.fight = player.fight /\ n1.event = player.event /\ n1.done = player.done
          /\ n1.siege = player.siege /\ n1.fallen = player.fallen /\ n1.sequence = player.sequence
      BY <2>2, Before DEF Player
    <3>. QED  BY <1>1, <3>1, Before
  <2>3. CASE n1 = [player EXCEPT !.contract = None, !.encounter = None]
    <3>1. /\ n1 \in Player /\ n1.contract = None /\ n1.encounter = None
          /\ n1.fight = player.fight /\ n1.event = player.event /\ n1.done = player.done
          /\ n1.siege = player.siege /\ n1.fallen = player.fallen /\ n1.sequence = player.sequence
      BY <2>3, Before DEF Player
    <3>. QED  BY <1>1, <3>1, Before
  <2>. QED  BY <2>1, <2>2, <2>3, Before
<1>3. Good(n2, timesPaid, dealt, takedowns)
  <2>1. n1.contract # None => n1.fight = None
    BY <1>2 DEF Good, OneThing
  <2>2. n2 = n1 \/ n2 = [n1 EXCEPT !.fight = None, !.encounter = None]
    BY <2>1 DEF NormalizeTravelFight
  <2>. HIDE DEF n1, n2
  <2>3. CASE n2 = [n1 EXCEPT !.fight = None, !.encounter = None]
    <3>1. /\ n2 \in Player /\ n2.contract = n1.contract /\ n2.encounter = None
          /\ n2.fight = None /\ n2.event = n1.event /\ n2.done = n1.done
          /\ n2.siege = n1.siege /\ n2.fallen = n1.fallen /\ n2.sequence = n1.sequence
      BY <1>2, <2>3 DEF Player, Good
    <3>. QED  BY <1>1, <1>2, <3>1
  <2>. QED  BY <1>2, <2>2, <2>3
<1>4. Good(n3, timesPaid, dealt, takedowns)
  <2>1. n3 = n2 \/ n3 = [n2 EXCEPT !.event = FALSE]
    BY DEF NormalizeEvent
  <2>. HIDE DEF n1, n2, n3
  <2>2. CASE n3 = [n2 EXCEPT !.event = FALSE]
    <3>1. /\ n3 \in Player /\ n3.contract = n2.contract /\ n3.encounter = n2.encounter
          /\ n3.fight = n2.fight /\ n3.event = FALSE /\ n3.done = n2.done
          /\ n3.siege = n2.siege /\ n3.fallen = n2.fallen /\ n3.sequence = n2.sequence
      BY <1>3, <2>2 DEF Player, Good
    <3>. QED  BY <1>3, <3>1 DEF Good, Contracted, OneThing, PaidOnceEach, Siege
  <2>. QED  BY <1>3, <2>1, <2>2
<1>. QED  BY <1>4 DEF Normalize

LEMMA ReloadKeeps == ASSUME VoyageInv, Reload PROVE VoyageInv'
  BY NormalizeFacts, Before, Arrives DEF Reload, ghosts

LEMMA ClockKeeps == ASSUME VoyageInv, TimePasses \/ StepBack PROVE VoyageInv'
<1>1. /\ player' = player /\ UNCHANGED ghosts
      /\ now' \in 0 .. MaxTime /\ setBacks' \in 0 .. MaxSetBacks
  BY VoyageAssumption DEF TimePasses, StepBack, VoyageInv
<1>. QED  BY <1>1 DEF VoyageInv, ghosts

-----------------------------------------------------------------------------
(* The theorems. *)

\* A new captain has nothing under way.
LEMMA VoyageStart == VoyageInit => VoyageInv
<1>. SUFFICES ASSUME VoyageInit PROVE VoyageInv
  OBVIOUS
<1>1. /\ 0 \in 0 .. MaxTime /\ 0 \in 0 .. MaxSetBacks /\ 0 \in 0 .. MaxAccepts /\ 0 \in 0 .. Pool
      /\ MaxFuel \in 0 .. MaxFuel /\ Fit \in Status
  BY VoyageAssumption DEF Fit, Status
<1>2. 0 \in Days
  <2>1. DayOf(0) = 0 /\ DayOf(0) \in Days
    BY <1>1, DaysCounted, VoyageAssumption DEF DayOf
  <2>. QED  BY <2>1
<1>3. /\ NewPlayer \in Player /\ NewPlayer.contract = None /\ NewPlayer.encounter = None
      /\ NewPlayer.fight = None /\ NewPlayer.event = FALSE /\ NewPlayer.done = {}
      /\ NewPlayer.siege.damage = 0 /\ NewPlayer.siege.attempts = 0 /\ NewPlayer.fallen = FALSE
      /\ NewPlayer.sequence = 0
  BY <1>1, <1>2 DEF NewPlayer, Player
<1>4. timesPaid \in [AllOffers -> Nat] /\ \A o \in AllOffers : timesPaid[o] = 0
  BY DEF VoyageInit
<1>5. Good(NewPlayer, timesPaid, 0, 0)
  BY <1>3, <1>4, VoyageAssumption DEF Good, Contracted, OneThing, PaidOnceEach, Siege
<1>6. Alike(NewPlayer, player) /\ WallPosted(player)
  BY <1>1, <1>3, PrepareFacts DEF VoyageInit
<1>7. Good(player, timesPaid, 0, 0)
  BY <1>5, <1>6, GoodAlike
<1>. QED  BY <1>1, <1>4, <1>6, <1>7 DEF VoyageInv, VoyageInit

\* The invariant holds in every state.
THEOREM VoyageAlways == VoyageSpec => []VoyageInv
<1>1. VoyageInv /\ [VoyageNext]_voyageVars => VoyageInv'
  <2>. SUFFICES ASSUME VoyageInv, [VoyageNext]_voyageVars PROVE VoyageInv'
    OBVIOUS
  <2>1. UNCHANGED voyageVars => VoyageInv'
    BY DEF voyageVars, VoyageInv
  <2>. QED
    BY <2>1, AcceptKeeps, LaunchKeeps, ChooseKeeps, ContractBeatKeeps, ClaimContractKeeps,
       AbandonKeeps, RecoverEncounterKeeps, TravelToKeeps, ResolveEventKeeps, TravelBeatKeeps,
       ClaimTravelKeeps, StartExpeditionKeeps, ResolveExpeditionKeeps, DockKeeps, ReloadKeeps,
       ClockKeeps DEF VoyageNext
<1>. QED  BY <1>1, VoyageStart, PTL DEF VoyageSpec

\* The record keeps its shape and its counters their bounds.
THEOREM VoyageTypesKept == VoyageSpec => []VoyageTypeOK
<1>1. VoyageInv => VoyageTypeOK
  <2>. SUFFICES ASSUME VoyageInv PROVE VoyageTypeOK
    OBVIOUS
  <2>1. takedowns \in 0 .. MaxAccepts
    BY Before, VoyageAssumption DEF Siege, Player
  <2>. QED  BY <2>1, Before DEF VoyageTypeOK, Player, VoyageInv
<1>. QED  BY <1>1, VoyageAlways, PTL

\* Whatever the clock does and is abandoned and taken again, an offer pays at most once.
THEOREM OffersAlwaysPaidOnce == VoyageSpec => []OffersPaidOnce
<1>1. VoyageInv => OffersPaidOnce
  BY Before DEF OffersPaidOnce, Contracted, PaidOnceEach
<1>. QED  BY <1>1, VoyageAlways, PTL

\* The ship is in one thing at a time, and a fight ends with what began it.
THEOREM AlwaysOneThing == VoyageSpec => []OneThingAtATime
<1>1. VoyageInv => OneThingAtATime
  BY Before DEF OneThingAtATime, OneThing
<1>. QED  BY <1>1, VoyageAlways, PTL

\* The flagship falls once, and only to attempts that together took its hull.
THEOREM WallAlwaysFallsOnce == VoyageSpec => []WallFallsOnce
<1>1. VoyageInv => WallFallsOnce
  BY Before DEF WallFallsOnce, Siege
<1>. QED  BY <1>1, VoyageAlways, PTL


-----------------------------------------------------------------------------
(* A contract's fight begins whole. *)

\* The render after a click leaves its contract and its fight as the click left them.
LEMMA RenderedContract ==
  ASSUME VoyageInv, NEW p \in Player, Becomes(p)
  PROVE  player'.contract = p.contract /\ player'.encounter = p.encounter
  BY Before, PrepareFacts DEF Becomes, Alike

\* Giving a contract up, losing its fight or claiming its reward leaves none.
LEMMA ContractGone ==
  ASSUME VoyageInv, Abandon \/ RecoverEncounter \/ ClaimContract
  PROVE  player'.contract = None
<1>1. ASSUME NEW p \in Player, Becomes([p EXCEPT !.contract = None, !.encounter = None])
      PROVE  player'.contract = None
  <2>. DEFINE q == [p EXCEPT !.contract = None, !.encounter = None]
  <2>1. q \in Player /\ q.contract = None
    BY DEF Player
  <2>2. Becomes(q)
    BY <1>1
  <2>. HIDE DEF q
  <2>. QED  BY <2>1, <2>2, RenderedContract
<1>2. CASE Abandon
  BY <1>1, <1>2, Before DEF Abandon
<1>3. CASE RecoverEncounter
  <2>1. PICK worn \in Worn(player) : Becomes([worn EXCEPT !.contract = None, !.encounter = None])
    BY <1>3 DEF RecoverEncounter
  <2>2. worn \in Player
    BY WornFacts, Before DEF Alike
  <2>. QED  BY <1>1, <2>1, <2>2
<1>4. CASE ClaimContract
  <2>. DEFINE o == player.contract.offer
              r == player.contract.result
              recorded == IF IsWall(o) THEN RecordSiege(player, r) ELSE player
              p == [recorded EXCEPT !.done = @ \cup {o}, !.contract = None, !.encounter = None]
  <2>1. player.contract # None /\ player.contract.stage = "return" /\ player.contract \in Contract
    BY <1>4, Before DEF ClaimContract
  <2>2. /\ r \in Outcome /\ o \in AllOffers
        /\ IsWall(o) => ~player.fallen /\ player.siege.attempts < player.sequence
        /\ r.defeated => IsWall(o) /\ dealt + r.dealt >= Pool
        /\ player.sequence >= 1
    BY <2>1, Before DEF Contracted, Contract
  <2>3. takedowns + (IF r.defeated THEN 1 ELSE 0) \in Nat
    BY Before
  <2>4. recorded \in Player /\ recorded.done = player.done
    BY <2>2, <2>3, Before, RecordFacts
  <2>5. Becomes(p)
    BY <1>4 DEF ClaimContract
  <2>. HIDE DEF recorded
  <2>6. p \in Player /\ p.contract = None
    <3>1. player.done \cup {o} \in SUBSET AllOffers
      BY <2>2, Before DEF Player
    <3>2. p = [recorded EXCEPT !.done = player.done \cup {o}, !.contract = None, !.encounter = None]
      BY <2>4
    <3>. HIDE DEF p
    <3>. QED  BY <2>4, <3>1, <3>2 DEF Player
  <2>. HIDE DEF p
  <2>. QED  BY <2>5, <2>6, RenderedContract
<1>. QED  BY <1>2, <1>3, <1>4

\* What has nothing to do with contracts leaves the one under way alone.
LEMMA ContractKept ==
  ASSUME VoyageInv, player.contract # None,
         \/ \E S \in SUBSET Crew : StartExpedition(S)
         \/ ResolveExpedition \/ Refuel \/ Repair \/ Render \/ Reload
         \/ TimePasses \/ StepBack
  PROVE  player'.contract \in {player.contract, None}
<1>1. ASSUME NEW p \in Player, Becomes(p), p.contract \in {player.contract, None}
      PROVE  player'.contract \in {player.contract, None}
  BY <1>1, RenderedContract
<1>2. ASSUME NEW S \in SUBSET Crew, StartExpedition(S)
      PROVE  player'.contract \in {player.contract, None}
  <2>. DEFINE crew == [c \in Crew |-> IF c \in S THEN [player.crew[c] EXCEPT !.kind = "away"] ELSE player.crew[c]]
              p == [player EXCEPT !.away = S, !.crew = crew]
  <2>1. crew \in [Crew -> Status] /\ S \in SUBSET (Crew \ {Captain})
    <3>1. player.crew \in [Crew -> Status]
      BY Before DEF Player
    <3>2. \A c \in Crew : player.crew[c] \in Status /\ [player.crew[c] EXCEPT !.kind = "away"] \in Status
      BY <3>1 DEF Status
    <3>. QED  BY <1>2, <3>2 DEF StartExpedition
  <2>2. Becomes(p)
    BY <1>2, Before DEF StartExpedition, Player
  <2>. HIDE DEF crew
  <2>3. p \in Player /\ p.contract = player.contract
    BY <2>1, Before DEF Player
  <2>. HIDE DEF p
  <2>. QED  BY <1>1, <2>2, <2>3
<1>3. CASE ResolveExpedition
  <2>. DEFINE crew == [c \in Crew |-> IF c \in player.away THEN [player.crew[c] EXCEPT !.kind = "ready"]
                                                          ELSE player.crew[c]]
              home == [player EXCEPT !.away = {}, !.crew = crew]
  <2>1. crew \in [Crew -> Status]
    BY Before DEF Player, Status
  <2>2. Becomes(home) \/ Becomes(Injure(home, player.away, now))
    BY <1>3, Before DEF ResolveExpedition, Player
  <2>. HIDE DEF crew
  <2>3. home \in Player /\ home.contract = player.contract
    BY <2>1, Before DEF Player
  <2>. HIDE DEF home
  <2>4. Alike(home, Injure(home, player.away, now))
    BY <2>3, InjureFacts, Before
  <2>. QED  BY <1>1, <2>2, <2>3, <2>4 DEF Alike
<1>4. CASE Refuel \/ Repair \/ Render
  <2>1. MaxFuel \in 0 .. MaxFuel
    BY VoyageAssumption
  <2>2. /\ [player EXCEPT !.fuel = MaxFuel] \in Player /\ [player EXCEPT !.crippled = FALSE] \in Player
        /\ [player EXCEPT !.fuel = MaxFuel].contract = player.contract
        /\ [player EXCEPT !.crippled = FALSE].contract = player.contract
    BY <2>1, Before DEF Player
  <2>. QED  BY <1>1, <1>4, <2>2, Before DEF Refuel, Repair, Render
<1>5. CASE Reload
  <2>. DEFINE n1 == NormalizeEncounter(player)
              n2 == NormalizeTravelFight(n1)
  <2>1. Normalize(player) \in Player /\ Becomes(Normalize(player))
    BY <1>5, NormalizeFacts DEF Reload, Good
  <2>2. n1.contract \in {player.contract, None}
    BY Before DEF NormalizeEncounter, Player
  <2>3. n1 \in Player
    BY Before DEF NormalizeEncounter, Player
  <2>. HIDE DEF n1
  <2>4. n2.contract = n1.contract /\ n2 \in Player
    BY <2>3 DEF NormalizeTravelFight, Player
  <2>. HIDE DEF n2
  <2>5. NormalizeEvent(n2).contract = n2.contract
    BY <2>4 DEF NormalizeEvent, Player
  <2>6. Normalize(player).contract \in {player.contract, None}
    BY <2>2, <2>4, <2>5 DEF Normalize, n1, n2
  <2>. QED  BY <1>1, <2>1, <2>6
<1>6. CASE TimePasses \/ StepBack
  BY <1>6 DEF TimePasses, StepBack
<1>. QED  BY <1>2, <1>3, <1>4, <1>5, <1>6

\* A fight is opened by a choice and by nothing else.
LEMMA OpenedByChoice ==
  ASSUME VoyageInv, VoyageNext, player.contract # None, ~player.contract.mode,
         player'.contract # None, player'.contract.mode
  PROVE  \E action \in {"secure", "push"} : Choose(action)
<1>. player.contract \in Contract /\ player \in Player
  BY Before
<1>1. ASSUME Launch PROVE FALSE
  <2>. DEFINE k == [player.contract EXCEPT !.revision = player.contract.revision + 1, !.stage = "choice"]
              p == [player EXCEPT !.fuel = player.fuel - 1, !.contract = k]
  <2>1. player.fuel - 1 \in 0 .. MaxFuel /\ player.contract.revision + 1 \in Nat
    BY <1>1, VoyageAssumption DEF Launch, HasFuel, Player, Contract
  <2>2. k \in Contract /\ k.mode = player.contract.mode
    BY <2>1 DEF Contract
  <2>3. Becomes(p)
    BY <1>1 DEF Launch
  <2>. HIDE DEF k
  <2>4. p \in Player /\ p.contract = k
    BY <2>1, <2>2 DEF Player
  <2>. HIDE DEF p
  <2>. QED  BY <2>2, <2>3, <2>4, RenderedContract
<1>2. \A o \in AllOffers : ~Accept(o)
  BY DEF Accept
<1>3. ~ContractBeat /\ ~RecoverEncounter /\ ~Abandon /\ ~ClaimContract
  BY ContractGone DEF ContractBeat, ValidSnapshot
<1>4. ~TravelTo /\ ~ResolveEvent /\ ~TravelBeat /\ ~ClaimTravel
  BY DEF TravelTo, Idle, ResolveEvent, ValidEvent, TravelBeat, ClaimTravel
<1>5. \/ \E S \in SUBSET Crew : StartExpedition(S)
      \/ ResolveExpedition \/ Refuel \/ Repair \/ Render \/ Reload
      \/ TimePasses \/ StepBack
      => FALSE
  BY ContractKept
<1>. QED  BY <1>1, <1>2, <1>3, <1>4, <1>5 DEF VoyageNext

\* A choice that opens a fight binds the whole crew, or leaves out one still marked ready
\* with an injury running.
LEMMA ChoiceBinds ==
  ASSUME VoyageInv, NEW action \in {"secure", "push"}, Choose(action), player'.contract.mode
  PROVE  \/ NormalizeEncounter(player').contract # None
         \/ \E c \in MarkedReady(player) : player.crew[c].until > now
<1>. DEFINE paid == Charged(action)
            k == [paid.contract EXCEPT !.stage = "return",
                    !.result = [success |-> TRUE, dealt |-> 0, defeated |-> FALSE]]
            home == [paid EXCEPT !.contract = k]
<1>1. player.contract # None /\ player.contract.stage = "choice" /\ HasFuel(1) /\ PreviewStands
  BY DEF Choose
<1>2. /\ paid \in Player /\ paid.contract \in Contract /\ paid.contract.choice = action
      /\ paid.contract.mode = FALSE /\ paid.contract.revision = 2 /\ paid.crew = player.crew
  BY <1>1, ChargedFacts
<1>3. home = [paid EXCEPT !.contract.stage = "return",
                !.contract.result = [success |-> TRUE, dealt |-> 0, defeated |-> FALSE]]
  BY <1>1, ChargedFacts, ZenonT(30) DEF Player
<1>4. Becomes(Confront(paid)) \/ Becomes(home)
  BY <1>3 DEF Choose, Charged
<1>. HIDE DEF paid
<1>5. ASSUME Becomes(home) PROVE FALSE
  <2>1. [success |-> TRUE, dealt |-> 0, defeated |-> FALSE] \in Outcome
    BY DEF Outcome
  <2>2. k \in Contract /\ k.mode = FALSE
    BY <1>2, <2>1 DEF Contract
  <2>. HIDE DEF k
  <2>3. home \in Player /\ home.contract = k
    BY <1>2, <2>2, WithContract
  <2>. HIDE DEF home
  <2>. QED  BY <1>5, <2>2, <2>3, RenderedContract
<1>6. /\ player'.contract \in Contract /\ player'.encounter \in Encounter
      /\ player'.contract.mode /\ player'.contract.stage = "confrontation"
      /\ player'.contract.choice = action /\ player'.contract.revision = 2
      /\ player'.contract.parts = Aboard(player, now)
      /\ player'.encounter.id = player'.contract.id /\ player'.encounter.beat = 0
      /\ player'.encounter.crew = Squad(player, now) /\ player'.encounter.result = None
  <2>1. Aboard(paid, now) = Aboard(player, now) /\ Squad(paid, now) = Squad(player, now)
    BY <1>2 DEF Aboard, Squad
  <2>2. Confront(paid) \in Player /\ Becomes(Confront(paid))
    BY <1>2, <1>4, <1>5, ConfrontFacts, Before
  <2>3. player'.contract = Confront(paid).contract /\ player'.encounter = Confront(paid).encounter
    BY <2>2, RenderedContract
  <2>4. /\ Confront(paid).contract \in Contract /\ Confront(paid).encounter \in Encounter
        /\ Confront(paid).contract.mode = TRUE /\ Confront(paid).contract.stage = "confrontation"
        /\ Confront(paid).contract.choice = action /\ Confront(paid).contract.revision = 2
        /\ Confront(paid).contract.parts = Aboard(paid, now)
        /\ Confront(paid).encounter.id = Confront(paid).contract.id
        /\ Confront(paid).encounter.beat = 0 /\ Confront(paid).encounter.crew = Squad(paid, now)
        /\ Confront(paid).encounter.result = None
    BY <1>2, ConfrontFacts, Before
  <2>. QED  BY <2>1, <2>3, <2>4
<1>7. CASE Squad(player, now) \subseteq Aboard(player, now)
  <2>1. player'.contract # None /\ player'.encounter # None /\ action # None /\ None # "win"
    BY <1>6, VoyageAssumption DEF Results
  <2>2. Launched(player'.encounter, player'.contract.parts)
    BY <1>6, <1>7 DEF Launched
  <2>3. ValidSnapshot(player')
    BY <1>6, <2>1, <2>2 DEF ValidSnapshot
  <2>. QED  BY <2>1, <2>3 DEF NormalizeEncounter
<1>8. CASE ~(Squad(player, now) \subseteq Aboard(player, now))
  <2>1. PICK c \in Squad(player, now) : c \notin Aboard(player, now)
    BY <1>8
  <2>2. c \in MarkedReady(player) /\ c \in Crew /\ ~(player.crew[c].until <= now)
    BY <1>1, <2>1 DEF PreviewStands, MarkedReady, Aboard
  <2>3. player.crew[c].until \in Nat /\ now \in Nat
    BY <2>2, Before, VoyageAssumption DEF Player, Status
  <2>. QED  BY <2>2, <2>3
<1>. QED  BY <1>7, <1>8

\* The click that opens a contract's fight binds everyone who fights in it, but for a member
\* marked ready with an injury still running.
THEOREM AlwaysBeginsWhole == VoyageSpec => BeginsWhole
<1>1. VoyageInv /\ [VoyageNext]_voyageVars =>
        (player.contract # None /\ ~player.contract.mode /\ player'.contract # None /\ player'.contract.mode
           => \/ NormalizeEncounter(player').contract # None
              \/ \E c \in MarkedReady(player) : player.crew[c].until > now)
  BY OpenedByChoice, ChoiceBinds DEF voyageVars
<1>. QED  BY <1>1, VoyageAlways, PTL DEF BeginsWhole, VoyageSpec

-----------------------------------------------------------------------------
(* The fight. *)

\* A fight, as it is saved.
FightState ==
  [faction : Factions, twist : Twists, beat : Nat,
   phase : {"combat", "downed", "complete"}, result : {NoResult, "win", "loss"},
   hull : 1 .. Hull, layers : Nat, over : Nat, ready : SUBSET Moves, cast : SUBSET Moves,
   ehull : 0 .. EnemyHull, wave : {1, 2}, cloak : Nat, regrown : Nat,
   aim : SUBSET Guns, freighter : Nat,
   boarders : {"none", "incoming", "aboard", "repelled"}, board : {"unused", "won", "lost"},
   rallied : BOOLEAN]

\* What the fight keeps through every step of a beat.
Steady(e) ==
  /\ e \in FightState /\ e.beat > 0
  /\ IF e.result = NoResult THEN e.phase \in {"combat", "downed"} ELSE e.phase = "complete"
  /\ e.phase = "downed" => e.hull = 1
  /\ e.layers <= ShieldCap(e) /\ e.cast \subseteq e.ready
  /\ e.ehull <= WaveHull(e)
  /\ e.result = NoResult => e.ehull > 0
  /\ e.result = "win" => e.ehull = 0
  /\ e.result = "loss" => e.hull = 1 /\ e.ehull > 0
  /\ e.twist = "waves" /\ e.result = "win" => e.wave = 2
  /\ e.aim # {} => EscortAlive(e)

\* Before it closes: the hull of this beat has not grown back yet.
Midway(e) == Steady(e) /\ ValidTactics(e) /\ e.regrown < e.beat /\ e.regrown <= RegrowMax

\* What the steps after the order leave alone, or nearly.
Kin(e, d) ==
  /\ d.faction = e.faction /\ d.twist = e.twist /\ d.beat = e.beat /\ d.regrown = e.regrown
  /\ d.board = e.board /\ d.rallied = e.rallied /\ d.cloak \in {e.cloak, 0}
  /\ d.boarders \in {e.boarders, "repelled"} /\ (d.over = e.over \/ d.over >= e.beat)

Onward(e, d) == Midway(d) /\ Kin(e, d)

\* The smaller, the larger and the difference of two numbers.
LEMMA Numbers ==
  /\ \A a, b \in Nat : Min2(a, b) \in Nat /\ Min2(a, b) <= a /\ Min2(a, b) <= b
  /\ \A a, b \in Nat : Max2(a, b) \in Nat /\ Max2(a, b) >= a /\ Max2(a, b) >= b /\ Max2(a, b) \in {a, b}
  /\ \A a, b \in Nat : Less(a, b) \in Nat /\ Less(a, b) <= a
  BY DEF Min2, Max2, Less

\* The bounds of a fight are numbers.
LEMMA FightBounds ==
  /\ {Hull, EnemyHull, SecondHull, RallyHull, Punch, CloakEvery, CloakBeats, FreighterHull,
      OathBeats} \subseteq Nat \ {0}
  /\ {NearMissHull, BoardMax, Layers, CloakFirst, RegrowMax, Rounds, LastBeat, LandBeat} \subseteq Nat
  /\ RallyHull <= Hull /\ SecondHull <= EnemyHull
  /\ NoResult # "win" /\ NoResult # "loss"
  BY CrewFightAssumption

-----------------------------------------------------------------------------
(* How a fight ends. *)

\* A ship that falls ends the fight with a win, or makes way for the second of its wave.
LEMMA FallsFacts ==
  ASSUME NEW e, Steady(e), Flying(e), e.regrown < e.beat, e.regrown <= RegrowMax
  PROVE  Onward(e, EnemyFalls(e))
<1>1. CASE e.twist = "waves" /\ e.wave = 1
  <2>. DEFINE d == [e EXCEPT !.wave = 2, !.ehull = SecondHull, !.cloak = 0]
  <2>1. EnemyFalls(e) = d
    BY <1>1 DEF EnemyFalls
  <2>2. d \in FightState
    <3>1. SecondHull \in 0 .. EnemyHull /\ 2 \in {1, 2} /\ 0 \in Nat /\ e \in FightState
      BY FightBounds DEF Steady
    <3>. QED  BY <3>1 DEF FightState
  <2>3. /\ d.wave = 2 /\ d.ehull = SecondHull /\ d.cloak = 0 /\ d.faction = e.faction /\ d.twist = e.twist
        /\ d.beat = e.beat /\ d.phase = e.phase /\ d.result = e.result /\ d.hull = e.hull
        /\ d.layers = e.layers /\ d.over = e.over /\ d.ready = e.ready /\ d.cast = e.cast
        /\ d.regrown = e.regrown /\ d.aim = e.aim /\ d.freighter = e.freighter
        /\ d.boarders = e.boarders /\ d.board = e.board /\ d.rallied = e.rallied
    BY DEF Steady, FightState
  <2>. HIDE DEF d
  <2>4. Steady(d)
    BY <2>2, <2>3, FightBounds DEF Steady, ShieldCap, WaveHull, EscortAlive, Flying
  <2>. QED  BY <1>1, <2>1, <2>3, <2>4 DEF Onward, Midway, Kin, ValidTactics
<1>2. CASE ~(e.twist = "waves" /\ e.wave = 1)
  <2>. DEFINE d == [e EXCEPT !.ehull = 0, !.phase = "complete", !.result = "win"]
  <2>1. EnemyFalls(e) = d
    BY <1>2 DEF EnemyFalls, FinishFight, Steady, FightState
  <2>2. d \in FightState
    <3>1. 0 \in 0 .. EnemyHull /\ e \in FightState
      BY FightBounds DEF Steady
    <3>. QED  BY <3>1 DEF FightState
  <2>3. /\ d.wave = e.wave /\ d.ehull = 0 /\ d.cloak = e.cloak /\ d.faction = e.faction /\ d.twist = e.twist
        /\ d.beat = e.beat /\ d.phase = "complete" /\ d.result = "win" /\ d.hull = e.hull
        /\ d.layers = e.layers /\ d.over = e.over /\ d.ready = e.ready /\ d.cast = e.cast
        /\ d.regrown = e.regrown /\ d.aim = e.aim /\ d.freighter = e.freighter
        /\ d.boarders = e.boarders /\ d.board = e.board /\ d.rallied = e.rallied
    BY DEF Steady, FightState
  <2>. HIDE DEF d
  <2>4. e.wave \in {1, 2} /\ 0 <= WaveHull(d)
    BY FightBounds DEF Steady, FightState, WaveHull
  <2>5. Steady(d)
    BY <1>2, <2>2, <2>3, <2>4, FightBounds DEF Steady, ShieldCap, EscortAlive
  <2>. QED  BY <2>1, <2>3, <2>5 DEF Onward, Midway, Kin, ValidTactics
<1>. QED  BY <1>1, <1>2

\* A hit on the enemy.
LEMMA HitEnemyFacts ==
  ASSUME NEW e, Midway(e), Flying(e), NEW damage \in Nat
  PROVE  Onward(e, HitEnemy(e, damage))
<1>1. CASE e.ehull <= damage
  BY <1>1, FallsFacts DEF HitEnemy, Midway
<1>2. CASE ~(e.ehull <= damage)
  <2>. DEFINE d == [e EXCEPT !.ehull = e.ehull - damage]
  <2>1. HitEnemy(e, damage) = d
    BY <1>2 DEF HitEnemy
  <2>2. e.ehull - damage \in 0 .. EnemyHull /\ e.ehull - damage > 0 /\ e.ehull - damage <= e.ehull
    BY <1>2, FightBounds DEF Midway, Steady, FightState
  <2>3. d \in FightState
    BY <2>2 DEF Midway, Steady, FightState
  <2>4. /\ d.wave = e.wave /\ d.ehull = e.ehull - damage /\ d.cloak = e.cloak /\ d.faction = e.faction
        /\ d.twist = e.twist
        /\ d.beat = e.beat /\ d.phase = e.phase /\ d.result = e.result /\ d.hull = e.hull
        /\ d.layers = e.layers /\ d.over = e.over /\ d.ready = e.ready /\ d.cast = e.cast
        /\ d.regrown = e.regrown /\ d.aim = e.aim /\ d.freighter = e.freighter
        /\ d.boarders = e.boarders /\ d.board = e.board /\ d.rallied = e.rallied
    BY DEF Midway, Steady, FightState
  <2>. HIDE DEF d
  <2>5. e.ehull \in Nat /\ WaveHull(e) \in Nat /\ WaveHull(d) = WaveHull(e)
    BY <2>4, FightBounds DEF Midway, Steady, FightState, WaveHull
  <2>6. Steady(d)
    BY <2>2, <2>3, <2>4, <2>5, FightBounds DEF Midway, Steady, ShieldCap, EscortAlive, Flying
  <2>. QED  BY <2>1, <2>4, <2>6, FightBounds DEF Onward, Midway, Kin, ValidTactics, Flying
<1>. QED  BY <1>1, <1>2

\* What one step of a beat leaves, the next may take up.
LEMMA KinOnward ==
  ASSUME NEW e, NEW b, NEW d, Kin(e, b), Onward(b, d)
  PROVE  Onward(e, d)
  BY DEF Onward, Kin

\* A step that does nothing.
LEMMA KinSelf == ASSUME NEW e, Midway(e) PROVE Onward(e, e)
  BY DEF Onward, Kin

\* A hull of one downs the crew, or loses the fight.
LEMMA LossFacts ==
  ASSUME NEW e, Midway(e), Flying(e), e.hull = 1
  PROVE  Onward(e, FinishLoss(e))
<1>. e \in FightState
  BY DEF Midway, Steady
<1>1. CASE NearMiss(e)
  <2>. DEFINE d == [e EXCEPT !.phase = "downed"]
  <2>1. FinishLoss(e) = d
    BY <1>1 DEF FinishLoss
  <2>2. d \in FightState
    BY DEF FightState
  <2>3. /\ d.faction = e.faction /\ d.twist = e.twist /\ d.beat = e.beat
        /\ d.phase = "downed" /\ d.result = e.result /\ d.hull = e.hull
        /\ d.layers = e.layers /\ d.over = e.over /\ d.ready = e.ready /\ d.cast = e.cast
        /\ d.ehull = e.ehull /\ d.wave = e.wave /\ d.cloak = e.cloak /\ d.regrown = e.regrown
        /\ d.aim = e.aim /\ d.freighter = e.freighter /\ d.boarders = e.boarders
        /\ d.board = e.board /\ d.rallied = e.rallied
    BY DEF FightState
  <2>. HIDE DEF d
  <2>4. Steady(d)
    BY <2>2, <2>3 DEF Midway, Steady, ShieldCap, WaveHull, EscortAlive, Flying
  <2>. QED  BY <2>1, <2>3, <2>4 DEF Onward, Midway, Kin, ValidTactics
<1>2. CASE ~NearMiss(e)
  <2>. DEFINE d == [e EXCEPT !.phase = "complete", !.result = "loss"]
  <2>1. FinishLoss(e) = d
    BY <1>2 DEF FinishLoss, FinishFight
  <2>2. d \in FightState
    BY DEF FightState
  <2>3. /\ d.faction = e.faction /\ d.twist = e.twist /\ d.beat = e.beat
        /\ d.phase = "complete" /\ d.result = "loss" /\ d.hull = e.hull
        /\ d.layers = e.layers /\ d.over = e.over /\ d.ready = e.ready /\ d.cast = e.cast
        /\ d.ehull = e.ehull /\ d.wave = e.wave /\ d.cloak = e.cloak /\ d.regrown = e.regrown
        /\ d.aim = e.aim /\ d.freighter = e.freighter /\ d.boarders = e.boarders
        /\ d.board = e.board /\ d.rallied = e.rallied
    BY DEF FightState
  <2>. HIDE DEF d
  <2>4. Steady(d)
    BY <2>2, <2>3, FightBounds DEF Midway, Steady, ShieldCap, WaveHull, EscortAlive, Flying
  <2>5. ValidTactics(d)
    BY <2>3, FightBounds DEF Midway, ValidTactics, Flying
  <2>. QED  BY <2>1, <2>3, <2>4, <2>5 DEF Onward, Midway, Kin
<1>. QED  BY <1>1, <1>2

\* A hit on the Sparrow.
LEMMA HitShipFacts ==
  ASSUME NEW e, Midway(e), Flying(e), NEW damage \in Nat
  PROVE  Onward(e, HitShip(e, damage))
<1>. e \in FightState
  BY DEF Midway, Steady
<1>. DEFINE h == Max2(1, Less(e.hull, damage))
            d == [e EXCEPT !.hull = h]
<1>1. h \in 1 .. Hull
  <2>1. e.hull \in Nat /\ e.hull <= Hull /\ e.hull >= 1
    BY FightBounds DEF FightState
  <2>2. Less(e.hull, damage) \in Nat /\ Less(e.hull, damage) <= e.hull
    BY <2>1, Numbers
  <2>3. h \in Nat /\ h >= 1 /\ h \in {1, Less(e.hull, damage)}
    BY <2>2, Numbers
  <2>. HIDE DEF h
  <2>. QED  BY <2>1, <2>2, <2>3, FightBounds
<1>. HIDE DEF h
<1>2. d \in FightState
  BY <1>1 DEF FightState
<1>3. /\ d.faction = e.faction /\ d.twist = e.twist /\ d.beat = e.beat /\ d.phase = e.phase
      /\ d.result = e.result /\ d.hull = h /\ d.layers = e.layers /\ d.over = e.over
      /\ d.ready = e.ready /\ d.cast = e.cast /\ d.ehull = e.ehull /\ d.wave = e.wave
      /\ d.cloak = e.cloak /\ d.regrown = e.regrown /\ d.aim = e.aim
      /\ d.freighter = e.freighter /\ d.boarders = e.boarders /\ d.board = e.board
      /\ d.rallied = e.rallied
  BY DEF FightState
<1>4. HitShip(e, damage) = IF d.hull = 1 THEN FinishLoss(d) ELSE d
  BY DEF HitShip, h
<1>. HIDE DEF d
<1>5. Midway(d) /\ Flying(d) /\ Kin(e, d)
  <2>1. Steady(d)
    BY <1>2, <1>3, FightBounds DEF Midway, Steady, ShieldCap, WaveHull, EscortAlive, Flying
  <2>. QED  BY <1>3, <2>1 DEF Midway, Kin, ValidTactics, Flying
<1>6. Onward(d, IF d.hull = 1 THEN FinishLoss(d) ELSE d)
  BY <1>5, LossFacts, KinSelf
<1>. QED  BY <1>4, <1>5, <1>6, KinOnward

-----------------------------------------------------------------------------
(* Before the ticks. *)

\* A boarding party wins a ship, or is thrown back.
LEMMA BoardingFacts ==
  ASSUME NEW e, Midway(e), Flying(e), NEW d \in BoardEnemy(e)
  PROVE  /\ Midway(d)
         /\ d.board = "lost" \/ d.result # NoResult \/ Flying(d)
         /\ d.faction = e.faction /\ d.twist = e.twist /\ d.beat = e.beat
         /\ d.cloak \in {e.cloak, 0} /\ d.boarders \in {e.boarders, "repelled"}
<1>. e \in FightState
  BY DEF Midway, Steady
<1>1. CASE d = EnemyFalls([e EXCEPT !.board = "won"])
  <2>. DEFINE b == [e EXCEPT !.board = "won"]
  <2>1. b \in FightState
    BY DEF FightState
  <2>2. /\ b.faction = e.faction /\ b.twist = e.twist /\ b.beat = e.beat /\ b.phase = e.phase
        /\ b.result = e.result /\ b.hull = e.hull /\ b.layers = e.layers /\ b.over = e.over
        /\ b.ready = e.ready /\ b.cast = e.cast /\ b.ehull = e.ehull /\ b.wave = e.wave
        /\ b.cloak = e.cloak /\ b.regrown = e.regrown /\ b.aim = e.aim
        /\ b.freighter = e.freighter /\ b.boarders = e.boarders /\ b.board = "won"
        /\ b.rallied = e.rallied
    BY DEF FightState
  <2>3. d = EnemyFalls(b)
    BY <1>1
  <2>. HIDE DEF b
  <2>4. Steady(b) /\ Flying(b) /\ b.regrown < b.beat /\ b.regrown <= RegrowMax
    BY <2>1, <2>2 DEF Midway, Steady, ShieldCap, WaveHull, EscortAlive, Flying
  <2>5. Onward(b, d)
    BY <2>3, <2>4, FallsFacts
  <2>6. d.phase # "downed"
    <3>1. b.phase # "downed" /\ b \in FightState
      BY <2>4 DEF Flying, Steady
    <3>. QED  BY <2>3, <3>1 DEF EnemyFalls, FinishFight, FightState
  <2>7. d.result # NoResult \/ Flying(d)
    BY <2>5, <2>6 DEF Onward, Midway, Steady, Flying
  <2>. QED  BY <2>2, <2>5, <2>7 DEF Onward, Kin
<1>2. ASSUME NEW damage \in 1 .. Punch, d = HitShip([e EXCEPT !.board = "lost"], damage)
      PROVE  /\ Midway(d) /\ d.board = "lost"
             /\ d.faction = e.faction /\ d.twist = e.twist /\ d.beat = e.beat
             /\ d.cloak \in {e.cloak, 0} /\ d.boarders \in {e.boarders, "repelled"}
  <2>. DEFINE b == [e EXCEPT !.board = "lost"]
  <2>1. b \in FightState
    BY DEF FightState
  <2>2. /\ b.faction = e.faction /\ b.twist = e.twist /\ b.beat = e.beat /\ b.phase = e.phase
        /\ b.result = e.result /\ b.hull = e.hull /\ b.layers = e.layers /\ b.over = e.over
        /\ b.ready = e.ready /\ b.cast = e.cast /\ b.ehull = e.ehull /\ b.wave = e.wave
        /\ b.cloak = e.cloak /\ b.regrown = e.regrown /\ b.aim = e.aim
        /\ b.freighter = e.freighter /\ b.boarders = e.boarders /\ b.board = "lost"
        /\ b.rallied = e.rallied
    BY DEF FightState
  <2>3. d = HitShip(b, damage)
    BY <1>2
  <2>. HIDE DEF b
  <2>4. Midway(b) /\ Flying(b)
    BY <2>1, <2>2 DEF Midway, Steady, ShieldCap, WaveHull, EscortAlive, Flying, ValidTactics
  <2>5. damage \in Nat
    BY FightBounds
  <2>6. Onward(b, d)
    BY <2>3, <2>4, <2>5, HitShipFacts
  <2>. QED  BY <2>2, <2>6 DEF Onward, Kin
<1>. QED  BY <1>1, <1>2 DEF BoardEnemy

\* Boarders come on the beat of their warning, and in no other.
LEMMA BoardersFacts ==
  ASSUME NEW e, Midway(e), Flying(e)
  PROVE  LET d == UpdateBoarders(e) IN
         /\ Midway(d) /\ Flying(d)
         /\ d.faction = e.faction /\ d.twist = e.twist /\ d.beat = e.beat /\ d.board = e.board
         /\ d.rallied = e.rallied /\ d.cloak = e.cloak
         /\ d.boarders = "none" => e.boarders = "none" /\ ~(Boards(e) /\ e.beat = WarnBeat)
<1>. e \in FightState
  BY DEF Midway, Steady
<1>. DEFINE d == UpdateBoarders(e)
<1>1. ASSUME NEW x \in {"incoming", "aboard"}, d = [e EXCEPT !.boarders = x]
      PROVE  /\ d \in FightState
             /\ /\ d.faction = e.faction /\ d.twist = e.twist /\ d.beat = e.beat /\ d.phase = e.phase
                /\ d.result = e.result /\ d.hull = e.hull /\ d.layers = e.layers /\ d.over = e.over
                /\ d.ready = e.ready /\ d.cast = e.cast /\ d.ehull = e.ehull /\ d.wave = e.wave
                /\ d.cloak = e.cloak /\ d.regrown = e.regrown /\ d.aim = e.aim
                /\ d.freighter = e.freighter /\ d.boarders = x /\ d.board = e.board
                /\ d.rallied = e.rallied
  BY <1>1 DEF FightState
<1>2. d = e \/ \E x \in {"incoming", "aboard"} : d = [e EXCEPT !.boarders = x]
  BY DEF UpdateBoarders
<1>3. d.boarders = "none" => e.boarders = "none" /\ ~(Boards(e) /\ e.beat = WarnBeat)
  BY DEF UpdateBoarders, FightState
<1>. HIDE DEF d
<1>4. ASSUME NEW x \in {"incoming", "aboard"}, d = [e EXCEPT !.boarders = x]
      PROVE  /\ Midway(d) /\ Flying(d)
             /\ d.faction = e.faction /\ d.twist = e.twist /\ d.beat = e.beat /\ d.board = e.board
             /\ d.rallied = e.rallied /\ d.cloak = e.cloak
  <2>. /\ d.faction = e.faction /\ d.twist = e.twist /\ d.beat = e.beat /\ d.phase = e.phase
       /\ d.result = e.result /\ d.hull = e.hull /\ d.layers = e.layers /\ d.over = e.over
       /\ d.ready = e.ready /\ d.cast = e.cast /\ d.ehull = e.ehull /\ d.wave = e.wave
       /\ d.cloak = e.cloak /\ d.regrown = e.regrown /\ d.aim = e.aim
       /\ d.freighter = e.freighter /\ d.boarders = x /\ d.board = e.board
       /\ d.rallied = e.rallied
    BY <1>1, <1>4
  <2>1. d \in FightState
    BY <1>1, <1>4
  <2>2. Steady(d)
    BY <2>1 DEF Midway, Steady, ShieldCap, WaveHull, EscortAlive
  <2>. QED  BY <2>2 DEF Midway, Flying, ValidTactics
<1>. QED  BY <1>2, <1>3, <1>4 DEF d

\* A cloak in force is one the validator accepts.
LEMMA CloakFacts ==
  ASSUME NEW e, Midway(e), Flying(e), NEW helmOk \in BOOLEAN,
         e.cloak > e.beat => ValidCloak(e), e.cloak = e.beat => ValidCloak(e)
  PROVE  LET d == UpdateCloak(e, helmOk) IN
         /\ Midway(d) /\ Flying(d) /\ ValidCloak(d)
         /\ d.faction = e.faction /\ d.twist = e.twist /\ d.beat = e.beat /\ d.board = e.board
         /\ d.rallied = e.rallied /\ d.boarders = e.boarders
<1>. e \in FightState
  BY DEF Midway, Steady
<1>. DEFINE kept == IF e.beat > e.cloak \/ ~helmOk THEN 0 ELSE e.cloak
            c == IF kept = 0 /\ Cloaks(e) /\ CloakDue(e.beat) /\ helmOk
                   THEN e.beat + CloakBeats - 1 ELSE kept
            d == [e EXCEPT !.cloak = c]
<1>1. /\ e.beat \in Nat /\ e.beat > 0 /\ e.cloak \in Nat /\ CloakBeats \in Nat /\ CloakBeats >= 1
  BY FightBounds DEF Midway, Steady, FightState
<1>2. c \in Nat
  BY <1>1
<1>3. \/ c = 0
      \/ c = e.cloak /\ e.cloak >= e.beat
      \/ c = e.beat + CloakBeats - 1 /\ CloakDue(e.beat)
  BY <1>1
<1>4. UpdateCloak(e, helmOk) = d
  BY DEF UpdateCloak
<1>. HIDE DEF c
<1>5. d \in FightState
  BY <1>2 DEF FightState
<1>6. /\ d.faction = e.faction /\ d.twist = e.twist /\ d.beat = e.beat /\ d.phase = e.phase
      /\ d.result = e.result /\ d.hull = e.hull /\ d.layers = e.layers /\ d.over = e.over
      /\ d.ready = e.ready /\ d.cast = e.cast /\ d.ehull = e.ehull /\ d.wave = e.wave
      /\ d.cloak = c /\ d.regrown = e.regrown /\ d.aim = e.aim /\ d.freighter = e.freighter
      /\ d.boarders = e.boarders /\ d.board = e.board /\ d.rallied = e.rallied
  BY DEF FightState
<1>. HIDE DEF d
<1>7. ValidCloak(d)
  <2>1. CASE c = 0
    BY <1>6, <2>1 DEF ValidCloak
  <2>2. CASE c = e.cloak /\ e.cloak >= e.beat
    <3>1. ValidCloak(e)
      BY <1>1, <2>2
    <3>. QED  BY <1>6, <2>2, <3>1 DEF ValidCloak
  <2>3. CASE c = e.beat + CloakBeats - 1 /\ CloakDue(e.beat)
    <3>1. c + 1 - CloakBeats = e.beat /\ c >= e.beat /\ c \in Nat
      BY <1>1, <2>3
    <3>2. Max2(1, d.beat) = e.beat
      BY <1>1, <1>6 DEF Max2
    <3>3. d.cloak \in Max2(1, d.beat) .. d.beat + CloakBeats - 1
      BY <1>1, <1>6, <2>3, <3>1, <3>2
    <3>4. CloakDue(d.cloak + 1 - CloakBeats)
      BY <1>6, <2>3, <3>1
    <3>. QED  BY <3>3, <3>4 DEF ValidCloak
  <2>. QED  BY <1>3, <2>1, <2>2, <2>3
<1>8. Steady(d)
  BY <1>5, <1>6 DEF Midway, Steady, ShieldCap, WaveHull, EscortAlive
<1>9. Midway(d) /\ Flying(d)
  BY <1>6, <1>8 DEF Midway, Flying, ValidTactics
<1>. QED  BY <1>4, <1>6, <1>7, <1>9

\* Moves that go off leave those still charged, and never more shields than there may be.
LEMMA CastFacts ==
  ASSUME NEW e, Midway(e), Flying(e), NEW d \in Casts(e)
  PROVE  Onward(e, d)
<1>. e \in FightState
  BY DEF Midway, Steady
<1>. DEFINE Spent(S) == [e EXCEPT !.cast = {}, !.ready = e.ready \ S,
                                 !.over = IF "oath" \in S THEN e.beat + OathBeats - 1 ELSE e.over,
                                 !.hull = IF "patch" \in S THEN Min2(Hull, e.hull + 1) ELSE e.hull]
<1>1. ASSUME NEW S \in SUBSET e.ready
      PROVE  Midway(Spent(S)) /\ Flying(Spent(S)) /\ Kin(e, Spent(S))
  <2>. DEFINE o == IF "oath" \in S THEN e.beat + OathBeats - 1 ELSE e.over
              h == IF "patch" \in S THEN Min2(Hull, e.hull + 1) ELSE e.hull
              r == e.ready \ S
              b == [e EXCEPT !.cast = {}, !.ready = r, !.over = o, !.hull = h]
  <2>1. e.beat \in Nat /\ e.beat > 0 /\ e.over \in Nat /\ OathBeats \in Nat /\ OathBeats >= 1
    BY FightBounds DEF Midway, Steady, FightState
  <2>2. o \in Nat /\ (o # e.over => o >= e.beat)
    BY <2>1
  <2>3. h \in 1 .. Hull
    BY FightBounds DEF FightState, Min2
  <2>4. r \in SUBSET Moves
    BY DEF FightState
  <2>. HIDE DEF o, h, r
  <2>5. b \in FightState
    BY <2>2, <2>3, <2>4 DEF FightState
  <2>6. /\ b.faction = e.faction /\ b.twist = e.twist /\ b.beat = e.beat /\ b.phase = e.phase
        /\ b.result = e.result /\ b.hull = h /\ b.layers = e.layers /\ b.over = o
        /\ b.ready = r /\ b.cast = {} /\ b.ehull = e.ehull /\ b.wave = e.wave
        /\ b.cloak = e.cloak /\ b.regrown = e.regrown /\ b.aim = e.aim
        /\ b.freighter = e.freighter /\ b.boarders = e.boarders /\ b.board = e.board
        /\ b.rallied = e.rallied
    BY DEF FightState
  <2>. HIDE DEF b
  <2>7. ShieldCap(e) <= ShieldCap(b) /\ ShieldCap(e) \in Nat /\ ShieldCap(b) \in Nat /\ e.layers \in Nat
    BY <2>1, <2>2, <2>6, FightBounds DEF ShieldCap, FightState
  <2>8. Steady(b)
    BY <2>5, <2>6, <2>7, FightBounds DEF Midway, Steady, WaveHull, EscortAlive, Flying
  <2>9. Midway(b) /\ Flying(b) /\ Kin(e, b)
    BY <2>2, <2>6, <2>8 DEF Midway, Flying, ValidTactics, Kin
  <2>. QED  BY <2>9 DEF b, o, h, r
<1>2. PICK S \in SUBSET e.ready :
        \/ \E damage \in 1 .. Punch : d = HitEnemy(Spent(S), damage)
        \/ d = Spent(S)
  <2>1. PICK S \in {T \in SUBSET e.ready : e.cast \subseteq T} :
          d \in IF "strike" \in S THEN {HitEnemy(Spent(S), damage) : damage \in 1 .. Punch} ELSE {Spent(S)}
    BY DEF Casts
  <2>. HIDE DEF Spent
  <2>2. (\E damage \in 1 .. Punch : d = HitEnemy(Spent(S), damage)) \/ d = Spent(S)
    BY <2>1
  <2>. QED  BY <2>1, <2>2
<1>. HIDE DEF Spent
<1>3. Midway(Spent(S)) /\ Flying(Spent(S)) /\ Kin(e, Spent(S))
  BY <1>1
<1>4. \A damage \in 1 .. Punch : damage \in Nat
  BY FightBounds
<1>5. Onward(Spent(S), d)
  BY <1>2, <1>3, <1>4, HitEnemyFacts, KinSelf
<1>. QED  BY <1>3, <1>5, KinOnward

-----------------------------------------------------------------------------
(* The ticks. *)

\* Our volley.
LEMMA VolleyFacts ==
  ASSUME NEW e, Midway(e), NEW d \in Volley(e)
  PROVE  Onward(e, d)
<1>1. \A damage \in 1 .. Punch : damage \in Nat
  BY FightBounds
<1>2. d = e \/ (Flying(e) /\ \E damage \in 1 .. Punch : d = HitEnemy(e, damage))
  BY DEF Volley
<1>. QED  BY <1>1, <1>2, HitEnemyFacts, KinSelf

\* A hit on the escort: guns leave a wreck.
LEMMA EscortFacts ==
  ASSUME NEW e, Midway(e), Flying(e), e.aim # {}, NEW damage \in Nat
  PROVE  Onward(e, ShootEscort(e, damage))
<1>. e \in FightState
  BY DEF Midway, Steady
<1>. DEFINE left == Less(e.freighter, damage)
            a == IF left = 0 THEN {} ELSE e.aim
            d == [e EXCEPT !.freighter = left, !.aim = a]
<1>1. left \in Nat /\ a \in SUBSET Guns /\ (a # {} => left > 0)
  <2>1. e.freighter \in Nat /\ e.aim \in SUBSET Guns
    BY DEF FightState
  <2>2. left \in Nat
    BY <2>1, Numbers
  <2>. HIDE DEF left
  <2>. QED  BY <2>1, <2>2
<1>2. ShootEscort(e, damage) = d
  BY DEF ShootEscort
<1>. HIDE DEF left, a
<1>3. d \in FightState
  BY <1>1 DEF FightState
<1>4. /\ d.faction = e.faction /\ d.twist = e.twist /\ d.beat = e.beat /\ d.phase = e.phase
      /\ d.result = e.result /\ d.hull = e.hull /\ d.layers = e.layers /\ d.over = e.over
      /\ d.ready = e.ready /\ d.cast = e.cast /\ d.ehull = e.ehull /\ d.wave = e.wave
      /\ d.cloak = e.cloak /\ d.regrown = e.regrown /\ d.aim = a /\ d.freighter = left
      /\ d.boarders = e.boarders /\ d.board = e.board /\ d.rallied = e.rallied
  BY DEF FightState
<1>. HIDE DEF d
<1>5. Steady(d)
  BY <1>1, <1>3, <1>4 DEF Midway, Steady, ShieldCap, WaveHull, EscortAlive
<1>. QED  BY <1>2, <1>4, <1>5 DEF Onward, Midway, Kin, ValidTactics

\* A gun that has fired takes its next aim.
LEMMA AimFacts ==
  ASSUME NEW e, Midway(e), NEW gun \in Guns, NEW d \in NextAim(e, gun)
  PROVE  Onward(e, d)
<1>. e \in FightState
  BY DEF Midway, Steady
<1>1. PICK a \in SUBSET Guns : d = [e EXCEPT !.aim = a] /\ (a # {} => EscortAlive(e))
  <2>1. e.aim \in SUBSET Guns /\ e.aim \ {gun} \in SUBSET Guns /\ e.aim \cup {gun} \in SUBSET Guns
    BY DEF FightState
  <2>2. e.aim # {} => EscortAlive(e)
    BY DEF Midway, Steady
  <2>. QED  BY <2>1, <2>2 DEF NextAim
<1>2. d \in FightState
  BY <1>1 DEF FightState
<1>3. /\ d.faction = e.faction /\ d.twist = e.twist /\ d.beat = e.beat /\ d.phase = e.phase
      /\ d.result = e.result /\ d.hull = e.hull /\ d.layers = e.layers /\ d.over = e.over
      /\ d.ready = e.ready /\ d.cast = e.cast /\ d.ehull = e.ehull /\ d.wave = e.wave
      /\ d.cloak = e.cloak /\ d.regrown = e.regrown /\ d.aim = a
      /\ d.freighter = e.freighter /\ d.boarders = e.boarders /\ d.board = e.board
      /\ d.rallied = e.rallied
  BY <1>1 DEF FightState
<1>4. Steady(d)
  BY <1>1, <1>2, <1>3 DEF Midway, Steady, ShieldCap, WaveHull, EscortAlive
<1>. QED  BY <1>3, <1>4 DEF Onward, Midway, Kin, ValidTactics

\* One of their guns.
LEMMA GunFacts ==
  ASSUME NEW e, Midway(e), NEW gun \in Guns, NEW d \in FireGun(e, gun)
  PROVE  Onward(e, d)
<1>. DEFINE fired == IF gun \in e.aim THEN {ShootEscort(e, damage) : damage \in 0 .. Punch}
                     ELSE {e} \cup {HitShip(e, damage) : damage \in 1 .. Punch}
<1>1. \A damage \in 0 .. Punch : damage \in Nat
  BY FightBounds
<1>2. ASSUME Flying(e), NEW h \in fired PROVE Onward(e, h)
  <2>1. \A damage \in 1 .. Punch : damage \in 0 .. Punch
    BY FightBounds
  <2>2. CASE gun \in e.aim
    BY <1>1, <1>2, <2>2, EscortFacts
  <2>3. CASE gun \notin e.aim
    BY <1>1, <1>2, <2>1, <2>3, HitShipFacts, KinSelf
  <2>. QED  BY <2>2, <2>3
<1>3. \/ d = e
      \/ Flying(e) /\ \E h \in fired : d \in IF Flying(h) THEN NextAim(h, gun) ELSE {h}
  BY DEF FireGun
<1>. HIDE DEF fired
<1>4. ASSUME Flying(e), NEW h \in fired, d \in IF Flying(h) THEN NextAim(h, gun) ELSE {h}
      PROVE  Onward(e, d)
  <2>1. Onward(e, h)
    BY <1>2, <1>4
  <2>2. Midway(h) /\ Kin(e, h)
    BY <2>1 DEF Onward
  <2>3. Onward(h, d)
    BY <1>4, <2>2, AimFacts, KinSelf
  <2>. QED  BY <2>2, <2>3, KinOnward
<1>. QED  BY <1>3, <1>4, KinSelf

\* Crew at work throw boarders back.
LEMMA RepelFacts ==
  ASSUME NEW e, Midway(e), NEW d \in Repel(e)
  PROVE  Onward(e, d)
<1>. e \in FightState
  BY DEF Midway, Steady
<1>1. CASE d = e
  BY <1>1, KinSelf
<1>2. CASE d = [e EXCEPT !.boarders = "repelled"]
  <2>1. d \in FightState
    BY <1>2 DEF FightState
  <2>2. /\ d.faction = e.faction /\ d.twist = e.twist /\ d.beat = e.beat /\ d.phase = e.phase
        /\ d.result = e.result /\ d.hull = e.hull /\ d.layers = e.layers /\ d.over = e.over
        /\ d.ready = e.ready /\ d.cast = e.cast /\ d.ehull = e.ehull /\ d.wave = e.wave
        /\ d.cloak = e.cloak /\ d.regrown = e.regrown /\ d.aim = e.aim
        /\ d.freighter = e.freighter /\ d.boarders = "repelled" /\ d.board = e.board
        /\ d.rallied = e.rallied
    BY <1>2 DEF FightState
  <2>3. Steady(d)
    BY <2>1, <2>2 DEF Midway, Steady, ShieldCap, WaveHull, EscortAlive
  <2>. QED  BY <2>2, <2>3 DEF Onward, Midway, Kin, ValidTactics
<1>. QED  BY <1>1, <1>2 DEF Repel

\* One exchange of fire.
LEMMA ExchangeFacts ==
  ASSUME NEW e, Midway(e), NEW d \in Exchange(e)
  PROVE  Onward(e, d)
<1>1. PICK a \in Volley(e) : d \in UNION {UNION {Repel(c) : c \in FireGun(b, "heavy")} : b \in FireGun(a, "cannon")}
  BY DEF Exchange
<1>2. PICK b \in FireGun(a, "cannon") : d \in UNION {Repel(c) : c \in FireGun(b, "heavy")}
  BY <1>1
<1>3. PICK c \in FireGun(b, "heavy") : d \in Repel(c)
  BY <1>2
<1>4. "cannon" \in Guns /\ "heavy" \in Guns
  BY DEF Guns
<1>5. Onward(e, a) /\ Midway(a) /\ Kin(e, a)
  BY VolleyFacts DEF Onward
<1>6. Onward(e, b) /\ Midway(b) /\ Kin(e, b)
  BY <1>4, <1>5, GunFacts, KinOnward DEF Onward
<1>7. Onward(e, c) /\ Midway(c) /\ Kin(e, c)
  BY <1>4, <1>6, GunFacts, KinOnward DEF Onward
<1>. QED  BY <1>3, <1>7, RepelFacts, KinOnward

\* A set of numbers that is not empty has a least one.
LEMMA LeastNumber ==
  ASSUME NEW N \in SUBSET Nat, N # {}
  PROVE  \E n \in N : \A m \in N : n <= m
<1>. DEFINE T == {0 .. (n - 1) : n \in N}
<1>1. T \subseteq FiniteSubsetsOf(Nat) /\ T # {}
  <2>1. ASSUME NEW n \in N PROVE 0 .. (n - 1) \in FiniteSubsetsOf(Nat)
    <3>1. IsFiniteSet(0 .. (n - 1))
      BY FS_Interval
    <3>. QED  BY <3>1 DEF FiniteSubsetsOf
  <2>. QED  BY <2>1
<1>2. IsWellFoundedOn(StrictSubsetOrdering(Nat), FiniteSubsetsOf(Nat))
  BY FS_StrictSubsetOrderingWellFounded
<1>3. PICK x \in T : \A y \in T : ~(<<y, x>> \in StrictSubsetOrdering(Nat))
  BY <1>1, <1>2, WFMin
<1>4. PICK n \in N : x = 0 .. (n - 1)
  OBVIOUS
<1>5. ASSUME NEW m \in N, m < n PROVE FALSE
  <2>1. 0 .. (m - 1) \in T /\ 0 .. (m - 1) \in SUBSET Nat /\ 0 .. (n - 1) \in SUBSET Nat
    OBVIOUS
  <2>2. 0 .. (m - 1) \subseteq 0 .. (n - 1) /\ 0 .. (m - 1) # 0 .. (n - 1)
    <3>1. m \in 0 .. (n - 1) /\ m \notin 0 .. (m - 1)
      BY <1>5
    <3>. QED  BY <1>5, <3>1
  <2>. QED  BY <1>3, <1>4, <2>1, <2>2 DEF StrictSubsetOrdering
<1>. QED  BY <1>5

\* What holds of 0 and of each next number holds of all.
LEMMA AllNumbers ==
  ASSUME NEW S, 0 \in S, \A n \in Nat : n \in S => n + 1 \in S
  PROVE  Nat \subseteq S
<1>. DEFINE N == Nat \ S
<1>1. ASSUME N # {} PROVE FALSE
  <2>1. PICK n \in N : \A m \in N : n <= m
    BY <1>1, LeastNumber
  <2>2. n # 0 /\ n - 1 \in Nat /\ n - 1 \notin N
    BY <2>1
  <2>. QED  BY <2>1, <2>2
<1>. QED  BY <1>1

\* The fights each round of a beat may leave.
After(e) ==
  LET after[n \in 0 .. Rounds] == IF n = 0 THEN {e} ELSE UNION {Exchange(d) : d \in after[n - 1]}
  IN  after

\* The rounds are well defined, each following from the one before.
LEMMA RoundsDefined ==
  ASSUME NEW e
  PROVE  After(e) = [n \in 0 .. Rounds |-> IF n = 0 THEN {e} ELSE UNION {Exchange(d) : d \in After(e)[n - 1]}]
<1>. DEFINE Defined(m, f) ==
              f = [n \in 0 .. m |-> IF n = 0 THEN {e} ELSE UNION {Exchange(d) : d \in f[n - 1]}]
            S == {m \in Nat : \E f : Defined(m, f)}
<1>1. 0 \in S
  <2>1. Defined(0, [n \in 0 .. 0 |-> {e}])
    OBVIOUS
  <2>. QED  BY <2>1
<1>2. ASSUME NEW m \in Nat, m \in S PROVE m + 1 \in S
  <2>1. PICK f : Defined(m, f)
    BY <1>2
  <2>. DEFINE last == UNION {Exchange(d) : d \in f[m]}
              g == [n \in 0 .. m + 1 |-> IF n = m + 1 THEN last ELSE f[n]]
  <2>2. \A n \in 0 .. m : f[n] = IF n = 0 THEN {e} ELSE UNION {Exchange(d) : d \in f[n - 1]}
    BY <2>1
  <2>3. \A n \in 0 .. m : g[n] = f[n]
    OBVIOUS
  <2>4. ASSUME NEW n \in 0 .. m + 1
        PROVE  g[n] = IF n = 0 THEN {e} ELSE UNION {Exchange(d) : d \in g[n - 1]}
    <3>1. CASE n = m + 1
      <4>1. n # 0 /\ n - 1 = m /\ m \in 0 .. m /\ g[n] = last
        BY <3>1
      <4>2. g[n - 1] = f[m]
        BY <2>3, <4>1
      <4>. QED  BY <4>1, <4>2
    <3>2. CASE n # m + 1
      <4>1. n \in 0 .. m /\ (n # 0 => n - 1 \in 0 .. m)
        BY <3>2
      <4>2. g[n] = f[n] /\ (n # 0 => g[n - 1] = f[n - 1])
        BY <2>3, <4>1
      <4>. QED  BY <2>2, <4>1, <4>2
    <3>. QED  BY <3>1, <3>2
  <2>5. g = [n \in 0 .. m + 1 |-> g[n]]
    OBVIOUS
  <2>. HIDE DEF g
  <2>6. Defined(m + 1, g)
    BY <2>4, <2>5
  <2>. QED  BY <2>6
<1>3. Rounds \in S
  <2>. HIDE DEF S
  <2>. QED  BY <1>1, <1>2, AllNumbers, FightBounds
<1>4. \E f : Defined(Rounds, f)
  BY <1>3
<1>. QED  BY <1>4 DEF After

\* The ticks of a beat are its rounds, and then its shields.
LEMMA TicksRounds ==
  ASSUME NEW e
  PROVE  Ticks(e) = {[d EXCEPT !.layers = n] : d \in After(e)[Rounds], n \in 0 .. ShieldCap(e)}
  BY DEF Ticks, After

\* A beat's ticks leave a fight steady that was.
LEMMA TicksFacts ==
  ASSUME NEW e, Midway(e), NEW f \in Ticks(e)
  PROVE  Onward(e, f)
<1>. DEFINE after == After(e)
<1>1. PICK c \in after[Rounds], k \in 0 .. ShieldCap(e) : f = [c EXCEPT !.layers = k]
  BY TicksRounds
<1>2. after = [n \in 0 .. Rounds |-> IF n = 0 THEN {e} ELSE UNION {Exchange(d) : d \in after[n - 1]}]
  BY RoundsDefined
<1>. HIDE DEF after
<1>. DEFINE S == {n \in Nat : n \in 0 .. Rounds => \A d \in after[n] : Onward(e, d)}
<1>3. \A n \in 0 .. Rounds : after[n] = IF n = 0 THEN {e} ELSE UNION {Exchange(d) : d \in after[n - 1]}
  BY <1>2
<1>4. 0 \in S
  <2>1. 0 \in 0 .. Rounds => after[0] = {e}
    BY <1>3
  <2>. QED  BY <2>1, KinSelf
<1>5. ASSUME NEW n \in Nat, n \in S PROVE n + 1 \in S
  <2>. SUFFICES ASSUME n + 1 \in 0 .. Rounds, NEW b \in after[n + 1] PROVE Onward(e, b)
    OBVIOUS
  <2>1. n \in 0 .. Rounds /\ n + 1 # 0 /\ (n + 1) - 1 = n
    BY FightBounds
  <2>2. after[n + 1] = UNION {Exchange(d) : d \in after[n]}
    BY <1>3, <2>1
  <2>3. PICK a \in after[n] : b \in Exchange(a)
    BY <2>2
  <2>4. Onward(e, a)
    BY <1>5, <2>1, <2>3
  <2>. QED  BY <2>3, <2>4, ExchangeFacts, KinOnward DEF Onward
<1>6. Onward(e, c)
  <2>1. Nat \subseteq S
    <3>. HIDE DEF S
    <3>. QED  BY <1>4, <1>5, AllNumbers
  <2>. QED  BY <1>1, <2>1, FightBounds
<1>7. Midway(c) /\ Kin(e, c) /\ c \in FightState /\ e \in FightState
  BY <1>6 DEF Onward, Midway, Steady
<1>8. k \in Nat /\ k <= ShieldCap(e) /\ k <= ShieldCap(c)
  <2>1. /\ ShieldCap(e) \in Nat /\ ShieldCap(c) \in Nat
        /\ e.over \in Nat /\ c.over \in Nat /\ e.beat \in Nat /\ e.beat > 0
    BY <1>7, FightBounds DEF ShieldCap, FightState, Midway, Steady
  <2>2. ShieldCap(e) <= ShieldCap(c)
    BY <1>7, <2>1, FightBounds DEF ShieldCap, Kin
  <2>. QED  BY <1>1, <2>1, <2>2
<1>9. f \in FightState
  BY <1>1, <1>7, <1>8 DEF FightState
<1>10. /\ f.faction = c.faction /\ f.twist = c.twist /\ f.beat = c.beat /\ f.phase = c.phase
       /\ f.result = c.result /\ f.hull = c.hull /\ f.layers = k /\ f.over = c.over
       /\ f.ready = c.ready /\ f.cast = c.cast /\ f.ehull = c.ehull /\ f.wave = c.wave
       /\ f.cloak = c.cloak /\ f.regrown = c.regrown /\ f.aim = c.aim
       /\ f.freighter = c.freighter /\ f.boarders = c.boarders /\ f.board = c.board
       /\ f.rallied = c.rallied
  BY <1>1, <1>7 DEF FightState
<1>11. Steady(f)
  <2>1. ShieldCap(f) = ShieldCap(c)
    BY <1>10 DEF ShieldCap
  <2>. QED  BY <1>7, <1>8, <1>9, <1>10, <2>1 DEF Midway, Steady, WaveHull, EscortAlive
<1>12. Midway(f) /\ Kin(c, f)
  BY <1>7, <1>10, <1>11 DEF Midway, ValidTactics, Kin
<1>. QED  BY <1>7, <1>12, KinOnward DEF Onward

-----------------------------------------------------------------------------
(* The end of a beat. *)

\* A fight a beat has left, but for its cloak and its boarders.
Settled(e) ==
  /\ e \in FightState
  /\ ValidPhase(e) /\ ValidShields(e) /\ ValidKitState(e) /\ ValidResult(e)
  /\ ValidRegrowth(e) /\ ValidTwist(e) /\ ValidTactics(e)

\* The same beat of the same fight.
Same(e, d) ==
  /\ d.faction = e.faction /\ d.beat = e.beat /\ d.board = e.board /\ d.rallied = e.rallied
  /\ d.cloak = e.cloak /\ d.boarders = e.boarders

\* What a hull grew back is within its budget.
LEMMA Regrown == ASSUME NEW e, e \in FightState, e.regrown <= e.beat, e.regrown <= RegrowMax
                 PROVE  ValidRegrowth(e)
  BY FightBounds DEF ValidRegrowth, Min2, FightState

\* Shields are within what may be up.
LEMMA Layered == ASSUME NEW e, e \in FightState, e.layers <= ShieldCap(e)
                 PROVE  ValidShields(e)
  BY FightBounds DEF ValidShields, ShieldCap, FightState

\* A fight that is over, or whose crew is down, has settled already.
LEMMA EndedFacts ==
  ASSUME NEW e, Midway(e), ~Flying(e)
  PROVE  Settled(e)
<1>. e \in FightState
  BY DEF Midway, Steady
<1>1. ValidRegrowth(e)
  BY Regrown DEF Midway, FightState
<1>2. ValidShields(e)
  BY Layered DEF Midway, Steady
<1>3. ValidResult(e)
  <2>1. WaveHull(e) \in Nat /\ e.ehull \in Nat
    BY FightBounds DEF WaveHull, FightState
  <2>. QED  BY <2>1, FightBounds DEF ValidResult, Midway, Steady, FightState
<1>4. ValidPhase(e) /\ ValidTwist(e) /\ ValidKitState(e)
  BY DEF ValidPhase, ValidTwist, ValidKitState, Midway, Steady, Flying, FightState
<1>. QED  BY <1>1, <1>2, <1>3, <1>4 DEF Settled, Midway

\* A hull that grows back.
LEMMA RegrowFacts ==
  ASSUME NEW e, Midway(e), Flying(e), NEW d \in Regrow(e)
  PROVE  /\ Steady(d) /\ Flying(d) /\ ValidTactics(d) /\ Same(e, d) /\ d.twist = e.twist
         /\ d.regrown <= d.beat /\ d.regrown <= RegrowMax
<1>. e \in FightState
  BY DEF Midway, Steady
<1>0. /\ e.beat \in Nat /\ e.regrown \in Nat /\ e.ehull \in Nat /\ WaveHull(e) \in Nat
      /\ WaveHull(e) <= EnemyHull
  BY FightBounds DEF FightState, WaveHull
<1>1. CASE d = e
  BY <1>0, <1>1 DEF Midway, Same
<1>2. CASE /\ e.ehull < WaveHull(e) /\ e.regrown < RegrowMax
           /\ d = [e EXCEPT !.ehull = e.ehull + 1, !.regrown = e.regrown + 1]
  <2>1. /\ e.ehull + 1 \in 0 .. EnemyHull /\ e.ehull + 1 <= WaveHull(e) /\ e.ehull + 1 > 0
        /\ e.regrown + 1 \in Nat
        /\ e.regrown + 1 <= e.beat /\ e.regrown + 1 <= RegrowMax
    BY <1>0, <1>2, FightBounds DEF Midway
  <2>2. d \in FightState
    BY <1>2, <2>1 DEF FightState
  <2>3. /\ d.faction = e.faction /\ d.twist = e.twist /\ d.beat = e.beat /\ d.phase = e.phase
        /\ d.result = e.result /\ d.hull = e.hull /\ d.layers = e.layers /\ d.over = e.over
        /\ d.ready = e.ready /\ d.cast = e.cast /\ d.ehull = e.ehull + 1 /\ d.wave = e.wave
        /\ d.cloak = e.cloak /\ d.regrown = e.regrown + 1 /\ d.aim = e.aim
        /\ d.freighter = e.freighter /\ d.boarders = e.boarders /\ d.board = e.board
        /\ d.rallied = e.rallied
    BY <1>2 DEF FightState
  <2>4. WaveHull(d) = WaveHull(e)
    BY <2>3 DEF WaveHull
  <2>5. Steady(d)
    BY <2>1, <2>2, <2>3, <2>4, FightBounds DEF Midway, Steady, ShieldCap, EscortAlive, Flying
  <2>6. Flying(d) /\ Same(e, d) /\ d.twist = e.twist
    BY <2>3 DEF Flying, Same
  <2>7. ValidTactics(d)
    BY <2>3, FightBounds DEF Midway, Flying, ValidTactics
  <2>. QED  BY <2>1, <2>3, <2>5, <2>6, <2>7
<1>. QED  BY <1>1, <1>2 DEF Regrow

\* Holding out wins, and leaves nothing that should have ended.
LEMMA HoldOutFacts ==
  ASSUME NEW e, Steady(e), Flying(e), ValidTactics(e), e.regrown <= e.beat, e.regrown <= RegrowMax
  PROVE  Settled(HoldOut(e)) /\ Same(e, HoldOut(e))
<1>. e \in FightState
  BY DEF Steady
<1>0. WaveHull(e) \in Nat /\ e.ehull \in Nat
  BY FightBounds DEF WaveHull, FightState
<1>1. CASE HeldOut(e)
  <2>. DEFINE d == [e EXCEPT !.phase = "complete", !.result = "win"]
  <2>1. HoldOut(e) = d
    BY <1>1 DEF HoldOut, FinishFight, HeldOut
  <2>2. d \in FightState
    BY DEF FightState
  <2>3. /\ d.faction = e.faction /\ d.twist = e.twist /\ d.beat = e.beat
        /\ d.phase = "complete" /\ d.result = "win" /\ d.hull = e.hull /\ d.layers = e.layers
        /\ d.over = e.over /\ d.ready = e.ready /\ d.cast = e.cast /\ d.ehull = e.ehull
        /\ d.wave = e.wave /\ d.cloak = e.cloak /\ d.regrown = e.regrown /\ d.aim = e.aim
        /\ d.freighter = e.freighter /\ d.boarders = e.boarders /\ d.board = e.board
        /\ d.rallied = e.rallied
    BY DEF FightState
  <2>. HIDE DEF d
  <2>4. ShieldCap(d) = ShieldCap(e) /\ WaveHull(d) = WaveHull(e) /\ HeldOut(d)
    BY <1>1, <2>3 DEF ShieldCap, WaveHull, HeldOut
  <2>5. ValidRegrowth(d) /\ ValidShields(d)
    BY <2>2, <2>3, <2>4, Regrown, Layered DEF Steady
  <2>6. ValidResult(d)
    BY <1>0, <2>2, <2>3, <2>4, FightBounds DEF ValidResult, Steady
  <2>7. ValidPhase(d) /\ ValidKitState(d)
    BY <2>2, <2>3, FightBounds DEF ValidPhase, ValidKitState, Steady, FightState
  <2>8. ValidTwist(d)
    BY <2>3, <2>4, FightBounds DEF ValidTwist, HeldOut, EscortAlive, Steady
  <2>9. ValidTactics(d)
    BY <2>3, FightBounds DEF ValidTactics, Flying
  <2>. QED  BY <2>1, <2>2, <2>3, <2>5, <2>6, <2>7, <2>8, <2>9 DEF Settled, Same
<1>2. CASE ~HeldOut(e)
  <2>1. HoldOut(e) = e
    BY <1>2 DEF HoldOut, HeldOut
  <2>2. ValidRegrowth(e) /\ ValidShields(e)
    BY Regrown, Layered DEF Steady
  <2>3. ValidResult(e)
    BY <1>0, FightBounds DEF ValidResult, Steady, Flying
  <2>4. ValidPhase(e) /\ ValidTwist(e) /\ ValidKitState(e)
    BY <1>2, FightBounds DEF ValidPhase, ValidTwist, ValidKitState, Steady, Flying, FightState
  <2>. QED  BY <2>1, <2>2, <2>3, <2>4 DEF Settled, Same
<1>. QED  BY <1>1, <1>2

\* Moves charge between beats.
LEMMA ChargeFacts ==
  ASSUME NEW e, Settled(e), NEW d \in Charge(e)
  PROVE  Settled(d) /\ Same(e, d)
<1>. e \in FightState
  BY DEF Settled
<1>1. CASE d = e
  BY <1>1 DEF Same
<1>2. ASSUME NEW S \in {e.ready, Moves}, d = [e EXCEPT !.ready = S]
      PROVE  Settled(d) /\ Same(e, d)
  <2>1. S \in SUBSET Moves /\ e.cast \subseteq S
    BY DEF Settled, ValidKitState, FightState
  <2>2. d \in FightState
    BY <1>2, <2>1 DEF FightState
  <2>3. /\ d.faction = e.faction /\ d.twist = e.twist /\ d.beat = e.beat /\ d.phase = e.phase
        /\ d.result = e.result /\ d.hull = e.hull /\ d.layers = e.layers /\ d.over = e.over
        /\ d.ready = S /\ d.cast = e.cast /\ d.ehull = e.ehull /\ d.wave = e.wave
        /\ d.cloak = e.cloak /\ d.regrown = e.regrown /\ d.aim = e.aim
        /\ d.freighter = e.freighter /\ d.boarders = e.boarders /\ d.board = e.board
        /\ d.rallied = e.rallied
    BY <1>2 DEF FightState
  <2>4. ValidKitState(d)
    BY <2>1, <2>3 DEF ValidKitState
  <2>5. ValidPhase(d) /\ ValidShields(d) /\ ValidTactics(d) /\ ValidRegrowth(d)
    BY <2>3 DEF Settled, ValidPhase, ValidShields, ShieldCap, ValidTactics, ValidRegrowth
  <2>6. ValidResult(d) /\ ValidTwist(d)
    BY <2>3 DEF Settled, ValidResult, ValidTwist, WaveHull, HeldOut, EscortAlive
  <2>. QED  BY <2>2, <2>3, <2>4, <2>5, <2>6 DEF Settled, Same
<1>. QED  BY <1>1, <1>2 DEF Charge

\* What a beat does last.
LEMMA CloseFacts ==
  ASSUME NEW e, Midway(e), NEW d \in CloseBeat(e)
  PROVE  Settled(d) /\ Same(e, d)
<1>1. PICK c \in IF Flying(e) THEN {HoldOut(r) : r \in Regrow(e)} ELSE {e} : d \in Charge(c)
  BY DEF CloseBeat
<1>2. Settled(c) /\ Same(e, c)
  <2>1. CASE Flying(e)
    <3>1. PICK r \in Regrow(e) : c = HoldOut(r)
      BY <2>1
    <3>2. /\ Steady(r) /\ Flying(r) /\ ValidTactics(r) /\ Same(e, r)
          /\ r.regrown <= r.beat /\ r.regrown <= RegrowMax
      BY <2>1, RegrowFacts
    <3>3. Settled(c) /\ Same(r, c)
      BY <3>1, <3>2, HoldOutFacts
    <3>. QED  BY <3>2, <3>3 DEF Same
  <2>2. CASE ~Flying(e)
    <3>1. c = e
      BY <2>2
    <3>. QED  BY <2>2, <3>1, EndedFacts DEF Same
  <2>. QED  BY <2>1, <2>2
<1>3. Settled(d) /\ Same(c, d)
  BY <1>1, <1>2, ChargeFacts
<1>. QED  BY <1>2, <1>3 DEF Same

\* A cloak in force, or none.
LEMMA CloakStays ==
  ASSUME NEW e, NEW d, ValidCloak(e), d.beat = e.beat, d.cloak \in {e.cloak, 0}
  PROVE  ValidCloak(d)
  BY DEF ValidCloak

\* A beat that is not ended by its order.
LEMMA FliesFacts ==
  ASSUME NEW e, Midway(e), Flying(e), NEW d \in Flies(e), e.cloak >= e.beat => ValidCloak(e)
  PROVE  /\ Settled(d) /\ ValidCloak(d)
         /\ d.faction = e.faction /\ d.beat = e.beat /\ d.board = e.board /\ d.rallied = e.rallied
         /\ d.boarders = "none" => e.boarders = "none" /\ ~(Boards(e) /\ e.beat = WarnBeat)
<1>. DEFINE u == UpdateBoarders(e)
<1>1. PICK helmOk \in BOOLEAN : \E c \in Casts(UpdateCloak(u, helmOk)) :
        d \in UNION {CloseBeat(t) : t \in IF Flying(c) THEN Ticks(c) ELSE {c}}
  BY DEF Flies
<1>2. /\ Midway(u) /\ Flying(u)
      /\ u.faction = e.faction /\ u.twist = e.twist /\ u.beat = e.beat /\ u.board = e.board
      /\ u.rallied = e.rallied /\ u.cloak = e.cloak
      /\ u.boarders = "none" => e.boarders = "none" /\ ~(Boards(e) /\ e.beat = WarnBeat)
  BY BoardersFacts
<1>. HIDE DEF u
<1>. DEFINE k == UpdateCloak(u, helmOk)
<1>3. u.cloak \in Nat /\ u.beat \in Nat /\ (u.cloak >= u.beat => ValidCloak(u))
  <2>1. u \in FightState
    BY <1>2 DEF Midway, Steady
  <2>. QED  BY <1>2, <2>1, CloakStays DEF FightState
<1>4. /\ Midway(k) /\ Flying(k) /\ ValidCloak(k)
      /\ k.faction = u.faction /\ k.twist = u.twist /\ k.beat = u.beat /\ k.board = u.board
      /\ k.rallied = u.rallied /\ k.boarders = u.boarders
  <2>1. (u.cloak > u.beat => ValidCloak(u)) /\ (u.cloak = u.beat => ValidCloak(u))
    BY <1>3
  <2>. QED  BY <1>2, <2>1, CloakFacts
<1>5. PICK c \in Casts(k) : d \in UNION {CloseBeat(t) : t \in IF Flying(c) THEN Ticks(c) ELSE {c}}
  BY <1>1
<1>. HIDE DEF k
<1>6. PICK t \in IF Flying(c) THEN Ticks(c) ELSE {c} : d \in CloseBeat(t)
  BY <1>5
<1>7. Onward(k, c) /\ Midway(c)
  BY <1>4, CastFacts DEF Onward
<1>8. Onward(c, t)
  BY <1>6, <1>7, TicksFacts, KinSelf
<1>9. Onward(k, t) /\ Midway(t) /\ Kin(k, t)
  BY <1>7, <1>8, KinOnward DEF Onward
<1>10. Settled(d) /\ Same(t, d)
  BY <1>6, <1>9, CloseFacts
<1>11. ValidCloak(t) /\ ValidCloak(d)
  BY <1>4, <1>9, <1>10, CloakStays DEF Kin, Same
<1>. QED  BY <1>2, <1>4, <1>9, <1>10, <1>11 DEF Kin, Same

-----------------------------------------------------------------------------
(* A whole beat. *)

\* The cloak of a fight is in force, or gone, or its last beat has just ended.
Cloak(e) == ValidCloak(e) \/ e.cloak + 1 = e.beat

\* Past the boarders' warning and not warned: the party that was thrown back took the warning.
Boarders(e) ==
  Boards(e) /\ e.boarders = "none" /\ e.beat > WarnBeat
    => e.board = "lost" /\ (e.rallied \/ e.result = "loss")

\* A scrappers' fight that stands on the beat of the warning without it: its boarding party was
\* thrown back on that very beat, and its crew is down.
Warned(e) ==
  Boards(e) /\ e.boarders = "none" /\ e.beat = WarnBeat /\ e.result = NoResult
    => e.phase = "downed" /\ e.board = "lost"

\* The next beat of a fight the validator accepts.
LEMMA OpenFacts ==
  ASSUME NEW e, e \in FightState, ValidFtlBody(e), e.result = NoResult
  PROVE  LET o == OpenBeat(e) IN
         /\ Midway(o) /\ o.beat = e.beat + 1
         /\ o.faction = e.faction /\ o.phase = e.phase /\ o.result = e.result /\ o.hull = e.hull
         /\ o.board = e.board /\ o.boarders = e.boarders /\ o.rallied = e.rallied
         /\ o.cloak >= o.beat => ValidCloak(o)
         /\ Cloak(o)
<1>. DEFINE b == [e EXCEPT !.beat = e.beat + 1]
            k == Min2(b.layers, ShieldCap(b))
            o == [b EXCEPT !.layers = k]
<1>1. OpenBeat(e) = o
  BY DEF OpenBeat
<1>2. /\ e.beat \in Nat /\ e.layers \in Nat /\ e.over \in Nat /\ e.cloak \in Nat /\ e.regrown \in Nat
      /\ e.beat + 1 \in Nat /\ e.ehull \in Nat
  BY FightBounds DEF FightState
<1>3. b \in FightState
  BY <1>2 DEF FightState
<1>4. /\ b.faction = e.faction /\ b.twist = e.twist /\ b.beat = e.beat + 1
      /\ b.phase = e.phase /\ b.result = e.result /\ b.hull = e.hull /\ b.layers = e.layers
      /\ b.over = e.over /\ b.ready = e.ready /\ b.cast = e.cast /\ b.ehull = e.ehull
      /\ b.wave = e.wave /\ b.cloak = e.cloak /\ b.regrown = e.regrown /\ b.aim = e.aim
      /\ b.freighter = e.freighter /\ b.boarders = e.boarders /\ b.board = e.board
      /\ b.rallied = e.rallied
  BY DEF FightState
<1>. HIDE DEF b
<1>5. ShieldCap(b) \in Nat /\ ShieldCap(e) \in Nat
  BY FightBounds DEF ShieldCap
<1>6. k \in Nat /\ k <= ShieldCap(b)
  BY <1>2, <1>4, <1>5, Numbers
<1>. HIDE DEF k
<1>7. o \in FightState
  BY <1>3, <1>6 DEF FightState
<1>8. /\ o.faction = e.faction /\ o.twist = e.twist /\ o.beat = e.beat + 1
      /\ o.phase = e.phase /\ o.result = e.result /\ o.hull = e.hull /\ o.layers = k
      /\ o.over = e.over /\ o.ready = e.ready /\ o.cast = e.cast /\ o.ehull = e.ehull
      /\ o.wave = e.wave /\ o.cloak = e.cloak /\ o.regrown = e.regrown /\ o.aim = e.aim
      /\ o.freighter = e.freighter /\ o.boarders = e.boarders /\ o.board = e.board
      /\ o.rallied = e.rallied
  BY <1>3, <1>4 DEF FightState
<1>9. ShieldCap(o) = ShieldCap(b) /\ WaveHull(o) = WaveHull(e)
  BY <1>4, <1>8 DEF ShieldCap, WaveHull
<1>. HIDE DEF o
<1>10. WaveHull(e) \in Nat
  BY FightBounds DEF WaveHull
<1>11. Steady(o)
  <2>1. o.beat > 0 /\ o.layers <= ShieldCap(o)
    BY <1>2, <1>6, <1>8, <1>9
  <2>2. /\ o.phase \in {"combat", "downed"} /\ (o.phase = "downed" => o.hull = 1)
        /\ o.cast \subseteq o.ready
    BY <1>8 DEF ValidFtlBody, ValidPhase, ValidKitState
  <2>3. o.ehull <= WaveHull(o) /\ o.ehull > 0
    BY <1>2, <1>8, <1>9, <1>10 DEF ValidFtlBody, ValidResult
  <2>4. o.aim # {} => EscortAlive(o)
    BY <1>8 DEF ValidFtlBody, ValidTwist, EscortAlive
  <2>5. o.result = NoResult /\ NoResult # "win" /\ NoResult # "loss"
    BY <1>8, FightBounds
  <2>. QED  BY <1>7, <2>1, <2>2, <2>3, <2>4, <2>5 DEF Steady
<1>12. Midway(o)
  <2>1. o.regrown < o.beat /\ o.regrown <= RegrowMax
    BY <1>2, <1>8, FightBounds DEF ValidFtlBody, ValidRegrowth, Min2
  <2>2. ValidTactics(o)
    BY <1>8 DEF ValidFtlBody, ValidTactics
  <2>. QED  BY <1>11, <2>1, <2>2 DEF Midway
<1>13. (o.cloak >= o.beat => ValidCloak(o)) /\ Cloak(o)
  <2>1. CASE e.cloak = 0
    BY <1>8, <2>1 DEF ValidCloak, Cloak
  <2>2. CASE e.cloak # 0
    <3>1. /\ e.cloak \in Max2(1, e.beat) .. e.beat + CloakBeats - 1 /\ CloakDue(e.cloak + 1 - CloakBeats)
          /\ CloakBeats \in Nat /\ CloakBeats >= 1
      BY <2>2, FightBounds DEF ValidFtlBody, ValidCloak
    <3>2. e.cloak >= e.beat
      BY <1>2, <3>1 DEF Max2
    <3>3. o.cloak >= o.beat => o.cloak \in Max2(1, o.beat) .. o.beat + CloakBeats - 1
      BY <1>2, <1>8, <3>1 DEF Max2
    <3>4. o.cloak >= o.beat => ValidCloak(o)
      BY <1>8, <3>1, <3>3 DEF ValidCloak
    <3>5. o.cloak >= o.beat \/ o.cloak + 1 = o.beat
      BY <1>2, <1>8, <3>2
    <3>. QED  BY <3>4, <3>5 DEF Cloak
  <2>. QED  BY <2>1, <2>2
<1>. QED  BY <1>1, <1>8, <1>12, <1>13

\* A downed crew that rallies flies on.
LEMMA RallyFacts ==
  ASSUME NEW e, Midway(e), e.result = NoResult
  PROVE  LET d == Rally(e) IN
         /\ Midway(d) /\ Flying(d) /\ d.rallied
         /\ d.faction = e.faction /\ d.beat = e.beat /\ d.board = e.board
         /\ d.boarders = e.boarders /\ d.cloak = e.cloak
<1>. e \in FightState
  BY DEF Midway, Steady
<1>. DEFINE h == Max2(e.hull, RallyHull)
            d == [e EXCEPT !.phase = "combat", !.hull = h, !.rallied = TRUE]
<1>1. Rally(e) = d
  BY DEF Rally
<1>2. h \in 1 .. Hull
  BY FightBounds DEF FightState, Max2
<1>. HIDE DEF h
<1>3. d \in FightState
  BY <1>2 DEF FightState
<1>4. /\ d.faction = e.faction /\ d.twist = e.twist /\ d.beat = e.beat
      /\ d.phase = "combat" /\ d.result = e.result /\ d.hull = h /\ d.layers = e.layers
      /\ d.over = e.over /\ d.ready = e.ready /\ d.cast = e.cast /\ d.ehull = e.ehull
      /\ d.wave = e.wave /\ d.cloak = e.cloak /\ d.regrown = e.regrown /\ d.aim = e.aim
      /\ d.freighter = e.freighter /\ d.boarders = e.boarders /\ d.board = e.board
      /\ d.rallied = TRUE
  BY DEF FightState
<1>. HIDE DEF d
<1>5. Steady(d)
  BY <1>3, <1>4, FightBounds DEF Midway, Steady, ShieldCap, WaveHull, EscortAlive
<1>6. Midway(d) /\ Flying(d)
  BY <1>4, <1>5 DEF Midway, Flying, ValidTactics
<1>. QED  BY <1>1, <1>4, <1>6

\* A downed crew that gives up has lost.
LEMMA ConcedeFacts ==
  ASSUME NEW e, Midway(e), e.result = NoResult, e.phase = "downed"
  PROVE  LET d == Concede(e) IN
         /\ Midway(d) /\ ~Flying(d) /\ d.result = "loss"
         /\ d.faction = e.faction /\ d.beat = e.beat /\ d.board = e.board
         /\ d.boarders = e.boarders /\ d.cloak = e.cloak
<1>. e \in FightState
  BY DEF Midway, Steady
<1>. DEFINE d == [e EXCEPT !.phase = "complete", !.result = "loss"]
<1>1. Concede(e) = d
  BY DEF Concede, FinishFight
<1>2. d \in FightState
  BY DEF FightState
<1>3. /\ d.faction = e.faction /\ d.twist = e.twist /\ d.beat = e.beat
      /\ d.phase = "complete" /\ d.result = "loss" /\ d.hull = e.hull
      /\ d.layers = e.layers /\ d.over = e.over /\ d.ready = e.ready /\ d.cast = e.cast
      /\ d.ehull = e.ehull /\ d.wave = e.wave /\ d.cloak = e.cloak /\ d.regrown = e.regrown
      /\ d.aim = e.aim /\ d.freighter = e.freighter /\ d.boarders = e.boarders
      /\ d.board = e.board /\ d.rallied = e.rallied
  BY DEF FightState
<1>. HIDE DEF d
<1>4. Steady(d)
  BY <1>2, <1>3, FightBounds DEF Midway, Steady, ShieldCap, WaveHull, EscortAlive
<1>5. Midway(d) /\ ~Flying(d)
  BY <1>3, <1>4, FightBounds DEF Midway, Flying, ValidTactics
<1>. QED  BY <1>1, <1>3, <1>5

\* A captain who may give this order now.
MayOrder(e, order) ==
  IF e.phase = "downed" THEN order \in {"rally", "concede"} ELSE order \in {"none", "board"}

\* A beat after its order: only a crew that its boarding party has brought down neither
\* flies nor has ended.
LEMMA OrderedFacts ==
  ASSUME NEW e, e \in FightState, ValidFtlBody(e), e.result = NoResult, Warned(e),
         NEW order, MayOrder(e, order), NEW c \in Ordered(OpenBeat(e), order)
  PROVE  /\ Midway(c) /\ c.beat = e.beat + 1
         /\ c.cloak >= c.beat => ValidCloak(c)
         /\ Cloak(c) /\ Boarders(c)
         /\ ~Flying(c) /\ c.result = NoResult => c.board = "lost"
<1>. DEFINE o == OpenBeat(e)
<1>1. /\ Midway(o) /\ o.beat = e.beat + 1
      /\ o.faction = e.faction /\ o.phase = e.phase /\ o.result = e.result /\ o.hull = e.hull
      /\ o.board = e.board /\ o.boarders = e.boarders /\ o.rallied = e.rallied
      /\ o.cloak >= o.beat => ValidCloak(o)
      /\ Cloak(o)
  BY OpenFacts
<1>2. c \in Ordered(o, order)
  OBVIOUS
<1>. HIDE DEF o
<1>3. e.beat \in Nat /\ WarnBeat \in Nat /\ o.beat \in Nat /\ o.cloak \in Nat
  BY <1>1, CrewFightAssumption DEF FightState, Midway, Steady
<1>4. e.phase # "downed" => e.phase = "combat"
  BY DEF ValidFtlBody, ValidPhase
\* Only a downed crew passes the warning without having been warned.
<1>5. Boards(e) /\ e.boarders = "none" /\ e.beat + 1 > WarnBeat
        => e.phase = "downed" /\ e.board = "lost"
  <2>1. Boards(e) /\ e.boarders = "none" => e.beat <= WarnBeat
    BY DEF ValidFtlBody, ValidBoarders
  <2>. QED  BY <1>3, <2>1 DEF Warned
<1>6. CASE order = "concede" /\ e.phase = "downed"
  <2>1. c = Concede(o)
    BY <1>2, <1>6 DEF Ordered
  <2>2. /\ Midway(c) /\ ~Flying(c) /\ c.result = "loss"
        /\ c.faction = o.faction /\ c.beat = o.beat /\ c.board = o.board
        /\ c.boarders = o.boarders /\ c.cloak = o.cloak
    BY <1>1, <1>6, <2>1, ConcedeFacts
  <2>3. Boarders(c)
    BY <1>1, <1>5, <2>2 DEF Boarders, Boards
  <2>. QED  BY <1>1, <2>2, <2>3, CloakStays, FightBounds DEF Cloak
<1>7. CASE order = "rally" /\ e.phase = "downed"
  <2>1. c = Rally(o)
    BY <1>2, <1>7 DEF Ordered
  <2>2. /\ Midway(c) /\ Flying(c) /\ c.rallied
        /\ c.faction = o.faction /\ c.beat = o.beat /\ c.board = o.board
        /\ c.boarders = o.boarders /\ c.cloak = o.cloak
    BY <1>1, <2>1, RallyFacts
  <2>3. Boarders(c)
    BY <1>1, <1>5, <2>2 DEF Boarders, Boards
  <2>. QED  BY <1>1, <2>2, <2>3, CloakStays DEF Cloak
<1>8. CASE order = "board" /\ e.phase = "combat"
  <2>1. c \in BoardEnemy(o) /\ Flying(o)
    BY <1>1, <1>2, <1>8 DEF Ordered, Flying
  <2>2. /\ Midway(c)
        /\ c.board = "lost" \/ c.result # NoResult \/ Flying(c)
        /\ c.faction = o.faction /\ c.beat = o.beat
        /\ c.cloak \in {o.cloak, 0} /\ c.boarders \in {o.boarders, "repelled"}
    BY <1>1, <2>1, BoardingFacts
  <2>3. Boarders(c)
    BY <1>1, <1>5, <1>8, <2>2 DEF Boarders, Boards
  <2>4. (c.cloak >= c.beat => ValidCloak(c)) /\ Cloak(c)
    BY <1>1, <2>2, CloakStays DEF Cloak, ValidCloak
  <2>. QED  BY <1>1, <2>2, <2>3, <2>4
<1>9. CASE order = "none" /\ e.phase = "combat"
  <2>1. c = o /\ Flying(c)
    BY <1>1, <1>2, <1>9 DEF Ordered, Flying
  <2>2. Boarders(c)
    BY <1>1, <1>5, <1>9, <2>1 DEF Boarders, Boards
  <2>. QED  BY <1>1, <2>1, <2>2
<1>. QED  BY <1>4, <1>6, <1>7, <1>8, <1>9 DEF MayOrder

\* A beat leaves a fight that loads again, but for its two exceptions.
LEMMA BeatLoads ==
  ASSUME NEW e, e \in FightState, ValidFtlBody(e), e.result = NoResult, Warned(e),
         NEW order, MayOrder(e, order), NEW d \in Beat(e, order)
  PROVE  /\ Settled(d) /\ d.beat = e.beat + 1
         /\ ValidCloak(d) \/ (~Flying(d) /\ d.cloak + 1 = d.beat)
         /\ Boarders(d) /\ Warned(d)
<1>1. PICK c \in Ordered(OpenBeat(e), order) : d \in IF Flying(c) THEN Flies(c) ELSE {c}
  BY DEF Beat
<1>2. /\ Midway(c) /\ c.beat = e.beat + 1
      /\ c.cloak >= c.beat => ValidCloak(c)
      /\ Cloak(c) /\ Boarders(c)
      /\ ~Flying(c) /\ c.result = NoResult => c.board = "lost"
  BY OrderedFacts
<1>3. CASE Flying(c)
  <2>1. /\ Settled(d) /\ ValidCloak(d)
        /\ d.faction = c.faction /\ d.beat = c.beat /\ d.board = c.board /\ d.rallied = c.rallied
        /\ d.boarders = "none" => c.boarders = "none" /\ ~(Boards(c) /\ c.beat = WarnBeat)
    BY <1>1, <1>2, <1>3, FliesFacts
  <2>2. Boarders(d)
    BY <1>2, <1>3, <2>1, FightBounds DEF Boarders, Boards, Flying
  <2>3. Warned(d)
    BY <2>1 DEF Warned, Boards
  <2>. QED  BY <1>2, <2>1, <2>2, <2>3
<1>4. CASE ~Flying(c)
  <2>1. d = c
    BY <1>1, <1>4
  <2>2. Settled(d)
    BY <1>2, <1>4, <2>1, EndedFacts
  <2>3. Warned(d)
    BY <1>2, <1>4, <2>1 DEF Warned, Flying, Midway, Steady
  <2>. QED  BY <1>2, <1>4, <2>1, <2>2, <2>3 DEF Cloak
<1>. QED  BY <1>3, <1>4

-----------------------------------------------------------------------------
(* The fight. *)

\* What holds in every state: the fight loads, but for the two exceptions, and the crew of one
\* that stands on the beat of the warning without it is down.
FightInv ==
  /\ fight \in FightState /\ fight.beat <= LastBeat
  /\ BeatsLoadButTwo
  /\ Warned(fight)

\* A fight as it starts.
LEMMA FightStarts == CrewFightInit => FightInv
<1>. SUFFICES ASSUME CrewFightInit PROVE FightInv
  OBVIOUS
<1>1. PICK faction \in Factions, twist \in Twists, hull \in StartHulls, ready \in {{}, Moves}, aim \in SUBSET Guns :
        /\ aim # {} => twist = "escort"
        /\ fight = NewFight(faction, twist, hull, ready, aim)
  BY DEF CrewFightInit
<1>. DEFINE freighter == IF twist = "escort" THEN FreighterHull ELSE 0
<1>2. /\ hull \in 1 .. Hull /\ ready \in SUBSET Moves /\ freighter \in Nat
      /\ (twist = "escort" => freighter > 0) /\ EnemyHull \in 0 .. EnemyHull /\ EnemyHull > 0
      /\ Layers \in Nat /\ WarnBeat \in Nat /\ WarnBeat > 0 /\ HoldoutBeats \in Nat /\ HoldoutBeats > 0
      /\ LastBeat \in Nat /\ RegrowMax \in Nat
  <2>1. StartHulls \subseteq 1 .. Hull /\ EnemyHull \in Nat \ {0} /\ FreighterHull \in Nat \ {0}
    BY CrewFightAssumption
  <2>2. /\ Layers \in Nat /\ WarnBeat \in Nat /\ WarnBeat > 0 /\ HoldoutBeats \in Nat
        /\ HoldoutBeats > 0 /\ LastBeat \in Nat /\ RegrowMax \in Nat
    BY CrewFightAssumption
  <2>. QED  BY <2>1, <2>2
<1>. HIDE DEF freighter
<1>3. fight = [faction |-> faction, twist |-> twist, beat |-> 0, phase |-> "combat", result |-> NoResult,
               hull |-> hull, layers |-> Layers, over |-> 0, ready |-> ready, cast |-> {},
               ehull |-> EnemyHull, wave |-> 1, cloak |-> 0, regrown |-> 0,
               aim |-> aim, freighter |-> freighter,
               boarders |-> "none", board |-> "unused", rallied |-> FALSE]
  BY <1>1 DEF NewFight, freighter
<1>4. fight \in FightState
  BY <1>2, <1>3 DEF FightState
<1>5. /\ fight.faction = faction /\ fight.twist = twist /\ fight.beat = 0 /\ fight.phase = "combat"
      /\ fight.result = NoResult /\ fight.hull = hull /\ fight.layers = Layers /\ fight.over = 0
      /\ fight.ready = ready /\ fight.cast = {} /\ fight.ehull = EnemyHull /\ fight.wave = 1
      /\ fight.cloak = 0 /\ fight.regrown = 0 /\ fight.aim = aim /\ fight.freighter = freighter
      /\ fight.boarders = "none" /\ fight.board = "unused" /\ fight.rallied = FALSE
  BY <1>3
<1>6. ValidPhase(fight) /\ ValidKitState(fight) /\ ValidTactics(fight)
  BY <1>2, <1>5 DEF ValidPhase, ValidKitState, ValidTactics
<1>7. ValidShields(fight)
  BY <1>2, <1>5 DEF ValidShields, ShieldCap
<1>8. ValidResult(fight)
  BY <1>2, <1>5, FightBounds DEF ValidResult, WaveHull
<1>9. ValidRegrowth(fight) /\ ValidCloak(fight) /\ ValidBoarders(fight)
  BY <1>2, <1>5 DEF ValidRegrowth, ValidCloak, ValidBoarders, Min2
<1>10. ValidTwist(fight)
  BY <1>1, <1>2, <1>5, FightBounds DEF ValidTwist, HeldOut, EscortAlive
<1>11. Warned(fight) /\ fight.beat <= LastBeat
  BY <1>2, <1>5 DEF Warned
<1>. QED  BY <1>4, <1>6, <1>7, <1>8, <1>9, <1>10, <1>11 DEF FightInv, BeatsLoadButTwo

\* A tap changes only what the next beat will cast.
LEMMA TapKeeps == ASSUME FightInv, NEW move \in Moves, Tap(move) PROVE FightInv'
<1>. DEFINE e == fight
            d == fight'
            t == e.cast \cup {move}
<1>1. /\ e \in FightState /\ e.beat <= LastBeat /\ Warned(e)
      /\ Flying(e) /\ ValidFtlBody(e) /\ move \in e.ready \ e.cast
      /\ d = [e EXCEPT !.cast = t]
  BY DEF FightInv, Tap
<1>2. t \in SUBSET Moves /\ t \subseteq e.ready
  BY <1>1 DEF FightState, ValidFtlBody, ValidKitState
<1>. HIDE DEF e, d, t
<1>3. d \in FightState
  BY <1>1, <1>2 DEF FightState
<1>4. /\ d.faction = e.faction /\ d.twist = e.twist /\ d.beat = e.beat /\ d.phase = e.phase
      /\ d.result = e.result /\ d.hull = e.hull /\ d.layers = e.layers /\ d.over = e.over
      /\ d.ready = e.ready /\ d.cast = t /\ d.ehull = e.ehull /\ d.wave = e.wave
      /\ d.cloak = e.cloak /\ d.regrown = e.regrown /\ d.aim = e.aim
      /\ d.freighter = e.freighter /\ d.boarders = e.boarders /\ d.board = e.board
      /\ d.rallied = e.rallied
  BY <1>1 DEF FightState
<1>5. ValidPhase(d) /\ ValidShields(d) /\ ValidResult(d) /\ ValidTactics(d)
  BY <1>1, <1>4 DEF ValidFtlBody, ValidPhase, ValidShields, ShieldCap, ValidResult, WaveHull, HeldOut,
                    ValidTactics
<1>6. ValidCloak(d) /\ ValidRegrowth(d) /\ ValidTwist(d) /\ ValidBoarders(d)
  BY <1>1, <1>4 DEF ValidFtlBody, ValidCloak, ValidRegrowth, ValidTwist, HeldOut, EscortAlive,
                    ValidBoarders, Boards
<1>7. ValidKitState(d)
  BY <1>2, <1>4 DEF ValidKitState
<1>8. Warned(d) /\ d.beat <= LastBeat
  BY <1>1, <1>4 DEF Warned, Boards
<1>. QED  BY <1>3, <1>5, <1>6, <1>7, <1>8 DEF FightInv, BeatsLoadButTwo, Warned, Boards, d

\* A beat of the fight.
LEMMA AdvanceKeeps ==
  ASSUME FightInv, NEW order \in {"none", "board", "rally", "concede"}, Advance(order)
  PROVE  FightInv'
<1>. DEFINE e == fight
            d == fight'
<1>1. /\ e \in FightState /\ Warned(e) /\ e.result = NoResult /\ e.beat < LastBeat
      /\ ValidFtlBody(e) /\ d \in Beat(e, order)
  BY DEF FightInv, Advance
<1>2. MayOrder(e, order)
  BY DEF Advance, MayOrder
<1>3. e.beat \in Nat /\ LastBeat \in Nat
  BY <1>1, FightBounds DEF FightState
<1>. HIDE DEF e, d
<1>4. /\ Settled(d) /\ d.beat = e.beat + 1
      /\ ValidCloak(d) \/ (~Flying(d) /\ d.cloak + 1 = d.beat)
      /\ Boarders(d) /\ Warned(d)
  BY <1>1, <1>2, BeatLoads
<1>5. d \in FightState /\ d.beat \in Nat /\ d.beat <= LastBeat /\ WarnBeat \in Nat
  BY <1>1, <1>3, <1>4, CrewFightAssumption DEF Settled
<1>6. ValidBoarders(d) \/ (d.board = "lost" /\ (d.rallied \/ d.result = "loss"))
  BY <1>4, <1>5 DEF Boarders, ValidBoarders
<1>7. /\ ValidPhase(d) /\ ValidShields(d) /\ ValidKitState(d) /\ ValidResult(d)
      /\ ValidRegrowth(d) /\ ValidTwist(d) /\ ValidTactics(d)
  BY <1>4 DEF Settled
<1>. QED  BY <1>4, <1>5, <1>6, <1>7 DEF FightInv, BeatsLoadButTwo, d

\* The invariant holds in every state.
THEOREM FightAlways == CrewFightSpec => []FightInv
<1>1. FightInv /\ [CrewFightNext]_fight => FightInv'
  <2>. SUFFICES ASSUME FightInv, [CrewFightNext]_fight PROVE FightInv'
    OBVIOUS
  <2>1. CASE UNCHANGED fight
    BY <2>1 DEF FightInv, BeatsLoadButTwo, Warned, Boards, Flying, ValidCloak, ValidBoarders,
                ValidPhase, ValidShields, ShieldCap, ValidKitState, ValidResult, WaveHull, HeldOut,
                ValidRegrowth, ValidTwist, EscortAlive, ValidTactics
  <2>2. CASE \E order \in {"none", "board", "rally", "concede"} : Advance(order)
    BY <2>2, AdvanceKeeps
  <2>3. CASE \E move \in Moves : Tap(move)
    BY <2>3, TapKeeps
  <2>. QED  BY <2>1, <2>2, <2>3 DEF CrewFightNext
<1>. QED  BY <1>1, FightStarts, PTL DEF CrewFightSpec

\* A fight is of one of the factions' kinds, and every part of it one of its values: what
\* startFtlEncounter makes and advanceFtlEncounter leaves of it.
THEOREM FightTypesKept == CrewFightSpec => []CrewFightTypeOK
<1>1. FightInv => CrewFightTypeOK
  BY FightBounds DEF FightInv, FightState, CrewFightTypeOK
<1>. QED  BY <1>1, FightAlways, PTL

\* However long the fight, whatever is ordered and whatever the dice decide: validFtlBody
\* accepts what advanceFtlEncounter and applyFtlCommand leave, but for a cloak on its last
\* beat and a boarding thrown back on the beat of the boarders' warning.
THEOREM BeatsAlwaysLoadButTwo == CrewFightSpec => []BeatsLoadButTwo
<1>1. FightInv => BeatsLoadButTwo
  BY DEF FightInv
<1>. QED  BY <1>1, FightAlways, PTL
=============================================================================

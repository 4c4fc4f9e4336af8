------------------------------ MODULE Delivery ------------------------------
(***************************************************************************)
(* How Warp Crew delivers what was bought (apps/warpcrew/src/core,         *)
(* purchases.js and client.js): the tabs of one device, the provider's     *)
(* incomplete purchases, the server's grants, and the device slot.         *)
(*                                                                         *)
(* A tab has two flows, the one of buy() and the one of serverSync(), each *)
(* with one purchase in hand at a time; each call of the server or of the  *)
(* provider is a step, after which anything may have happened.  The state  *)
(* of the player is how often it holds what each token bought.             *)
(* Definitions marked "Fault" are bugs the properties are tried against;   *)
(* nothing uses them.                                                      *)
(***************************************************************************)
EXTENDS Naturals, FiniteSets

CONSTANTS
  Tabs,
  Bought,       \* provider tokens
  NoTab, NoToken

ASSUME DeliveryAssumption == NoTab \notin Tabs /\ NoToken \notin Bought

Flows == Tabs \X {"buy", "sync"}
TabOf(f) == f[1]

VARIABLES
  provider,     \* what the provider holds of each token
  granted,      \* tokens the server has minted a grant for
  claimed,      \* tokens whose grant is claimed
  slot,         \* the device slot
  running,      \* the tabs that are open
  leader,       \* the tab with the lock
  state,        \* the player in each tab
  flow,         \* where each flow is
  reported,     \* claims reported as claimed and not applied
  mishaps       \* claims whose answer was lost, or whose claimer died before it saved

server == <<granted, claimed>>
tabs == <<running, leader>>
deliveryVars == <<provider, server, slot, tabs, state, flow, reported, mishaps>>

Flow == [pc : {"idle", "verify", "verified", "asked", "won", "saving", "swapped", "complete"},
         token : Bought \cup {NoToken}]
IdleFlow == [pc |-> "idle", token |-> NoToken]

DeliveryInit ==
  /\ provider = [k \in Bought |-> "none"]
  /\ granted = {} /\ claimed = {}
  /\ slot = [k \in Bought |-> 0]
  /\ running = {} /\ leader = NoTab
  /\ state = [t \in Tabs |-> slot]
  /\ flow = [f \in Flows |-> IdleFlow]
  /\ reported = {} /\ mishaps = {}

\* A step of a flow that ends it, or goes on; what else the step leaves alone is its own.
Goes(f, pc) == flow' = [flow EXCEPT ![f].pc = pc]
Stops(f) == flow' = [flow EXCEPT ![f] = IdleFlow]

CanApply(f) == leader = TabOf(f)

-----------------------------------------------------------------------------
(* Tabs. *)

\* A tab opens with the slot, and leads if nobody does.
OpenTab(t) ==
  /\ t \notin running
  /\ running' = running \cup {t}
  /\ leader' = IF leader = NoTab THEN t ELSE leader
  /\ state' = [state EXCEPT ![t] = slot]
  /\ UNCHANGED <<provider, server, slot, flow, reported, mishaps>>

\* A claim this flow has won on the server and not yet saved.
Unsaved(f) == flow[f].pc \in {"won", "saving", "swapped"}

\* The page dies; its lock is free.
CloseTab(t) ==
  LET mine == {f \in Flows : TabOf(f) = t}
  IN  /\ t \in running
      /\ running' = running \ {t}
      /\ leader' = IF leader = t THEN NoTab ELSE leader
      /\ mishaps' = mishaps \cup {flow[f].token : f \in {g \in mine : Unsaved(g)}}
      /\ flow' = [f \in Flows |-> IF f \in mine THEN IdleFlow ELSE flow[f]]
      /\ UNCHANGED <<provider, server, slot, state, reported>>

\* "Play here": the lock is stolen or free, and the slot is read again, which
\* a save under way sees as a swapped state.
PlayHere(t) ==
  /\ t \in running /\ leader # t
  /\ leader' = t
  /\ state' = [state EXCEPT ![t] = slot]
  /\ flow' = [f \in Flows |->
                IF TabOf(f) = t /\ flow[f].pc = "saving"
                THEN [flow[f] EXCEPT !.pc = "swapped"] ELSE flow[f]]
  /\ UNCHANGED <<provider, server, slot, running, reported, mishaps>>

Autosave(t) ==
  /\ leader = t
  /\ slot' = state[t]
  /\ UNCHANGED <<provider, server, tabs, state, flow, reported, mishaps>>

-----------------------------------------------------------------------------
(* The flows. *)

Begin(f, k, pc) ==
  /\ flow[f].pc = "idle" /\ CanApply(f)
  /\ flow' = [flow EXCEPT ![f] = [pc |-> pc, token |-> k]]
  /\ UNCHANGED <<server, slot, tabs, state, reported, mishaps>>

\* buy: the checkout succeeded, the receipt is verified next.
Checkout(f, k) ==
  /\ f[2] = "buy"
  /\ provider[k] = "none" /\ provider' = [provider EXCEPT ![k] = "incomplete"]
  /\ Begin(f, k, "verify")

\* recover: an incomplete purchase the provider hands back.
RecoverPurchase(f, k) ==
  /\ f[2] = "sync"
  /\ provider[k] = "incomplete" /\ Begin(f, k, "verify")
  /\ UNCHANGED provider

\* claimPending: a grant of the list the server gave.
Pending(f, k) ==
  /\ f[2] = "sync"
  /\ k \in granted \ claimed /\ Begin(f, k, "verified")
  /\ UNCHANGED provider

\* The server records the receipt and mints; it may refuse for now, and its
\* answer may be lost.
VerifyPurchase(f) ==
  LET k == flow[f].token
  IN  /\ flow[f].pc = "verify"
      /\ granted' \in {granted, granted \cup {k}}
      /\ \/ k \in granted' /\ Goes(f, "verified")
         \/ Stops(f)
      /\ UNCHANGED <<provider, claimed, slot, tabs, state, reported, mishaps>>

\* claim: only a tab that can apply a grant asks for it.
AskClaim(f) ==
  /\ flow[f].pc = "verified"
  /\ IF CanApply(f) THEN Goes(f, "asked") ELSE Stops(f)
  /\ UNCHANGED <<provider, server, slot, tabs, state, reported, mishaps>>

\* Fault: a retry is answered as the first attempt was.
ServerClaimsAgain(f) ==
  LET k == flow[f].token
  IN  /\ flow[f].pc = "asked"
      /\ claimed' = claimed \cup {k}
      /\ Goes(f, "won")
      /\ UNCHANGED <<provider, granted, slot, tabs, state, reported, mishaps>>

\* Each attempt has a commandId of its own: of two that arrive one wins, the
\* other learns "already_claimed", and an answer may be lost.
ServerClaims(f) ==
  LET k == flow[f].token
  IN  /\ flow[f].pc = "asked"
      /\ claimed' = claimed \cup {k}
      /\ IF k \in claimed
         THEN /\ Goes(f, "complete") \/ Stops(f)
              /\ UNCHANGED mishaps
         ELSE \/ Goes(f, "won") /\ UNCHANGED mishaps
              \/ Stops(f) /\ mishaps' = mishaps \cup {k}
      /\ UNCHANGED <<provider, granted, slot, tabs, state, reported>>

\* Fault: a refused grant is not reported.
ApplySilently(f) ==
  LET k == flow[f].token
  IN  /\ flow[f].pc = "won"
      /\ IF CanApply(f)
         THEN state' = [state EXCEPT ![TabOf(f)][k] = @ + 1] /\ Goes(f, "saving")
         ELSE Stops(f) /\ UNCHANGED state
      /\ UNCHANGED <<provider, server, slot, tabs, reported, mishaps>>

\* applyGrant: refused, and reported, where the tab no longer leads.
Apply(f) ==
  LET k == flow[f].token
  IN  /\ flow[f].pc = "won"
      /\ IF CanApply(f)
         THEN /\ state' = [state EXCEPT ![TabOf(f)][k] = @ + 1]
              /\ Goes(f, "saving") /\ UNCHANGED reported
         ELSE reported' = reported \cup {k} /\ Stops(f) /\ UNCHANGED state
      /\ UNCHANGED <<provider, server, slot, tabs, mishaps>>

\* saveDurably: the slot is written, or the claim is reported lost.
SaveDurably(f) ==
  LET t == TabOf(f)
  IN  /\ flow[f].pc \in {"saving", "swapped"}
      /\ \/ flow[f].pc = "saving" /\ CanApply(f) /\ slot' = state[t] /\ Goes(f, "complete") /\ UNCHANGED reported
         \/ reported' = reported \cup {flow[f].token} /\ Stops(f) /\ UNCHANGED slot
      /\ UNCHANGED <<provider, server, tabs, state, mishaps>>

\* payments.complete, for what the provider holds; a failure is retried at a boot.
Complete(f) ==
  LET k == flow[f].token
  IN  /\ flow[f].pc = "complete"
      /\ provider' \in {provider, [provider EXCEPT ![k] = IF @ = "none" THEN @ ELSE "done"]}
      /\ Stops(f)
      /\ UNCHANGED <<server, slot, tabs, state, reported, mishaps>>

DeliveryNext ==
  \/ \E t \in Tabs : OpenTab(t) \/ CloseTab(t) \/ PlayHere(t) \/ Autosave(t)
  \/ \E f \in Flows :
       \/ \E k \in Bought : Checkout(f, k) \/ RecoverPurchase(f, k) \/ Pending(f, k)
       \/ VerifyPurchase(f) \/ AskClaim(f) \/ ServerClaims(f)
       \/ Apply(f) \/ SaveDurably(f) \/ Complete(f)

DeliverySpec == DeliveryInit /\ [][DeliveryNext]_deliveryVars

-----------------------------------------------------------------------------
(* Properties. *)

DeliveryTypeOK ==
  /\ provider \in [Bought -> {"none", "incomplete", "done"}]
  /\ claimed \subseteq granted /\ granted \subseteq Bought
  /\ slot \in [Bought -> Nat] /\ state \in [Tabs -> [Bought -> Nat]]
  /\ running \subseteq Tabs /\ leader \in running \cup {NoTab}
  /\ flow \in [Flows -> Flow]
  /\ reported \subseteq Bought /\ mishaps \subseteq Bought

\* What was bought is never applied twice, whichever tabs and flows race to
\* claim it and however often they die, reload the slot and try again.
AppliedOnce ==
  \A k \in Bought : slot[k] <= 1 /\ \A t \in Tabs : state[t][k] <= 1

\* A claimed grant is in the slot, or in the leader's player, or under way in a
\* flow, or was reported as lost; the one exception is the window between the
\* server's claim and the save, in which the claimer dies or its answer is lost.
ClaimAccounted ==
  \A k \in claimed :
    \/ slot[k] = 1 \/ k \in reported \cup mishaps
    \/ \E f \in Flows : flow[f].token = k /\ Unsaved(f)
=============================================================================

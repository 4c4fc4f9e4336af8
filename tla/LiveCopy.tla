------------------------------ MODULE LiveCopy ------------------------------
(***************************************************************************)
(* The two players of a Warp Crew tab: the one the core's loop holds       *)
(* (core), and the live copy main.js draws from and edits (live).          *)
(*                                                                         *)
(* Every publication of the loop replaces the live copy.  The acts of the  *)
(* voyage go through the engine; the remaining handlers edit the live copy *)
(* and hand it back whole with persist().  Some of them wait in between:   *)
(* a handler is one run of handleAction, or of the start of the page, and  *)
(* nothing keeps another from running while it waits.                      *)
(* Definitions marked "Fault" are bugs the properties are tried against.   *)
(***************************************************************************)
EXTENDS Naturals, FiniteSets

CONSTANTS
  Handlers,
  Paid,         \* grants: what was bought, here or elsewhere
  Recruits,
  MaxActs       \* bound: the progress of the player

ASSUME LiveAssumption == MaxActs \in Nat

VARIABLES
  core,         \* the player of the loop
  live,         \* main.js's player
  handler,      \* where each handler waits, and the player a checkout took along
  stage,        \* of each grant
  saved,        \* the player in the device slot
  helm,         \* whether this tab leads
  overlapped    \* grants applied while a checkout was waiting

liveVars == <<core, live, handler, stage, saved, helm, overlapped>>

Skipper == [packs : SUBSET Paid, hires : SUBSET Recruits, progress : 0..MaxActs]
NewSkipper == [packs |-> {}, hires |-> {}, progress |-> 0]
HandlerState == [at : {"idle", "checkout", "buying", "notifying"}, copy : Skipper]
Vacant == [at |-> "idle", copy |-> NewSkipper]

LiveInit ==
  /\ core = NewSkipper /\ live = NewSkipper /\ saved = NewSkipper
  /\ handler = [d \in Handlers |-> Vacant]
  /\ stage = [k \in Paid |-> "none"]
  /\ helm \in BOOLEAN
  /\ overlapped = {}

Sits(d, at, copy) == handler' = [handler EXCEPT ![d] = [at |-> at, copy |-> copy]]
Leaves(d) == handler' = [handler EXCEPT ![d] = Vacant]

\* Fault: the live copy does not follow the core.
PublishedUnseen(p) == core' = p /\ UNCHANGED live

\* A publication, and the subscriber that makes the live copy follow it.
Published(p) == core' = p /\ live' = p

\* Engine `set`: a shallower player is refused.
SetAccepted(next) == next.progress >= core.progress

\* wc.commit and persist: what is refused leaves the core's player in both.
Persisted(next) == Published(IF helm /\ SetAccepted(next) THEN next ELSE core)

-----------------------------------------------------------------------------
(* Handlers. *)

\* Taps that only look, acts refused, and render's prepare: the live copy
\* starts again from the core's player.
Look ==
  /\ live' = core
  /\ UNCHANGED <<core, handler, stage, saved, helm, overlapped>>

\* An act of the session, through the engine.
SessionAct ==
  /\ helm /\ core.progress < MaxActs
  /\ Published([core EXCEPT !.progress = @ + 1])
  /\ UNCHANGED <<handler, stage, saved, helm, overlapped>>

SignedOn(m) == [core EXCEPT !.hires = @ \cup {m}]

\* A direct handler that does not wait: a contract, a hull, luck, a berth.
HireAtOnce(m) ==
  /\ m \notin core.hires
  /\ Persisted(SignedOn(m))
  /\ UNCHANGED <<handler, stage, saved, helm, overlapped>>

\* One that does: the live copy is edited, or the hire is refused, and then the
\* reminders are refreshed.
HireAndNotify(d, m) ==
  /\ handler[d].at = "idle" /\ m \notin core.hires
  /\ live' \in {core, SignedOn(m)}
  /\ Sits(d, "notifying", NewSkipper)
  /\ UNCHANGED <<core, stage, saved, helm, overlapped>>

\* Back from the reminders, the handler persists the live copy as it is now.
Notified(d) ==
  /\ handler[d].at = "notifying"
  /\ Persisted(live)
  /\ Leaves(d)
  /\ UNCHANGED <<stage, saved, helm, overlapped>>

\* A subscription is bought, kept, cancelled or read again: the handler gives
\* the player away and waits for the platform and the server.
OpenCheckout(d) ==
  /\ handler[d].at = "idle"
  /\ live' = core
  /\ Sits(d, "checkout", core)
  /\ UNCHANGED <<core, stage, saved, helm, overlapped>>

\* Whatever the answer, the player given away comes back and is persisted, but
\* not after an error; the start of the page goes on to the reminders.
CloseCheckout(d) ==
  /\ handler[d].at = "checkout"
  /\ \/ Persisted(handler[d].copy)
     \/ UNCHANGED <<core, live>>
  /\ \/ Leaves(d)
     \/ Sits(d, "notifying", NewSkipper)
  /\ UNCHANGED <<stage, saved, helm, overlapped>>

OpenPurchase(d) ==
  /\ handler[d].at = "idle"
  /\ live' = core
  /\ Sits(d, "buying", NewSkipper)
  /\ UNCHANGED <<core, stage, saved, helm, overlapped>>

\* A purchase ended: the core's player is read again; the mark of a used offer that
\* may be added is no part of Skipper.
ClosePurchase(d) ==
  /\ handler[d].at = "buying"
  /\ live' = core
  /\ \/ Sits(d, "notifying", NewSkipper)
     \/ Leaves(d)
  /\ UNCHANGED <<core, stage, saved, helm, overlapped>>

-----------------------------------------------------------------------------
(* Grants, saves and the lead. *)

\* Paid for by buy(), on another device, or given by support.
Pay(k) ==
  /\ stage[k] = "none"
  /\ stage' = [stage EXCEPT ![k] = "paid"]
  /\ UNCHANGED <<core, live, handler, saved, helm, overlapped>>

\* applyGrant: claimed and applied, and then saved.
ApplyGrant(k) ==
  /\ stage[k] = "paid" /\ helm
  /\ Published([core EXCEPT !.packs = @ \cup {k}])
  /\ stage' = [stage EXCEPT ![k] = "saving"]
  /\ overlapped' = IF \E d \in Handlers : handler[d].at = "checkout" THEN overlapped \cup {k} ELSE overlapped
  /\ UNCHANGED <<handler, saved, helm>>

\* saveDurably wrote the slot: the purchase is completed.
CompleteGrant(k) ==
  /\ stage[k] = "saving" /\ helm
  /\ saved' = core
  /\ stage' = [stage EXCEPT ![k] = "completed"]
  /\ UNCHANGED <<core, live, handler, helm, overlapped>>

\* It did not: the claim is reported as lost.
GrantLost(k) ==
  /\ stage[k] = "saving"
  /\ stage' = [stage EXCEPT ![k] = "lost"]
  /\ UNCHANGED <<core, live, handler, saved, helm, overlapped>>

RoutineSave ==
  /\ helm /\ saved' = core
  /\ UNCHANGED <<core, live, handler, stage, helm, overlapped>>

\* Another tab takes over.
LoseHelm ==
  /\ helm /\ helm' = FALSE
  /\ UNCHANGED <<core, live, handler, stage, saved, overlapped>>

\* "Play here": the slot, in which the other tab saved, is loaded; a save under
\* way sees its state swapped.
TakeHelm ==
  /\ ~helm /\ helm' = TRUE
  /\ saved' \in {saved} \cup {p \in {[saved EXCEPT !.progress = @ + 1]} : p.progress <= MaxActs}
  /\ Published(saved')
  /\ stage' = [k \in Paid |-> IF stage[k] = "saving" THEN "lost" ELSE stage[k]]
  /\ UNCHANGED <<handler, overlapped>>

-----------------------------------------------------------------------------
LiveNext ==
  \/ Look \/ SessionAct \/ RoutineSave \/ LoseHelm \/ TakeHelm
  \/ \E m \in Recruits : HireAtOnce(m)
  \/ \E d \in Handlers :
       \/ Notified(d) \/ OpenCheckout(d) \/ CloseCheckout(d) \/ OpenPurchase(d) \/ ClosePurchase(d)
       \/ \E m \in Recruits : HireAndNotify(d, m)
  \/ \E k \in Paid : Pay(k) \/ ApplyGrant(k) \/ CompleteGrant(k) \/ GrantLost(k)

LiveSpec == LiveInit /\ [][LiveNext]_liveVars

-----------------------------------------------------------------------------
(* Properties. *)

\* The state keeps its types (the shapes of main.js's player and of the loop).
LiveTypeOK ==
  /\ core \in Skipper /\ live \in Skipper /\ saved \in Skipper
  /\ handler \in [Handlers -> HandlerState]
  /\ stage \in [Paid -> {"none", "paid", "saving", "completed", "lost"}]
  /\ helm \in BOOLEAN /\ overlapped \subseteq Paid

\* Handlers may wait for reminders and purchases in any number and any order
\* without undoing a delivery: a completed purchase is in the player and in the
\* slot, unless a checkout of the subscription was open when it was applied
\* (core/purchases.js completes "only when its grant was applied here and
\* saved"; the subscriber of main.js keeps the live copy from going stale).
KeptUnlessOverlapped ==
  \A k \in Paid \ overlapped : stage[k] = "completed" => k \in core.packs \cap saved.packs

\* The screen is ahead of the core only while a handler waits for the reminders:
\* with no such handler, what is drawn is what would be saved.
ScreenFollows ==
  (\A d \in Handlers : handler[d].at # "notifying") => live = core

\* "Resolves true only when the grant is in the player and saved"
\* (core/client.js, applyGrant), and only then is a purchase completed.
PurchaseKept == \A k \in Paid : stage[k] = "completed" => k \in core.packs
=============================================================================

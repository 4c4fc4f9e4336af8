------------------------------- MODULE Grants -------------------------------
(***************************************************************************)
(* The one reward primitive of the server (rewards/mint.ts) and the        *)
(* commands around it (features/grants/server.ts, evaluatePlayer of        *)
(* features/achievements/server.ts): grants minted by administrators, for  *)
(* a cohort and by achievements, codes redeemed, and grants claimed.       *)
(*                                                                         *)
(* Commands that can meet each other inside a transaction are modelled as  *)
(* transactions of several statements: what one writes is seen when it     *)
(* commits, and the locks it took are held until then.  The others run in  *)
(* one step, when the lock they wait for is free.  A grant is a player and *)
(* a key.  A code's key is its grant's key (`code:<campaign>:<hash>`), an  *)
(* achievement's is `achievement:<id>`.  Definitions marked "Fault" are    *)
(* bugs the properties are tried against; nothing uses them.               *)
(***************************************************************************)
EXTENDS Naturals, FiniteSets

CONSTANTS
  Players,         \* numbered in the order of their keys
  Codes,           \* one campaign each
  CodeCapacity,    \* max_redemptions_per_code
  Awards,          \* achievements with client-claimed criteria
  Wanted,          \* amounts of premium an achievement may be worth
  Budgets,         \* client-claim budgets that may be published
  CohortKey,       \* the key of the cohort's grants
  AdminKeys,       \* keys administrators mint under
  ClaimKeys,       \* bound: the keys players claim
  Achievers,       \* bound: the players whose achievements are evaluated
  Txns,            \* transactions under way at once
  Free, NoPlayer, NoCode

Keys == Codes \cup Awards \cup {CohortKey}

ASSUME GrantsAssumption ==
  /\ Players \subseteq Nat /\ IsFiniteSet(Players) /\ NoPlayer \notin Players
  /\ AdminKeys \subseteq Keys /\ ClaimKeys \subseteq Keys /\ Achievers \subseteq Players
  /\ NoCode \notin Codes /\ Free \notin Txns
  /\ CodeCapacity \in Nat \ {0}
  /\ Wanted \subseteq Nat /\ Budgets \subseteq Nat

VARIABLES
  grants,       \* the grants, as committed
  claims,       \* grant_claims: the grants claimed
  unlocks,      \* achievement_unlocks
  usedBudget,   \* the sum of premium_amount over a player's claim-sourced grants
  budget,       \* clientClaimPremiumBudget of the published document
  highestBudget,\* the highest budget published so far
  issued,       \* codes whose campaign was created
  redemptions,  \* codes.redemptions
  redeemed,     \* code_redemptions
  paid,         \* how often a grant was answered "claimed" or "redeemed"
  txn,          \* the transactions
  playerLock,   \* the players' advisory locks
  codeLock,     \* the locks on the rows of codes
  gameLock      \* the game's advisory lock

books == <<grants, claims, unlocks, usedBudget, redemptions, redeemed, paid>>
desk == <<budget, highestBudget, issued>>
locks == <<playerLock, codeLock, gameLock>>
grantsVars == <<books, desk, txn, locks>>

Txn ==
  [kind : {"idle", "redeem", "reserved", "evaluate", "cohort"},
   player : Players \cup {NoPlayer}, code : Codes \cup {NoCode},
   seen : SUBSET Players,          \* players a cohort grant has looked at
   keys : SUBSET Awards,           \* achievements unlocked so far
   mints : SUBSET (Players \X Keys),
   allowed : Nat, got : Nat]       \* the budget as read, the premium minted so far

IdleTxn ==
  [kind |-> "idle", player |-> NoPlayer, code |-> NoCode, seen |-> {}, keys |-> {},
   mints |-> {}, allowed |-> 0, got |-> 0]

GrantsInit ==
  /\ grants = {} /\ claims = {} /\ unlocks = {}
  /\ usedBudget = [p \in Players |-> 0]
  /\ budget \in Budgets /\ highestBudget = budget
  /\ issued = {}
  /\ redemptions = [c \in Codes |-> 0] /\ redeemed = {}
  /\ paid = [g \in Players \X Keys |-> 0]
  /\ txn = [t \in Txns |-> IdleTxn]
  /\ playerLock = [p \in Players |-> Free]
  /\ codeLock = [c \in Codes |-> Free]
  /\ gameLock = Free

-----------------------------------------------------------------------------
(* Transactions. *)

\* Commit or rollback: the advisory and row locks go with the transaction.
Release(t) ==
  /\ playerLock' = [p \in Players |-> IF playerLock[p] = t THEN Free ELSE playerLock[p]]
  /\ codeLock' = [c \in Codes |-> IF codeLock[c] = t THEN Free ELSE codeLock[c]]
  /\ gameLock' = IF gameLock = t THEN Free ELSE gameLock

End(t) == txn' = [txn EXCEPT ![t] = IdleTxn] /\ Release(t)

\* A statement fails, its lock_timeout passes or the process dies.
Abort(t) ==
  /\ txn[t].kind # "idle"
  /\ End(t)
  /\ UNCHANGED <<books, desk>>

-----------------------------------------------------------------------------
(* Claims.  A refusal (frozen, expired, unknown) changes nothing and is    *)
(* not a step.                                                             *)

\* GrantsClaim and GrantsClaimBatch; a key that is unknown or claimed changes nothing.
Claim(p, keys) ==
  LET claimed == {g \in {p} \X keys : g \in grants \ claims}
  IN  /\ playerLock[p] = Free
      /\ claimed # {}
      /\ claims' = claims \cup claimed
      /\ paid' = [g \in DOMAIN paid |-> IF g \in claimed THEN paid[g] + 1 ELSE paid[g]]
      /\ UNCHANGED <<grants, unlocks, usedBudget, redemptions, redeemed, desk, txn, locks>>

AdminGrant(p, k) ==
  /\ playerLock[p] = Free
  /\ grants' = grants \cup {<<p, k>>}
  /\ UNCHANGED <<claims, unlocks, usedBudget, redemptions, redeemed, paid, desk, txn, locks>>

-----------------------------------------------------------------------------
(* Codes.  An answer that writes nothing but a bad guess (locked for an     *)
(* hour of those, unknown, expired, for registered players only, already   *)
(* redeemed) ends the command there and is not a step.                     *)

CreateCampaign(c) ==
  /\ gameLock = Free
  /\ c \notin issued
  /\ issued' = issued \cup {c}
  /\ UNCHANGED <<books, budget, highestBudget, txn, locks>>

RedeemLook(t, p, c) ==
  /\ txn[t].kind = "idle" /\ playerLock[p] = Free
  /\ c \in issued
  /\ <<c, p>> \notin redeemed
  /\ txn' = [txn EXCEPT ![t] = [IdleTxn EXCEPT !.kind = "redeem", !.player = p, !.code = c]]
  /\ playerLock' = [playerLock EXCEPT ![p] = t]
  /\ UNCHANGED <<books, desk, codeLock, gameLock>>

\* Fault: the limit is compared with what was read, and counts one too many.
RedeemReservePastLimit(t) ==
  LET c == txn[t].code
  IN  /\ txn[t].kind = "redeem" /\ codeLock[c] = Free
      /\ txn' = [txn EXCEPT ![t].kind = "reserved"]
      /\ codeLock' = [codeLock EXCEPT ![c] = t]
      /\ UNCHANGED <<playerLock, gameLock, books, desk>>

\* The conditional UPDATE waits for the row, reads it as committed and keeps it.
RedeemReserve(t) ==
  LET c == txn[t].code
  IN  /\ txn[t].kind = "redeem" /\ codeLock[c] = Free
      /\ \/ /\ redemptions[c] < CodeCapacity
            /\ txn' = [txn EXCEPT ![t].kind = "reserved"]
            /\ codeLock' = [codeLock EXCEPT ![c] = t]
            /\ UNCHANGED <<playerLock, gameLock>>
         \/ redemptions[c] >= CodeCapacity /\ End(t)   \* exhausted
      /\ UNCHANGED <<books, desk>>

\* Fault: the redemption pays and leaves the grant to be claimed.
RedeemCommitUnclaimed(t) ==
  LET p == txn[t].player  c == txn[t].code
  IN  /\ txn[t].kind = "reserved"
      /\ <<p, c>> \notin claims
      /\ grants' = grants \cup {<<p, c>>}
      /\ redemptions' = [redemptions EXCEPT ![c] = @ + 1]
      /\ redeemed' = redeemed \cup {<<c, p>>}
      /\ paid' = [paid EXCEPT ![<<p, c>>] = @ + 1]
      /\ End(t)
      /\ UNCHANGED <<claims, unlocks, usedBudget, desk>>

\* Redeeming is the claim.  A grant an administrator minted under the same key
\* is claimed in its place; one already claimed fails the insert.
RedeemCommit(t) ==
  LET p == txn[t].player  c == txn[t].code
  IN  /\ txn[t].kind = "reserved"
      /\ <<p, c>> \notin claims
      /\ grants' = grants \cup {<<p, c>>}
      /\ claims' = claims \cup {<<p, c>>}
      /\ redemptions' = [redemptions EXCEPT ![c] = @ + 1]
      /\ redeemed' = redeemed \cup {<<c, p>>}
      /\ paid' = [paid EXCEPT ![<<p, c>>] = @ + 1]
      /\ End(t)
      /\ UNCHANGED <<unlocks, usedBudget, desk>>

-----------------------------------------------------------------------------
(* Achievements: evaluatePlayer, called by the player and by the outbox. *)

\* Fault: the evaluation relies on mintGrant's uniqueness and takes no lock.
EvaluateUnlocked(t, p) ==
  /\ txn[t].kind = "idle"
  /\ txn' = [txn EXCEPT ![t] = [IdleTxn EXCEPT !.kind = "evaluate", !.player = p, !.allowed = budget]]
  /\ UNCHANGED <<books, desk, locks>>

Evaluate(t, p) ==
  /\ txn[t].kind = "idle" /\ playerLock[p] = Free
  /\ txn' = [txn EXCEPT ![t] = [IdleTxn EXCEPT !.kind = "evaluate", !.player = p, !.allowed = budget]]
  /\ playerLock' = [playerLock EXCEPT ![p] = t]
  /\ UNCHANGED <<books, desk, codeLock, gameLock>>

Lesser(m, n) == IF m < n THEN m ELSE n

\* mintGrant of a claim-sourced grant: premium up to what the budget has left.
Capped(t, want) ==
  LET used == usedBudget[txn[t].player] + txn[t].got
  IN  Lesser(want, IF used < txn[t].allowed THEN txn[t].allowed - used ELSE 0)

UnlockAward(t, a, want) ==
  LET p == txn[t].player
  IN  /\ txn[t].kind = "evaluate"
      /\ <<p, a>> \notin unlocks /\ a \notin txn[t].keys
      /\ txn' = [txn EXCEPT ![t].keys = @ \cup {a}, ![t].mints = @ \cup {<<p, a>>},
                            ![t].got = @ + (IF <<p, a>> \in grants THEN 0 ELSE Capped(t, want))]
      /\ UNCHANGED <<books, desk, locks>>

EvaluateCommit(t) ==
  LET p == txn[t].player
  IN  /\ txn[t].kind = "evaluate"
      /\ grants' = grants \cup txn[t].mints
      /\ unlocks' = unlocks \cup ({p} \X txn[t].keys)
      /\ usedBudget' = [usedBudget EXCEPT ![p] = @ + txn[t].got]
      /\ End(t)
      /\ UNCHANGED <<claims, redemptions, redeemed, paid, desk>>

-----------------------------------------------------------------------------
(* The cohort grant: every matching player's lock, in one transaction.     *)

CohortBegin(t) ==
  /\ txn[t].kind = "idle" /\ gameLock = Free
  /\ txn' = [txn EXCEPT ![t] = [IdleTxn EXCEPT !.kind = "cohort"]]
  /\ gameLock' = t
  /\ UNCHANGED <<books, desk, playerLock, codeLock>>

\* The next player by key: outside the segment, or locked and minted for.
CohortVisit(t, p) ==
  /\ txn[t].kind = "cohort"
  /\ p \notin txn[t].seen /\ \A q \in Players : q < p => q \in txn[t].seen
  /\ \/ txn' = [txn EXCEPT ![t].seen = @ \cup {p}] /\ UNCHANGED playerLock
     \/ /\ playerLock[p] = Free
        /\ playerLock' = [playerLock EXCEPT ![p] = t]
        /\ txn' = [txn EXCEPT ![t].seen = @ \cup {p}, ![t].mints = @ \cup {<<p, CohortKey>>}]
  /\ UNCHANGED <<books, desk, codeLock, gameLock>>

CohortCommit(t) ==
  /\ txn[t].kind = "cohort" /\ txn[t].seen = Players
  /\ grants' = grants \cup txn[t].mints
  /\ End(t)
  /\ UNCHANGED <<claims, unlocks, usedBudget, redemptions, redeemed, paid, desk>>

-----------------------------------------------------------------------------
PublishBudget(b) ==
  /\ b # budget
  /\ budget' = b
  /\ highestBudget' = IF b > highestBudget THEN b ELSE highestBudget
  /\ UNCHANGED <<books, issued, txn, locks>>

TxnNext(t) ==
  \/ Abort(t)
  \/ \E p \in Players, c \in Codes : RedeemLook(t, p, c)
  \/ RedeemReserve(t)
  \/ RedeemCommit(t)
  \/ \E p \in Achievers : Evaluate(t, p)
  \/ \E a \in Awards, want \in Wanted : UnlockAward(t, a, want)
  \/ EvaluateCommit(t)
  \/ CohortBegin(t)
  \/ \E p \in Players : CohortVisit(t, p)
  \/ CohortCommit(t)

GrantsNext ==
  \/ \E t \in Txns : TxnNext(t)
  \/ \E p \in Players, keys \in SUBSET ClaimKeys : Claim(p, keys)
  \/ \E p \in Players, k \in AdminKeys : AdminGrant(p, k)
  \/ \E c \in Codes : CreateCampaign(c)
  \/ \E b \in Budgets : PublishBudget(b)

GrantsSpec == GrantsInit /\ [][GrantsNext]_grantsVars

-----------------------------------------------------------------------------
(* Properties. *)

GrantsTypeOK ==
  /\ grants \subseteq Players \X Keys /\ claims \subseteq grants
  /\ unlocks \subseteq Players \X Awards
  /\ usedBudget \in [Players -> Nat]
  /\ budget \in Nat /\ highestBudget \in Nat
  /\ issued \subseteq Codes
  /\ redemptions \in [Codes -> Nat] /\ redeemed \subseteq Codes \X Players
  /\ paid \in [Players \X Keys -> Nat]
  /\ txn \in [Txns -> Txn]
  /\ playerLock \in [Players -> Txns \cup {Free}]
  /\ codeLock \in [Codes -> Txns \cup {Free}]
  /\ gameLock \in Txns \cup {Free}

\* A code is redeemed by no more players than its campaign allows, and its
\* counter says how many (server.ts:276: the counter itself is the arbiter of
\* two players with different locks).
CodesCounted ==
  \A c \in Codes :
    /\ redemptions[c] = Cardinality({p \in Players : <<c, p>> \in redeemed})
    /\ redemptions[c] <= CodeCapacity

\* A grant pays once: whatever redemptions and claims, single or batched, with
\* whatever command ids, name its key, one of them is answered "claimed" or
\* "redeemed" (claimOne, grant_claims).
PaidOnce == \A g \in Players \X Keys : paid[g] = IF g \in claims THEN 1 ELSE 0

\* Premium that rests on what a client claims never passes the lifetime budget,
\* whichever evaluations run and fail at once, and however publications change
\* the budget meanwhile (mint.ts:80-95).
BudgetKept == \A p \in Players : usedBudget[p] <= highestBudget
=============================================================================

--------------------------- MODULE EconomyProofs ----------------------------
(***************************************************************************)
(* Theorems about what players are given and pay for.                      *)
(* Grants: that codes keep their capacity and their count, that a grant    *)
(* pays once, and that the claim budget holds.  Purchases: that a receipt, *)
(* a one-time pack and a bonus are delivered once, that recorded money is  *)
(* settled, and that batches never wait for each other in a circle.  For   *)
(* any numbers of players, codes, tokens, packs and transactions.          *)
(***************************************************************************)
EXTENDS Grants, Purchases, FiniteSetTheorems, WellFoundedInduction, TLAPS

-----------------------------------------------------------------------------
(* Grants. *)

-----------------------------------------------------------------------------
(* The inductive invariant.  What a transaction has read stays true as     *)
(* long as it holds the lock it read it under: the player's for what the   *)
(* player has redeemed and for the premium used, the code's row for its    *)
(* counter.                                                                *)

Holds(t, p) == p \in Players /\ playerLock[p] = t

\* Transactions of one player hold the player's lock, a reservation its code's row.
Locked ==
  \A t \in Txns :
    /\ txn[t].kind \in {"redeem", "reserved", "evaluate"} => Holds(t, txn[t].player)
    /\ txn[t].kind \in {"redeem", "reserved"} => txn[t].code \in Codes
    /\ txn[t].kind = "reserved" => codeLock[txn[t].code] = t

\* A redemption under way is the player's first of its code; a reservation has room.
RedeemsFresh ==
  \A t \in Txns :
    /\ txn[t].kind \in {"redeem", "reserved"} => <<txn[t].code, txn[t].player>> \notin redeemed
    /\ txn[t].kind = "reserved" => redemptions[txn[t].code] < CodeCapacity

\* What an evaluation has minted fits beside what was used before it.
WithinBudget ==
  /\ budget <= highestBudget
  /\ \A t \in Txns : txn[t].kind = "evaluate" =>
       /\ txn[t].allowed <= highestBudget
       /\ usedBudget[txn[t].player] + txn[t].got <= highestBudget

\* A claim pays from what its player may still use, which the budget's high mark bounds.
GrantsInv ==
  /\ GrantsTypeOK /\ Locked /\ RedeemsFresh /\ WithinBudget
  /\ CodesCounted /\ PaidOnce /\ BudgetKept

-----------------------------------------------------------------------------
(* What steps share. *)

\* A transaction not begun has its type.
LEMMA IdleTxnType == IdleTxn \in Txn
  BY DEF IdleTxn, Txn

\* A transaction ends: only its own locks go.
LEMMA EndsTxn ==
  ASSUME GrantsTypeOK, Locked, NEW t \in Txns, End(t)
  PROVE  /\ txn' \in [Txns -> Txn]
         /\ txn'[t] = IdleTxn /\ \A u \in Txns \ {t} : txn'[u] = txn[u]
         /\ playerLock' \in [Players -> Txns \cup {Free}]
         /\ codeLock' \in [Codes -> Txns \cup {Free}]
         /\ gameLock' \in Txns \cup {Free}
         /\ Locked'
<1>1. txn' \in [Txns -> Txn] /\ txn'[t] = IdleTxn /\ \A u \in Txns \ {t} : txn'[u] = txn[u]
  BY IdleTxnType DEF End, GrantsTypeOK
<1>2. /\ playerLock' \in [Players -> Txns \cup {Free}]
      /\ codeLock' \in [Codes -> Txns \cup {Free}]
      /\ gameLock' \in Txns \cup {Free}
  BY DEF End, Release, GrantsTypeOK
<1>3. /\ \A p \in Players : playerLock[p] # t => playerLock'[p] = playerLock[p]
      /\ \A c \in Codes : codeLock[c] # t => codeLock'[c] = codeLock[c]
  BY DEF End, Release
<1>4. Locked'
  <2> SUFFICES ASSUME NEW u \in Txns, txn'[u].kind # "idle"
               PROVE  /\ txn'[u].kind \in {"redeem", "reserved", "evaluate"} =>
                           txn'[u].player \in Players /\ playerLock'[txn'[u].player] = u
                      /\ txn'[u].kind \in {"redeem", "reserved"} => txn'[u].code \in Codes
                      /\ txn'[u].kind = "reserved" => codeLock'[txn'[u].code] = u
    BY <1>1 DEF Locked, Holds, IdleTxn
  <2>1. u # t /\ txn'[u] = txn[u]
    BY <1>1 DEF IdleTxn
  <2>2. txn[u].kind \in {"redeem", "reserved", "evaluate"} =>
          txn'[u].player \in Players /\ playerLock'[txn'[u].player] = u
    BY <2>1, <1>3 DEF Locked, Holds
  <2>3. txn[u].kind = "reserved" => codeLock'[txn'[u].code] = u
    BY <2>1, <1>3 DEF Locked
  <2> QED
    BY <2>1, <2>2, <2>3 DEF Locked
<1> QED
  BY <1>1, <1>2, <1>4

\* Of two transactions with a player's lock, the players differ.
LEMMA Apart ==
  ASSUME Locked, NEW t \in Txns, NEW u \in Txns, t # u,
         txn[t].kind \in {"redeem", "reserved", "evaluate"},
         txn[u].kind \in {"redeem", "reserved", "evaluate"}
  PROVE  txn[t].player # txn[u].player
  BY DEF Locked, Holds

Redeemers(c) == {p \in Players : <<c, p>> \in redeemed}

\* One more redemption of a code is one more redeemer of it, and none of another.
LEMMA RedeemersCounted ==
  ASSUME NEW c \in Codes, NEW p \in Players, <<c, p>> \notin redeemed,
         redeemed' = redeemed \cup {<<c, p>>}
  PROVE  /\ Cardinality(Redeemers(c)') = Cardinality(Redeemers(c)) + 1
         /\ \A d \in Codes \ {c} : Redeemers(d)' = Redeemers(d)
<1>1. IsFiniteSet(Redeemers(c))
  BY FS_Subset, GrantsAssumption DEF Redeemers, GrantsAssumption
<1>2. Redeemers(c)' = Redeemers(c) \cup {p} /\ p \notin Redeemers(c)
  BY DEF Redeemers
<1>3. \A d \in Codes \ {c} : Redeemers(d)' = Redeemers(d)
  BY DEF Redeemers
<1> QED
  BY <1>1, <1>2, <1>3, FS_AddElement

-----------------------------------------------------------------------------
(* The invariant, command by command. *)

\* At first nothing is reserved or granted.
LEMMA GrantsInitial == GrantsInit => GrantsInv
<1> SUFFICES ASSUME GrantsInit PROVE GrantsInv
  OBVIOUS
<1>1. GrantsTypeOK
  <2>1. budget \in Nat /\ highestBudget \in Nat
    BY GrantsAssumption DEF GrantsInit, GrantsAssumption
  <2>2. txn \in [Txns -> Txn]
    BY IdleTxnType DEF GrantsInit
  <2>3. paid \in [Players \X Keys -> Nat] /\ usedBudget \in [Players -> Nat]
        /\ redemptions \in [Codes -> Nat]
    BY DEF GrantsInit
  <2> QED
    BY <2>1, <2>2, <2>3 DEF GrantsInit, GrantsTypeOK
<1>2. Locked /\ RedeemsFresh /\ WithinBudget
  BY GrantsAssumption DEF GrantsInit, Locked, RedeemsFresh, WithinBudget, IdleTxn, GrantsAssumption
<1>3. \A c \in Codes : Redeemers(c) = {}
  BY DEF GrantsInit, Redeemers
<1>4. CodesCounted
  <2> SUFFICES ASSUME NEW c \in Codes
               PROVE  redemptions[c] = Cardinality(Redeemers(c)) /\ redemptions[c] <= CodeCapacity
    BY DEF CodesCounted, Redeemers
  <2>1. redemptions[c] = 0 /\ 0 <= CodeCapacity
    BY GrantsAssumption DEF GrantsInit, GrantsAssumption
  <2>2. Cardinality(Redeemers(c)) = 0
    BY <1>3, FS_EmptySet
  <2> QED
    BY <2>1, <2>2
<1>5. PaidOnce /\ BudgetKept
  BY GrantsAssumption DEF GrantsInit, PaidOnce, BudgetKept, GrantsAssumption
<1> QED
  BY <1>1, <1>2, <1>4, <1>5 DEF GrantsInv

LEMMA AbortKeeps ==
  ASSUME GrantsInv, NEW t \in Txns, Abort(t)
  PROVE  GrantsInv'
<1>1. End(t) /\ UNCHANGED <<books, desk>>
  BY DEF Abort
<1>2. /\ txn' \in [Txns -> Txn]
      /\ txn'[t] = IdleTxn /\ \A u \in Txns \ {t} : txn'[u] = txn[u]
      /\ playerLock' \in [Players -> Txns \cup {Free}]
      /\ codeLock' \in [Codes -> Txns \cup {Free}]
      /\ gameLock' \in Txns \cup {Free}
      /\ Locked'
  BY <1>1, EndsTxn DEF GrantsInv
<1>3. GrantsTypeOK'
  BY <1>1, <1>2 DEF GrantsInv, GrantsTypeOK, books, desk
<1>4. RedeemsFresh' /\ WithinBudget'
  BY <1>1, <1>2 DEF GrantsInv, RedeemsFresh, WithinBudget, books, desk, IdleTxn
<1>5. CodesCounted' /\ PaidOnce' /\ BudgetKept'
  BY <1>1 DEF GrantsInv, CodesCounted, PaidOnce, BudgetKept, books, desk
<1> QED
  BY <1>2, <1>3, <1>4, <1>5 DEF GrantsInv

LEMMA ClaimKeeps ==
  ASSUME GrantsInv, NEW p \in Players, NEW keys \in SUBSET ClaimKeys, Claim(p, keys)
  PROVE  GrantsInv'
<1> DEFINE claimed == {g \in {p} \X keys : g \in grants \ claims}
<1>1. /\ claims' = claims \cup claimed
      /\ paid' = [g \in DOMAIN paid |-> IF g \in claimed THEN paid[g] + 1 ELSE paid[g]]
      /\ UNCHANGED <<grants, unlocks, usedBudget, redemptions, redeemed, desk, txn, locks>>
  BY DEF Claim
<1>2. claimed \subseteq grants \ claims
  OBVIOUS
<1> HIDE DEF claimed
<1>3. GrantsTypeOK'
  BY <1>1, <1>2 DEF GrantsInv, GrantsTypeOK, desk, locks
<1>4. PaidOnce'
  BY <1>1, <1>2 DEF GrantsInv, GrantsTypeOK, PaidOnce
<1>5. Locked' /\ RedeemsFresh' /\ WithinBudget' /\ CodesCounted' /\ BudgetKept'
  BY <1>1 DEF GrantsInv, Locked, Holds, RedeemsFresh, WithinBudget, CodesCounted, BudgetKept, desk, locks
<1> QED
  BY <1>3, <1>4, <1>5 DEF GrantsInv

LEMMA RedeemLookKeeps ==
  ASSUME GrantsInv, NEW t \in Txns, NEW p \in Players, NEW c \in Codes, RedeemLook(t, p, c)
  PROVE  GrantsInv'
<1> DEFINE new == [IdleTxn EXCEPT !.kind = "redeem", !.player = p, !.code = c]
<1>1. /\ txn[t].kind = "idle" /\ playerLock[p] = Free /\ <<c, p>> \notin redeemed
      /\ txn' = [txn EXCEPT ![t] = new]
      /\ playerLock' = [playerLock EXCEPT ![p] = t]
      /\ UNCHANGED <<books, desk, codeLock, gameLock>>
  BY DEF RedeemLook
<1>2. new \in Txn /\ new.kind = "redeem" /\ new.player = p /\ new.code = c
  BY DEF IdleTxn, Txn
<1> HIDE DEF new
<1>3. txn'[t] = new /\ \A u \in Txns \ {t} : txn'[u] = txn[u]
  BY <1>1 DEF GrantsInv, GrantsTypeOK
<1>4. GrantsTypeOK'
  BY <1>1, <1>2 DEF GrantsInv, GrantsTypeOK, books, desk
<1>5. Locked'
  BY <1>1, <1>2, <1>3, GrantsAssumption DEF GrantsInv, GrantsTypeOK, Locked, Holds, GrantsAssumption
<1>6. RedeemsFresh' /\ WithinBudget'
  BY <1>1, <1>2, <1>3 DEF GrantsInv, RedeemsFresh, WithinBudget, books, desk
<1>7. CodesCounted' /\ PaidOnce' /\ BudgetKept'
  BY <1>1 DEF GrantsInv, CodesCounted, PaidOnce, BudgetKept, books, desk
<1> QED
  BY <1>4, <1>5, <1>6, <1>7 DEF GrantsInv

LEMMA RedeemReserveKeeps ==
  ASSUME GrantsInv, NEW t \in Txns, RedeemReserve(t)
  PROVE  GrantsInv'
<1> DEFINE c == txn[t].code
<1>0. /\ txn[t].kind = "redeem" /\ codeLock[c] = Free /\ UNCHANGED <<books, desk>>
      /\ c \in Codes
  BY DEF RedeemReserve, GrantsInv, Locked
<1>1. CASE /\ redemptions[c] < CodeCapacity
           /\ txn' = [txn EXCEPT ![t].kind = "reserved"]
           /\ codeLock' = [codeLock EXCEPT ![c] = t]
           /\ UNCHANGED <<playerLock, gameLock>>
  <2> DEFINE new == [txn[t] EXCEPT !.kind = "reserved"]
  <2>0. txn[t] \in Txn
    BY DEF GrantsInv, GrantsTypeOK
  <2>1. new \in Txn /\ new.kind = "reserved" /\ new.code = c /\ new.player = txn[t].player
    BY <2>0 DEF Txn
  <2>2. txn' \in [Txns -> Txn] /\ txn'[t] = new /\ \A u \in Txns \ {t} : txn'[u] = txn[u]
    BY <1>1, <2>1 DEF GrantsInv, GrantsTypeOK
  <2> HIDE DEF new
  <2>3. GrantsTypeOK'
    BY <1>0, <1>1, <2>2 DEF GrantsInv, GrantsTypeOK, books, desk
  <2>4. Locked'
    <3>1. codeLock'[c] = t /\ \A d \in Codes \ {c} : codeLock'[d] = codeLock[d]
      BY <1>0, <1>1 DEF GrantsInv, GrantsTypeOK
    <3>2. \A u \in Txns \ {t} : txn[u].kind = "reserved" => txn[u].code # c
      BY <1>0, GrantsAssumption DEF GrantsInv, Locked, GrantsAssumption
    <3> QED
      BY <1>0, <1>1, <2>1, <2>2, <3>1, <3>2 DEF GrantsInv, Locked, Holds
  <2>5. RedeemsFresh' /\ WithinBudget'
    BY <1>0, <1>1, <2>1, <2>2 DEF GrantsInv, RedeemsFresh, WithinBudget, books, desk
  <2>6. CodesCounted' /\ PaidOnce' /\ BudgetKept'
    BY <1>0 DEF GrantsInv, CodesCounted, PaidOnce, BudgetKept, books, desk
  <2> QED
    BY <2>3, <2>4, <2>5, <2>6 DEF GrantsInv
<1>2. CASE End(t)
  <2>1. Abort(t)
    BY <1>0, <1>2 DEF Abort
  <2> QED
    BY <2>1, AbortKeeps
<1> QED
  BY <1>0, <1>1, <1>2 DEF RedeemReserve

LEMMA RedeemCommitKeeps ==
  ASSUME GrantsInv, NEW t \in Txns, RedeemCommit(t)
  PROVE  GrantsInv'
<1> PICK p \in Players, c \in Codes : p = txn[t].player /\ c = txn[t].code
  BY DEF RedeemCommit, GrantsInv, Locked, Holds
<1>0. /\ txn[t].kind = "reserved" /\ <<p, c>> \notin claims
      /\ grants' = grants \cup {<<p, c>>}
      /\ claims' = claims \cup {<<p, c>>}
      /\ redemptions' = [redemptions EXCEPT ![c] = @ + 1]
      /\ redeemed' = redeemed \cup {<<c, p>>}
      /\ paid' = [paid EXCEPT ![<<p, c>>] = @ + 1]
      /\ End(t)
      /\ UNCHANGED <<unlocks, usedBudget, desk>>
  BY DEF RedeemCommit
<1>1. <<p, c>> \in Players \X Keys
  BY DEF Keys
<1>2. /\ txn' \in [Txns -> Txn]
      /\ txn'[t] = IdleTxn /\ \A u \in Txns \ {t} : txn'[u] = txn[u]
      /\ playerLock' \in [Players -> Txns \cup {Free}]
      /\ codeLock' \in [Codes -> Txns \cup {Free}]
      /\ gameLock' \in Txns \cup {Free}
      /\ Locked'
  BY <1>0, EndsTxn DEF GrantsInv
<1>3. \A u \in Txns \ {t} :
        /\ txn[u].kind \in {"redeem", "reserved"} => txn[u].player # p
        /\ txn[u].kind = "reserved" => txn[u].code # c
  BY <1>0, Apart DEF GrantsInv, Locked
<1>4. <<c, p>> \notin redeemed /\ redemptions[c] < CodeCapacity
  BY <1>0 DEF GrantsInv, RedeemsFresh
<1>5. /\ redemptions' \in [Codes -> Nat] /\ redemptions'[c] = redemptions[c] + 1
      /\ \A d \in Codes \ {c} : redemptions'[d] = redemptions[d]
  BY <1>0, <1>1 DEF GrantsInv, GrantsTypeOK
<1>6. /\ paid' \in [Players \X Keys -> Nat] /\ paid'[<<p, c>>] = paid[<<p, c>>] + 1
      /\ \A g \in Players \X Keys : g # <<p, c>> => paid'[g] = paid[g]
  BY <1>0, <1>1 DEF GrantsInv, GrantsTypeOK
<1>7. GrantsTypeOK'
  BY <1>0, <1>1, <1>2, <1>5, <1>6 DEF GrantsInv, GrantsTypeOK, desk
<1>8. RedeemsFresh'
  <2> SUFFICES ASSUME NEW u \in Txns \ {t}
               PROVE  /\ txn[u].kind \in {"redeem", "reserved"} =>
                           <<txn[u].code, txn[u].player>> \notin redeemed'
                      /\ txn[u].kind = "reserved" => redemptions'[txn[u].code] < CodeCapacity
    BY <1>2 DEF RedeemsFresh, IdleTxn
  <2>1. txn[u].kind \in {"redeem", "reserved"} => <<txn[u].code, txn[u].player>> \notin redeemed'
    BY <1>0, <1>3 DEF GrantsInv, RedeemsFresh
  <2>2. txn[u].kind = "reserved" => redemptions'[txn[u].code] < CodeCapacity
    BY <1>3, <1>5 DEF GrantsInv, RedeemsFresh, Locked
  <2> QED
    BY <2>1, <2>2
<1>9. WithinBudget' /\ BudgetKept'
  BY <1>0, <1>2 DEF GrantsInv, WithinBudget, BudgetKept, desk, IdleTxn
<1>10. CodesCounted'
  <2>1. /\ Cardinality(Redeemers(c)') = Cardinality(Redeemers(c)) + 1
        /\ \A d \in Codes \ {c} : Redeemers(d)' = Redeemers(d)
    BY <1>0, <1>1, <1>4, RedeemersCounted
  <2>2. \A d \in Codes : redemptions[d] = Cardinality(Redeemers(d)) /\ redemptions[d] <= CodeCapacity
    BY DEF GrantsInv, CodesCounted, Redeemers
  <2>3. redemptions[c] + 1 <= CodeCapacity
    BY <1>1, <1>4, GrantsAssumption DEF GrantsInv, GrantsTypeOK, GrantsAssumption
  <2>4. \A d \in Codes : redemptions'[d] = Cardinality(Redeemers(d)') /\ redemptions'[d] <= CodeCapacity
    BY <1>1, <1>5, <2>1, <2>2, <2>3
  <2> QED
    BY <2>4 DEF CodesCounted, Redeemers
<1>11. PaidOnce'
  <2> SUFFICES ASSUME NEW g \in Players \X Keys
               PROVE  paid'[g] = IF g \in claims' THEN 1 ELSE 0
    BY DEF PaidOnce
  <2>1. CASE g = <<p, c>>
    <3>1. paid[g] = 0
      BY <2>1, <1>0 DEF GrantsInv, PaidOnce
    <3> QED
      BY <3>1, <2>1, <1>0, <1>6
  <2>2. CASE g # <<p, c>>
    <3>1. paid'[g] = paid[g] /\ (g \in claims' <=> g \in claims)
      BY <2>2, <1>0, <1>6
    <3> QED
      BY <3>1 DEF GrantsInv, PaidOnce
  <2> QED
    BY <2>1, <2>2
<1> QED
  BY <1>2, <1>7, <1>8, <1>9, <1>10, <1>11 DEF GrantsInv

LEMMA EvaluateKeeps ==
  ASSUME GrantsInv, NEW t \in Txns, NEW p \in Achievers, Evaluate(t, p)
  PROVE  GrantsInv'
<1> DEFINE new == [IdleTxn EXCEPT !.kind = "evaluate", !.player = p, !.allowed = budget]
<1>0. p \in Players
  BY GrantsAssumption DEF GrantsAssumption
<1>1. /\ txn[t].kind = "idle" /\ playerLock[p] = Free
      /\ txn' = [txn EXCEPT ![t] = new]
      /\ playerLock' = [playerLock EXCEPT ![p] = t]
      /\ UNCHANGED <<books, desk, codeLock, gameLock>>
  BY DEF Evaluate
<1>2. /\ new \in Txn /\ new.kind = "evaluate" /\ new.player = p
      /\ new.allowed = budget /\ new.got = 0
  BY <1>0 DEF IdleTxn, Txn, GrantsInv, GrantsTypeOK
<1> HIDE DEF new
<1>3. txn'[t] = new /\ \A u \in Txns \ {t} : txn'[u] = txn[u]
  BY <1>1 DEF GrantsInv, GrantsTypeOK
<1>4. GrantsTypeOK'
  BY <1>0, <1>1, <1>2 DEF GrantsInv, GrantsTypeOK, books, desk
<1>5. Locked'
  BY <1>0, <1>1, <1>2, <1>3, GrantsAssumption
     DEF GrantsInv, GrantsTypeOK, Locked, Holds, GrantsAssumption
<1>6. RedeemsFresh'
  BY <1>1, <1>2, <1>3 DEF GrantsInv, RedeemsFresh, books
<1>7. WithinBudget'
  BY <1>0, <1>1, <1>2, <1>3 DEF GrantsInv, GrantsTypeOK, WithinBudget, BudgetKept, books, desk
<1>8. CodesCounted' /\ PaidOnce' /\ BudgetKept'
  BY <1>1 DEF GrantsInv, CodesCounted, PaidOnce, BudgetKept, books, desk
<1> QED
  BY <1>4, <1>5, <1>6, <1>7, <1>8 DEF GrantsInv

\* What mintGrant gives is a natural number the budget as read has room for.
LEMMA CappedFits ==
  ASSUME GrantsInv, NEW t \in Txns, txn[t].kind = "evaluate", NEW want \in Nat
  PROVE  /\ Capped(t, want) \in Nat
         /\ usedBudget[txn[t].player] + (txn[t].got + Capped(t, want)) <= highestBudget
<1> DEFINE used == usedBudget[txn[t].player]
           got == txn[t].got
           allowed == txn[t].allowed
<1>1. used \in Nat
  BY DEF GrantsInv, GrantsTypeOK, Locked, Holds
<1>2. got \in Nat /\ allowed \in Nat
  BY DEF GrantsInv, GrantsTypeOK, Txn
<1>3. highestBudget \in Nat /\ allowed <= highestBudget /\ used + got <= highestBudget
  BY DEF GrantsInv, GrantsTypeOK, WithinBudget
<1>4. Capped(t, want) = Lesser(want, IF used + got < allowed THEN allowed - (used + got) ELSE 0)
  BY DEF Capped
<1> HIDE DEF used, got, allowed
<1>5. Capped(t, want) \in Nat /\ used + (got + Capped(t, want)) <= highestBudget
  BY <1>1, <1>2, <1>3, <1>4 DEF Lesser
<1> QED
  BY <1>5 DEF used, got

LEMMA UnlockAwardKeeps ==
  ASSUME GrantsInv, NEW t \in Txns, NEW a \in Awards, NEW want \in Wanted, UnlockAward(t, a, want)
  PROVE  GrantsInv'
<1> DEFINE p == txn[t].player
           more == IF <<p, a>> \in grants THEN 0 ELSE Capped(t, want)
           new == [txn[t] EXCEPT !.keys = @ \cup {a}, !.mints = @ \cup {<<p, a>>}, !.got = @ + more]
<1>0. txn[t].kind = "evaluate" /\ txn[t] \in Txn /\ p \in Players /\ a \in Keys
  BY DEF UnlockAward, GrantsInv, GrantsTypeOK, Locked, Holds, Keys
<1>1. txn' = [txn EXCEPT ![t] = new] /\ UNCHANGED <<books, desk, locks>>
  BY DEF UnlockAward
<1>2. want \in Nat
  BY GrantsAssumption DEF GrantsAssumption
<1>3. more \in Nat /\ usedBudget[p] + (txn[t].got + more) <= highestBudget
  <2>1. usedBudget[p] + (txn[t].got + 0) <= highestBudget
    BY <1>0 DEF GrantsInv, GrantsTypeOK, Txn, WithinBudget
  <2> QED
    BY <1>0, <1>2, <2>1, CappedFits
<1> HIDE DEF more
<1>a. /\ txn[t].keys \cup {a} \in SUBSET Awards
      /\ txn[t].mints \cup {<<p, a>>} \in SUBSET (Players \X Keys)
      /\ txn[t].got + more \in Nat
  <2>1. txn[t].keys \subseteq Awards /\ txn[t].mints \subseteq Players \X Keys /\ txn[t].got \in Nat
    BY <1>0 DEF Txn
  <2> QED
    BY <2>1, <1>0, <1>3
<1>4. /\ new \in Txn /\ new.kind = "evaluate" /\ new.player = p
      /\ new.allowed = txn[t].allowed /\ new.got = txn[t].got + more
  BY <1>0, <1>a DEF Txn
<1> HIDE DEF new
<1>5. txn' \in [Txns -> Txn] /\ txn'[t] = new /\ \A u \in Txns \ {t} : txn'[u] = txn[u]
  BY <1>1, <1>4 DEF GrantsInv, GrantsTypeOK
<1>6. GrantsTypeOK'
  BY <1>1, <1>5 DEF GrantsInv, GrantsTypeOK, books, desk, locks
<1>7. Locked' /\ RedeemsFresh'
  BY <1>0, <1>1, <1>4, <1>5 DEF GrantsInv, Locked, Holds, RedeemsFresh, books, locks
<1>8. WithinBudget'
  BY <1>0, <1>1, <1>3, <1>4, <1>5 DEF GrantsInv, WithinBudget, books, desk
<1>9. CodesCounted' /\ PaidOnce' /\ BudgetKept'
  BY <1>1 DEF GrantsInv, CodesCounted, PaidOnce, BudgetKept, books, desk
<1> QED
  BY <1>6, <1>7, <1>8, <1>9 DEF GrantsInv

LEMMA EvaluateCommitKeeps ==
  ASSUME GrantsInv, NEW t \in Txns, EvaluateCommit(t)
  PROVE  GrantsInv'
<1> DEFINE p == txn[t].player
<1>0. /\ txn[t].kind = "evaluate" /\ txn[t] \in Txn /\ p \in Players
      /\ grants' = grants \cup txn[t].mints
      /\ unlocks' = unlocks \cup ({p} \X txn[t].keys)
      /\ usedBudget' = [usedBudget EXCEPT ![p] = @ + txn[t].got]
      /\ End(t)
      /\ UNCHANGED <<claims, redemptions, redeemed, paid, desk>>
  BY DEF EvaluateCommit, GrantsInv, GrantsTypeOK, Locked, Holds
<1>1. /\ txn' \in [Txns -> Txn]
      /\ txn'[t] = IdleTxn /\ \A u \in Txns \ {t} : txn'[u] = txn[u]
      /\ playerLock' \in [Players -> Txns \cup {Free}]
      /\ codeLock' \in [Codes -> Txns \cup {Free}]
      /\ gameLock' \in Txns \cup {Free}
      /\ Locked'
  BY <1>0, EndsTxn DEF GrantsInv
<1>2. /\ txn[t].mints \subseteq Players \X Keys
      /\ txn[t].keys \subseteq Awards /\ txn[t].got \in Nat
  BY <1>0 DEF Txn
<1>3. \A u \in Txns \ {t} : txn[u].kind = "evaluate" => txn[u].player \in Players /\ txn[u].player # p
  BY <1>0, Apart DEF GrantsInv, Locked, Holds
<1>4. usedBudget[p] + txn[t].got <= highestBudget
  BY <1>0 DEF GrantsInv, WithinBudget
<1> HIDE DEF p
<1>5. /\ usedBudget' \in [Players -> Nat] /\ usedBudget'[p] = usedBudget[p] + txn[t].got
      /\ \A q \in Players \ {p} : usedBudget'[q] = usedBudget[q]
  BY <1>0, <1>2 DEF GrantsInv, GrantsTypeOK
<1>6. GrantsTypeOK'
  BY <1>0, <1>1, <1>2, <1>5 DEF GrantsInv, GrantsTypeOK, desk
<1>7. RedeemsFresh'
  BY <1>0, <1>1 DEF GrantsInv, RedeemsFresh, IdleTxn
<1>8. BudgetKept'
  BY <1>0, <1>4, <1>5 DEF GrantsInv, BudgetKept, desk
<1>9. WithinBudget'
  BY <1>0, <1>1, <1>3, <1>5 DEF GrantsInv, WithinBudget, IdleTxn, desk
<1>10. CodesCounted' /\ PaidOnce'
  BY <1>0 DEF GrantsInv, CodesCounted, PaidOnce
<1> QED
  BY <1>1, <1>6, <1>7, <1>8, <1>9, <1>10 DEF GrantsInv

LEMMA CohortBeginKeeps ==
  ASSUME GrantsInv, NEW t \in Txns, CohortBegin(t)
  PROVE  GrantsInv'
<1> DEFINE new == [IdleTxn EXCEPT !.kind = "cohort"]
<1>1. /\ txn' = [txn EXCEPT ![t] = new] /\ gameLock' = t
      /\ UNCHANGED <<books, desk, playerLock, codeLock>>
  BY DEF CohortBegin
<1>2. new \in Txn /\ new.kind = "cohort"
  BY DEF IdleTxn, Txn
<1> HIDE DEF new
<1>3. txn'[t] = new /\ \A u \in Txns \ {t} : txn'[u] = txn[u]
  BY <1>1 DEF GrantsInv, GrantsTypeOK
<1>4. GrantsTypeOK'
  BY <1>1, <1>2 DEF GrantsInv, GrantsTypeOK, books, desk
<1>5. Locked' /\ RedeemsFresh' /\ WithinBudget'
  BY <1>1, <1>2, <1>3 DEF GrantsInv, Locked, Holds, RedeemsFresh, WithinBudget, books, desk
<1>6. CodesCounted' /\ PaidOnce' /\ BudgetKept'
  BY <1>1 DEF GrantsInv, CodesCounted, PaidOnce, BudgetKept, books, desk
<1> QED
  BY <1>4, <1>5, <1>6 DEF GrantsInv

LEMMA CohortVisitKeeps ==
  ASSUME GrantsInv, NEW t \in Txns, NEW p \in Players, CohortVisit(t, p)
  PROVE  GrantsInv'
<1>0. txn[t].kind = "cohort" /\ txn[t] \in Txn /\ UNCHANGED <<books, desk, codeLock, gameLock>>
  BY DEF CohortVisit, GrantsInv, GrantsTypeOK
<1>1. PICK new \in Txn : new.kind = "cohort" /\ txn' = [txn EXCEPT ![t] = new]
  <2>1. CASE txn' = [txn EXCEPT ![t].seen = @ \cup {p}]
    <3> DEFINE n == [txn[t] EXCEPT !.seen = @ \cup {p}]
    <3>1. n \in Txn /\ n.kind = "cohort"
      BY <1>0 DEF Txn
    <3> QED
      BY <3>1, <2>1
  <2>2. CASE txn' = [txn EXCEPT ![t].seen = @ \cup {p}, ![t].mints = @ \cup {<<p, CohortKey>>}]
    <3> DEFINE n == [txn[t] EXCEPT !.seen = @ \cup {p}, !.mints = @ \cup {<<p, CohortKey>>}]
    <3>0. txn[t].mints \cup {<<p, CohortKey>>} \in SUBSET (Players \X Keys)
      BY <1>0 DEF Txn, Keys
    <3>1. n \in Txn /\ n.kind = "cohort"
      BY <1>0, <3>0 DEF Txn
    <3>2. txn' = [txn EXCEPT ![t] = n]
      BY <2>2, <1>0 DEF GrantsInv, GrantsTypeOK
    <3> QED
      BY <3>1, <3>2
  <2> QED
    BY <2>1, <2>2 DEF CohortVisit
<1>2. /\ playerLock' \in [Players -> Txns \cup {Free}]
      /\ \A q \in Players : playerLock[q] # Free => playerLock'[q] = playerLock[q]
  BY DEF CohortVisit, GrantsInv, GrantsTypeOK
<1>3. txn' \in [Txns -> Txn] /\ txn'[t] = new /\ \A u \in Txns \ {t} : txn'[u] = txn[u]
  BY <1>1 DEF GrantsInv, GrantsTypeOK
<1>4. GrantsTypeOK'
  BY <1>0, <1>2, <1>3 DEF GrantsInv, GrantsTypeOK, books, desk
<1>5. Locked'
  <2>1. \A u \in Txns : txn[u].kind \in {"redeem", "reserved", "evaluate"} =>
          txn[u].player \in Players /\ playerLock'[txn[u].player] = u
    BY <1>2, GrantsAssumption DEF GrantsInv, Locked, Holds, GrantsAssumption
  <2>2. \A u \in Txns : txn'[u].kind \in {"redeem", "reserved", "evaluate"} => txn'[u] = txn[u]
    BY <1>1, <1>3
  <2> QED
    BY <1>0, <2>1, <2>2 DEF GrantsInv, Locked, Holds
<1>6. RedeemsFresh' /\ WithinBudget'
  BY <1>0, <1>1, <1>3 DEF GrantsInv, RedeemsFresh, WithinBudget, books, desk
<1>7. CodesCounted' /\ PaidOnce' /\ BudgetKept'
  BY <1>0 DEF GrantsInv, CodesCounted, PaidOnce, BudgetKept, books, desk
<1> QED
  BY <1>4, <1>5, <1>6, <1>7 DEF GrantsInv

LEMMA CohortCommitKeeps ==
  ASSUME GrantsInv, NEW t \in Txns, CohortCommit(t)
  PROVE  GrantsInv'
<1>0. /\ txn[t] \in Txn /\ grants' = grants \cup txn[t].mints /\ End(t)
      /\ UNCHANGED <<claims, unlocks, usedBudget, redemptions, redeemed, paid, desk>>
  BY DEF CohortCommit, GrantsInv, GrantsTypeOK
<1>1. /\ txn' \in [Txns -> Txn]
      /\ txn'[t] = IdleTxn /\ \A u \in Txns \ {t} : txn'[u] = txn[u]
      /\ playerLock' \in [Players -> Txns \cup {Free}]
      /\ codeLock' \in [Codes -> Txns \cup {Free}]
      /\ gameLock' \in Txns \cup {Free}
      /\ Locked'
  BY <1>0, EndsTxn DEF GrantsInv
<1>2. txn[t].mints \subseteq Players \X Keys
  BY <1>0 DEF Txn
<1>3. GrantsTypeOK'
  BY <1>0, <1>1, <1>2 DEF GrantsInv, GrantsTypeOK, desk
<1>4. RedeemsFresh' /\ WithinBudget'
  BY <1>0, <1>1 DEF GrantsInv, RedeemsFresh, WithinBudget, IdleTxn, desk
<1>5. CodesCounted' /\ PaidOnce' /\ BudgetKept'
  BY <1>0 DEF GrantsInv, CodesCounted, PaidOnce, BudgetKept, desk
<1> QED
  BY <1>1, <1>3, <1>4, <1>5 DEF GrantsInv

LEMMA AdminGrantKeeps ==
  ASSUME GrantsInv, NEW p \in Players, NEW k \in AdminKeys, AdminGrant(p, k)
  PROVE  GrantsInv'
<1>1. /\ grants' = grants \cup {<<p, k>>} /\ k \in Keys
      /\ UNCHANGED <<claims, unlocks, usedBudget, redemptions, redeemed, paid, desk, txn, locks>>
  BY GrantsAssumption DEF AdminGrant, GrantsAssumption
<1>2. GrantsTypeOK'
  BY <1>1 DEF GrantsInv, GrantsTypeOK, desk, locks
<1>3. Locked' /\ RedeemsFresh' /\ WithinBudget' /\ CodesCounted' /\ PaidOnce' /\ BudgetKept'
  BY <1>1 DEF GrantsInv, Locked, Holds, RedeemsFresh, WithinBudget, CodesCounted, PaidOnce, BudgetKept, desk, locks
<1> QED
  BY <1>2, <1>3 DEF GrantsInv

LEMMA PublishBudgetKeeps ==
  ASSUME GrantsInv, NEW b \in Budgets, PublishBudget(b)
  PROVE  GrantsInv'
<1>1. /\ b \in Nat /\ budget' = b
      /\ highestBudget' = IF b > highestBudget THEN b ELSE highestBudget
      /\ UNCHANGED <<books, issued, txn, locks>>
  BY GrantsAssumption DEF PublishBudget, GrantsAssumption
<1>2. highestBudget' \in Nat /\ highestBudget <= highestBudget' /\ budget' <= highestBudget'
  BY <1>1 DEF GrantsInv, GrantsTypeOK
<1>3. GrantsTypeOK'
  BY <1>1, <1>2 DEF GrantsInv, GrantsTypeOK, books, locks
<1>4. Locked' /\ RedeemsFresh' /\ CodesCounted' /\ PaidOnce'
  BY <1>1 DEF GrantsInv, Locked, Holds, RedeemsFresh, CodesCounted, PaidOnce, books, locks
<1>5. BudgetKept'
  BY <1>1, <1>2 DEF GrantsInv, GrantsTypeOK, BudgetKept, books
<1>6. WithinBudget'
  <2> SUFFICES ASSUME NEW u \in Txns, txn[u].kind = "evaluate"
               PROVE  /\ txn[u].allowed <= highestBudget'
                      /\ usedBudget[txn[u].player] + txn[u].got <= highestBudget'
    BY <1>1, <1>2 DEF WithinBudget, books
  <2>1. txn[u].allowed \in Nat /\ txn[u].got \in Nat /\ usedBudget[txn[u].player] \in Nat
    BY DEF GrantsInv, GrantsTypeOK, Txn, Locked, Holds
  <2> QED
    BY <1>2, <2>1 DEF GrantsInv, GrantsTypeOK, WithinBudget
<1> QED
  BY <1>3, <1>4, <1>5, <1>6 DEF GrantsInv

\* No step leaves the invariant.
LEMMA GrantsInductive == GrantsInv /\ [GrantsNext]_grantsVars => GrantsInv'
<1> SUFFICES ASSUME GrantsInv, [GrantsNext]_grantsVars PROVE GrantsInv'
  OBVIOUS
<1>1. ASSUME NEW t \in Txns, TxnNext(t) PROVE GrantsInv'
  BY <1>1, AbortKeeps, RedeemLookKeeps, RedeemReserveKeeps, RedeemCommitKeeps, EvaluateKeeps,
     UnlockAwardKeeps, EvaluateCommitKeeps, CohortBeginKeeps, CohortVisitKeeps, CohortCommitKeeps
     DEF TxnNext
<1>2. ASSUME NEW p \in Players, NEW keys \in SUBSET ClaimKeys, Claim(p, keys) PROVE GrantsInv'
  BY <1>2, ClaimKeeps
<1>3. ASSUME NEW p \in Players, NEW k \in AdminKeys, AdminGrant(p, k) PROVE GrantsInv'
  BY <1>3, AdminGrantKeeps
<1>4. ASSUME NEW c \in Codes, CreateCampaign(c) PROVE GrantsInv'
  <2>1. issued' = issued \cup {c} /\ UNCHANGED <<books, budget, highestBudget, txn, locks>>
    BY <1>4 DEF CreateCampaign
  <2>2. GrantsTypeOK'
    BY <2>1 DEF GrantsInv, GrantsTypeOK, books, locks
  <2>3. Locked' /\ RedeemsFresh' /\ WithinBudget'
    BY <2>1 DEF GrantsInv, Locked, Holds, RedeemsFresh, WithinBudget, books, locks
  <2>4. CodesCounted' /\ PaidOnce' /\ BudgetKept'
    BY <2>1 DEF GrantsInv, CodesCounted, PaidOnce, BudgetKept, books
  <2> QED
    BY <2>2, <2>3, <2>4 DEF GrantsInv
<1>5. ASSUME NEW b \in Budgets, PublishBudget(b) PROVE GrantsInv'
  BY <1>5, PublishBudgetKeeps
<1>6. CASE UNCHANGED grantsVars
  <2>1. UNCHANGED <<books, desk, txn, locks>>
    BY <1>6 DEF grantsVars
  <2>2. GrantsTypeOK'
    BY <2>1 DEF GrantsInv, GrantsTypeOK, books, desk, locks
  <2>3. Locked' /\ RedeemsFresh' /\ WithinBudget'
    BY <2>1 DEF GrantsInv, Locked, Holds, RedeemsFresh, WithinBudget, books, desk, locks
  <2>4. CodesCounted' /\ PaidOnce' /\ BudgetKept'
    BY <2>1 DEF GrantsInv, CodesCounted, PaidOnce, BudgetKept, books, desk
  <2> QED
    BY <2>2, <2>3, <2>4 DEF GrantsInv
<1> QED
  BY <1>1, <1>2, <1>3, <1>4, <1>5, <1>6 DEF GrantsNext

\* The invariant holds in every state.
LEMMA GrantsAlways == GrantsSpec => []GrantsInv
  BY GrantsInitial, GrantsInductive, PTL DEF GrantsSpec

-----------------------------------------------------------------------------
(* Theorems. *)

\* The types of the grants' tables, and every claim is of a grant.
THEOREM GrantsTypeCorrect == GrantsSpec => []GrantsTypeOK
<1>1. GrantsInv => GrantsTypeOK
  BY DEF GrantsInv
<1> QED
  BY <1>1, GrantsAlways, PTL

\* Any number of players redeeming at once never overdraw a code (CodesRedeem).
THEOREM CodesAlwaysCounted == GrantsSpec => []CodesCounted
<1>1. GrantsInv => CodesCounted
  BY DEF GrantsInv
<1> QED
  BY <1>1, GrantsAlways, PTL

\* No grant is answered "claimed" or "redeemed" twice (claimOne, CodesRedeem).
THEOREM GrantsPaidOnce == GrantsSpec => []PaidOnce
<1>1. GrantsInv => PaidOnce
  BY DEF GrantsInv
<1> QED
  BY <1>1, GrantsAlways, PTL

\* Client-claimed premium stays within the highest budget published (mintGrant).
THEOREM BudgetAlwaysKept == GrantsSpec => []BudgetKept
<1>1. GrantsInv => BudgetKept
  BY DEF GrantsInv
<1> QED
  BY <1>1, GrantsAlways, PTL

-----------------------------------------------------------------------------
(* Purchases. *)

-----------------------------------------------------------------------------
(* The inductive invariant.  A transaction decides on the committed rows   *)
(* and its own.  That others commit meanwhile changes nothing it decided   *)
(* on, as it holds the player's lock and those of its tokens: their rows   *)
(* are of other players and of other tokens.                               *)

OnceIn(rows) ==
  \A r, s \in rows :
    r # s => /\ r.token # s.token
             /\ (r.buyer = s.buyer /\ PackOf[r.token] = PackOf[s.token]) =>
                  ~(r.owns /\ s.owns) /\ ~(r.delivered = "bonus" /\ s.delivered = "bonus")

SettledIn(rows) ==
  \A r \in rows : KindOf[r.token] = "paid" =>
    IF r.duplicateOf
    THEN \E s \in rows : s.buyer = r.buyer /\ PackOf[s.token] = PackOf[r.token] /\ s.owns
    ELSE r.delivered # "nothing"

\* Only what a build mints is delivered.
MintedIn(rows) ==
  \A r \in rows : r.delivered # "nothing" => KindOf[r.token] \in {"paid", "sandbox"}

GoodRows(rows) == OnceIn(rows) /\ SettledIn(rows) /\ MintedIn(rows)

Verifying == {"locking", "recording"}

\* A transaction has a player; a verification holds the player's lock and, when
\* it records, those of its tokens.
LocksHeld ==
  \A x \in Cashiers :
    /\ till[x].pc # "idle" => till[x].buyer \in Buyers
    /\ till[x].pc \in Verifying => buyerLock[till[x].buyer] = x
    /\ till[x].pc = "recording" => \A k \in till[x].todo : tokenLock[k] = x

\* Only a recording transaction has rows, of its player and its tokens.
FreshOwn ==
  \A x \in Cashiers :
    /\ till[x].pc # "recording" => till[x].fresh = {}
    /\ \A r \in till[x].fresh : r.buyer = till[x].buyer /\ tokenLock[r.token] = x

PurchasesInv ==
  /\ PurchasesTypeOK /\ LocksHeld /\ FreshOwn
  /\ GoodRows(receipts) /\ \A x \in Cashiers : GoodRows(Seen(x))

-----------------------------------------------------------------------------
(* What steps share. *)

\* A transaction not begun has its type.
LEMMA IdleTillType == IdleTill \in Till /\ IdleTill.pc = "idle" /\ IdleTill.fresh = {}
  BY PurchasesAssumption DEF IdleTill, Till

\* At first nothing is recorded.
LEMMA PurchasesInitial == PurchasesInit => PurchasesInv
<1> SUFFICES ASSUME PurchasesInit PROVE PurchasesInv
  OBVIOUS
<1>1. PurchasesTypeOK
  BY IdleTillType, PurchasesAssumption DEF PurchasesInit, PurchasesTypeOK
<1>2. \A x \in Cashiers : till[x].pc = "idle" /\ till[x].fresh = {}
  BY IdleTillType DEF PurchasesInit
<1>3. LocksHeld /\ FreshOwn
  BY <1>2 DEF LocksHeld, FreshOwn, Verifying
<1>4. receipts = {} /\ \A x \in Cashiers : Seen(x) = {}
  BY <1>2 DEF PurchasesInit, Seen
<1> QED
  BY <1>1, <1>3, <1>4 DEF PurchasesInv, GoodRows, OnceIn, SettledIn, MintedIn

\* What a transaction that ends leaves of the locks and the others.
LEMMA ClosesTill ==
  ASSUME PurchasesInv, NEW x \in Cashiers, CloseTill(x)
  PROVE  /\ till' \in [Cashiers -> Till]
         /\ buyerLock' \in [Buyers -> Cashiers \cup {Unlocked}]
         /\ tokenLock' \in [Tokens -> Cashiers \cup {Unlocked}]
         /\ till'[x] = IdleTill
         /\ \A y \in Cashiers \ {x} : till'[y] = till[y]
         /\ LocksHeld' /\ FreshOwn'
<1>1. /\ till' \in [Cashiers -> Till] /\ till'[x] = IdleTill
      /\ \A y \in Cashiers \ {x} : till'[y] = till[y]
  BY IdleTillType DEF PurchasesInv, PurchasesTypeOK, CloseTill
<1>2. /\ buyerLock' \in [Buyers -> Cashiers \cup {Unlocked}]
      /\ tokenLock' \in [Tokens -> Cashiers \cup {Unlocked}]
  BY DEF PurchasesInv, PurchasesTypeOK, CloseTill
<1>3. /\ \A b \in Buyers, y \in Cashiers \ {x} : buyerLock[b] = y => buyerLock'[b] = y
      /\ \A k \in Tokens, y \in Cashiers \ {x} : tokenLock[k] = y => tokenLock'[k] = y
  BY DEF CloseTill
<1>4. \A y \in Cashiers : till[y] \in Till
  BY DEF PurchasesInv, PurchasesTypeOK
<1>5. LocksHeld'
  <2> SUFFICES ASSUME NEW y \in Cashiers
               PROVE  /\ till'[y].pc # "idle" => till'[y].buyer \in Buyers
                      /\ till'[y].pc \in Verifying => buyerLock'[till'[y].buyer] = y
                      /\ till'[y].pc = "recording" => \A k \in till'[y].todo : tokenLock'[k] = y
    BY DEF LocksHeld
  <2>1. CASE y = x
    BY <2>1, <1>1, IdleTillType DEF Verifying
  <2>2. CASE y # x
    <3>1. till'[y] = till[y] /\ till[y].todo \subseteq Tokens
      BY <2>2, <1>1, <1>4 DEF Till
    <3> QED
      BY <3>1, <2>2, <1>3 DEF PurchasesInv, LocksHeld, Verifying
  <2> QED
    BY <2>1, <2>2
<1>6. FreshOwn'
  <2> SUFFICES ASSUME NEW y \in Cashiers
               PROVE  /\ till'[y].pc # "recording" => till'[y].fresh = {}
                      /\ \A r \in till'[y].fresh : r.buyer = till'[y].buyer /\ tokenLock'[r.token] = y
    BY DEF FreshOwn
  <2>1. CASE y = x
    BY <2>1, <1>1, IdleTillType
  <2>2. CASE y # x
    <3>1. till'[y] = till[y] /\ \A r \in till[y].fresh : r.token \in Tokens
      BY <2>2, <1>1, <1>4 DEF Till, Receipt
    <3> QED
      BY <3>1, <2>2, <1>3 DEF PurchasesInv, FreshOwn
  <2> QED
    BY <2>1, <2>2
<1> QED
  BY <1>1, <1>2, <1>5, <1>6

\* A transaction that ends without a row of its own leaves the rows seen good.
LEMMA ClosesWithout ==
  ASSUME PurchasesInv, NEW x \in Cashiers, CloseTill(x), UNCHANGED receipts,
         strikes' \in [Buyers -> 0..MaxStrikes], disabled' \subseteq Buyers
  PROVE  PurchasesInv'
<1>1. PurchasesTypeOK'
  BY ClosesTill DEF PurchasesInv, PurchasesTypeOK
<1>2. \A y \in Cashiers : Seen(y)' = IF y = x THEN receipts ELSE Seen(y)
  BY ClosesTill, IdleTillType DEF Seen
<1>3. \A y \in Cashiers : GoodRows(Seen(y)')
  BY <1>2 DEF PurchasesInv
<1>4. GoodRows(receipts')
  BY DEF PurchasesInv
<1>5. LocksHeld' /\ FreshOwn'
  BY ClosesTill
<1>6. (\A y \in Cashiers : GoodRows(Seen(y)))'
  BY <1>3 DEF GoodRows, OnceIn, SettledIn, MintedIn
<1>7. GoodRows(receipts)'
  BY <1>4 DEF GoodRows, OnceIn, SettledIn, MintedIn
<1> QED
  BY <1>1, <1>5, <1>6, <1>7 DEF PurchasesInv

LEMMA RollBackKeeps == ASSUME PurchasesInv, NEW x \in Cashiers, RollBack(x) PROVE PurchasesInv'
<1>1. CloseTill(x) /\ UNCHANGED receipts /\ UNCHANGED <<strikes, disabled>>
  BY DEF RollBack, penalties
<1>2. strikes' \in [Buyers -> 0..MaxStrikes] /\ disabled' \subseteq Buyers
  BY <1>1 DEF PurchasesInv, PurchasesTypeOK
<1> QED
  BY <1>1, <1>2, ClosesWithout

LEMMA CommitRefundKeeps ==
  ASSUME PurchasesInv, NEW x \in Cashiers, CommitRefund(x) PROVE PurchasesInv'
<1>1. CloseTill(x) /\ UNCHANGED receipts
  BY DEF CommitRefund
<1>2. PICK b \in Buyers : b = till[x].buyer
  BY DEF CommitRefund, PurchasesInv, LocksHeld
<1>3. strikes[b] + 1 \in 0..MaxStrikes
  BY <1>2, PurchasesAssumption DEF CommitRefund, PurchasesInv, PurchasesTypeOK
<1>4. /\ strikes' = [strikes EXCEPT ![b] = strikes[b] + 1]
      /\ disabled' \in {disabled, disabled \cup {b}}
  BY <1>2 DEF CommitRefund
<1>5. strikes' \in [Buyers -> 0..MaxStrikes] /\ disabled' \subseteq Buyers
  BY <1>3, <1>4 DEF PurchasesInv, PurchasesTypeOK
<1> QED
  BY <1>1, <1>5, ClosesWithout

\* A transaction that moves on without a row: its record and locks are given.
LEMMA TillMoves ==
  ASSUME PurchasesInv, NEW x \in Cashiers, NEW next \in Till,
         till' = [till EXCEPT ![x] = next],
         next.fresh = {}, till[x].fresh = {},
         next.pc # "idle" => next.buyer \in Buyers,
         next.pc \in Verifying => buyerLock'[next.buyer] = x,
         next.pc = "recording" => \A k \in next.todo : tokenLock'[k] = x,
         buyerLock' \in [Buyers -> Cashiers \cup {Unlocked}],
         tokenLock' \in [Tokens -> Cashiers \cup {Unlocked}],
         \A b \in Buyers, y \in Cashiers : buyerLock[b] = y => buyerLock'[b] = y,
         \A k \in Tokens, y \in Cashiers : tokenLock[k] = y => tokenLock'[k] = y,
         UNCHANGED <<receipts, strikes, disabled>>
  PROVE  PurchasesInv'
<1>1. /\ till' \in [Cashiers -> Till] /\ till'[x] = next
      /\ \A y \in Cashiers \ {x} : till'[y] = till[y] /\ till[y] \in Till
  BY DEF PurchasesInv, PurchasesTypeOK
<1>2. PurchasesTypeOK'
  BY <1>1 DEF PurchasesInv, PurchasesTypeOK
<1>3. LocksHeld'
  <2> SUFFICES ASSUME NEW y \in Cashiers
               PROVE  /\ till'[y].pc # "idle" => till'[y].buyer \in Buyers
                      /\ till'[y].pc \in Verifying => buyerLock'[till'[y].buyer] = y
                      /\ till'[y].pc = "recording" => \A k \in till'[y].todo : tokenLock'[k] = y
    BY DEF LocksHeld
  <2>1. CASE y = x
    BY <2>1, <1>1
  <2>2. CASE y # x
    <3>1. till'[y] = till[y] /\ till[y].todo \subseteq Tokens
      BY <2>2, <1>1 DEF Till
    <3> QED
      BY <3>1 DEF PurchasesInv, LocksHeld, Verifying
  <2> QED
    BY <2>1, <2>2
<1>4. FreshOwn'
  <2> SUFFICES ASSUME NEW y \in Cashiers
               PROVE  /\ till'[y].pc # "recording" => till'[y].fresh = {}
                      /\ \A r \in till'[y].fresh : r.buyer = till'[y].buyer /\ tokenLock'[r.token] = y
    BY DEF FreshOwn
  <2>1. CASE y = x
    BY <2>1, <1>1
  <2>2. CASE y # x
    <3>1. till'[y] = till[y] /\ \A r \in till[y].fresh : r.token \in Tokens
      BY <2>2, <1>1 DEF Till, Receipt
    <3> QED
      BY <3>1 DEF PurchasesInv, FreshOwn
  <2> QED
    BY <2>1, <2>2
<1>5. \A y \in Cashiers : Seen(y)' = Seen(y)
  BY <1>1 DEF Seen
<1>6. (\A y \in Cashiers : GoodRows(Seen(y)))' /\ GoodRows(receipts)'
  BY <1>5 DEF PurchasesInv, GoodRows, OnceIn, SettledIn, MintedIn
<1> QED
  BY <1>2, <1>3, <1>4, <1>6 DEF PurchasesInv

LEMMA VerifyKeeps ==
  ASSUME PurchasesInv, NEW x \in Cashiers, NEW b \in Buyers, NEW tokens \in SUBSET Tokens,
         NEW minting \in Builds, Verify(x, b, tokens, minting)
  PROVE  PurchasesInv'
<1>1. PICK next : next = [IdleTill EXCEPT !.pc = "locking", !.buyer = b, !.todo = tokens,
                                          !.minting = minting]
  OBVIOUS
<1>2. till' = [till EXCEPT ![x] = next]
  BY <1>1 DEF Verify
<1>3. next \in Till /\ next.pc = "locking" /\ next.buyer = b /\ next.fresh = {}
  BY <1>1, IdleTillType, PurchasesAssumption DEF Till
<1>4. till[x].fresh = {}
  BY DEF Verify, PurchasesInv, FreshOwn
<1>5. /\ buyerLock' \in [Buyers -> Cashiers \cup {Unlocked}] /\ buyerLock'[b] = x
      /\ \A c \in Buyers, y \in Cashiers : buyerLock[c] = y => buyerLock'[c] = y
  BY PurchasesAssumption DEF Verify, PurchasesInv, PurchasesTypeOK
<1>6. /\ tokenLock' \in [Tokens -> Cashiers \cup {Unlocked}]
      /\ \A k \in Tokens, y \in Cashiers : tokenLock[k] = y => tokenLock'[k] = y
      /\ UNCHANGED <<receipts, strikes, disabled>>
  BY DEF Verify, PurchasesInv, PurchasesTypeOK, penalties
<1> QED
  BY <1>2, <1>3, <1>4, <1>5, <1>6, TillMoves

LEMMA LockTokenKeeps ==
  ASSUME PurchasesInv, NEW x \in Cashiers, NEW k \in Tokens, LockToken(x, k)
  PROVE  PurchasesInv'
<1>1. PICK p \in {"locking", "recording"} :
        /\ p = IF till[x].todo \ HeldTokens(x) = {k} THEN "recording" ELSE till[x].pc
        /\ till' = [till EXCEPT ![x].pc = p]
  BY DEF LockToken
<1>2. PICK next : next = [till[x] EXCEPT !.pc = p]
  OBVIOUS
<1>3. till[x] \in Till
  BY DEF PurchasesInv, PurchasesTypeOK
<1>4. /\ next \in Till /\ next.pc = p /\ next.buyer = till[x].buyer
      /\ next.todo = till[x].todo /\ next.fresh = till[x].fresh
  BY <1>2, <1>3, <1>1 DEF Till
<1>5. till' = [till EXCEPT ![x] = next]
  BY <1>1, <1>2 DEF PurchasesInv, PurchasesTypeOK
<1>6. till[x].fresh = {} /\ till[x].buyer \in Buyers /\ buyerLock[till[x].buyer] = x
  BY DEF LockToken, PurchasesInv, FreshOwn, LocksHeld, Verifying
<1>7. /\ tokenLock' \in [Tokens -> Cashiers \cup {Unlocked}] /\ tokenLock'[k] = x
      /\ \A j \in Tokens, y \in Cashiers : tokenLock[j] = y => tokenLock'[j] = y
  BY PurchasesAssumption DEF LockToken, PurchasesInv, PurchasesTypeOK
<1>8. /\ buyerLock' = buyerLock /\ buyerLock' \in [Buyers -> Cashiers \cup {Unlocked}]
      /\ UNCHANGED <<receipts, strikes, disabled>>
  BY DEF LockToken, PurchasesInv, PurchasesTypeOK, penalties
<1>9. ASSUME next.pc = "recording", NEW j \in next.todo PROVE tokenLock'[j] = x
  <2>1. till[x].todo \ HeldTokens(x) = {k}
    BY <1>9, <1>4, <1>1 DEF LockToken
  <2>2. j \in Tokens
    BY <1>3, <1>4 DEF Till
  <2>3. CASE j = k
    BY <2>3, <1>7
  <2>4. CASE j # k
    BY <2>1, <2>2, <2>4, <1>4, <1>7 DEF HeldTokens
  <2> QED
    BY <2>3, <2>4
<1> QED
  BY <1>4, <1>5, <1>6, <1>7, <1>8, <1>9, TillMoves, ZenonT(30)

LEMMA RefundKeeps ==
  ASSUME PurchasesInv, NEW x \in Cashiers, NEW b \in Buyers, Refund(x, b)
  PROVE  PurchasesInv'
<1>1. PICK n \in 0..MaxStrikes : n = strikes[b] + 1
  BY PurchasesAssumption DEF Refund, PurchasesInv, PurchasesTypeOK
<1>2. PICK next : next = [IdleTill EXCEPT !.pc = "refunding", !.buyer = b, !.strikes = n]
  OBVIOUS
<1>3. till' = [till EXCEPT ![x] = next]
  BY <1>1, <1>2 DEF Refund
<1>4. next \in Till /\ next.pc = "refunding" /\ next.buyer = b /\ next.fresh = {}
  BY <1>2, IdleTillType DEF Till
<1>5. till[x].fresh = {} /\ next.pc \notin Verifying
  BY <1>4 DEF Refund, PurchasesInv, FreshOwn, Verifying
<1>6. /\ buyerLock' = buyerLock /\ buyerLock' \in [Buyers -> Cashiers \cup {Unlocked}]
      /\ tokenLock' = tokenLock /\ tokenLock' \in [Tokens -> Cashiers \cup {Unlocked}]
      /\ UNCHANGED <<receipts, strikes, disabled>>
  BY DEF Refund, PurchasesInv, PurchasesTypeOK, penalties
<1> QED
  BY <1>3, <1>4, <1>5, <1>6, TillMoves

-----------------------------------------------------------------------------
(* Recording and committing. *)

\* A receipt that is recorded leaves the rows its transaction sees good.
LEMMA RowGood ==
  ASSUME NEW rows, NEW k \in Tokens, NEW b \in Buyers, NEW row \in Receipt,
         GoodRows(rows), rows \subseteq Receipt,
         row.token = k, row.buyer = b,
         \A r \in rows : r.token # k,
         row.owns => /\ ~row.duplicateOf
                     /\ \A r \in rows : ~(r.buyer = b /\ PackOf[r.token] = PackOf[k] /\ r.owns),
         row.duplicateOf => \E r \in rows : r.buyer = b /\ PackOf[r.token] = PackOf[k] /\ r.owns,
         row.delivered # "nothing" => KindOf[k] \in {"paid", "sandbox"},
         row.delivered = "bonus" =>
           \A r \in rows : r.buyer = b /\ PackOf[r.token] = PackOf[k]
                             /\ KindOf[r.token] \in {"paid", "sandbox"} => r.delivered = "nothing",
         KindOf[k] = "paid" /\ ~row.duplicateOf => row.delivered # "nothing"
  PROVE  GoodRows(rows \cup {row})
<1>1. OnceIn(rows \cup {row})
  <2> SUFFICES ASSUME NEW r \in rows
               PROVE  /\ r.token # row.token
                      /\ (r.buyer = row.buyer /\ PackOf[r.token] = PackOf[row.token]) =>
                           ~(r.owns /\ row.owns) /\ ~(r.delivered = "bonus" /\ row.delivered = "bonus")
    BY DEF GoodRows, OnceIn
  <2>1. r.delivered = "bonus" => KindOf[r.token] \in {"paid", "sandbox"}
    BY DEF GoodRows, MintedIn
  <2> QED
    BY <2>1
<1>2. SettledIn(rows \cup {row})
  BY DEF GoodRows, SettledIn
<1>3. MintedIn(rows \cup {row})
  BY DEF GoodRows, MintedIn
<1> QED
  BY <1>1, <1>2, <1>3 DEF GoodRows

LEMMA RecordReceiptKeeps ==
  ASSUME PurchasesInv, NEW x \in Cashiers, NEW k \in Tokens, RecordReceipt(x, k)
  PROVE  PurchasesInv'
<1>1. PICK dup \in BOOLEAN :
        dup = (PackOf[k] \in OneTimePacks /\ KindOf[k] # "unsupported" /\ Owner(x, k))
  OBVIOUS
<1>2. PICK del : del = Delivered(x, k, dup)
  OBVIOUS
<1>3. PICK row : row = [token |-> k, buyer |-> till[x].buyer, delivered |-> del,
                        owns |-> KindOf[k] = "paid" /\ PackOf[k] \in OneTimePacks /\ del # "nothing",
                        duplicateOf |-> dup]
  OBVIOUS
<1>4. PICK fresh : fresh = IF Unrecorded(x, k) THEN till[x].fresh ELSE till[x].fresh \cup {row}
  OBVIOUS
<1>5. /\ till[x].pc = "recording" /\ k \in till[x].todo
      /\ till' = [till EXCEPT ![x].todo = @ \ {k}, ![x].fresh = fresh]
      /\ UNCHANGED <<receipts, strikes, disabled, buyerLock, tokenLock>>
  BY <1>1, <1>2, <1>3, <1>4 DEF RecordReceipt, penalties
<1>6. PICK next : next = [till[x] EXCEPT !.todo = @ \ {k}, !.fresh = fresh]
  OBVIOUS
<1>7. /\ till \in [Cashiers -> Till] /\ till[x] \in Till
      /\ till[x].buyer \in Buyers /\ buyerLock[till[x].buyer] = x /\ tokenLock[k] = x
      /\ till[x].minting \subseteq {"paid", "sandbox"}
  BY <1>5 DEF PurchasesInv, PurchasesTypeOK, LocksHeld, Verifying, Till
<1>8. row \in Receipt
  BY <1>1, <1>2, <1>3, <1>7 DEF Receipt, Delivered
<1>9. fresh \subseteq Receipt
  BY <1>4, <1>7, <1>8 DEF Till
<1>10. /\ next \in Till /\ next.pc = "recording" /\ next.buyer = till[x].buyer
       /\ next.todo = till[x].todo \ {k} /\ next.fresh = fresh
  BY <1>5, <1>6, <1>7, <1>9 DEF Till
<1>11. till' = [till EXCEPT ![x] = next]
  BY <1>5, <1>6, <1>7
<1>12. /\ till' \in [Cashiers -> Till] /\ till'[x] = next
       /\ \A y \in Cashiers \ {x} : till'[y] = till[y]
  BY <1>7, <1>10, <1>11
<1>13. PurchasesTypeOK'
  BY <1>5, <1>12 DEF PurchasesInv, PurchasesTypeOK
<1>14. LocksHeld'
  BY <1>5, <1>7, <1>10, <1>12 DEF PurchasesInv, LocksHeld
<1>15. row.token = k /\ row.buyer = till[x].buyer /\ row.delivered = del /\ row.duplicateOf = dup
       /\ row.owns = (KindOf[k] = "paid" /\ PackOf[k] \in OneTimePacks /\ del # "nothing")
  BY <1>3
<1>16. FreshOwn'
  BY <1>4, <1>5, <1>7, <1>10, <1>12, <1>15 DEF PurchasesInv, FreshOwn
<1>17. GoodRows(Seen(x) \cup {row}) \/ Unrecorded(x, k)
  <2> SUFFICES ASSUME ~Unrecorded(x, k) PROVE GoodRows(Seen(x) \cup {row})
    OBVIOUS
  <2>1. /\ GoodRows(Seen(x)) /\ Seen(x) \subseteq Receipt
        /\ \A r \in Seen(x) : r.token # k
        /\ KindOf[k] = "paid" => Mints(x, k)
    BY <1>7 DEF PurchasesInv, PurchasesTypeOK, Unrecorded, Seen, Till
  <2>2. /\ dup => del = "nothing"
        /\ del # "nothing" => Mints(x, k)
        /\ del = "bonus" => ~BoughtBefore(x, k)
        /\ ~dup /\ Mints(x, k) => del # "nothing"
    BY <1>2 DEF Delivered
  <2>3. Mints(x, k) => KindOf[k] \in {"paid", "sandbox"}
    BY <1>7 DEF Mints
  <2>4. row.owns => /\ ~dup
                    /\ \A r \in Seen(x) : ~(r.buyer = till[x].buyer /\ PackOf[r.token] = PackOf[k] /\ r.owns)
    BY <1>1, <1>15, <2>2 DEF Owner
  <2>5. dup => \E r \in Seen(x) : r.buyer = till[x].buyer /\ PackOf[r.token] = PackOf[k] /\ r.owns
    BY <1>1 DEF Owner
  <2>6. del = "bonus" =>
          \A r \in Seen(x) : r.buyer = till[x].buyer /\ PackOf[r.token] = PackOf[k]
                               /\ KindOf[r.token] \in {"paid", "sandbox"} => r.delivered = "nothing"
    BY <2>2 DEF BoughtBefore
  <2>7. KindOf[k] = "paid" /\ ~dup => del # "nothing"
    BY <2>1, <2>2
  <2> QED
    BY <1>7, <1>8, <1>15, <2>1, <2>2, <2>3, <2>4, <2>5, <2>6, <2>7, RowGood
<1>18. ASSUME NEW y \in Cashiers PROVE GoodRows(Seen(y)')
  <2>1. CASE y = x
    <3>1. Seen(x)' = IF Unrecorded(x, k) THEN Seen(x) ELSE Seen(x) \cup {row}
      BY <1>4, <1>5, <1>10, <1>12 DEF Seen
    <3>2. GoodRows(Seen(x))
      BY DEF PurchasesInv
    <3> QED
      BY <2>1, <3>1, <3>2, <1>17
  <2>2. CASE y # x
    BY <2>2, <1>5, <1>12 DEF PurchasesInv, Seen
  <2> QED
    BY <2>1, <2>2
<1>19. (\A y \in Cashiers : GoodRows(Seen(y)))' /\ GoodRows(receipts)'
  BY <1>5, <1>18 DEF PurchasesInv, GoodRows, OnceIn, SettledIn, MintedIn
<1> QED
  BY <1>13, <1>14, <1>16, <1>19 DEF PurchasesInv

\* Rows of transactions of different players and tokens go together.
LEMMA RowsMerge ==
  ASSUME NEW base, NEW mine, NEW other,
         GoodRows(base \cup mine), GoodRows(base \cup other),
         \A r \in mine, s \in other : r.token # s.token /\ r.buyer # s.buyer
  PROVE  GoodRows(base \cup mine \cup other)
<1>1. OnceIn(base \cup mine \cup other)
  BY DEF GoodRows, OnceIn
<1>2. SettledIn(base \cup mine \cup other)
  BY DEF GoodRows, SettledIn
<1>3. MintedIn(base \cup mine \cup other)
  BY DEF GoodRows, MintedIn
<1> QED
  BY <1>1, <1>2, <1>3 DEF GoodRows

LEMMA CommitReceiptsKeeps ==
  ASSUME PurchasesInv, NEW x \in Cashiers, CommitReceipts(x)
  PROVE  PurchasesInv'
<1>1. /\ till[x].pc = "recording" /\ receipts' = receipts \cup till[x].fresh
      /\ CloseTill(x) /\ UNCHANGED <<strikes, disabled>>
  BY DEF CommitReceipts, penalties
<1>2. /\ till' \in [Cashiers -> Till]
      /\ buyerLock' \in [Buyers -> Cashiers \cup {Unlocked}]
      /\ tokenLock' \in [Tokens -> Cashiers \cup {Unlocked}]
      /\ till'[x] = IdleTill /\ \A y \in Cashiers \ {x} : till'[y] = till[y]
      /\ LocksHeld' /\ FreshOwn'
  BY <1>1, ClosesTill
<1>3. PurchasesTypeOK'
  BY <1>1, <1>2 DEF PurchasesInv, PurchasesTypeOK, Till
<1>4. receipts' = Seen(x) /\ GoodRows(Seen(x))
  BY <1>1 DEF Seen, PurchasesInv
<1>5. ASSUME NEW y \in Cashiers PROVE GoodRows(Seen(y)')
  <2>1. CASE y = x \/ till[y].fresh = {}
    <3>1. Seen(y)' = Seen(x)
      BY <2>1, <1>2, <1>4, IdleTillType DEF Seen
    <3> QED
      BY <3>1, <1>4
  <2>2. CASE y # x /\ till[y].fresh # {}
    <3>1. Seen(y)' = receipts \cup till[x].fresh \cup till[y].fresh
      BY <2>2, <1>1, <1>2 DEF Seen
    <3>2. till[y].pc = "recording"
      BY <2>2 DEF PurchasesInv, FreshOwn
    <3>3. till[x].buyer # till[y].buyer
      BY <1>1, <2>2, <3>2 DEF PurchasesInv, LocksHeld, Verifying
    <3>4. \A r \in till[x].fresh, s \in till[y].fresh : r.token # s.token /\ r.buyer # s.buyer
      BY <2>2, <3>3 DEF PurchasesInv, FreshOwn
    <3>5. GoodRows(receipts \cup till[x].fresh) /\ GoodRows(receipts \cup till[y].fresh)
      BY DEF PurchasesInv, Seen
    <3>6. GoodRows(receipts \cup till[x].fresh \cup till[y].fresh)
      BY <3>4, <3>5, RowsMerge
    <3> QED
      BY <3>1, <3>6
  <2> QED
    BY <2>1, <2>2
<1>6. (\A y \in Cashiers : GoodRows(Seen(y)))' /\ GoodRows(receipts)'
  BY <1>4, <1>5 DEF GoodRows, OnceIn, SettledIn, MintedIn
<1> QED
  BY <1>2, <1>3, <1>6 DEF PurchasesInv

\* No step leaves the invariant.
LEMMA PurchasesInductive == PurchasesInv /\ [PurchasesNext]_purchasesVars => PurchasesInv'
<1> SUFFICES ASSUME PurchasesInv, [PurchasesNext]_purchasesVars PROVE PurchasesInv'
  OBVIOUS
<1>1. ASSUME NEW x \in Cashiers, RollBack(x) PROVE PurchasesInv'
  BY <1>1, RollBackKeeps
<1>2. ASSUME NEW x \in Cashiers, CommitReceipts(x) PROVE PurchasesInv'
  BY <1>2, CommitReceiptsKeeps
<1>3. ASSUME NEW x \in Cashiers, CommitRefund(x) PROVE PurchasesInv'
  BY <1>3, CommitRefundKeeps
<1>4. ASSUME NEW x \in Cashiers, NEW b \in Buyers, NEW tokens \in SUBSET Tokens,
             NEW minting \in Builds, Verify(x, b, tokens, minting)
      PROVE  PurchasesInv'
  BY <1>4, VerifyKeeps
<1>5. ASSUME NEW x \in Cashiers, NEW k \in Tokens, LockToken(x, k) \/ RecordReceipt(x, k)
      PROVE  PurchasesInv'
  BY <1>5, LockTokenKeeps, RecordReceiptKeeps
<1>6. ASSUME NEW x \in Cashiers, NEW b \in Buyers, Refund(x, b) PROVE PurchasesInv'
  BY <1>6, RefundKeeps
<1>7. CASE UNCHANGED purchasesVars
  BY <1>7 DEF purchasesVars, penalties, PurchasesInv, PurchasesTypeOK, LocksHeld, FreshOwn,
     GoodRows, OnceIn, SettledIn, MintedIn, Seen
<1> QED
  BY <1>1, <1>2, <1>3, <1>4, <1>5, <1>6, <1>7 DEF PurchasesNext

\* The invariant holds in every state.
LEMMA PurchasesAlways == PurchasesSpec => []PurchasesInv
<1> QED
  BY PurchasesInitial, PurchasesInductive, PTL DEF PurchasesSpec

-----------------------------------------------------------------------------
(* The order of the tokens' locks.  What a batch still waits for lies above  *)
(* all it holds; so along a chain of waits what is waited for shrinks.       *)

OrderedLocks ==
  \A x \in Cashiers :
    /\ till[x].pc \notin Verifying => HeldTokens(x) = {}
    /\ till[x].pc = "locking" =>
         \A k \in HeldTokens(x), j \in till[x].todo \ HeldTokens(x) : k < j

\* A batch takes the locks of its tokens in their order.
LEMMA LocksOrdered ==
  PurchasesTypeOK /\ OrderedLocks /\ [PurchasesNext]_purchasesVars => OrderedLocks'
<1> SUFFICES ASSUME PurchasesTypeOK, OrderedLocks, [PurchasesNext]_purchasesVars
             PROVE  OrderedLocks'
  OBVIOUS
<1> USE DEF Verifying, HeldTokens
<1>1. ASSUME NEW x \in Cashiers, CloseTill(x) PROVE OrderedLocks'
  <2>1. /\ till'[x].pc = "idle" /\ \A y \in Cashiers \ {x} : till'[y] = till[y]
        /\ \A y \in Cashiers \ {x} : HeldTokens(y)' = HeldTokens(y)
        /\ HeldTokens(x)' = {}
    BY <1>1, IdleTillType, PurchasesAssumption DEF CloseTill, PurchasesTypeOK
  <2> QED
    BY <2>1 DEF OrderedLocks
<1>2. ASSUME NEW x \in Cashiers, NEW b \in Buyers, NEW tokens \in SUBSET Tokens,
             NEW minting \in Builds, Verify(x, b, tokens, minting)
      PROVE  OrderedLocks'
  <2>1. /\ till[x].pc = "idle" /\ UNCHANGED tokenLock
        /\ \A y \in Cashiers \ {x} : till'[y] = till[y]
    BY <1>2 DEF Verify, PurchasesTypeOK
  <2>2. HeldTokens(x)' = {} /\ \A y \in Cashiers : HeldTokens(y)' = HeldTokens(y)
    BY <2>1 DEF OrderedLocks
  <2> QED
    BY <2>1, <2>2 DEF OrderedLocks
<1>3. ASSUME NEW x \in Cashiers, NEW k \in Tokens, LockToken(x, k) PROVE OrderedLocks'
  <2>1. /\ till[x].pc = "locking" /\ till'[x].pc \in {"locking", "recording"}
        /\ till'[x].todo = till[x].todo
        /\ \A y \in Cashiers \ {x} : till'[y] = till[y]
    BY <1>3 DEF LockToken, PurchasesTypeOK, Till
  <2>2. /\ HeldTokens(x)' = HeldTokens(x) \cup {k}
        /\ \A y \in Cashiers \ {x} : HeldTokens(y)' = HeldTokens(y)
    BY <1>3, PurchasesAssumption DEF LockToken, PurchasesTypeOK
  <2>3. till[x].todo \subseteq Tokens /\ Tokens \subseteq Nat
    BY PurchasesAssumption DEF PurchasesTypeOK, Till
  <2>4. ASSUME NEW j \in till[x].todo \ (HeldTokens(x) \cup {k}) PROVE k < j
    BY <1>3, <2>3, <2>4 DEF LockToken
  <2>5. \A h \in HeldTokens(x) \cup {k}, j \in till[x].todo \ (HeldTokens(x) \cup {k}) : h < j
    BY <2>1, <2>4 DEF OrderedLocks
  <2> QED
    BY <2>1, <2>2, <2>5 DEF OrderedLocks
<1>4. ASSUME NEW x \in Cashiers, NEW k \in Tokens, RecordReceipt(x, k) PROVE OrderedLocks'
  <2>1. /\ till'[x].pc = "recording" /\ UNCHANGED tokenLock
        /\ \A y \in Cashiers \ {x} : till'[y] = till[y]
    BY <1>4 DEF RecordReceipt, PurchasesTypeOK, Till
  <2> QED
    BY <2>1 DEF OrderedLocks
<1>5. ASSUME NEW x \in Cashiers, NEW b \in Buyers, Refund(x, b) PROVE OrderedLocks'
  <2>1. /\ till[x].pc = "idle" /\ UNCHANGED tokenLock
        /\ till'[x].pc = "refunding" /\ \A y \in Cashiers \ {x} : till'[y] = till[y]
    BY <1>5, IdleTillType DEF Refund, PurchasesTypeOK, Till
  <2> QED
    BY <2>1 DEF OrderedLocks
<1>6. CASE UNCHANGED purchasesVars
  BY <1>6 DEF purchasesVars, OrderedLocks
<1>7. ASSUME NEW x \in Cashiers, RollBack(x) \/ CommitReceipts(x) \/ CommitRefund(x)
      PROVE  CloseTill(x)
  BY <1>7 DEF RollBack, CommitReceipts, CommitRefund
<1> QED
  BY <1>1, <1>2, <1>3, <1>4, <1>5, <1>6, <1>7 DEF PurchasesNext

\* The tokens at or above one that the transaction still waits for.
Above(x) ==
  IF till[x].pc = "locking"
  THEN {k \in Tokens : \E j \in till[x].todo \ HeldTokens(x) : j <= k} ELSE {}

\* Who waits for another's token waits for more than the other does.
LEMMA WaitsShrink ==
  ASSUME PurchasesTypeOK, OrderedLocks, NEW x \in Cashiers, NEW y \in Cashiers, Waits(x, y)
  PROVE  Above(y) \subseteq Above(x) /\ Above(y) # Above(x)
<1>1. PICK k \in till[x].todo : tokenLock[k] = y
  BY DEF Waits
<1>2. /\ till[x].pc = "locking" /\ x # y /\ k \in till[x].todo \ HeldTokens(x)
      /\ k \in Tokens /\ Tokens \subseteq Nat /\ k \in HeldTokens(y)
      /\ till[y].todo \subseteq Tokens
  BY <1>1, PurchasesAssumption DEF Waits, HeldTokens, PurchasesTypeOK, Till
<1>3. k \in Above(x)
  BY <1>2 DEF Above
<1>4. ASSUME NEW i \in Above(y) PROVE i \in Tokens /\ k < i
  <2>1. PICK j \in till[y].todo \ HeldTokens(y) : j <= i
    BY <1>4 DEF Above
  <2>2. till[y].pc = "locking" /\ i \in Tokens
    BY <1>4 DEF Above
  <2>3. k < j
    BY <1>2, <2>2 DEF OrderedLocks
  <2>4. i \in Nat /\ j \in Nat /\ k \in Nat
    BY <1>2, <2>1, <2>2
  <2> QED
    BY <2>1, <2>2, <2>3, <2>4
<1>5. ASSUME NEW i \in Above(y) PROVE i \in Above(x)
  <2>1. i \in Tokens /\ k < i
    BY <1>4, <1>5
  <2>2. i \in Nat /\ k \in Nat
    BY <1>2, <2>1
  <2>3. k <= i
    BY <2>1, <2>2
  <2> QED
    BY <1>2, <2>1, <2>3 DEF Above
<1>6. k \notin Above(y)
  BY <1>2, <1>4
<1> QED
  BY <1>3, <1>5, <1>6

\* A set of sets of tokens has a smallest among them.
LEMMA SmallestSet ==
  ASSUME NEW sets, sets \subseteq SUBSET Tokens, sets # {}
  PROVE  \E s \in sets : \A u \in sets : ~(u \subseteq s /\ u # s)
<1>1. sets \subseteq FiniteSubsetsOf(Tokens)
  BY FS_Subset, PurchasesAssumption DEF FiniteSubsetsOf
<1>2. IsWellFoundedOn(StrictSubsetOrdering(Tokens), FiniteSubsetsOf(Tokens))
  BY FS_StrictSubsetOrderingWellFounded
<1>3. PICK s \in sets : \A u \in sets : <<u, s>> \notin StrictSubsetOrdering(Tokens)
  BY <1>1, <1>2, WFMin
<1> QED
  BY <1>3 DEF StrictSubsetOrdering

\* Who waits for a token holds only earlier ones, so nobody waits for himself.
LEMMA OrderPreventsCycles ==
  ASSUME PurchasesTypeOK, OrderedLocks PROVE NoTokenCycle
<1> SUFFICES ASSUME NEW some \in SUBSET Cashiers, some # {}
             PROVE  \E x \in some : \A y \in some : ~Waits(x, y)
  BY DEF NoTokenCycle
<1>1. PICK sets : sets = {Above(x) : x \in some}
  OBVIOUS
<1>2. sets \subseteq SUBSET Tokens /\ sets # {}
  BY <1>1 DEF Above
<1>3. PICK s \in sets : \A u \in sets : ~(u \subseteq s /\ u # s)
  BY <1>2, SmallestSet
<1>4. PICK x \in some : s = Above(x)
  BY <1>1
<1>5. ASSUME NEW y \in some, Waits(x, y) PROVE FALSE
  <2>1. Above(y) \subseteq Above(x) /\ Above(y) # Above(x)
    BY <1>5, WaitsShrink
  <2>2. Above(y) \in sets
    BY <1>1
  <2> QED
    BY <1>3, <1>4, <2>1, <2>2
<1> QED
  BY <1>5

-----------------------------------------------------------------------------
(* Theorems. *)

\* The types of the receipts, the transactions and their locks.
THEOREM PurchasesTypeCorrect == PurchasesSpec => []PurchasesTypeOK
<1>1. PurchasesInv => PurchasesTypeOK
  BY DEF PurchasesInv
<1> QED
  BY <1>1, PurchasesAlways, PTL

\* A token, a one-time pack and a first-purchase bonus are delivered once,
\* whoever presents receipts in whatever batches at once.
THEOREM ReceiptsDeliveredOnce == PurchasesSpec => []DeliveredOnce
<1>1. PurchasesInv => DeliveredOnce
  BY DEF PurchasesInv, GoodRows, OnceIn, DeliveredOnce
<1> QED
  BY <1>1, PurchasesAlways, PTL

\* Money that was recorded was delivered, or is a second payment for a pack owned.
THEOREM PaidAlwaysSettled == PurchasesSpec => []PaidSettled
<1>1. PurchasesInv => PaidSettled
  BY DEF PurchasesInv, GoodRows, SettledIn, PaidSettled
<1> QED
  BY <1>1, PurchasesAlways, PTL

\* Batches that lock their tokens one after another never wait in a circle.
THEOREM TokensNeverCycle == PurchasesSpec => []NoTokenCycle
<1>1. PurchasesInit => OrderedLocks
  BY IdleTillType, PurchasesAssumption
     DEF PurchasesInit, OrderedLocks, Verifying, HeldTokens
<1>2. PurchasesTypeOK /\ OrderedLocks => NoTokenCycle
  BY OrderPreventsCycles
<1> QED
  BY <1>1, <1>2, LocksOrdered, PurchasesTypeCorrect, PTL DEF PurchasesSpec
=============================================================================

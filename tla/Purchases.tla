------------------------------ MODULE Purchases ------------------------------
(***************************************************************************)
(* Money (features/purchases/server.ts): receipts verified one by one or   *)
(* in a batch, what each delivers, and the refunds that strike a player.   *)
(*                                                                         *)
(* A receipt is its provider token; its signed facts (the pack, the        *)
(* classification classifyReceipt gives it, the players it was signed for) *)
(* are constants of an instance.  A verification is a transaction of       *)
(* several statements under the player's lock and the locks of its tokens. *)
(* Definitions marked "Fault" are bugs the properties are tried against;   *)
(* nothing uses them.                                                      *)
(***************************************************************************)
EXTENDS Naturals, FiniteSets

CONSTANTS
  Buyers,       \* players
  Tokens,       \* provider tokens, numbered in their sorted order
  SignedFor,    \* the buyers and tokens a signature binds
  PackOf,       \* the pack of each token
  KindOf,       \* its classification
  OneTimePacks, \* packs a paid purchase owns
  Builds,       \* what the builds deployed side by side mint (game.purchases)
  Cashiers,     \* transactions under way at once
  StrikeLimit,  \* refunds that disable purchases (three)
  MaxStrikes,   \* bound: refunds of one player
  Unlocked, Nobody

Kinds == {"paid", "sandbox", "unclassified", "unsupported"}

ASSUME PurchasesAssumption ==
  /\ Tokens \subseteq Nat /\ IsFiniteSet(Tokens)
  /\ SignedFor \subseteq Buyers \X Tokens
  /\ KindOf \in [Tokens -> Kinds]
  /\ Builds \subseteq SUBSET {"paid", "sandbox"}
  /\ Unlocked \notin Cashiers /\ Nobody \notin Buyers
  /\ StrikeLimit \in Nat \ {0} /\ MaxStrikes \in Nat

VARIABLES
  receipts,     \* purchase_transactions, as committed
  strikes,      \* player_strikes, as committed
  disabled,     \* players with the flag purchases_disabled
  till,         \* the transactions
  buyerLock, tokenLock

penalties == <<strikes, disabled>>
purchasesVars == <<receipts, penalties, till, buyerLock, tokenLock>>

\* A row: what it delivered (the pack, with its first-purchase bonus or
\* without) and whether it is a second payment for a pack already owned.
Receipt ==
  [token : Tokens, buyer : Buyers, delivered : {"nothing", "base", "bonus"},
   owns : BOOLEAN, duplicateOf : BOOLEAN]

Till ==
  [pc : {"idle", "locking", "recording", "refunding"}, buyer : Buyers \cup {Nobody},
   todo : SUBSET Tokens, fresh : SUBSET Receipt, strikes : 0..MaxStrikes,
   minting : SUBSET {"paid", "sandbox"}]   \* what game.purchases of its build mints
IdleTill ==
  [pc |-> "idle", buyer |-> Nobody, todo |-> {}, fresh |-> {}, strikes |-> 0, minting |-> {}]

PurchasesInit ==
  /\ receipts = {}
  /\ strikes = [b \in Buyers |-> 0] /\ disabled = {}
  /\ till = [x \in Cashiers |-> IdleTill]
  /\ buyerLock = [b \in Buyers |-> Unlocked]
  /\ tokenLock = [k \in Tokens |-> Unlocked]

CloseTill(x) ==
  /\ till' = [till EXCEPT ![x] = IdleTill]
  /\ buyerLock' = [b \in Buyers |-> IF buyerLock[b] = x THEN Unlocked ELSE buyerLock[b]]
  /\ tokenLock' = [k \in Tokens |-> IF tokenLock[k] = x THEN Unlocked ELSE tokenLock[k]]

RollBack(x) ==
  /\ till[x].pc # "idle"
  /\ CloseTill(x)
  /\ UNCHANGED <<receipts, penalties>>

-----------------------------------------------------------------------------
(* Verification. *)

\* PurchasesVerify has one receipt, PurchasesVerifyBatch any number; the guard
\* on purchases_disabled runs before the transaction.  While a deployment rolls
\* out, builds with different switches answer side by side.
Verify(x, b, tokens, minting) ==
  /\ till[x].pc = "idle" /\ buyerLock[b] = Unlocked /\ b \notin disabled
  /\ tokens # {} /\ {b} \X tokens \subseteq SignedFor
  /\ till' = [till EXCEPT ![x] = [IdleTill EXCEPT !.pc = "locking", !.buyer = b, !.todo = tokens,
                                                  !.minting = minting]]
  /\ buyerLock' = [buyerLock EXCEPT ![b] = x]
  /\ UNCHANGED <<receipts, penalties, tokenLock>>

HeldTokens(x) == {k \in Tokens : tokenLock[k] = x}

\* Fault: the locks are taken in the order of the batch.
LockTokenUnsorted(x, k) ==
  /\ till[x].pc = "locking"
  /\ k \in till[x].todo \ HeldTokens(x)
  /\ tokenLock[k] = Unlocked
  /\ tokenLock' = [tokenLock EXCEPT ![k] = x]
  /\ till' = [till EXCEPT ![x].pc = IF till[x].todo \ HeldTokens(x) = {k} THEN "recording" ELSE @]
  /\ UNCHANGED <<receipts, penalties, buyerLock>>

\* The tokens' advisory locks, in their sorted order.
LockToken(x, k) ==
  /\ till[x].pc = "locking"
  /\ k \in till[x].todo \ HeldTokens(x)
  /\ \A j \in till[x].todo \ HeldTokens(x) : k <= j
  /\ tokenLock[k] = Unlocked
  /\ tokenLock' = [tokenLock EXCEPT ![k] = x]
  /\ till' = [till EXCEPT ![x].pc = IF till[x].todo \ HeldTokens(x) = {k} THEN "recording" ELSE @]
  /\ UNCHANGED <<receipts, penalties, buyerLock>>

\* What the transaction sees: what is committed, and its own rows.
Seen(x) == receipts \cup till[x].fresh

Owner(x, k) ==
  \E r \in Seen(x) : r.buyer = till[x].buyer /\ PackOf[r.token] = PackOf[k] /\ r.owns

BoughtBefore(x, k) ==
  \E r \in Seen(x) : /\ r.buyer = till[x].buyer /\ PackOf[r.token] = PackOf[k]
                     /\ KindOf[r.token] \in {"paid", "sandbox"} /\ r.delivered # "nothing"

Mints(x, k) == KindOf[k] \in till[x].minting

\* Fault: the bonus is decided on the committed rows of paid purchases alone.
DeliveredPaidOnly(x, k, duplicate) ==
  IF duplicate \/ ~Mints(x, k) THEN "nothing"
  ELSE IF \E r \in receipts : /\ r.buyer = till[x].buyer /\ PackOf[r.token] = PackOf[k]
                              /\ KindOf[r.token] = "paid" /\ r.delivered # "nothing"
       THEN "base" ELSE "bonus"

\* deliveryRewards; the last receipt for an owned one-time pack delivers nothing.
Delivered(x, k, duplicate) ==
  IF duplicate \/ ~Mints(x, k) THEN "nothing" ELSE IF BoughtBefore(x, k) THEN "base" ELSE "bonus"

\* Fault: money is recorded while its delivery is switched off.
UnrecordedSeenOnly(x, k) == \E r \in Seen(x) : r.token = k

\* Refused: someone else's receipt, a receipt already recorded, or money whose
\* delivery is switched off, which stays unrecorded so that it can be retried.
Unrecorded(x, k) ==
  \/ \E r \in Seen(x) : r.token = k
  \/ KindOf[k] = "paid" /\ ~Mints(x, k)

\* recordReceipt, of one receipt of the batch.
RecordReceipt(x, k) ==
  LET duplicate == PackOf[k] \in OneTimePacks /\ KindOf[k] # "unsupported" /\ Owner(x, k)
      delivered == Delivered(x, k, duplicate)
      row == [token |-> k, buyer |-> till[x].buyer, delivered |-> delivered,
              owns |-> KindOf[k] = "paid" /\ PackOf[k] \in OneTimePacks /\ delivered # "nothing",
              duplicateOf |-> duplicate]
  IN  /\ till[x].pc = "recording" /\ k \in till[x].todo
      /\ till' = [till EXCEPT ![x].todo = @ \ {k},
                              ![x].fresh = IF Unrecorded(x, k) THEN @ ELSE @ \cup {row}]
      /\ UNCHANGED <<receipts, penalties, buyerLock, tokenLock>>

CommitReceipts(x) ==
  /\ till[x].pc = "recording" /\ till[x].todo = {}
  /\ receipts' = receipts \cup till[x].fresh
  /\ CloseTill(x)
  /\ UNCHANGED penalties

-----------------------------------------------------------------------------
(* Refunds: AdminAdjust takes no lock (lock: 'none').  It inserts its       *)
(* strike, counts what it sees and commits.                                 *)

Refund(x, b) ==
  /\ till[x].pc = "idle" /\ strikes[b] < MaxStrikes
  /\ till' = [till EXCEPT ![x] = [IdleTill EXCEPT !.pc = "refunding", !.buyer = b,
                                                  !.strikes = strikes[b] + 1]]
  /\ UNCHANGED <<receipts, penalties, buyerLock, tokenLock>>

CommitRefund(x) ==
  LET b == till[x].buyer
  IN  /\ till[x].pc = "refunding" /\ strikes[b] < MaxStrikes
      /\ strikes' = [strikes EXCEPT ![b] = @ + 1]
      /\ disabled' = IF till[x].strikes >= StrikeLimit THEN disabled \cup {b} ELSE disabled
      /\ CloseTill(x)
      /\ UNCHANGED receipts

PurchasesNext ==
  \/ \E x \in Cashiers :
       \/ RollBack(x) \/ CommitReceipts(x) \/ CommitRefund(x)
       \/ \E b \in Buyers, tokens \in SUBSET Tokens, minting \in Builds :
            Verify(x, b, tokens, minting)
       \/ \E k \in Tokens : LockToken(x, k) \/ RecordReceipt(x, k)
       \/ \E b \in Buyers : Refund(x, b)

PurchasesSpec == PurchasesInit /\ [][PurchasesNext]_purchasesVars

-----------------------------------------------------------------------------
(* Properties. *)

PurchasesTypeOK ==
  /\ receipts \subseteq Receipt
  /\ strikes \in [Buyers -> 0..MaxStrikes] /\ disabled \subseteq Buyers
  /\ till \in [Cashiers -> Till]
  /\ buyerLock \in [Buyers -> Cashiers \cup {Unlocked}]
  /\ tokenLock \in [Tokens -> Cashiers \cup {Unlocked}]

\* Whoever presents them, in whatever batches at once: a token is recorded
\* once, a one-time pack is paid for and delivered once to a player, and the
\* first-purchase bonus of a pack is given to a player once (server.ts:227-332).
DeliveredOnce ==
  \A r, s \in receipts :
    r # s => /\ r.token # s.token
             /\ (r.buyer = s.buyer /\ PackOf[r.token] = PackOf[s.token]) =>
                  ~(r.owns /\ s.owns) /\ ~(r.delivered = "bonus" /\ s.delivered = "bonus")

\* Money that was recorded is settled: its grant was minted in the same
\* transaction, or the row is a second payment for a pack another row owns, which
\* support refunds; money that could not be delivered was not recorded and can be
\* presented again (ADR-035, `delivery_unavailable`).
PaidSettled ==
  \A r \in receipts : KindOf[r.token] = "paid" =>
    IF r.duplicateOf
    THEN \E s \in receipts : s.buyer = r.buyer /\ PackOf[s.token] = PackOf[r.token] /\ s.owns
    ELSE r.delivered # "nothing"

\* Verifications never wait in a circle for each other's tokens, which batches
\* lock one after another: of any number of them, one waits for none of the rest.
Waits(x, y) == till[x].pc = "locking" /\ x # y /\ \E k \in till[x].todo : tokenLock[k] = y
NoTokenCycle ==
  \A some \in (SUBSET Cashiers) \ {{}} : \E x \in some : \A y \in some : ~Waits(x, y)
=============================================================================

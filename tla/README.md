# A verification project for the Warp Crew platform

TLA+ modules of the parts of this repository whose correctness depends on the
order of things: the server's save ledger, its transactional outbox, its
idempotent command bus, the client's save sync that talks to the ledger over a
network that delays, loses and repeats, the server's features that mint, sell and
pay, and of the game Warp Crew the delivery of what was bought, the voyage,
the beats of a fight and the copy of the player its interface edits. TLC checks small instances, TLAPS
proves the main theorems for every value of the constants. `PROJECT.json` lists
the components, runs, mutants, findings, hazards, theorems, and the source lines
each definition stands for.

To repeat the checks: `tlc -config X.cfg M` for the modules and configurations
listed under [Runs](#runs), and `tlapm M.tla` for the `*Proofs` modules.

## The system

The repository is a monorepo. `packages/server` is a Fastify + PostgreSQL service,
deployed once per game; `packages/client` is the browser library a game embeds;
`apps/` holds the games (Warp Crew, Idle Civ, a template) and the server's
composition root. Every mutation a client sends is a *command* with an id the
client mints and keeps, executed in one database transaction.

### Server components

| component | state | operations | hard behaviour | what makes it correct |
|---|---|---|---|---|
| **command bus** `cqrs/bus.ts` | `commands`, `command_tombstones` | reserve, execute, finalise, replay, record a failure; expire to tombstones | duplicates at once, failures at any await, retries long after | one effect per id while remembered; answers only for the request that ran; results never overwritten |
| **save ledger** `features/saves`, `features/lineage`, `db/snapshots.ts` | `generations`, `save_snapshots` (append-only), `save_blobs` (prunable), `save_reviews`, `players.erased_at` | write, review, restart, restore, reattach, erase, import; prune; read current | old devices, late writes, retention beside the lock, unlocked reads | a generation only deepens; superseded generations are frozen; what a player would be restored to is never pruned |
| **outbox** `outbox/index.ts` | `outbox`, `outbox_deliveries`, `outbox_dead_letters` | emit in a command's transaction, drain by leases, finalise, dead-letter, replay, purge | lapsed leases, lost workers, failed bookkeeping, replay against all of it | at least once, settled only by the current lease, dead letters match, everything settles |
| **retention** `migrations/0011` | all of the above | hourly sweep, daily prune | runs beside everything | removes what is old and nothing that is needed |
| **purchases** `features/purchases` | `purchase_transactions`, `player_strikes`, player flags | verify one receipt or a batch, refund | one receipt by two players, one-time packs, batches of locks, builds side by side in a roll-out | one delivery and one bonus; recorded money is settled; no circle of locks |
| **grants and codes** `features/grants`, `rewards/mint.ts` | `grants`, `grant_claims`, `codes`, redemptions | mint, claim, redeem, cohort | capacity across players with different locks, the claim budget | a grant pays once; capacity and budget kept |
| **daily rewards** `features/achievements` | `daily_claims` | claim | the clock set back, two cadences, new generations | a row a day; a rolling day apart |
| **leaderboards** `features/leaderboards` | submissions, reviews, entries, placements | submit, review, close, reopen | rebuilds of one table by transactions with different locks | one entry each; only visible runs are paid |
| **jobs** `jobs/index.ts` | slots, advisory locks, `job_runs` | call, lock, decide, run | lost connection under a lock, dying replicas | one runner per job; an interval apart |
| inbox, subscriptions | projections and ledgers | read, refresh | little | |
| liveops | versioned configuration | publish, activate | activation against readers | one active version |
| identity, names, journal, telemetry, qa, admin | rows of their own | ingestion and moderation | little | mostly single-row upserts |
| http, auth, limits, codec, health, dr, observability | none shared | request edge, I/O | none modelled | |

### Client components

| component | state | operations | hard behaviour | what makes it correct |
|---|---|---|---|---|
| **save sync** `sync/client.ts` | the cache envelope in memory (state, generation, pending, last acknowledged seq, dirty), the device slot, one push in flight, halts | capture, save locally, push, apply a verdict, beacon, fetch a head, adopt, start new | every await; the page may die; beacons overtake pushes; adoption under a push | nothing is lost silently; ids are persisted before they are sent; generations never mix |
| **boot and reconcile** `boot/machine.ts`, `sync/reconcile.ts` | phase, the prompt | boot, head check, decide, act, recheck | the head it decided on is old when it acts | adopt only what is newer, or deeper than a clean game |
| **game client** `game-client.ts` | wiring | mark dirty, lifecycle beacons, generation broadcast | broadcasts meet pushes | |
| ratchet and restore | floor in the envelope, gate depth | forward-only writes, restore under a gate | pushes already under way | within a generation only deeper |
| tab leadership | Web Locks role | request, steal, release | releases before an acquire settles | one writer |
| identity switch | two sync clients | carry or choose a game | retires one while it pushes | no game is lost |
| journal, storage, engine loop, clock, providers, React | local | | | |

### Warp Crew

| component | state | operations | hard behaviour | what makes it correct |
|---|---|---|---|---|
| **delivery of purchases** `core/purchases.js`, `core/client.js` | the provider's purchases, the server's grants and claims, the slot, each tab's player | checkout, recover, verify, claim, apply, save durably, complete | tabs die, take over, reload the slot at any await | applied once; a claim is accounted for |
| **voyage** `systems/contracts.js`, `encounterState.js`, `travelFight.js`, `travelEvents.js`, `walls.js`, `sessionLoop.js` | the saved player: crew, fuel, board, contract, fight, event, away team, siege | accept, launch, choose, fight, claim, abandon, jump, expedition | the clock moves between what was shown and the click, and may step back; a load normalises | an offer is paid once; one thing at a time; the wall falls once; fights survive a load |
| **crew fight** `systems/ftlCombat.js` | the fight's record | beats with orders, taps | a beat may end at its order, a volley or a move, in every mixture of twist and faction | what a beat leaves is what the validator accepts |
| **live copy** `main.js`, `core/engine.js`, `core/client.js` | the core's player, `main.js`'s copy, what waiting handlers took along | publish, session acts, edits handed back whole, checkouts, grants, saves, the lead | two handlers wait at once; a publication replaces the copy one of them is editing | what was delivered is not written over; the screen shows what would be saved |
| interface, economy simulation, gacha | | | | |

### How they interact

A game marks the sync dirty; the sync persists an envelope and sends a snapshot
under a command id (PUT `/v1/saves`, or a keepalive or `sendBeacon` at teardown).
The HTTP edge hands it to the bus, which opens a transaction, takes the player's
advisory lock, reserves the id and calls the handler; the handler places the
snapshot in the ledger and may emit outbox messages in the same transaction. The
verdict travels back and the client acknowledges its pending, drops it, or adopts
the server's head. Jobs drain the outbox, prune blobs and age rows *beside* the
player's lock. Other devices do the same to the same lineage. Tabs of one browser
announce new generations to each other.

## Modules

| module | what it is |
|---|---|
| `SaveRegister` | abstract: a lineage is a register that only deepens; going back needs a newer generation |
| `SaveLedger` | the ledger of one player, every command of saves and lineage, pruning and the read |
| `SaveLedgerProofs` | its theorems |
| `Fanout` | abstract: each delivery is owed until settled, delivered only after it was performed, reopened by a replay alone |
| `Outbox`, `OutboxProofs` | leases, tokens, retries, dead letters, replay, sweep; theorems |
| `Once` | abstract: a remembered call is not performed again; success only for what was performed |
| `CommandBus`, `CommandBusProofs` | executions of the commands of one scope; theorems |
| `SaveSync`, `SaveSyncProofs` | one device, composed with an instance of `SaveLedger`, a wire and another device; theorems |
| `Grants` | grants, claims, codes, cohorts and achievements over transactions and locks |
| `Purchases` | verifications of receipts and refunds over transactions and locks |
| `EconomyProofs` | the theorems of `Grants` and `Purchases` |
| `Daily` | one player's daily claims on a clock that may be set back |
| `Jobs` | the runners of several replicas |
| `Seasons` | a leaderboard's season, with overlapping rebuilds of its table |
| `ScheduleProofs` | the theorems of `Daily`, `Jobs` and `Seasons` |
| `Delivery` | Warp Crew: from the provider's purchase to the player's save, in several tabs |
| `LiveCopy` | Warp Crew: the core's player and the copy the interface edits |
| `Voyage` | Warp Crew: what the captain does with the ship, on the trusted clock |
| `CrewFight` | Warp Crew: the beats of a fight and the validator of saved fights |
| `WarpCrewProofs` | the theorems of `Delivery`, `LiveCopy`, `Voyage` and `CrewFight` |
| `MCFeatures` | the modules from `Grants` on, but for those of proofs, in one instance |
| `FeaturesProofs` | that this instance runs each of them as it is on its own |
| `MC*` | the constants of TLC's instances |

Definitions whose comment starts with "Fault" are plausible bugs (a guard dropped,
a reset forgotten). Nothing uses them: each is substituted for the definition it
varies to see that the property named in `PROJECT.json` notices.

### SaveLedger and the code

Every command runs in one transaction that takes the player's advisory lock
before its first read, so a command is one step. `gens` is the `generations`
table in order, `snaps` the `save_snapshots` rows by `seq`, `blobs` the seqs that
still have a `save_blobs` row, `reviews` the terminal reviews. `SavesWrite` is the
write handler with `place`: a stale generation, an undecodable or rejected blob,
or a depth below the stored head is stored *refused*; a suspect one is
*quarantined*; the rest is *anchored*. `Place` keeps only the resulting
disposition, so the order of the reasons for a refusal does not matter to it.
`SavesReview` is `promote_snapshot`. `LineageRestart`, `LineageRestoreToSeq`,
`AdminRestore`, `LineageReattach`, `AdminErase` and `QaImport` are the lineage
commands; restores seed a new generation with a copy of any row that has a blob,
a refused or quarantined one included.

Two things run without the lock and are split where others can come between:

* `PruneSaveBlobs` and `PruneRefusedBlobs` decide (a DELETE chooses its rows from
  its statement's snapshot) and `PruneDelete` deletes later, skipping rows that
  vanished;
* `ReadGeneration`, `ReadAnchor`, `ReadBlob` are the statements of
  `GET saves/current`.

Time is abstract. Rows that the plan keeps for their date or for a purchase are
any set of rows (`dated`); how many refused blobs came within the hour is any
number (`recent`). Divergence marks, summaries, reason texts and audit rows are
left out.

### Outbox and the code

`Emit` is `emitOutbox`; `Drain` the leasing UPDATE (a batch of due or lapsed rows,
FOR UPDATE SKIP LOCKED makes it one step); `Handle` a consumer's run, which may
throw after its effect; the three `Finalise*` are compare-and-sets on the lease
token; `Abandon` is a process that dies or whose bookkeeping throws, which ends
the drain and leaves the rest of its batch leased; `Lapse*` is the clock passing
`lease_until`; `Replay` is `replayInTx`; `ApplyRetention` the two DELETEs of the
sweep. An effect that committed before its recording threw is recorded as a
failure, and the model keeps that. A token is fresh for each lease; a worker runs
one drain at a time and holds a delivery at most once, so it is named by the
worker. Backoff is left open: a pending row may be due at any time.

### CommandBus and the code

An execution goes through `Begin`, `TakeLock`, `CheckTombstone`, `Reserve`, then
`Commit` (handler, finalising and COMMIT: what they write is seen together),
`HandlerRefuses` or `Fail` (anything thrown, at any await). A refusal is recorded
by `RecordFailure` in a transaction of its own. `Contested` is the wait on the
unique index. A request stands for command type and payload, as the request hash
does. `ApplyRetention` turns expired rows into tombstones, of requests with an
`outcomeRef` only. The middleware in front of the transaction (validation,
authorization, limits) is left out: it may refuse, and changes no row of the bus.
`MayPerform` states what the ledgers behind referenced commands guarantee: their
facts carry the command id under a unique constraint. `lineage.restart` is the exception:
its fact carries the `restart_id` alone, so it is not among `Referenced`, and that it opens no
second generation is `RestartOnce` of `SaveLedger`.

### SaveSync and the code

JavaScript runs a callback to its end, so a step is what happens between two
awaits; where an await resumes in the same turn of the microtask queue, `Free`
keeps other steps out. `env` is the envelope in memory, `slot` the one on the
device, `live` the state the loop runs; `push` is `inFlight` with the place it
awaits, `recheck` the boot reconcile or a later head recheck, `bcast` the adoption
after a sibling's announcement. A request on the `wire` is a push's (`put`), one
whose push gave up or whose page died (`late`), or a beacon's.

* `Mint` is the commit of `capture` and `ensurePendingSync`: state, pending with
  its ancestors, dirty flags, persisting, behind the ratchet (`Deep`).
* `Persist` writes the slot, if this client may. The device may refuse (it is full, or
  blocked: `tiers.ts:128-146`); the code then keeps what it wanted to write in memory, reports it
  and goes on, and so does the model: `slot` stays, `overlaid` says that memory is ahead, the
  push goes out (`client.ts:902`), and a reload finds the old slot.
* `Sends` is `bodyFor`: the pending verbatim, with the `lastAckedSeq` of now.
* `Arrive` is a request executed by the server: `L!SavesWrite` of the *actual*
  ledger module the first time, what became of it (`Replayed`) or a mismatch for a
  retry. `OtherSaves` and `OtherRestarts` are another device.
* `VerdictAcked`, `VerdictRefused`, `VerdictBehind`, `VerdictRejected` are
  `applyVerdict`; `PushAdopts` what follows a stale one.
* `Adopted` is `adoptGeneration` under `adoptRemote` and `startNew`; `Adopt` adds
  `swapEnvelope`, which has the loop run the envelope's state.
* `Reconcile` and `Act` are `reconcile` and `act`; `AnswerPrompt` the player;
  `BootRepush` and `Reload` the boot.

Simplifications, each of which leaves the order of things alone: `progress`,
`state` and the ratchet floor are one value, since the code assigns them together; settling the loop
before a snapshot may change its encoding, not which state was played; a head is
read when a recheck or broadcast starts (one that waits first changes nothing,
and the answer may still be acted on late). Play only deepens a game, which is
what the game-supplied progress promises. Left out: gzip captures (no
application enables them), erased and update-required halts, backoff and
authentication (they only delay pushes), the restore gate, followers and
takeover, the platform KV mirror (which may keep a copy of a slot the device refuses) and the
journal, `reconcileEqualProgress`; a device whose storage is still blocked after a reload, which is a
first start; and a second `recheck()` begun while one is under way, which the code does not keep
out (`boot/machine.ts:430`): the model runs one at a time.

### Grants and the code

Commands that can meet inside a transaction are several steps: what one writes is
seen when it commits, and its advisory and row locks are held until then
(`Release`). `RedeemLook`, `RedeemReserve` and `RedeemCommit` are `CodesRedeem`,
whose conditional UPDATE waits for the code's row; `Evaluate`, `UnlockAward` and
`EvaluateCommit` are `evaluatePlayer` with `mintGrant` under the claim budget it
read; `CohortBegin`, `CohortVisit` and `CohortCommit` are the cohort grant, which
takes every matching player's lock in the order of their keys. `Claim` is both
`GrantsClaim` and `GrantsClaimBatch`. `Abort` is a failed statement, a lock timeout
or a dead process. Refusals write nothing and are not steps.

### Purchases and the code

A receipt is its provider token; its signed facts are constants. `Verify`,
`LockToken`, `RecordReceipt` and `CommitReceipts` are `verifyReceipts`, of one
receipt or a batch: the player's lock, the tokens' locks in sorted order, one
`recordReceipt` after another that sees the committed rows and its own. What a build
mints (`Builds`) is read per transaction, as builds with different switches answer
during a roll-out. `Refund` and `CommitRefund` are `AdminAdjust`, which takes no lock.

### Daily and the code

`Open` and `LadderDay` are `decideDailyClaim`, `DailyClaim` the command under the
player's lock. The clock ticks and is set back; a publication replaces the document, and with
it the cadence, the ladder's length and the progress asked for, all of which a claim reads from
the document of the moment; a restart opens a generation with whatever progress. `cut`, of a row, is history: the
ladder that paid it no longer had the step claimed last. A day has `Hours` hours, and so
has the rolling period.

### Jobs and the code

`Call` is `runOne` up to its slot, `TryLock` the advisory lock of the job's own
transaction, `Decide` the heartbeats read under it, `JobEnds` the heartbeat that
commits with the lock. `LoseConnection` frees the lock and rolls the heartbeat back
while `job.run()` goes on (`OrphanEnds`). `Die` is a replica's death, `Age` the
passing of the retry delay and the interval.

### Seasons and the code

A command is a session that begins (`Submit`, `Review`, `Close`), rebuilds the table
(`DeleteBegins`, `DeleteEnds`, `InsertBegins`, `InsertEnds`) and commits. Submissions
hold their player's lock, reviews and closes the game's, so rebuilds overlap: the
DELETE removes what it saw and skips what another one removed, the INSERT waits for
keys not yet committed and fails on those that are.

### Delivery and the code

A tab has a player (`state`), the device a slot, and one tab leads. A flow is a run of
`deliverPurchase` at an await: `Checkout`, `RecoverPurchase` or `Pending` begin one,
`VerifyPurchase` and `AskClaim` ask the server, `ServerClaims` is the command at the
server with its answer heard or lost, `Apply` is `applyGrant`, `SaveDurably` the slot
write, `Complete` the provider's. `OpenTab`, `CloseTab`, `PlayHere` and `Autosave` come
between any two awaits. The server is the promise `Grants` is checked for: a claim is
won once.

### Voyage and the code

`player` is the saved record. A click is one step and is followed by the `prepare`
of the render it causes (`Becomes`), so only the clock moves between clicks; what a
click reads again of the clock is modelled where it does (`Squad` against
`MarkedReady`, `PreviewStands`). `Normalize` is what a load makes of a save; `ValidSnapshot`,
`ValidTravelFight` and `ValidEvent` are its checks. A fight is its beats and how it ended.

### CrewFight and the code

A step is `advanceFtlEncounter` by one beat (`Beat`) or a tap (`Tap`): the order, which
may end the beat, boarders, cloak, moves, then the ticks, regrowth, the clock of a
holdout and the charging of moves. What the seeded dice and amounts decide (who is
hit, how hard, whether a helm stands, what a room holds) is open, within
`Punch` a volley. Overcharge, moving crew and targets change only how likely things
are and are left out. `ValidFtlBody` is the validator, rule by rule, for the fields
that are modelled; the caller refuses a fight it does not accept, and so does `Advance`.

### LiveCopy and the code

`core` is the player of the loop, `live` the variable `player` of `main.js`, which the
subscriber set up in `bootCore` makes follow every publication (`Published`). Acts of the
voyage go through the engine (`SessionAct`); the other handlers edit the copy and `persist`
it whole (`Persisted`: a follower's or a shallower player is refused and the copy goes back).
A handler that awaits is one of `Handlers`: `HireAndNotify` and `Notified` are an edit, the
reminders and the persist after them; `OpenCheckout` and `CloseCheckout` the subscription's
handlers and the refresh at the start of the page, which give the player away and persist
what comes back; `OpenPurchase` and `ClosePurchase` a purchase, which reads the core again.
Grants are claimed elsewhere (`Delivery`); here they are applied, saved and completed
(`ApplyGrant`, `CompleteGrant`), or reported when the save is refused or another tab takes
over. Another tab's saves are seen when the lead is taken (`TakeHelm`); adoption of another
device's save is not modelled, and may of course replace a player.

### MCFeatures

The nine modules from `Grants` to `LiveCopy` share no state in the code, so one
run checks them: `focus` names the part that moves in a behaviour and the others stay
as they began, which adds their states up instead of multiplying them. Transactions,
cashiers, replicas, sessions and tabs are the same two interchangeable values, which
makes one symmetry sound for all. Nothing connects the parts by construction; where
one relies on another (Delivery on the claim of Grants), it states the other's
guarantee and the other's invariant is checked in the same run. That the run explores each
module's own specification and no more is a theorem (`FeaturesRunTheirParts`).

## Runs

| run | instance | outcome |
|---|---|---|
| `ledger` `MCSaveLedger.cfg` | 3 rows, 3 generations, 2 depths, 1 restart id, retention of 1 and 1 | holds; 829,380 states |
| `ledger_erasure` `MCSaveLedgerErasure.cfg` | the same without the lab | **violated** |
| `outbox` `MCOutbox.cfg` | 1 message, 2 consumers, 2 workers, 2 attempts, 1 mishap, 1 replay | holds; 195,898 states |
| `outbox_retention` `MCOutboxRetention.cfg` | 1 message, 1 consumer | **violated** |
| `bus` `MCCommandBus.cfg` | 1 id, 3 requests, 3 executions | holds; 57,160 states |
| `sync` `MCSaveSync.cfg` | 2 ids, 2 rows; 1 generation, 2 depths and 2 requests at once, or 3 generations, 2 restarts and 1 request at once; or 1 row, 2 generations, and a device that refuses writes | holds; 1,356,577 states |
| `sync_drift` `MCSaveSyncDrift.cfg` | 1 generation, 2 depths | **violated** |
| `sync_ratchet` `MCSaveSyncRatchet.cfg` | 2 generations, 2 depths | **violated** |
| `features` `MCFeatures.cfg` | the nine feature modules, below | holds; 630,206 states |
| `voyage_fights` `MCVoyageFights.cfg` | the voyage: 2 crew, 1 profile | **violated** |
| `live_purchases` `MCLiveCopyPurchases.cfg` | 2 handlers, 1 grant, 1 hire | **violated** |
| `fight_beats` `MCCrewFightBeats.cfg` | a fight of 3 beats, 2 of hull | **violated** |

What the passing runs show:

* **ledger**: retention never removes the blob of the active generation's anchor
  (`AnchorRetained`) or of a save that awaits review (`PendingRetained`), though
  writes, reviews and new generations come between its decision and its deletion;
  so the head that placement compares with is the anchor. A superseded generation
  keeps exactly what it would restore to (`SupersededGenerationFrozen`); a retried
  restart opens nothing (`RestartOnce`); an answer of `GET saves/current` without a
  blob is one the lineage has moved past (`CurrentServed`); and the whole is a
  `SaveRegister` (`RegisterRefined`).
* **outbox**: a dead delivery has exactly one open dead letter
  (`DeadLettersMatch`); stale workers change nothing, so that it is a `Fanout`
  (`FanoutRefined`); everything queued is settled if mishaps end
  (`EventuallySettled`).
* **bus**: it is a `Once` (`OnceRefined`) and no result is overwritten
  (`ResultStands`); deadlock is checked too: no two executions wait for each other.
* **sync**: a client with nothing dirty and nothing pending runs a new game or a state the
  server stores (`CleanMeansStored`); what it reported synced is anchored, that
  very snapshot, and stays covered (`SyncedAnchored`); a fresh id is on the device
  before it is on the wire, unless the device refused the write, in which case the code sends it
  all the same (`PersistedBeforeSent`); and no interleaving of push, beacon, recheck, prompt, boot
  and broadcast carries a state of an abandoned generation into a newer one, on the
  client or in the ledger (`GenerationsApart`).
* **features**, server: a code is redeemed by no more players than allowed and counted
  right (`CodesCounted`), a grant pays once (`PaidOnce`), client-claimed premium
  stays within the highest budget published (`BudgetKept`); a receipt, a one-time
  pack and a bonus are delivered once (`DeliveredOnce`), recorded money is settled
  (`PaidSettled`), batches never wait in a circle (`NoTokenCycle`); daily rows are
  one a day with grants of their own, and climb the ladder step by step unless a publication cut
  it below the step claimed last, from which the code wraps to any lower one (`DailyRows`); a claim under
  the rolling cadence comes a period after every earlier one, whatever clock and publications did
  between them (`RollingSpaced`); no two replicas run a job while both have their
  lock (`NeverTwiceAtOnce`), and a run that is under way is still due: nothing records
  a success of its job meanwhile, not the run that goes on without its lock after a lost connection
  (`RunsWhileDue`); a
  player has one entry (`OneEntryEach`) and is paid for a visible run, but for one
  overlap (`PaidWhenVisible`).
* **features**, Warp Crew: a purchase is applied once (`AppliedOnce`), and a claimed one is
  saved, under way, or reported, except where its claimer died or never heard the answer
  (`ClaimAccounted`); an offer is paid once (`OffersPaidOnce`); contract, fight and
  event exclude each other and a fight never outlives what began it
  (`OneThingAtATime`); the flagship falls once, to damage really dealt
  (`WallFallsOnce`); a fight is begun whole but for one case (`BeginsWhole`), and every beat
  leaves a fight the validator accepts but for two (`BeatsLoadButTwo`); handlers that wait for
  reminders and purchases, in any order, never undo a purchase that was completed
  (`KeptUnlessOverlapped`).

Disagreements found, each a run TLC violates (`findings` quotes the lines):

* **ledger_erasure**: `saves.write` refuses an erased player, `lineage.reattach`
  does not, so a client ahead of the server stores a blob under the erased key
  while the operator has reattach enabled.
* **outbox_retention**: after dead letter, replay and delivery, the sweep's
  DELETE violates a foreign key and rolls back all of `apply_retention`.
* **sync_drift**: push 1 is under way, a beacon sends snapshot 2 with `baseSeq` 0,
  push 1 is acknowledged, push 2 re-sends snapshot 2 with `baseSeq` 1. If the beacon's
  copy is stored first the retry is refused as a mismatch, and is retried in vain.
* **sync_ratchet**: the guard meant to keep adoptions out while a push is in
  flight (`inFlight && !inPush`) is never true. A broadcast adopts generation 1
  under a push of generation 0; the player plays and saves; the push's late stale
  verdict has the client fetch the new generation's head, still empty, and start a
  new game over it.
* **voyage_fights**: a fight takes its crew from `readyContractCrew`, which counts an
  injury whose time is over as ready; the roster it must match, `participantIds`, takes
  only members already marked ready. When an injury runs out between the last render
  and the click, the fight is refused by its own checks: it cannot be
  stepped or claimed, and the next load drops it. (`explore_crew_fight.test.mjs:45` and
  `travelFight.js:39-40` say a fight survives.) `BeginsWhole` has the contract's side: a launch
  compares its preview first, except for a member who was injured while away.
* **fight_beats**: a beat that its order ends returns before the boarders' warning and
  `updateCloak`. (A) A cloak whose last beat was the one before is still set, and the
  validator refuses the fight it ended. (B) Scrappers' boarders are announced on one beat only; if a
  boarding is thrown back on that beat and downs the crew, a rally
  leaves the boarders at `none` after it, which the validator refuses. (`ftl_combat.test.mjs:23`,
  `boarders.test.mjs:82`: valid at every beat.) `BeatsLoadButTwo` shows these are the only two.
* **live_purchases**: the subscription's handlers and the start of the page hand the player to
  an asynchronous call and persist what it returns. A grant applied while they wait is not in it;
  `set` accepts it, since a grant adds no progress; the save that follows has not got the
  grant, and the purchase is completed (`core/client.js:217-219`: only when "in the player and
  saved"). Two ways there: a grant bought or recovered while a checkout is open, and a
  tab that takes the lead, and with it the deferred recovery, while its start still awaits
  the subscription. `KeptUnlessOverlapped` shows that no other wait loses one.

Met while modelling, and not made into runs: a command without `outcomeRef` is
forgotten with its row after retention, though `0001_core.sql:37` says tombstones keep
idempotency (a sealed id may then run again); three refunds that overlap may each count
two and disable nothing (`purchases/server.ts:148`, `:444`); a rebuild that overlaps a
rejection may leave the rejected run listed until the next rebuild
(`leaderboards/server.ts:157`), and a close whose DELETE had passed before that run came
back reads it in its placement and pays it (the exception of `PaidWhenVisible`); a purchase whose claimer died before saving is
later answered `already_claimed` and completed, though `purchases.js:12-13` takes that to mean
"applied and saved" (the exception of `ClaimAccounted`); a hire that was revealed is dropped if anything publishes,
or another tap begins, while its handler awaits the reminders (`main.js:1119`); `jobs/index.ts:8` says replicas "never double-run" a job, and a
run whose lock's connection is lost goes on while another replica starts the job: `NeverTwiceAtOnce`
is of the runs that have their lock, and of the other `RunsWhileDue` shows only that it leaves no success.

### Bounds

* ledger: with one newest row and one generation kept, three rows are enough for
  an anchor to fall out of everything but the rule that spares it, for one row to
  be under review beside it, and for a restore to copy it; two depths make a save
  regress and tie; three generations let reattach skip one.
* outbox: two consumers make a batch of two, two workers two holders, two attempts
  a retry and a dead letter. One mishap (a lost worker or an outlived lease) and
  one replay are enough for each property's fault to show; interference needs no
  more than one stale holder.
* bus: every property is of one id, and executions with different ids meet only at
  the lock, which two of the three requests contend for. Three executions are a
  holder, a duplicate, and one that records a failure late.
* sync: two ids are a pending and the one that replaces it; two requests at once
  let a beacon overtake a push; `MaxHeads` is 1, a recheck and a broadcast do not
  await heads at once. The world with three generations gives up depth and overlapping
  requests, so that an answer can be two generations late. In these two every write of the slot
  gets through; the third world is the one whose device refuses writes, with one stored row and
  one depth. `MCSaveSync` explores the three in one run and never mixes them.
  Restart ids are compared with each other alone, so TLC takes them as symmetric.

* features. Grants: two players for one code of capacity one, two awards against
  budgets of one and three, two transactions. Purchases: three tokens of one
  one-time pack, paid and sandbox, of which two buyers may present two; two cashiers;
  `StrikeLimit` is three in the code and one here, as no property depends on it.
  Daily: days of two hours, a clock to hour six, set back hour by hour; two documents, of UTC days on
  a ladder of three steps and of rolling days on one of two, which cuts the other below its last and
  asks for progress. Jobs: two replicas with
  one slot and two jobs, so that one waits. Seasons: three runs of two players, one in
  quarantine, two sessions. Delivery: one purchase, two tabs, each with its flows. Voyage: two
  crew, a wall of two segments, a clock of two days with one step back, two
  fights. `voyage_fights` and `features` differ in no definition. Live copy: two handlers, one
  to wait and one to come between, one grant, one hire, one act of progress.
* fights: the code's hulls of dozens, its cloak from beat 8 every 12 for 4, its boarders'
  warning and landing become 2, from 1 every 2 for 2, beats 2 and 3: the smallest that
  keep each phase and its order. Two move kinds stand for the signature moves (one that
  strikes, one that runs on), one exchange of fire for a beat's ticks. What a bound
  of hull 2 leaves out is only more beats of the same.

Deadlock is not checked where a bound (rows, generations, replays, ids) ends the
behaviour; `CommandBus` has no such bound.

### Fairness

Only `Outbox` has liveness. `Work(w)` is weakly fair because the drain job is
scheduled every two seconds and a drain loops through its batch; `LapseAbandoned`
because clocks advance; ageing and the sweep likewise (the sweep is hourly).
Mishaps and replays are not fair and are bounded, which is what "if mishaps end"
means; a consumer may fail for ever and is then dead-lettered.

## Proofs

The proofs hold for any constants that satisfy the modules' named assumptions: any
numbers of rows, generations, messages, consumers, workers, executions, players,
grants, tokens, transactions, replicas, jobs, tabs, purchases, crew, offers and beats, any
length of a day and any retention settings. What the assumptions ask beyond the ranges of
numbers: players, runs and tokens are finitely many; the values that stand for "none" are no
proper values; the score of a run is a number; a cloak lasts a beat at least (`FACTION_RULES.cloak.beats`
is 4; of none, a cloak would be due and over at once, and `ValidCloak` false).

Every invariant and action property of the passing runs is stated by a theorem.

* **SaveLedgerProofs.** Most commands do one of two things to the tables: open
  generations, or open generations and insert one snapshot. `StoreStep` states what such a
  step does, one lemma per command shows it is one, and everything else is proved of
  `StoreStep`. `TypeCorrect` is inductive alone. `AnchorRetained`,
  `PendingRetained` and `CurrentServed` are not: whether a running deletion is
  harmless depends on what it decided. `RetentionInv` adds `DoomedSpares` (what is
  doomed is neither the anchor nor awaits review, in the active generation),
  `OnlyQuarantinedReviewed` (an anchored row is never under review),
  `AnchorExists` (some eligible row is the deepest) and `ReadEligible` (what a read
  found stays eligible). The argument is that a doomed row can never *become* the
  anchor: a write only inserts fresh rows, a promotion needs an undecided review
  and a row that awaits one is never doomed, and a new generation has only fresh
  rows (`AnchorNotRegained`). From it follow
  `SupersededAlwaysFrozen`, `RestartsOnce` (from `AddsGenerations`: rows of
  generations are only appended, a restart's with a new id) and
  `LedgerImplementsRegister`, where `AnchorRetained` makes the head placement
  compares with the deepest of the trail.
* **OutboxProofs.** `OutboxInv` is `TypeOK`, `DeadLettersMatch`,
  `RowsReferToLive` (a queued, leased or dead delivery has its message) and
  `PerformedUnderLease` (a worker that is about to record success on a lease it
  still owns did handle the delivery since it was queued). The last one is why a
  token compared at finalising is enough, and gives `OutboxImplementsFanout`.
* **CommandBusProofs.** `BusInv` is `TypeOK`, `RecordsPerformed` (done rows and
  tombstones are of performed calls), `ReferencedOnce` (an id performs at most one
  referenced request), `ReferencedKept` (and it is remembered) and
  `ReservationExclusive` (one holder per id, of a row not done). It gives
  `ResultsStand` and `BusImplementsOnce`.
* **SaveSyncProofs.** The properties relate the two ends; a step knows one end and
  a message. `SyncInv` therefore says of every message what it says of the ends. `LocalInv`:
  in the envelope as in the slot, the state is of its generation, a pending is of that state, and
  a clean one is a state the server stores; the slot has the envelope's pending unless a write was
  refused since (`overlaid`), which is what `PersistedBeforeSent` excepts. What a refused write leaves
  behind is an older sound envelope, so a reload starts from one. `RowsInv`: a row a generation accepted holds a state of
  that generation. `HeadInv` and `WireInv`: a head that was read is a row there
  is, and a PUT under way carries what the push believes it sent. `AnswerInv`: an
  acknowledgement on its way is true of the rows, also when it arrives late. `IdInv` is why
  the acknowledgement of an id may be taken for that of a state: an id stands for one
  state wherever it is met (envelope, slot, push, wire, answers, rows).
  With it, `CleanMeansStored` survives an answer that comes after its pending was replaced, and
  `GenerationsApart` an adoption under a push: generation and state are replaced together, and
  a request keeps the generation it was captured in. The server's steps are steps of the ledger (`SyncRunsTheLedger`), so the theorems of
  `SaveLedgerProofs`, instantiated, hold of the ledger these clients drive:
  `SyncKeepsTheLedger`, down to the abstract `SaveRegister`.
* **EconomyProofs**, Grants. What a transaction read under a lock stays true while it holds that
  lock, and `GrantsInv` says so for each: `Locked` (a redemption and an evaluation hold
  their player's lock, a reservation its code's row), `RedeemsFresh` (the player has not
  redeemed the code, and a reservation has room) and `WithinBudget` (what an
  evaluation has minted fits beside what the player had used when it began). None of
  `CodesCounted`, `PaidOnce` and `BudgetKept` is inductive without them: a commit adds
  what was decided some steps before. Two redemptions of one code by players under
  different locks meet at the code's row; two of one player at the player's lock.
* **EconomyProofs**, Purchases. `PurchasesInv` states `DeliveredOnce` and `PaidSettled` of the
  committed rows, and of what each transaction sees: the committed rows and its own
  (`OnceIn`, `SettledIn`, `MintedIn`). They stay true while others commit because of
  `LocksHeld` and `FreshOwn`: its tokens and its player are locked, so others' rows are of
  other players and other tokens. A refund takes no lock, but writes only strikes.
  `NoTokenCycle` follows from the order locks are taken in (`OrderedLocks`: what a batch
  waits for lies above all it holds): along a chain of waits the set of tokens above
  shrinks, and a finite set of them (`PurchasesAssumption`) shrinks only so often.
* **ScheduleProofs**, Daily. A claim looks at the latest row alone. `HasLast` gives that row, and
  `DaysOfHours` (a row's day is the day of its hour) makes the latest by day the latest by the
  clock. With both, one claim a day and the ladder's steps are inductive
  for any ladders published (`Cut` excepts a wrap below the last step), and `RollingSpaced` follows for every earlier claim, not only the last.
* **ScheduleProofs**, Jobs. `NeverTwiceAtOnce` needs that a call past its lock holds it
  (`LockHeld`), and that in turn that a finishing call, which hands its slot to the
  head of the replica's queue, moves a call that is waiting and no other
  (`QueuedWait`: what is queued waits, and stands in the queue once). `SlotsCounted`
  ties the counter of slots to the calls in them, so that it never goes below zero.
  `RunsWhileDue` rests on the same invariant: the one who could record a heartbeat under a due run would
  hold its lock, and an orphan's end writes none.
* **ScheduleProofs**, Seasons. Rebuilds under different locks overlap, and a table with one
  entry of each player after every commit needs to know what each of them will have done:
  `Keyed` (what one deletes no other one deletes, and what one inserts is of nobody
  another one inserts or of an entry it leaves), `Rebuilding` (what a rebuild has done at each
  point) and `SessionsApart` (the two kinds of locks). For `PaidWhenVisible`, `Listing`: what
  is listed was visible or approved once, and what a close lists still is, since
  a review shares its lock. A submission's INSERT does not, and may put back a run
  rejected meanwhile: without the exception the formula is false, as TLC shows with three runs.
* **WarpCrewProofs**, Delivery. Two flows race for a token across tabs and deaths. `WonIsFresh` (one
  flow won it, and nobody holds it before that flow applies it) gives `AppliedOnce`. A save
  writes the whole player, so `ClaimAccounted` needs that a save never loses what an earlier one
  wrote: `LeaderSeesSlot` (the leading tab's player has all the slot has). `SavesToken` is
  that a flow that saves has applied its token to the player it saves.
* **WarpCrewProofs**, LiveCopy. `LiveInv` says where a grant that is being saved, or was, must be:
  in the core's player, in the copy a handler will persist, and in whatever player a waiting
  checkout will bring back (`CarriedEverywhere`), and a completed one in the slot the player is
  loaded from. Publication keeps the first two together (`ScreenFollows`: the copy differs only
  while a handler awaits reminders, and then by hires alone); the third holds for a grant
  applied while no checkout waited, which is the exception `KeptUnlessOverlapped` makes.
* **WarpCrewProofs**, Voyage. `Good` says of a record what its parts say of each other:
  `Contracted` (a contract under way is of an offer not yet paid and, when it assaults the wall,
  of one that stands; its stage, revision and fight go together), `OneThing`, `PaidOnceEach`, and
  `Siege` (the damage of the day was dealt, and the wall stands while nobody was paid for it).
  It holds of every record a step passes through, so the lemmas are about records: what a step
  does to fuel, hull, crew, board and wall, the render's `Prepare` among it, leaves a good record
  good (`Alike`), and each part's own steps are looked at once.
  `WallPosted`: the assault on the board is that of the next attempt, and there is none on
  a fallen wall, so no assault is taken up that was paid before. `BeginsWhole` then is about one click:
  who fights are those of the preview, and the decision key compared them.
* **WarpCrewProofs**, CrewFight. A beat is a dozen steps, each of which takes a record that is
  half done. `Midway` is what holds between them: what the validator asks, but for regrowth
  (strictly below the beats) and a held-out clock, which the end of the beat settles; `Kin` what a
  step leaves alone. One lemma per step shows `Midway` is handed on (`Onward`), and
  `CloseFacts` that the end of a beat makes it a fight the validator accepts. The exchanges of fire in a
  beat are a recursive function of any length: that it is defined, and hands `Midway` on to the
  last, is proved by induction over the set of numbers for which it holds (`AllNumbers`,
  from well-foundedness of finite sets). `Warned` is what `BeatsLoadButTwo` needs besides: who
  stands on the beat of the boarders' warning unwarned is down by a boarding thrown back,
  so only a rally or a loss can follow.
* **FeaturesProofs.** A step of the features is a step of one and a stutter of the others
  (`StepsOfParts`), so every behaviour is one of each (`FeaturesRunTheirParts`), and
  the nine type invariants hold together (`FeaturesTypeOK` is that of the part that moves).

TLC checks the same conjuncts before they are proved. Only model-checked: the liveness of
the outbox (`EventuallySettled`: fairness and ENABLED are outside what TLAPS proves here),
and the violations, which are single behaviours.

## Not modelled

Everything marked `not_modelled` in `PROJECT.json`, and of the modelled parts:
the contents of blobs and the codecs, rate limits and authentication, what
consumers of the outbox do with a message (but for the evaluation of achievements), the
mapping of database errors to answers, gzip captures, followers and takeover in the
sync, restore on the client; expiry and aliases of grants, list queries, amounts,
plausibility rules of runs, hidden players and names of leaderboards; job check-ins; the offline
mock, one-time ownership and subscriptions of Warp Crew's client, its tutorial, shop
and stations, its older fights (`combat.js`, `autoCombat.js`) kept to finish old
saves, its interface, tables and offline simulation of the economy. The hazards of those parts that a model could
catch are listed with a note.

## Plan

1. Built: `SaveRegister`, `SaveLedger`, `Fanout`, `Outbox`, `Once`, `CommandBus`;
   `SaveSync` composed with `SaveLedger`; the nine feature modules of `MCFeatures`; proofs of
   every invariant and action property they state, and of the refinements.
2. Next: tab leadership with followers, takeover and the restore gate, then the identity
   switch over two sync clients; the client journal with its server side;
   subscriptions; the activation of live operations. Each with its invariant proved.
3. Proofs: the composition of `Delivery` with `Grants` (the claim that `Delivery` takes for
   granted), and of `Voyage` with `CrewFight` (the fight whose beats `Voyage` leaves open).

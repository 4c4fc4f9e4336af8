------------------------------- MODULE SaveSync -------------------------------
(***************************************************************************)
(* The client's save sync of one player (packages/client, sync/client.ts,  *)
(* boot/machine.ts, game-client.ts) against the server's save ledger:      *)
(* autosaves, pushes, the teardown beacon, head rechecks, adoption,        *)
(* prompts, reloads and another device that saves and restarts.            *)
(*                                                                         *)
(* JavaScript runs one callback at a time, so a step is what happens       *)
(* between two awaits of the network or of the player.  Requests are       *)
(* answered late, out of order or never, and the device may refuse a write *)
(* of the slot.  Snapshots are encoded as JSON, which does not yield.      *)
(* Definitions marked "Fault" are bugs the properties are tried against;   *)
(* nothing uses them.                                                      *)
(***************************************************************************)
EXTENDS Integers, Sequences, FiniteSets

CONSTANTS
  Progress,        \* depths; 0 is a new game's
  RestartIds,      \* restarts of the other device
  Suspicions,      \* whether the server may find a save suspect: a set of Booleans
  MaxSeq,          \* bound: snapshot rows
  MaxGeneration,   \* bound: generation numbers
  MaxIds,          \* bound: command ids the client mints
  MaxRevs,         \* bound: states played on this device
  MaxHeads,        \* bound: rechecks and broadcasts under way at once
  MaxWire          \* bound: requests on their way at once

ASSUME SyncAssumption ==
  /\ Progress \subseteq Nat
  /\ 0 \in Progress
  /\ Suspicions \subseteq BOOLEAN
  /\ {MaxSeq, MaxGeneration, MaxIds, MaxRevs, MaxHeads, MaxWire} \subseteq Nat

VARIABLES
  gens, snaps, blobs, reviews, erased, doomed, reading,  \* the server: SaveLedger
  cmds,       \* what each snapshot row was written from
  live,       \* the state the game loop runs
  env,        \* the cache envelope in memory
  since,      \* dirtySincePending
  canon,      \* pendingCanonical is there: the pending encodes what it says
  slot,       \* the envelope last persisted on the device
  overlaid,   \* the slot's last write was refused: only this page's memory has it
  push,       \* the push in flight
  recheck,    \* the boot reconcile, or a head recheck
  bcast,      \* the adoption of a generation a sibling tab announced
  head,       \* the head each of the three has been answered
  phase,      \* of the boot machine
  awaiting,   \* awaitingAdopt: a stale push has not been followed by an adoption yet
  halted,     \* sync halted as server_behind
  wire,       \* requests on their way to the server
  acks,       \* answers to keepalive beacons on their way back
  synced,     \* history: the snapshots whose verdict was "synced"
  ids, revs

L == INSTANCE SaveLedger WITH
       KeepRecent <- 0, KeepGenerations <- 0, RefusedBlobsPerHour <- MaxSeq + 1,
       ReattachEnabled <- FALSE, Lab <- FALSE

server == <<gens, snaps, blobs, reviews, erased, doomed, reading, cmds>>
local == <<live, env, since, canon, slot, overlaid>>
tasks == <<push, recheck, bcast, head>>
modes == <<phase, awaiting, halted>>
net == <<wire, acks>>
vars == <<server, local, tasks, modes, net, synced, ids, revs>>

Fetchers == {"push", "recheck", "bcast"}

\* A game state: the generation it was played in, its depth, and which one it is;
\* revision 0 is a new game, MaxRevs + 1 was played on the other device.
State == [generation : 0 .. MaxGeneration, depth : Progress, rev : 0 .. MaxRevs + 1]
NewGame(g) == [generation |-> g, depth |-> 0, rev |-> 0]

Ids == 1 .. MaxIds
NoPending == [id |-> 0, state |-> NewGame(0), generation |-> 0, ancestors |-> {}]
Pending ==
  [id : Ids, state : State, generation : 0 .. MaxGeneration, ancestors : SUBSET Ids]
    \cup {NoPending}

\* progress and ratchetFloor are the depth of "state": every assignment of the
\* three sets them together.
Envelope == [generation : 0 .. MaxGeneration, state : State, pending : Pending,
             acked : 0 .. MaxSeq, dirty : BOOLEAN]

NoHead == [generation |-> -1, seq |-> 0]
ServerHead == [generation : 0 .. MaxGeneration, seq : 0 .. MaxSeq] \cup {NoHead}
Request == [id : Ids, state : State, generation : 0 .. MaxGeneration, base : 0 .. MaxSeq,
            via : {"put", "late", "beacon"}]

NoAnswer == [kind |-> "none", seq |-> 0, generation |-> 0]
PushIdle == [pc |-> "idle", mode |-> "capture", sent |-> NoPending, answer |-> NoAnswer]
RecheckIdle == [pc |-> "idle", boot |-> FALSE]

HasPending == env.pending # NoPending
Unpushed == env.dirty \/ HasPending \/ since

\* mayWrite: a prompt blocks every writer, and so does a halt.
Writer == phase # "prompt" /\ ~halted

\* A push that is ready to send, and a reconcile that is ready to act, go on in
\* the callback that made them so.
Free == push.pc # "ready" /\ recheck.pc # "act"

Init ==
  /\ L!Init
  /\ cmds = <<>>
  /\ live = NewGame(0)
  /\ env = [generation |-> 0, state |-> NewGame(0), pending |-> NoPending,
            acked |-> 0, dirty |-> FALSE]
  /\ since = FALSE
  /\ canon = FALSE
  /\ slot = env
  /\ overlaid = FALSE
  /\ push = PushIdle
  /\ recheck = RecheckIdle
  /\ bcast = "idle"
  /\ head = [x \in Fetchers |-> NoHead]
  /\ phase = "live"
  /\ awaiting = FALSE
  /\ halted = FALSE
  /\ wire = {}
  /\ acks = {}
  /\ synced = {}
  /\ ids = 0
  /\ revs = 0

-----------------------------------------------------------------------------
(* The game and its snapshots.                                             *)

\* States played on from s.
Advanced(s) ==
  {[s EXCEPT !.depth = d, !.rev = revs + 1] : d \in {e \in Progress : e >= s.depth}}

Play ==
  /\ Free
  /\ phase = "live"
  /\ revs < MaxRevs
  /\ live' \in Advanced(live)
  /\ revs' = revs + 1
  /\ env' = [env EXCEPT !.dirty = TRUE]
  /\ since' = TRUE
  /\ UNCHANGED <<server, canon, slot, overlaid, tasks, modes, net, synced, ids>>

\* takeSnapshot is of "live".  Settling the loop first may change its encoding, but
\* not which state was played: a pending need not match the state it was made of.
MayMatch == HasPending /\ canon /\ env.pending.state = live

Deep == live.depth >= env.state.depth

\* Only a writer writes e to the slot.  A full or blocked device refuses: it keeps
\* what it had, and e lives in memory until a later write gets through.  Whoever
\* called goes on either way.
Writes(e, writer) ==
  \/ ~writer /\ UNCHANGED <<slot, overlaid>>
  \/ writer /\ slot' = e /\ overlaid' = FALSE
  \/ writer /\ slot' = slot /\ overlaid' = TRUE

\* Persist e in the local slot, if this client may write it.
Persist(e) == Writes(e, Writer)

\* A new pending that encodes "live" becomes the envelope's: the commit of capture
\* and of ensurePendingSync.
Minted ==
  [id |-> ids + 1, state |-> live, generation |-> env.generation,
   ancestors |-> IF HasPending THEN env.pending.ancestors \cup {env.pending.id} ELSE {}]

\* Fault: the pending is left to the next autosave to store.
MintUnpersisted ==
  /\ Deep
  /\ ids < MaxIds
  /\ ids' = ids + 1
  /\ env' = [env EXCEPT !.state = live, !.pending = Minted, !.dirty = TRUE]
  /\ canon' = TRUE
  /\ since' = FALSE
  /\ UNCHANGED <<slot, overlaid>>

Mint ==
  /\ Deep
  /\ ids < MaxIds
  /\ ids' = ids + 1
  /\ env' = [env EXCEPT !.state = live, !.pending = Minted, !.dirty = TRUE]
  /\ canon' = TRUE
  /\ since' = FALSE
  /\ Persist(env')

\* saveLocal; a snapshot that matches the pending changes nothing.
SaveLocal ==
  /\ Free
  /\ Writer
  /\ env.dirty \/ since
  /\ Mint
  /\ UNCHANGED <<server, live, tasks, modes, net, synced, revs>>

-----------------------------------------------------------------------------
(* Pushes.                                                                 *)

\* bodyFor, sent: the pending verbatim, but for lastAckedSeq, which is today's.
Sends(via, p) ==
  /\ wire' = wire \cup {[id |-> p.id, state |-> p.state, generation |-> p.generation,
                         base |-> env.acked, via |-> via]}
  /\ Cardinality(wire') <= MaxWire

Puts(p) ==
  /\ Sends("put", p)
  /\ push' = [push EXCEPT !.pc = "sent", !.sent = p]

\* A push that ends lets the recheck that awaits it go on.
PushEnds ==
  /\ push' = PushIdle
  /\ recheck' = IF recheck.pc = "first" THEN [recheck EXCEPT !.pc = "act"] ELSE recheck

\* doPush, up to its first await.
Started(mode) ==
  [PushIdle EXCEPT !.mode = mode, !.pc = IF awaiting THEN "head" ELSE "ready"]

PushStart ==
  /\ Free
  /\ Writer
  /\ push.pc = "idle"
  /\ phase = "live"
  /\ push' = Started("capture")
  /\ UNCHANGED <<server, local, recheck, bcast, head, modes, net, synced,
                 ids, revs>>

\* The pending is reused, or a snapshot is captured, and sent.
PushReady ==
  /\ push.pc = "ready"
  /\ \/ /\ HasPending /\ (push.mode = "reuse" \/ (push.mode = "capture" /\ MayMatch))
        /\ Puts(env.pending)
        /\ UNCHANGED <<env, since, canon, slot, overlaid, ids, recheck>>
     \/ /\ push.mode # "reuse" /\ Writer
        /\ Mint
        /\ Puts(env'.pending)
        /\ UNCHANGED recheck
     \/ /\ (push.mode = "reuse" /\ ~HasPending) \/ (push.mode # "reuse" /\ ~Writer)
        /\ PushEnds
        /\ UNCHANGED <<env, since, canon, slot, overlaid, ids, wire>>
  /\ UNCHANGED <<server, live, bcast, head, modes, acks, synced, revs>>

\* The request is lost, or abandoned after pushTimeoutMs and may still arrive.
PushGivesUp ==
  /\ Free
  /\ push.pc = "sent"
  /\ \E r \in wire :
       /\ r.via = "put"
       /\ wire' = (wire \ {r}) \cup {[r EXCEPT !.via = "late"]}
  /\ PushEnds
  /\ Persist(env)
  /\ UNCHANGED <<server, live, env, since, canon, bcast, head, modes, acks, synced,
                 ids, revs>>

-----------------------------------------------------------------------------
(* The server.                                                             *)

\* The answer to a write stored as row s of ss, written from cs.
Outcome(s, ss, cs) ==
  [kind |-> IF ss[s].disposition = "anchored" THEN "anchored"
            ELSE IF ss[s].disposition = "stored_quarantined" THEN "quarantined"
            ELSE IF cs[s].generation # ss[s].generation THEN "stale" ELSE "regression",
   seq |-> s, generation |-> ss[s].generation]

\* Fault: a retry is told its save was anchored, whatever became of it.
ReplayedAsAnchored(s) == [Outcome(s, snaps, cmds) EXCEPT !.kind = "anchored"]

\* A retry is told what became of the save the first time.
Replayed(s) == Outcome(s, snaps, cmds)

Mismatch == [NoAnswer EXCEPT !.kind = "mismatch"]
Acked == {"anchored", "quarantined"}

\* The answer reaches the push that sent the request; of a beacon's, one that
\* was sent by a keepalive request may be heard.
Answers(r, answer) ==
  /\ wire' = wire \ {r}
  /\ push' = IF r.via = "put" THEN [push EXCEPT !.pc = "answered", !.answer = answer] ELSE push
  /\ \/ UNCHANGED acks
     \/ /\ r.via = "beacon" /\ answer.kind \in Acked
        /\ acks' = acks \cup {[id |-> r.id, state |-> r.state, answer |-> answer]}

Arrive(r) ==
  LET found == {s \in L!Seqs : cmds[s].id = r.id}
      written == [id |-> r.id, state |-> r.state, generation |-> r.generation, base |-> r.base]
  IN /\ Free
     /\ r \in wire
     /\ \/ /\ found = {}
           /\ \E suspect \in Suspicions :
                L!SavesWrite([generation |-> r.generation, progress |-> r.state.depth,
                              form |-> "valid", suspect |-> suspect])
           /\ cmds' = Append(cmds, written)
           /\ Answers(r, Outcome(Len(snaps'), snaps', cmds'))
        \/ \E s \in found :
             /\ Answers(r, IF cmds[s] = written THEN Replayed(s) ELSE Mismatch)
             /\ UNCHANGED server
     /\ UNCHANGED <<local, recheck, bcast, head, modes, synced, ids, revs>>

\* A request nobody waits for may be lost.
Lose(r) ==
  /\ Free
  /\ r \in wire /\ r.via # "put"
  /\ wire' = wire \ {r}
  /\ UNCHANGED <<server, local, tasks, modes, acks, synced, ids, revs>>

\* Another device of the player saves or restarts.
OtherSaves ==
  /\ Free
  /\ \E d \in Progress :
       LET g == Len(L!Lineage) - 1 IN
       /\ L!SavesWrite([generation |-> g, progress |-> d, form |-> "valid", suspect |-> FALSE])
       /\ cmds' = Append(cmds,
            [id |-> 0, state |-> [generation |-> g, depth |-> d, rev |-> MaxRevs + 1],
             generation |-> g, base |-> 0])
  /\ UNCHANGED <<local, tasks, modes, net, synced, ids, revs>>

OtherRestarts ==
  /\ Free
  /\ \E r \in RestartIds : L!LineageRestart(r, Len(L!Lineage) - 1)
  /\ UNCHANGED <<cmds, local, tasks, modes, net, synced, ids, revs>>

\* GET saves/current, for those who await it.
Awaits(x) ==
  \/ x = "push" /\ push.pc = "head"
  \/ x = "recheck" /\ recheck.pc = "asked"

CurrentHead ==
  [generation |-> IF gens = <<>> THEN 0 ELSE L!ActiveGeneration,
   seq |-> IF L!AnchorRow(L!ActiveGeneration) = {} THEN 0
           ELSE CHOOSE s \in L!AnchorRow(L!ActiveGeneration) : TRUE]

Reads(x) ==
  /\ head[x] = NoHead
  /\ x # "push" => Cardinality({y \in Fetchers \ {"push"} : head[y] # NoHead}) < MaxHeads
  /\ head' = [head EXCEPT ![x] = CurrentHead]

ReadHead(x) ==
  /\ Free
  /\ Awaits(x)
  /\ Reads(x)
  /\ UNCHANGED <<server, local, push, recheck, bcast, modes, net, synced,
                 ids, revs>>

-----------------------------------------------------------------------------
(* Adoption.                                                               *)

DepthOf(h) == cmds[h.seq].state.depth

\* Fault: a newer generation is entered with the pending of the older.
AdoptedKeepingPending(h) ==
  LET g == IF h.generation > env.generation THEN h.generation ELSE env.generation IN
  IF h.seq = 0
  THEN [env EXCEPT !.generation = g, !.state = NewGame(g), !.acked = 0, !.dirty = FALSE]
  ELSE IF h.generation < env.generation THEN env
  ELSE [env EXCEPT !.generation = h.generation, !.state = cmds[h.seq].state,
                   !.acked = h.seq, !.dirty = FALSE]

\* The envelope after adopting head h: a new game for an empty one; an older
\* generation's is not adopted.
Adopted(h) ==
  LET g == IF h.generation > env.generation THEN h.generation ELSE env.generation IN
  IF h.seq = 0
  THEN [generation |-> g, state |-> NewGame(g), pending |-> NoPending, acked |-> 0, dirty |-> FALSE]
  ELSE IF h.generation < env.generation THEN env
  ELSE [generation |-> h.generation, state |-> cmds[h.seq].state, pending |-> NoPending,
        acked |-> h.seq, dirty |-> FALSE]

\* adoptRemote and startNew, with swapEnvelope: the loop runs the envelope's state.
Adopt(h, writer) ==
  /\ env' = Adopted(h)
  /\ live' = env'.state
  /\ since' = FALSE
  /\ canon' = FALSE
  /\ Writes(env', writer)
  /\ halted' = (halted /\ h.seq = 0)

Forgets(x) == head' = [head EXCEPT ![x] = NoHead]

\* A stale push, and a push that finds its adoption still awaited, adopt the head.
PushAdopts ==
  /\ Free
  /\ push.pc = "head" /\ head["push"] # NoHead
  /\ Adopt(head["push"], Writer)
  /\ Forgets("push")
  /\ awaiting' = FALSE
  /\ \/ push.mode = "stale" /\ PushEnds
     \/ push.mode # "stale" /\ push' = [push EXCEPT !.pc = "ready"] /\ UNCHANGED recheck
  /\ UNCHANGED <<server, bcast, phase, net, synced, ids, revs>>

PushHeadFails ==
  /\ Free
  /\ push.pc = "head"
  /\ Forgets("push")
  /\ PushEnds
  /\ UNCHANGED <<server, local, bcast, modes, net, synced, ids, revs>>

-----------------------------------------------------------------------------
(* Verdicts.                                                               *)

\* Fault: whatever is acknowledged acknowledges the current pending.
AcksAnything(id) == HasPending /\ id \in Ids

\* The verdict belongs to the snapshot that was sent.
AcksCurrent(id) == HasPending /\ env.pending.id = id

\* Fault: an acknowledged envelope is clean, whatever was played meanwhile.
AcknowledgedClean(id, seq) ==
  [env EXCEPT !.acked = seq,
              !.pending = IF AcksCurrent(id) THEN NoPending ELSE @,
              !.dirty = IF AcksCurrent(id) THEN FALSE ELSE @]

Acknowledged(id, seq) ==
  [env EXCEPT !.acked = seq,
              !.pending = IF AcksCurrent(id) THEN NoPending ELSE @,
              !.dirty = IF AcksCurrent(id) THEN since ELSE @]

\* applyVerdict.
VerdictAcked ==
  /\ push.answer.kind \in Acked
  /\ env' = Acknowledged(push.sent.id, push.answer.seq)
  /\ canon' = (canon /\ ~AcksCurrent(push.sent.id))
  /\ Persist(env')
  /\ synced' = IF push.answer.kind = "anchored"
               THEN synced \cup {[id |-> push.sent.id, state |-> push.sent.state]} ELSE synced
  /\ PushEnds
  /\ UNCHANGED <<since, awaiting, halted>>

Behind == push.answer.kind = "stale" /\ push.answer.generation < env.generation

\* The save was refused: its pending is dropped; after a stale one the server's
\* head is fetched to be adopted.
VerdictRefused ==
  /\ push.answer.kind \in {"stale", "regression"} /\ ~Behind
  /\ env' = [env EXCEPT !.pending = IF AcksCurrent(push.sent.id) THEN NoPending ELSE @]
  /\ canon' = (canon /\ ~AcksCurrent(push.sent.id))
  /\ since' = (since \/ AcksCurrent(push.sent.id))
  /\ Persist(env')
  /\ \/ /\ push.answer.kind = "stale"
        /\ awaiting' = TRUE
        /\ push' = [PushIdle EXCEPT !.pc = "head", !.mode = "stale"]
        /\ UNCHANGED recheck
     \/ push.answer.kind = "regression" /\ PushEnds /\ UNCHANGED awaiting
  /\ UNCHANGED <<synced, halted>>

\* A refusal in an older generation than the envelope's: the server is behind.
VerdictBehind ==
  /\ Behind
  /\ halted' = TRUE
  /\ PushEnds
  /\ UNCHANGED <<env, canon, since, slot, overlaid, synced, awaiting>>

\* Anything else keeps the pending for a retry.
VerdictRejected ==
  /\ push.answer.kind = "mismatch"
  /\ Persist(env)
  /\ PushEnds
  /\ UNCHANGED <<env, canon, since, synced, awaiting, halted>>

ApplyVerdict ==
  /\ Free
  /\ push.pc = "answered"
  /\ VerdictAcked \/ VerdictRefused \/ VerdictBehind \/ VerdictRejected
  /\ UNCHANGED <<server, live, bcast, head, phase, net,
                 ids, revs>>

-----------------------------------------------------------------------------
(* The teardown beacon.                                                    *)

\* ensurePendingSync, then the send: the page may not live to an answer.
Beacon ==
  /\ Free
  /\ phase = "live" /\ Writer
  /\ Unpushed
  /\ \/ MayMatch /\ since' = FALSE /\ UNCHANGED <<env, canon, slot, overlaid, ids>>
     \/ Mint
  /\ Sends("beacon", env'.pending)
  /\ UNCHANGED <<server, live, tasks, modes, acks, synced, revs>>

BeaconAcked(a) ==
  /\ Free
  /\ a \in acks
  /\ acks' = acks \ {a}
  /\ IF AcksCurrent(a.id)
     THEN /\ env' = Acknowledged(a.id, a.answer.seq)
          /\ canon' = FALSE
          /\ Persist(env')
          /\ synced' = IF a.answer.kind = "anchored"
                       THEN synced \cup {[id |-> a.id, state |-> a.state]} ELSE synced
     ELSE UNCHANGED <<env, canon, slot, overlaid, synced>>
  /\ UNCHANGED <<server, live, since, tasks, modes, wire,
                 ids, revs>>

-----------------------------------------------------------------------------
(* Rechecks and boot.                                                      *)

Remote == head["recheck"]
Newer == Remote.generation > env.generation
Deeper == /\ Remote.seq # 0
          /\ Remote.generation = env.generation
          /\ DepthOf(Remote) > env.state.depth
Unacked == env.dirty \/ HasPending

\* The server's anchor is an ancestor of the pending: the pending is minted anew.
Reasserts ==
  /\ Remote.seq # 0 /\ HasPending
  /\ Remote.generation = env.generation
  /\ DepthOf(Remote) = env.state.depth
  /\ cmds[Remote.seq].id \in env.pending.ancestors

\* bootRepush: a push in flight is joined.
Repushes(mode) ==
  push' = IF push.pc = "idle" /\ Writer /\ Unacked
          THEN Started(IF HasPending THEN mode ELSE "capture") ELSE push

\* A reconcile is done: boot goes on to re-push.
RecheckEnds ==
  IF recheck.boot THEN recheck' = [recheck EXCEPT !.pc = "repush"] /\ UNCHANGED head
  ELSE recheck' = RecheckIdle /\ Forgets("recheck")

\* The server may as well read the head when it is asked for: a recheck that waits
\* changes nothing.  One that fails changes nothing either.  Two rechecks under way
\* at once are not modelled; an adoption that overtakes one is, as a broadcast's.
RecheckStart ==
  /\ Free
  /\ phase = "live" /\ recheck.pc = "idle"
  /\ recheck' = [pc |-> "asked", boot |-> FALSE]
  /\ Reads("recheck")
  /\ UNCHANGED <<server, local, push, bcast, modes, net, synced,
                 ids, revs>>

BootUnreachable ==
  /\ Free
  /\ recheck.pc = "asked" /\ recheck.boot
  /\ recheck' = [recheck EXCEPT !.pc = "repush"]
  /\ Forgets("recheck")
  /\ UNCHANGED <<server, local, push, bcast, modes, net, synced, ids, revs>>

\* reconcile, and act as far as its first await.
Reconcile ==
  /\ Free
  /\ recheck.pc = "asked" /\ Remote # NoHead
  /\ \/ /\ Newer /\ Unacked /\ (Writer \/ push.pc # "idle")
        /\ Repushes("reuse")
        /\ recheck' = [recheck EXCEPT !.pc = "first"]
        /\ UNCHANGED <<local, head, modes>>
     \/ /\ Newer /\ ~(Unacked /\ (Writer \/ push.pc # "idle"))
        /\ recheck' = [recheck EXCEPT !.pc = "act"]
        /\ UNCHANGED <<local, push, head, modes>>
     \/ /\ Deeper /\ ~Unacked
        /\ recheck' = [recheck EXCEPT !.pc = "act"]
        /\ UNCHANGED <<local, push, head, modes>>
     \/ /\ Deeper /\ Unacked
        /\ recheck' = [recheck EXCEPT !.pc = "prompt"]
        /\ phase' = "prompt"
        /\ UNCHANGED <<local, push, head, awaiting, halted>>
     \/ /\ ~Newer /\ ~Deeper
        /\ IF Reasserts /\ ~recheck.boot THEN Repushes("reassert") ELSE UNCHANGED push
        /\ RecheckEnds
        /\ UNCHANGED <<local, modes>>
  /\ UNCHANGED <<server, bcast, net, synced, ids, revs>>

\* The rest of act: an empty head is started from whatever happened meanwhile.
Act ==
  /\ recheck.pc = "act" /\ push.pc # "ready"
  /\ IF Remote.seq = 0 \/ Newer \/ Deeper THEN Adopt(Remote, Writer)
     ELSE UNCHANGED <<local, halted>>
  /\ RecheckEnds
  /\ UNCHANGED <<server, push, bcast, phase, awaiting, net, synced,
                 ids, revs>>

\* The player keeps the local game or adopts the cloud's.
AnswerPrompt ==
  /\ Free
  /\ recheck.pc = "prompt"
  /\ phase' = IF recheck.boot THEN "boot" ELSE "live"
  /\ \/ UNCHANGED <<local, halted>>
     \/ Adopt(Remote, ~halted)
  /\ RecheckEnds
  /\ UNCHANGED <<server, push, bcast, awaiting, net, synced, ids, revs>>

\* Boot re-pushes the last unacknowledged snapshot, waits a bounded time and goes live.
BootRepush ==
  /\ Free
  /\ recheck.pc = "repush"
  /\ Repushes(IF Remote # NoHead /\ Reasserts THEN "reassert" ELSE "reuse")
  /\ recheck' = RecheckIdle
  /\ Forgets("recheck")
  /\ phase' = "live"
  /\ UNCHANGED <<server, local, bcast, awaiting, halted, net, synced,
                 ids, revs>>

\* The page is gone, with what was not persisted and with what the device refused; a
\* request sent may still arrive.
Reload ==
  /\ Free
  /\ env' = slot
  /\ live' = slot.state
  /\ since' = (slot.pending = NoPending /\ slot.dirty)
  /\ canon' = (slot.pending # NoPending)
  /\ overlaid' = FALSE
  /\ push' = PushIdle
  /\ recheck' = [pc |-> "asked", boot |-> TRUE]
  /\ bcast' = "idle"
  /\ head' = [x \in Fetchers |-> NoHead]
  /\ phase' = "boot"
  /\ awaiting' = FALSE
  /\ halted' = FALSE
  /\ wire' = {[r EXCEPT !.via = IF @ = "put" THEN "late" ELSE @] : r \in wire}
  /\ acks' = {}
  /\ UNCHANGED <<server, slot, synced, ids, revs>>

-----------------------------------------------------------------------------
(* A sibling tab announces a newer generation.                             *)

Announced ==
  /\ Free
  /\ phase # "boot" /\ bcast = "idle"
  /\ L!ActiveGeneration > env.generation
  /\ bcast' = "asked"
  /\ Reads("bcast")
  /\ UNCHANGED <<server, local, push, recheck, modes, net, synced,
                 ids, revs>>

BroadcastAdopts ==
  /\ Free
  /\ bcast = "asked" /\ head["bcast"] # NoHead
  /\ Adopt(head["bcast"], Writer)
  /\ Forgets("bcast")
  /\ bcast' = "idle"
  /\ UNCHANGED <<server, push, recheck, phase, awaiting, net, synced,
                 ids, revs>>

-----------------------------------------------------------------------------
Next ==
  \/ Play \/ SaveLocal
  \/ PushStart \/ PushReady \/ PushGivesUp \/ PushAdopts \/ PushHeadFails \/ ApplyVerdict
  \/ Beacon \/ \E a \in acks : BeaconAcked(a)
  \/ RecheckStart \/ BootUnreachable \/ Reconcile \/ Act \/ AnswerPrompt \/ BootRepush
  \/ Reload
  \/ Announced \/ BroadcastAdopts
  \/ \E x \in Fetchers : ReadHead(x)
  \/ \E r \in wire : Arrive(r) \/ Lose(r)
  \/ OtherSaves \/ OtherRestarts

Spec == Init /\ [][Next]_vars

-----------------------------------------------------------------------------
(* Properties.                                                             *)

\* Every variable has its type; what is changed since the pending is dirty.
TypeOK ==
  /\ L!TypeOK
  /\ Len(cmds) = Len(snaps)
  /\ live \in State
  /\ env \in Envelope /\ slot \in Envelope
  /\ overlaid \in BOOLEAN
  /\ since \in BOOLEAN /\ (since => env.dirty)
  /\ canon \in BOOLEAN /\ (canon => HasPending)
  /\ push.pc \in {"idle", "ready", "sent", "answered", "head"}
  /\ push.mode \in {"capture", "reuse", "reassert", "stale"}
  /\ recheck \in [pc : {"idle", "asked", "first", "act", "prompt", "repush"}, boot : BOOLEAN]
  /\ bcast \in {"idle", "asked"}
  /\ head \in [Fetchers -> ServerHead]
  /\ phase \in {"boot", "live", "prompt"}
  /\ {awaiting, halted} \subseteq BOOLEAN
  /\ wire \subseteq Request

\* A client that believes itself saved (nothing dirty, nothing pending) runs a state the server stores, or a new game.
CleanMeansStored ==
  ~Unpushed =>
    \/ live.rev = 0
    \/ \E s \in L!Seqs : /\ cmds[s].state = live
                         /\ snaps[s].generation = live.generation
                         /\ snaps[s].disposition # "stored_refused"

\* What the player was told is saved to the cloud is anchored, that very
\* snapshot, and its generation's anchor is at least as deep for ever after.
SyncedAnchored ==
  \A x \in synced :
    /\ \E s \in L!Seqs : /\ cmds[s].id = x.id /\ cmds[s].state = x.state
                         /\ snaps[s].disposition = "anchored"
                         /\ snaps[s].generation = x.state.generation
    /\ \A s \in L!AnchorRow(x.state.generation) : snaps[s].progress >= x.state.depth

\* A state of an abandoned generation never enters a newer one, however its
\* capture, its request or its answer is overtaken by the adoption.
GenerationsApart ==
  /\ live.generation = env.generation
  /\ env.state.generation = env.generation
  /\ HasPending => env.pending.generation = env.generation
                   /\ env.pending.state.generation = env.generation
  /\ \A s \in L!Seqs : snaps[s].disposition # "stored_refused" =>
       cmds[s].state.generation = snaps[s].generation

\* A command id is on the device before it is first sent, so that a page that
\* dies retries it rather than minting another; but for one the device refused, which
\* is "pending (it still pushes) but not on the device" (client.ts:902).
PersistedBeforeSent ==
  [][\A r \in wire' \ wire :
       (\A q \in wire : q.id # r.id) /\ (\A s \in L!Seqs : cmds[s].id # r.id)
         => slot'.pending.id = r.id \/ overlaid']_vars

\* "reused verbatim on every retry incl. the beacon and boot re-push"
\* (architecture, Sync): the server never meets an id with another payload.
NoIdempotencyMismatch == push.answer.kind # "mismatch"

\* "within a generation the local slot never accepts a shallower state"
\* (ratchet.ts): only the restore gate, and a prompt the player answers, bypass it.
RatchetHolds ==
  [][Reload \/ AnswerPrompt
       \/ (env'.generation = env.generation => env'.state.depth >= env.state.depth)]_vars
=============================================================================

------------------------------ MODULE CrewFight ------------------------------
(***************************************************************************)
(* A crew fight of Warp Crew (apps/warpcrew/src/systems/ftlCombat.js): the *)
(* beats of one fight, the orders and taps of its captain, and the rules   *)
(* by which a saved fight is accepted.                                     *)
(*                                                                         *)
(* A fight is advanced by whole beats.  Before its four ticks a beat obeys *)
(* an order, and may end right there; it then warns of boarders, cloaks,   *)
(* casts abilities, and only then flies.  What a roll of the seeded dice   *)
(* decides is open here, and so is every amount: rooms, fires, charges and *)
(* the shields in front of a hull only decide who is hit and how hard.     *)
(* Definitions marked "Fault" are bugs the properties are tried against;   *)
(* nothing uses them.                                                      *)
(***************************************************************************)
EXTENDS Naturals, FiniteSets

CONSTANTS
  Hull, EnemyHull, SecondHull,   \* of the Sparrow, the enemy and the second of two waves
  StartHulls,                    \* hulls the Sparrow may enter a fight with
  NearMissHull,                  \* enemy hull at which a downed crew may rally
  BoardMax, RallyHull,
  Layers,                        \* of the Sparrow's shields
  Punch,                         \* bound: the most a volley, a salvo or a move takes
  CloakFirst, CloakEvery, CloakBeats,
  WarnBeat, LandBeat,
  HoldoutBeats, FreighterHull, RegrowMax, OathBeats,
  Moves,                         \* signature moves aboard, one member each
  Rounds,                        \* bound: exchanges of fire in a beat
  LastBeat,                      \* bound: beats of a fight
  NoResult

ASSUME CrewFightAssumption ==
  /\ {Hull, EnemyHull, SecondHull, RallyHull, Punch, CloakEvery, CloakBeats, FreighterHull,
      OathBeats} \subseteq Nat \ {0}
  /\ {NearMissHull, BoardMax, Layers, CloakFirst, RegrowMax, Rounds, LastBeat} \subseteq Nat
  /\ StartHulls \subseteq 1 .. Hull /\ RallyHull <= Hull /\ SecondHull <= EnemyHull /\ NearMissHull <= EnemyHull
  /\ WarnBeat \in Nat \ {0} /\ LandBeat \in Nat /\ WarnBeat < LandBeat
  /\ HoldoutBeats \in Nat \ {0} /\ Moves \subseteq {"strike", "oath", "patch"}
  /\ NoResult \notin {"win", "loss"}

\* Scrappers board; Shades and the Eclipse cloak; the Swarm and the Eclipse grow back.
Factions == {"scrappers", "shades", "swarm", "eclipse"}
Twists == {"none", "escort", "holdout", "waves"}
Boards(e) == e.faction = "scrappers"
Cloaks(e) == e.faction \in {"shades", "eclipse"}
Regrows(e) == e.faction \in {"swarm", "eclipse"}

Guns == {"cannon", "heavy"}

VARIABLE fight

Min2(a, b) == IF a <= b THEN a ELSE b
Max2(a, b) == IF a >= b THEN a ELSE b
Less(a, b) == IF a > b THEN a - b ELSE 0

WaveHull(e) == IF e.wave = 2 THEN SecondHull ELSE EnemyHull
EscortAlive(e) == e.twist = "escort" /\ e.freighter > 0
Cloaked(e) == e.cloak > 0 /\ e.cloak >= e.beat
\* The oath's extra layer, while it runs.
ShieldCap(e) == Layers + IF e.over >= e.beat /\ e.over > 0 THEN 1 ELSE 0
Flying(e) == e.result = NoResult /\ e.phase = "combat"

\* startFtlEncounter.
NewFight(faction, twist, hull, ready, aim) ==
  [faction |-> faction, twist |-> twist, beat |-> 0, phase |-> "combat", result |-> NoResult,
   hull |-> hull, layers |-> Layers, over |-> 0, ready |-> ready, cast |-> {},
   ehull |-> EnemyHull, wave |-> 1, cloak |-> 0, regrown |-> 0,
   aim |-> aim, freighter |-> IF twist = "escort" THEN FreighterHull ELSE 0,
   boarders |-> "none", board |-> "unused", rallied |-> FALSE]

CrewFightInit ==
  \E faction \in Factions, twist \in Twists, hull \in StartHulls, ready \in {{}, Moves}, aim \in SUBSET Guns :
    /\ aim # {} => twist = "escort"
    /\ fight = NewFight(faction, twist, hull, ready, aim)

-----------------------------------------------------------------------------
\* How a fight ends.

FinishFight(e, result) == [e EXCEPT !.phase = "complete", !.result = result]

\* ftlRallyEligible: once in a fight, and only if the enemy was nearly down.
NearMiss(e) == ~e.rallied /\ e.ehull \in 1 .. NearMissHull

FinishLoss(e) == IF NearMiss(e) THEN [e EXCEPT !.phase = "downed"] ELSE FinishFight(e, "loss")

\* Fault: any fallen ship wins the fight.
EnemyFallsForGood(e) == FinishFight([e EXCEPT !.ehull = 0], "win")

\* The first of two waves falls: the second arrives, uncloaked.
EnemyFalls(e) ==
  IF e.twist = "waves" /\ e.wave = 1
    THEN [e EXCEPT !.wave = 2, !.ehull = SecondHull, !.cloak = 0]
    ELSE FinishFight([e EXCEPT !.ehull = 0], "win")

HitEnemy(e, damage) ==
  IF e.ehull <= damage THEN EnemyFalls(e) ELSE [e EXCEPT !.ehull = @ - damage]

\* Hull never falls below one: the crew is then downed, or has lost.
HitShip(e, damage) ==
  LET hit == [e EXCEPT !.hull = Max2(1, Less(@, damage))]
  IN  IF hit.hull = 1 THEN FinishLoss(hit) ELSE hit

-----------------------------------------------------------------------------
\* Before the ticks of a beat.

\* Fault: an oath that is over drops its layer at the first tick.
OpenBeatLate(e) == [e EXCEPT !.beat = @ + 1]

\* The next beat; an oath that is over drops its layer now.  What a damaged room takes from the
\* shields besides is left to the ticks.
OpenBeat(e) ==
  LET b == [e EXCEPT !.beat = @ + 1]
  IN  [b EXCEPT !.layers = Min2(@, ShieldCap(b))]

Concede(e) == FinishFight(e, "loss")
Rally(e) == [e EXCEPT !.phase = "combat", !.hull = Max2(@, RallyHull), !.rallied = TRUE]

\* A boarding party takes the ship, or is thrown back by its guns.
BoardEnemy(e) ==
  {EnemyFalls([e EXCEPT !.board = "won"])}
    \cup {HitShip([e EXCEPT !.board = "lost"], damage) : damage \in 1 .. Punch}

BoardAvailable(e) == e.board = "unused" /\ e.ehull <= BoardMax

\* What an order makes of a fight whose beat has begun.
Ordered(e, order) ==
  CASE order = "concede" -> {Concede(e)}
    [] order = "rally" -> {Rally(e)}
    [] order = "board" -> BoardEnemy(e)
    [] OTHER -> {e}

\* Warned, then landed.
UpdateBoarders(e) ==
  IF Boards(e) /\ e.boarders = "none" /\ e.beat = WarnBeat
    THEN [e EXCEPT !.boarders = "incoming"]
  ELSE IF e.boarders = "incoming" /\ e.beat >= LandBeat THEN [e EXCEPT !.boarders = "aboard"]
  ELSE e

CloakDue(b) == b >= CloakFirst /\ (b - CloakFirst) % CloakEvery = 0

\* Fault: a cloak ends only when their helm is wrecked.
UpdateCloakHeld(e, helmOk) ==
  LET kept == IF e.cloak > 0 /\ ~helmOk THEN 0 ELSE e.cloak
  IN  [e EXCEPT !.cloak = IF kept = 0 /\ Cloaks(e) /\ CloakDue(e.beat) /\ helmOk
                            THEN e.beat + CloakBeats - 1 ELSE kept]

\* A cloak ends with its time or with their helm, and another begins when one is due.
UpdateCloak(e, helmOk) ==
  LET kept == IF e.beat > e.cloak \/ ~helmOk THEN 0 ELSE e.cloak
  IN  [e EXCEPT !.cloak = IF kept = 0 /\ Cloaks(e) /\ CloakDue(e.beat) /\ helmOk
                            THEN e.beat + CloakBeats - 1 ELSE kept]

\* Moves tapped go off, and with Auto on others that would help.
Casts(e) ==
  LET Spent(S) == [e EXCEPT !.cast = {}, !.ready = @ \ S,
                            !.over = IF "oath" \in S THEN e.beat + OathBeats - 1 ELSE @,
                            !.hull = IF "patch" \in S THEN Min2(Hull, @ + 1) ELSE @]
  IN  UNION {IF "strike" \in S THEN {HitEnemy(Spent(S), damage) : damage \in 1 .. Punch} ELSE {Spent(S)} :
               S \in {T \in SUBSET e.ready : e.cast \subseteq T}}

-----------------------------------------------------------------------------
\* The ticks.

\* A volley misses, or a cloaked ship, or bites.
Volley(e) ==
  {e} \cup IF Flying(e) /\ ~Cloaked(e) THEN {HitEnemy(e, damage) : damage \in 1 .. Punch} ELSE {}

\* A gun that has fired picks its next aim; only an escort still flying draws some of it.
NextAim(e, gun) ==
  {[e EXCEPT !.aim = @ \ {gun}]} \cup IF EscortAlive(e) THEN {[e EXCEPT !.aim = @ \cup {gun}]} ELSE {}

\* Fault: guns stay on the wreck.
ShootEscortOnly(e, damage) == [e EXCEPT !.freighter = Less(@, damage)]

\* The freighter is lost at no hull; guns still aiming at the wreck find the Sparrow.
ShootEscort(e, damage) ==
  LET left == Less(e.freighter, damage)
  IN  [e EXCEPT !.freighter = left, !.aim = IF left = 0 THEN {} ELSE @]

\* A gun is still charging, or fires: at the freighter, or at the Sparrow, in vain or not.
FireGun(e, gun) ==
  IF ~Flying(e) THEN {e}
  ELSE LET fired == IF gun \in e.aim THEN {ShootEscort(e, damage) : damage \in 0 .. Punch}
                    ELSE {e} \cup {HitShip(e, damage) : damage \in 1 .. Punch}
       IN  {e} \cup UNION {IF Flying(h) THEN NextAim(h, gun) ELSE {h} : h \in fired}

\* Crew throw boarders back.
Repel(e) == {e} \cup IF Flying(e) /\ e.boarders = "aboard" THEN {[e EXCEPT !.boarders = "repelled"]} ELSE {}

\* Ours first, then their guns in turn, then the crew's work.
Exchange(e) ==
  UNION {UNION {UNION {Repel(c) : c \in FireGun(b, "heavy")} : b \in FireGun(a, "cannon")} : a \in Volley(e)}

\* A beat's ticks; shields go up and down in them, within what their room holds.
Ticks(e) ==
  LET after[n \in 0 .. Rounds] == IF n = 0 THEN {e} ELSE UNION {Exchange(d) : d \in after[n - 1]}
  IN  {[d EXCEPT !.layers = n] : d \in after[Rounds], n \in 0 .. ShieldCap(e)}

\* Fault: it grows back for as long as it lives.
RegrowUnbounded(e) ==
  {e} \cup IF Regrows(e) /\ e.ehull < WaveHull(e)
             THEN {[e EXCEPT !.ehull = @ + 1, !.regrown = @ + 1]} ELSE {}

\* A hull that grows back, unless it burns, up to what this ship began with and in all a budget.
Regrow(e) ==
  {e} \cup IF Regrows(e) /\ e.ehull < WaveHull(e) /\ e.regrown < RegrowMax
             THEN {[e EXCEPT !.ehull = @ + 1, !.regrown = @ + 1]} ELSE {}

\* Holding out until the clock ends is a win; whatever goes on charges its moves.
HoldOut(e) == IF e.twist = "holdout" /\ e.beat >= HoldoutBeats THEN FinishFight(e, "win") ELSE e
Charge(e) == IF e.result # NoResult THEN {e} ELSE {[e EXCEPT !.ready = S] : S \in {e.ready, Moves}}
CloseBeat(e) ==
  UNION {Charge(d) : d \in IF Flying(e) THEN {HoldOut(c) : c \in Regrow(e)} ELSE {e}}

\* A beat whose order did not end the fight: boarders, cloak, moves, ticks.
Flies(e) ==
  LET begun == UNION {Casts(UpdateCloak(UpdateBoarders(e), helmOk)) : helmOk \in BOOLEAN}
  IN  UNION {UNION {CloseBeat(d) : d \in IF Flying(c) THEN Ticks(c) ELSE {c}} : c \in begun}

Beat(e, order) ==
  UNION {IF Flying(c) THEN Flies(c) ELSE {c} : c \in Ordered(OpenBeat(e), order)}

-----------------------------------------------------------------------------
\* validFtlBody: what makes a saved fight one the game could have made.

HeldOut(e) == e.twist = "holdout" /\ e.beat >= HoldoutBeats

ValidPhase(e) ==
  /\ IF e.result = NoResult THEN e.phase \in {"combat", "downed"} ELSE e.phase = "complete"
  /\ e.phase = "downed" => e.hull = 1
  /\ e.hull \in 1 .. Hull

ValidShields(e) == e.layers \in 0 .. ShieldCap(e)
ValidKitState(e) == e.cast \subseteq e.ready

ValidResult(e) ==
  /\ e.ehull \in 0 .. WaveHull(e)
  /\ e.result = NoResult => e.ehull > 0
  /\ e.result = "win" => e.beat > 0 /\ (e.ehull = 0 \/ HeldOut(e))
  /\ e.result = "loss" => e.beat > 0 /\ e.hull = 1 /\ e.ehull > 0

\* A cloak in force began on a cloak beat and ends within its length.
ValidCloak(e) ==
  \/ e.cloak = 0
  \/ e.cloak \in Max2(1, e.beat) .. e.beat + CloakBeats - 1 /\ CloakDue(e.cloak + 1 - CloakBeats)
ValidRegrowth(e) == e.regrown <= Min2(e.beat, RegrowMax)

ValidTwist(e) ==
  /\ HeldOut(e) => e.result # NoResult \/ e.phase = "downed"
  /\ e.twist = "waves" /\ e.result = "win" => e.wave = 2
  /\ e.aim # {} => EscortAlive(e)

ValidTactics(e) ==
  e.board = "won" => (e.result = "win" /\ e.ehull = 0) \/ (e.twist = "waves" /\ e.wave = 2)

ValidBoarders(e) == Boards(e) /\ e.boarders = "none" => e.beat <= WarnBeat

ValidFtlBody(e) ==
  /\ ValidPhase(e) /\ ValidShields(e) /\ ValidKitState(e) /\ ValidResult(e)
  /\ ValidCloak(e) /\ ValidRegrowth(e) /\ ValidTwist(e) /\ ValidTactics(e) /\ ValidBoarders(e)

-----------------------------------------------------------------------------
\* advanceFtlEncounter: a downed crew rallies or concedes; a flying one may board.  The
\* contract or the jump the fight belongs to steps only a fight it accepts.
Advance(order) ==
  /\ fight.result = NoResult /\ fight.beat < LastBeat
  /\ ValidFtlBody(fight)
  /\ IF fight.phase = "downed" THEN order \in {"rally", "concede"}
     ELSE order = "none" \/ (order = "board" /\ BoardAvailable(fight))
  /\ fight' \in Beat(fight, order)

\* applyFtlCommand: a charged portrait is tapped.
Tap(move) ==
  /\ Flying(fight) /\ ValidFtlBody(fight) /\ move \in fight.ready \ fight.cast
  /\ fight' = [fight EXCEPT !.cast = @ \cup {move}]

CrewFightNext ==
  \/ \E order \in {"none", "board", "rally", "concede"} : Advance(order)
  \/ \E move \in Moves : Tap(move)

CrewFightSpec == CrewFightInit /\ [][CrewFightNext]_fight

-----------------------------------------------------------------------------
\* Properties.

CrewFightTypeOK ==
  /\ fight.faction \in Factions /\ fight.twist \in Twists
  /\ fight.beat \in 0 .. LastBeat /\ fight.wave \in {1, 2}
  /\ fight.phase \in {"combat", "downed", "complete"} /\ fight.result \in {NoResult, "win", "loss"}
  /\ fight.cast \subseteq Moves /\ fight.ready \subseteq Moves /\ fight.aim \subseteq Guns
  /\ fight.boarders \in {"none", "incoming", "aboard", "repelled"}
  /\ fight.board \in {"unused", "won", "lost"} /\ fight.rallied \in BOOLEAN

\* Whatever a captain orders and the dice decide, the fight is one the validator accepts
\* after every beat, or its beats, its claim and the next load refuse it.  Two exceptions,
\* both of beats that end with their order: a cloak whose time is over has not dropped yet,
\* and a boarding thrown back on the beat of the boarders' warning has kept it from coming.
BeatsLoadButTwo ==
  /\ ValidPhase(fight) /\ ValidShields(fight) /\ ValidKitState(fight) /\ ValidResult(fight)
  /\ ValidRegrowth(fight) /\ ValidTwist(fight) /\ ValidTactics(fight)
  /\ ValidCloak(fight) \/ (~Flying(fight) /\ fight.cloak + 1 = fight.beat)
  /\ ValidBoarders(fight) \/ (fight.board = "lost" /\ (fight.rallied \/ fight.result = "loss"))

\* Every beat survives a reload and a finished fight is a valid save, say the tests.
BeatsLoad == ValidFtlBody(fight)
=============================================================================

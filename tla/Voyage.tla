------------------------------- MODULE Voyage -------------------------------
(***************************************************************************)
(* What a Warp Crew captain does with the ship (apps/warpcrew/src/systems, *)
(* contracts.js, encounterState.js, travelFight.js, travelEvents.js,       *)
(* walls.js, and the session loop that offers it): contracts, crew fights, *)
(* jumps, events, away teams and the wall of the sector.                   *)
(*                                                                         *)
(* `player` is the saved record.  Everything the captain does is a         *)
(* function of it and of the trusted clock, and is followed by the         *)
(* `prepare` of the render it causes, before the captain can click again;  *)
(* so between two clicks only the clock moves.  It may also step back.     *)
(* Rewards, hull points, power and the inside of a fight are left out: a   *)
(* fight is its beats and how it ended.  The tutorial is left out.         *)
(* Definitions marked "Fault" are bugs the properties are tried against;   *)
(* nothing uses them.                                                      *)
(***************************************************************************)
EXTENDS Naturals, FiniteSets

CONSTANTS
  Crew,            \* the members aboard; all have a berth
  Captain,         \* the member who never leaves with an away team
  Profiles,        \* the profiles of the daily offers
  Risky,           \* those whose every route is a confrontation
  Pool, Segment,   \* the hull of the wall's flagship, and of one attempt
  DayLength, MaxTime, InjuryTime,
  MaxFuel,
  MaxBeats,        \* bound: beats of a fight
  MaxAccepts,      \* bound: contracts accepted and fights begun
  MaxSetBacks,     \* bound: how often the clock steps back
  None

DayOf(t) == t \div DayLength
Days == 0 .. DayOf(MaxTime)
Attempts == 1 .. MaxAccepts
DailyOffers == {"daily"} \X Profiles \X Days
WallOffers == {"wall"} \X {"risky"} \X Attempts
AllOffers == DailyOffers \cup WallOffers
IsWall(o) == o[1] = "wall"

\* What the record holds while something is under way.
Results == {"win", "loss"}
Outcome == [success : BOOLEAN, dealt : Nat, defeated : BOOLEAN]
Contract ==
  [id : Nat, offer : AllOffers, stage : {"briefing", "choice", "confrontation", "return"},
   revision : Nat, choice : {"secure", "push", None}, mode : BOOLEAN,
   parts : SUBSET Crew, result : Outcome \cup {None}]
Encounter ==
  [id : Nat, crew : SUBSET Crew, beat : Nat, result : Results \cup {None}, segment : Nat \cup {None}]
TravelFight == [id : Nat, stage : {"fight", "return"}, revision : Nat, parts : SUBSET Crew]

ASSUME VoyageAssumption ==
  /\ Captain \in Crew /\ Risky \subseteq Profiles
  /\ {Pool, Segment, DayLength, InjuryTime, MaxFuel} \subseteq Nat \ {0}
  /\ {MaxTime, MaxBeats, MaxAccepts, MaxSetBacks} \subseteq Nat
  /\ None \notin Nat \cup {"secure", "push"} \cup Results
  /\ None \notin Outcome \cup Contract \cup Encounter \cup TravelFight

VARIABLES
  player,
  now,           \* trustedNow()
  setBacks,      \* how often it has stepped back
  timesPaid,     \* how often each offer has been paid
  dealt,         \* hull taken off the flagship in attempts brought home
  takedowns      \* how often the flagship's takedown has been paid

voyageVars == <<player, now, setBacks, timesPaid, dealt, takedowns>>

-----------------------------------------------------------------------------
\* The crew.

Status == [kind : {"ready", "away", "injured"}, until : 0 .. MaxTime + InjuryTime]
Fit == [kind |-> "ready", until |-> 0]

\* Members the game marks ready, whatever the clock says since.
MarkedReady(p) == {c \in Crew : p.crew[c].kind = "ready"}
\* readyContractCrew: an injury that is over counts as ready before anything has cleared it.
Squad(p, t) == {c \in Crew : \/ p.crew[c].kind = "ready"
                             \/ p.crew[c].kind = "injured" /\ p.crew[c].until <= t}

\* Whom a fight is bound to: marked ready, and with no injury time left.
Aboard(p, t) == {c \in Crew : p.crew[c].kind = "ready" /\ p.crew[c].until <= t}

Heal(p, t) == [p EXCEPT !.crew = [c \in Crew |-> 
                 IF @[c].kind = "injured" /\ @[c].until <= t THEN Fit ELSE @[c]]]
Injure(p, S, t) ==
  [p EXCEPT !.crew = [c \in Crew |-> IF c \in S THEN [kind |-> "injured", until |-> t + InjuryTime]
                                                ELSE @[c]]]

-----------------------------------------------------------------------------
\* The board and the wall.

SiegeDamage(p, t) == IF p.siege.day = DayOf(t) THEN p.siege.damage ELSE 0
Remaining(p, t) == Pool - SiegeDamage(p, t)
AtMost(a, b) == IF a <= b THEN a ELSE b

\* Fault: a new day's board starts with no offers done.
PostBoardAfresh(p, t) ==
  IF p.contract # None \/ p.board = DayOf(t) THEN p ELSE [p EXCEPT !.board = DayOf(t), !.done = {}]

\* The board keeps its day while a contract is active; the offers done are kept for ever.
PostBoard(p, t) == IF p.contract = None THEN [p EXCEPT !.board = DayOf(t)] ELSE p
PostWall(p) ==
  [p EXCEPT !.wall = IF p.fallen \/ (p.contract # None /\ IsWall(p.contract.offer))
                       THEN None ELSE <<"wall", "risky", p.siege.attempts + 1>>]
Posted(p) == {<<"daily", f, p.board>> : f \in Profiles} \cup ({p.wall} \ {None})

Prepare(p, t) == PostWall(PostBoard(Heal(p, t), t))

-----------------------------------------------------------------------------
\* Fights.

FightOf(id, p, t, segment) ==
  [id |-> id, crew |-> Squad(p, t), beat |-> 0, result |-> None, segment |-> segment]

\* fightCrewLaunched: whoever fights was aboard when the fight was bound.
Launched(e, S) == e.crew \subseteq S

\* validSnapshot: a contract and its fight agree.
ValidSnapshot(p) ==
  LET k == p.contract
      e == p.encounter
  IN  /\ k # None /\ e # None
      /\ k.mode /\ e.id = k.id /\ k.choice # None
      /\ k.revision = 2 + e.beat
      /\ Launched(e, k.parts)
      /\ CASE k.stage = "return" -> e.result # None /\ k.result.success = (e.result = "win")
           [] k.stage = "confrontation" -> e.result # "win"
           [] OTHER -> FALSE

ValidTravelFight(p) ==
  LET f == p.fight
      e == p.encounter
  IN  /\ f # None /\ e # None
      /\ e.id = f.id /\ f.revision = e.beat
      /\ Launched(e, f.parts)
      /\ (f.stage = "return") = (e.result # None)

ValidEvent(p) == p.event /\ p.contract = None /\ p.fight = None /\ p.encounter = None

\* What a load makes of a save (player.js, migratePlayer).
NormalizeEncounter(p) ==
  IF p.contract = None
    THEN IF p.fight = None THEN [p EXCEPT !.encounter = None] ELSE p
    ELSE IF (p.encounter = None /\ ~p.contract.mode) \/ ValidSnapshot(p) THEN p
         ELSE [p EXCEPT !.contract = None, !.encounter = None]
NormalizeTravelFight(p) ==
  IF p.fight = None \/ (p.contract = None /\ ValidTravelFight(p)) THEN p
  ELSE IF p.contract # None THEN [p EXCEPT !.fight = None]
  ELSE [p EXCEPT !.fight = None, !.encounter = None]
NormalizeEvent(p) == IF p.event /\ ~ValidEvent(p) THEN [p EXCEPT !.event = FALSE] ELSE p
Normalize(p) == NormalizeEvent(NormalizeTravelFight(NormalizeEncounter(p)))

-----------------------------------------------------------------------------
NewPlayer ==
  [fuel |-> MaxFuel, crippled |-> FALSE, crew |-> [c \in Crew |-> Fit], away |-> {},
   board |-> 0, done |-> {}, wall |-> None, sequence |-> 0,
   siege |-> [day |-> 0, damage |-> 0, attempts |-> 0], fallen |-> FALSE,
   contract |-> None, encounter |-> None, fight |-> None, event |-> FALSE]

VoyageInit ==
  /\ player = Prepare(NewPlayer, 0)
  /\ now = 0 /\ setBacks = 0
  /\ timesPaid = [o \in AllOffers |-> 0] /\ dealt = 0 /\ takedowns = 0

ghosts == <<timesPaid, dealt, takedowns>>
time == <<now, setBacks>>

\* The player becomes p, and the render that follows prepares it.
Becomes(p) == player' = Prepare(p, now) /\ UNCHANGED time

Idle == player.contract = None /\ player.fight = None /\ player.encounter = None /\ ~player.event
HasFuel(n) == player.fuel >= n

-----------------------------------------------------------------------------
\* Contracts.

Accept(o) ==
  /\ player.contract = None /\ player.fight = None /\ ~player.event
  /\ o \in Posted(player) /\ o \notin player.done
  /\ player.sequence < MaxAccepts
  /\ Becomes([player EXCEPT
       !.sequence = @ + 1,
       !.contract = [id |-> player.sequence + 1, offer |-> o, stage |-> "briefing", revision |-> 0,
                     choice |-> None, mode |-> FALSE, parts |-> {}, result |-> None]])
  /\ UNCHANGED ghosts

\* The preview of the last render holds the crew as it was marked then; the decision keys
\* must agree, so an injury that ended since then makes the click stale.
PreviewStands == Squad(player, now) = MarkedReady(player)

Launch ==
  /\ player.contract # None /\ player.contract.stage = "briefing"
  /\ ~player.crippled /\ Squad(player, now) # {} /\ HasFuel(1)
  /\ PreviewStands
  /\ Becomes([player EXCEPT !.fuel = @ - 1, !.contract.revision = @ + 1, !.contract.stage = "choice"])
  /\ UNCHANGED ghosts

\* beginContractEncounter; of a wall, this segment of the flagship.
Confront(p) ==
  [p EXCEPT !.contract.stage = "confrontation", !.contract.mode = TRUE,
            !.contract.parts = Aboard(p, now),
            !.encounter = FightOf(p.contract.id, p, now,
              IF IsWall(p.contract.offer) THEN AtMost(Segment, Remaining(p, now)) ELSE None)]

\* Fault: the commit does not compare the decision keys.
ChooseBlind(action) ==
  /\ player.contract # None /\ player.contract.stage = "choice" /\ HasFuel(1)
  /\ LET paid == [player EXCEPT !.fuel = @ - 1, !.contract.revision = @ + 1, !.contract.choice = action]
     IN  Becomes(Confront(paid))
  /\ UNCHANGED ghosts

\* secure and push: on to a confrontation, or straight to a result.  A risky route always
\* fights; of the others, push does where the route has an encounter.
Choose(action) ==
  /\ player.contract # None /\ player.contract.stage = "choice"
  /\ HasFuel(1) /\ PreviewStands
  /\ LET risky == IsWall(player.contract.offer) \/ player.contract.offer[2] \in Risky
         paid == [player EXCEPT !.fuel = @ - 1, !.contract.revision = @ + 1, !.contract.choice = action]
     IN  \/ (risky \/ action = "push") /\ Becomes(Confront(paid))
         \/ ~risky /\ Becomes([paid EXCEPT
              !.contract.stage = "return",
              !.contract.result = [success |-> TRUE, dealt |-> 0, defeated |-> FALSE]])
  /\ UNCHANGED ghosts

\* How a beat leaves the fight; a fight that ends costs hull, and a failed boarding party
\* brings one of those who launched home hurt, away or not.
Fought(p, result) == [p EXCEPT !.encounter.beat = @ + 1, !.encounter.result = result]
Hurt(p, parts, t) == {p} \cup {Injure(p, {c}, t) : c \in parts}
Worn(p) == {p, [p EXCEPT !.crippled = TRUE]}

\* Fault: a lost last attempt brings the flagship down.
DefeatedEitherWay(p, t, won) == Remaining(p, t) <= p.encounter.segment

\* The flagship falls when this attempt takes what the siege record of today leaves of it.
Defeated(p, t, won) == won /\ Remaining(p, t) <= p.encounter.segment

Outcomes(p, won) ==
  IF IsWall(p.contract.offer)
    THEN {[success |-> won, dealt |-> d, defeated |-> Defeated(p, now, won)] :
            d \in IF won THEN {p.encounter.segment} ELSE 0 .. p.encounter.segment - 1}
    ELSE {[success |-> won, dealt |-> 0, defeated |-> FALSE]}

ContractBeat ==
  /\ ValidSnapshot(player)
  /\ player.encounter.result = None /\ player.encounter.beat < MaxBeats
  /\ \/ Becomes([Fought(player, None) EXCEPT !.contract.revision = @ + 1])
     \/ \E result \in {"win", "loss"}, outcome \in Outcomes(player, TRUE) \cup Outcomes(player, FALSE) :
          /\ outcome.success = (result = "win")
          /\ \E p \in Worn([Fought(player, result) EXCEPT
                  !.contract.revision = @ + 1, !.contract.stage = "return", !.contract.result = outcome]) :
             \E q \in Hurt(p, p.contract.parts, now) : Becomes(q)
  /\ UNCHANGED ghosts

\* recordSiege: today's damage, another attempt, and perhaps the end of the wall.
RecordSiege(p, outcome) ==
  LET damage == AtMost(Pool, SiegeDamage(p, now) + outcome.dealt)
  IN  [p EXCEPT !.siege = [day |-> DayOf(now), damage |-> damage, attempts |-> @.attempts + 1],
                !.fallen = @ \/ outcome.defeated \/ damage >= Pool]

ClaimContract ==
  /\ player.contract # None /\ player.contract.stage = "return"
  /\ player.contract.offer \notin player.done
  /\ (player.contract.mode \/ player.encounter # None) => ValidSnapshot(player)
  /\ LET k == player.contract
         recorded == IF IsWall(k.offer) THEN RecordSiege(player, k.result) ELSE player
     IN  /\ Becomes([recorded EXCEPT !.done = @ \cup {k.offer}, !.contract = None, !.encounter = None])
         /\ timesPaid' = [timesPaid EXCEPT ![k.offer] = @ + 1]
         /\ dealt' = dealt + k.result.dealt
         /\ takedowns' = takedowns + IF k.result.defeated THEN 1 ELSE 0

\* Fault: the fight outlives the contract.
AbandonFighting ==
  /\ player.contract # None
  /\ Becomes([player EXCEPT !.contract = None])
  /\ UNCHANGED ghosts

\* A contract may be given up at any stage; its fuel is gone, and its offer still open.
Abandon ==
  /\ player.contract # None
  /\ Becomes([player EXCEPT !.contract = None, !.encounter = None])
  /\ UNCHANGED ghosts

\* recoverEncounter: the captain leaves a lost fight without its salvage.
RecoverEncounter ==
  /\ ValidSnapshot(player) /\ player.encounter.result = "loss"
  /\ \E worn \in Worn(player) : Becomes([worn EXCEPT !.contract = None, !.encounter = None])
  /\ UNCHANGED ghosts

-----------------------------------------------------------------------------
\* Jumps.

\* beginTravelFight: fuel for the jump, and a fight on the ship.
BeginTravelFight(p, cost) ==
  [p EXCEPT !.fuel = @ - cost, !.sequence = @ + 1,
            !.fight = [id |-> p.sequence + 1, stage |-> "fight", revision |-> 0,
                      parts |-> Aboard(p, now)],
            !.encounter = FightOf(p.sequence + 1, p, now, None)]

\* travel-to: a fight, an event, or an arrival that pays at once.  A wreck of a ship limps
\* home to its station, where nothing waits.
TravelTo ==
  /\ Idle /\ HasFuel(1)
  /\ \/ ~player.crippled /\ player.sequence < MaxAccepts /\ Becomes(BeginTravelFight(player, 1))
     \/ ~player.crippled /\ Becomes([player EXCEPT !.fuel = @ - 1, !.event = TRUE])
     \/ Becomes([player EXCEPT !.fuel = @ - 1])
  /\ UNCHANGED ghosts

\* event-choose: the event is closed and paid at once, perhaps at a cost in fuel, hull or
\* health, or becomes a fight.
ResolveEvent ==
  /\ ValidEvent(player)
  /\ \E cost \in {0, 1} :
       /\ HasFuel(cost)
       /\ LET closed == [player EXCEPT !.event = FALSE, !.fuel = @ - cost]
          IN  \/ Becomes(closed)
              \/ Becomes([closed EXCEPT !.crippled = TRUE])
              \/ \E c \in Squad(player, now) : Becomes(Injure(closed, {c}, now))
              \/ player.sequence < MaxAccepts /\ Becomes(BeginTravelFight(closed, 0))
  /\ UNCHANGED ghosts

TravelBeat ==
  /\ player.contract = None /\ ValidTravelFight(player)
  /\ player.encounter.result = None /\ player.encounter.beat < MaxBeats
  /\ \/ Becomes([Fought(player, None) EXCEPT !.fight.revision = @ + 1])
     \/ \E result \in {"win", "loss"} :
        \E p \in Worn([Fought(player, result) EXCEPT !.fight.revision = @ + 1, !.fight.stage = "return"]) :
        \E q \in Hurt(p, p.fight.parts, now) : Becomes(q)
  /\ UNCHANGED ghosts

ClaimTravel ==
  /\ player.contract = None /\ ValidTravelFight(player) /\ player.fight.stage = "return"
  /\ Becomes([player EXCEPT !.fight = None, !.encounter = None])
  /\ UNCHANGED ghosts

-----------------------------------------------------------------------------
\* The rest of a captain's day.

StartExpedition(S) ==
  /\ player.away = {} /\ S # {} /\ Captain \notin S
  /\ S \subseteq Squad(player, now)
  /\ Becomes([player EXCEPT !.away = S,
       !.crew = [c \in Crew |-> IF c \in S THEN [@[c] EXCEPT !.kind = "away"] ELSE @[c]]])
  /\ UNCHANGED ghosts

\* Home: unhurt, or after a failure all of them injured.
ResolveExpedition ==
  /\ player.away # {}
  /\ LET home == [player EXCEPT !.away = {},
                    !.crew = [c \in Crew |-> IF c \in player.away THEN [@[c] EXCEPT !.kind = "ready"] ELSE @[c]]]
     IN  Becomes(home) \/ Becomes(Injure(home, player.away, now))
  /\ UNCHANGED ghosts

\* Fuel regained or bought, and the ship repaired at dock.
Refuel ==
  /\ player.fuel < MaxFuel /\ Becomes([player EXCEPT !.fuel = MaxFuel])
  /\ UNCHANGED ghosts
Repair ==
  /\ player.crippled /\ Becomes([player EXCEPT !.crippled = FALSE])
  /\ UNCHANGED ghosts

Render == Becomes(player) /\ UNCHANGED ghosts
\* The game is loaded again: the save is normalised before anything else.
Reload == Becomes(Normalize(player)) /\ UNCHANGED ghosts

TimePasses ==
  /\ now < MaxTime /\ now' = now + 1
  /\ UNCHANGED <<player, setBacks, ghosts>>
\* The device clock, or the zone it is read in, steps back.
StepBack ==
  /\ setBacks < MaxSetBacks /\ setBacks' = setBacks + 1
  /\ \E t \in 0 .. MaxTime : t < now /\ now' = t
  /\ UNCHANGED <<player, ghosts>>

VoyageNext ==
  \/ \E o \in AllOffers : Accept(o)
  \/ Launch
  \/ \E action \in {"secure", "push"} : Choose(action)
  \/ ContractBeat \/ ClaimContract \/ Abandon \/ RecoverEncounter
  \/ TravelTo \/ ResolveEvent \/ TravelBeat \/ ClaimTravel
  \/ \E S \in SUBSET Crew : StartExpedition(S)
  \/ ResolveExpedition \/ Refuel \/ Repair \/ Render \/ Reload
  \/ TimePasses \/ StepBack

VoyageSpec == VoyageInit /\ [][VoyageNext]_voyageVars

-----------------------------------------------------------------------------
\* Properties.

\* The record keeps its shape, and its counters their bounds.
VoyageTypeOK ==
  /\ player.fuel \in 0 .. MaxFuel /\ player.crew \in [Crew -> Status]
  /\ player.contract \in Contract \cup {None} /\ player.encounter \in Encounter \cup {None}
  /\ player.fight \in TravelFight \cup {None} /\ player.event \in BOOLEAN
  /\ player.away \subseteq Crew \ {Captain}
  /\ player.board \in Days /\ player.done \subseteq AllOffers
  /\ player.siege.damage \in 0 .. Pool /\ player.sequence \in 0 .. MaxAccepts
  /\ now \in 0 .. MaxTime /\ setBacks \in 0 .. MaxSetBacks
  /\ takedowns \in 0 .. MaxAccepts

\* However the clock goes back and forth over a day and whatever is abandoned and taken
\* again, an offer pays at most once (contracts.js: revisiting a day cannot reopen what was
\* claimed), and no contract is flown whose offer has been paid already.
OffersPaidOnce ==
  /\ \A o \in AllOffers : timesPaid[o] <= 1 /\ (o \in player.done <=> timesPaid[o] = 1)
  /\ player.contract # None => player.contract.offer \notin player.done

\* The ship is in one thing at a time: a fight belongs to the contract or the jump that
\* began it and ends with it, and neither shares the ship with an event.
OneThingAtATime ==
  /\ player.contract # None => player.fight = None /\ ~player.event
  /\ player.fight # None => ~player.event
  /\ player.encounter # None =>
       \/ player.contract # None /\ player.contract.mode /\ player.contract.id = player.encounter.id
       \/ player.fight # None /\ player.fight.id = player.encounter.id

\* The click that opens a contract's fight binds everyone who fights in it, whatever the
\* clock did since the crew was shown: the decision key refuses it otherwise.  Except for a
\* member who came home from an away team with an injury still running, whom the fight takes
\* along and the binding leaves out.
BeginsWhole ==
  [][player.contract # None /\ ~player.contract.mode /\ player'.contract # None /\ player'.contract.mode
     => \/ NormalizeEncounter(player').contract # None
        \/ \E c \in MarkedReady(player) : player.crew[c].until > now]_voyageVars

\* The flagship falls once, and only to attempts that together took its whole hull.
WallFallsOnce ==
  /\ takedowns <= 1
  /\ player.fallen => dealt >= Pool

\* A fight the game began is one a load keeps; false is for a tampered or torn state, says
\* travelFight.js, and a fight survives a reload at every beat, says its test.
FightsLoad ==
  player.encounter # None => Normalize(player).encounter # None

=============================================================================

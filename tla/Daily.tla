-------------------------------- MODULE Daily --------------------------------
(***************************************************************************)
(* Daily rewards (daily.claim of features/achievements/server.ts and        *)
(* decideDailyClaim of its contract.ts): one player's claims on a server    *)
(* clock that may be set back, under either cadence, while publications     *)
(* change the cadence, the ladder and the progress asked for, and restarts  *)
(* open new generations.                                                    *)
(*                                                                          *)
(* Time is counted in hours of a short day.  The claim runs under the       *)
(* player's lock, so it is one step.  Definitions marked "Fault" are bugs   *)
(* the properties are tried against; nothing uses them.                     *)
(***************************************************************************)
EXTENDS Naturals

CONSTANTS
  Hours,        \* the length of a day and of DAILY_PERIOD_MS
  Documents,    \* daily reward documents an operator publishes: cadence, length of the
                \* ladder and minProgress
  MaxHour,      \* bound: the last hour of the clock
  MaxSetBack,   \* bound: hours the clock is set back at once
  MaxGenerations, \* bound
  MaxProgress   \* bound

Cadences == {"utc_day", "rolling_24h"}

ASSUME DailyAssumption ==
  /\ Hours \in Nat \ {0}
  /\ Documents \subseteq [cadence : Cadences, ladder : Nat \ {0}, minProgress : Nat]
  /\ MaxHour \in Nat /\ MaxSetBack \in Nat /\ MaxGenerations \in Nat /\ MaxProgress \in Nat

VARIABLES
  clock,        \* exec.now
  document,     \* the published one
  generation,
  progress,     \* of its anchored save
  dailyClaims   \* daily_claims: one row a day, with the grant minted for it

dailyVars == <<clock, document, generation, progress, dailyClaims>>

\* What a claim reads of the document, as it is at that moment.
cadence == document.cadence
ladder == document.ladder
progressed == progress >= document.minProgress

UtcDay(at) == at \div Hours

\* A row; the grant's key is the day, with the generation under rolling_24h.  "cut" is
\* history: the ladder that paid the claim no longer had the step last claimed.
NoGeneration == MaxGenerations + 1
LadderDays == UNION {1..d.ladder : d \in Documents}
ClaimRow ==
  [day : 0..UtcDay(MaxHour), at : 0..MaxHour, ladderDay : LadderDays, cut : BOOLEAN,
   grantKey : [generation : 0..NoGeneration, day : 0..UtcDay(MaxHour)]]

DailyInit ==
  /\ clock = 0
  /\ document \in Documents
  /\ generation = 0
  /\ progress = 0
  /\ dailyClaims = {}

\* The most recent row by day, and the row of today.
IsLast(r) == r \in dailyClaims /\ \A s \in dailyClaims : s.day <= r.day
IsToday(r) == r \in dailyClaims /\ r.day = UtcDay(clock)

NextStep(r) == (r.ladderDay % ladder) + 1

\* Fault: the cooldown of the rolling cadence compares days.
OpenByDay ==
  /\ progressed
  /\ ~\E r \in dailyClaims : IsToday(r)

\* Fault: the latest row by day stands for the row of today.
OpenByLast ==
  /\ progressed
  /\ \/ cadence = "utc_day" /\ \A r \in dailyClaims : IsLast(r) => ~IsToday(r)
     \/ cadence = "rolling_24h" /\ \A r \in dailyClaims : IsLast(r) => clock >= r.at + Hours

\* decideDailyClaim: whether a claim is open, and where on the ladder it lands.
Open ==
  /\ progressed
  /\ \/ cadence = "utc_day" /\ ~\E r \in dailyClaims : IsToday(r)
     \/ cadence = "rolling_24h" /\ \A r \in dailyClaims : IsLast(r) => clock >= r.at + Hours

Continues(r) ==
  /\ IsLast(r)
  /\ \/ cadence = "utc_day" /\ r.day + 1 = UtcDay(clock)
     \/ cadence = "rolling_24h" /\ clock < r.at + 2 * Hours

LadderDay ==
  IF \E r \in dailyClaims : Continues(r)
  THEN NextStep(CHOOSE r \in dailyClaims : Continues(r)) ELSE 1

\* The ladder no longer has the step last claimed.
Cut == \E r \in dailyClaims : IsLast(r) /\ r.ladderDay > ladder

\* DailyClaim: the grant and its row, in one transaction.
DailyClaim ==
  /\ Open
  /\ dailyClaims' = dailyClaims \cup
       {[day |-> UtcDay(clock), at |-> clock, ladderDay |-> LadderDay,
         cut |-> Cut,
         grantKey |-> [generation |-> IF cadence = "rolling_24h" THEN generation ELSE NoGeneration,
                       day |-> UtcDay(clock)]]}
  /\ UNCHANGED <<clock, document, generation, progress>>

Tick == clock < MaxHour /\ clock' = clock + 1
        /\ UNCHANGED <<document, generation, progress, dailyClaims>>

\* The host's clock is corrected.
SetBack == \E back \in 1..MaxSetBack :
  /\ back <= clock
  /\ clock' = clock - back
  /\ UNCHANGED <<document, generation, progress, dailyClaims>>

\* Another document: its cadence, its ladder and its minProgress.
Publish ==
  /\ document' \in Documents
  /\ UNCHANGED <<clock, generation, progress, dailyClaims>>

Progress == progress < MaxProgress /\ progress' \in (progress + 1)..MaxProgress
            /\ UNCHANGED <<clock, document, generation, dailyClaims>>

\* A new generation starts with what progress it was opened with.
NewGeneration ==
  /\ generation < MaxGenerations
  /\ generation' = generation + 1
  /\ progress' \in 0..MaxProgress
  /\ UNCHANGED <<clock, document, dailyClaims>>

DailyNext == DailyClaim \/ Tick \/ SetBack \/ Publish \/ Progress \/ NewGeneration

DailySpec == DailyInit /\ [][DailyNext]_dailyVars

-----------------------------------------------------------------------------
(* Properties. *)

DailyTypeOK ==
  /\ clock \in 0..MaxHour /\ document \in Documents
  /\ generation \in 0..MaxGenerations /\ progress \in 0..MaxProgress
  /\ dailyClaims \subseteq ClaimRow

\* No claim meets the row or the grant of another: a day has one row, whatever
\* the clock and the cadence did ("two claims 24 h apart never share a UTC day",
\* contract.ts:101; the table's key is the player and the day).
OneClaimPerDay ==
  \A r, s \in dailyClaims : r # s => r.day # s.day /\ r.grantKey # s.grantKey

\* A ladder day above the first follows the one below it: there is a claim at most one
\* missed opening earlier that stood one step lower.  One exception: a publication cut
\* the ladder below the step last claimed, from which the next wraps to any lower one.
LadderClimbs ==
  \A r \in dailyClaims : r.ladderDay > 1 =>
    \E s \in dailyClaims :
      /\ s.at < r.at /\ r.at < s.at + 2 * Hours
      /\ s.ladderDay = r.ladderDay - 1 \/ (r.cut /\ s.ladderDay > r.ladderDay)

\* The rows of a player agree with each other in both respects.
DailyRows == OneClaimPerDay /\ LadderClimbs

\* Under the rolling cadence a new claim is a whole period after every earlier
\* one, also when the clock was set back or the cadence changed between them.
RollingSpaced ==
  [][\A r \in dailyClaims' \ dailyClaims :
       cadence = "rolling_24h" => \A s \in dailyClaims : r.at >= s.at + Hours]_dailyVars
=============================================================================

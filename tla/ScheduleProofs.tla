--------------------------- MODULE ScheduleProofs ---------------------------
(***************************************************************************)
(* Theorems about what goes by the clock or the calendar.  Daily: that a   *)
(* day has one row and one grant, that the ladder is climbed step by step, *)
(* and that rolling claims are a period apart, for any corrections of the  *)
(* clock and any documents published.  Jobs: that a job never runs twice   *)
(* at once, and that it stays due while it runs.  Seasons: that a table    *)
(* lists a player once, and whom the end of a season pays.                 *)
(***************************************************************************)
EXTENDS Daily, Jobs, Seasons, Integers, FiniteSetTheorems, SequenceTheorems, TLAPS

-----------------------------------------------------------------------------
(* Daily rewards. *)

-----------------------------------------------------------------------------
(* Days and hours. *)

\* The day of an hour, and the hours it holds.
LEMMA DayBounds ==
  ASSUME NEW a \in Nat
  PROVE  UtcDay(a) \in Nat /\ Hours * UtcDay(a) <= a /\ a < Hours * UtcDay(a) + Hours
  BY DailyAssumption DEF UtcDay

\* Days follow their hours; a period apart is another day, and a day later within two.
LEMMA DaysOrdered ==
  ASSUME NEW a \in Nat, NEW b \in Nat
  PROVE  /\ a <= b => UtcDay(a) <= UtcDay(b)
         /\ UtcDay(a) < UtcDay(b) => a < b
         /\ a + Hours <= b => UtcDay(a) < UtcDay(b)
         /\ UtcDay(a) + 1 = UtcDay(b) => b < a + 2 * Hours
<1>1. PICK p \in Nat : p = UtcDay(a) /\ Hours * p <= a /\ a < Hours * p + Hours
  BY DayBounds
<1>2. PICK q \in Nat : q = UtcDay(b) /\ Hours * q <= b /\ b < Hours * q + Hours
  BY DayBounds
<1>3. \A m, n \in Nat : m <= n => Hours * m <= Hours * n
  BY DailyAssumption
<1>4. \A n \in Nat : Hours * (n + 1) = Hours * n + Hours /\ Hours * n \in Nat
  BY DailyAssumption
<1>5. Hours \in Nat \ {0} /\ Hours * p \in Nat /\ Hours * q \in Nat
  BY <1>4, DailyAssumption
<1>6. q < p => b < a
  <2> SUFFICES ASSUME q + 1 <= p PROVE b < a
    OBVIOUS
  <2>1. Hours * (q + 1) <= Hours * p
    BY <1>3
  <2>2. Hours * (q + 1) = Hours * q + Hours
    BY <1>4
  <2> QED
    BY <1>1, <1>2, <1>5, <2>1, <2>2
<1>7. p < q => a < b
  <2> SUFFICES ASSUME p + 1 <= q PROVE a < b
    OBVIOUS
  <2>1. Hours * (p + 1) <= Hours * q
    BY <1>3
  <2>2. Hours * (p + 1) = Hours * p + Hours
    BY <1>4
  <2> QED
    BY <1>1, <1>2, <1>5, <2>1, <2>2
<1>8. q <= p => b < a + Hours
  <2> SUFFICES ASSUME q <= p PROVE b < a + Hours
    OBVIOUS
  <2>1. Hours * q <= Hours * p
    BY <1>3
  <2> QED
    BY <1>1, <1>2, <1>5, <2>1
<1>9. p + 1 = q => b < a + 2 * Hours
  <2> SUFFICES ASSUME p + 1 = q PROVE b < a + 2 * Hours
    OBVIOUS
  <2>1. Hours * q = Hours * p + Hours
    BY <1>4
  <2> QED
    BY <1>1, <1>2, <1>5, <2>1
<1> QED
  BY <1>1, <1>2, <1>5, <1>6, <1>7, <1>8, <1>9

-----------------------------------------------------------------------------
(* The inductive invariant.  A claim looks at the latest row alone: there   *)
(* is one (HasLast), and it is the latest by the clock as well as by the    *)
(* day, since a row's day is the day of its hour (DaysOfHours).             *)

DaysOfHours == \A r \in dailyClaims : r.day = UtcDay(r.at) /\ r.grantKey.day = r.day

HasLast == dailyClaims = {} \/ \E r \in dailyClaims : IsLast(r)

DailyInv == DailyTypeOK /\ DaysOfHours /\ HasLast /\ DailyRows

\* The latest row is the latest by the clock.
LEMMA LastByClock ==
  ASSUME DailyInv, NEW r \in dailyClaims, NEW s \in dailyClaims, IsLast(r)
  PROVE  s.at <= r.at
<1>1. r.at \in Nat /\ s.at \in Nat
  BY DailyAssumption DEF DailyInv, DailyTypeOK, ClaimRow
<1>2. s.day <= r.day /\ s.day = UtcDay(s.at) /\ r.day = UtcDay(r.at)
  BY DEF DailyInv, DaysOfHours, IsLast
<1>3. UtcDay(r.at) \in Nat /\ UtcDay(s.at) \in Nat
  BY <1>1, DayBounds
<1>4. CASE r = s
  BY <1>1, <1>4
<1>5. CASE r # s
  <2>1. UtcDay(s.at) < UtcDay(r.at)
    BY <1>2, <1>3, <1>5 DEF DailyInv, DailyRows, OneClaimPerDay
  <2> QED
    BY <1>1, <2>1, DaysOrdered
<1> QED
  BY <1>4, <1>5

\* An open claim falls on a day without a row and, under the rolling cadence, a
\* period after every row.
LEMMA OpenApart ==
  ASSUME DailyInv, Open, NEW s \in dailyClaims
  PROVE  /\ s.day # UtcDay(clock)
         /\ cadence = "rolling_24h" => clock >= s.at + Hours
<1>1. /\ s.at \in Nat /\ clock \in Nat /\ Hours \in Nat \ {0}
      /\ s.day = UtcDay(s.at)
  BY DailyAssumption DEF DailyInv, DailyTypeOK, ClaimRow, DaysOfHours
<1>2. CASE cadence = "utc_day"
  BY <1>2 DEF Open, IsToday
<1>3. CASE cadence = "rolling_24h"
  <2>1. PICK r \in dailyClaims : IsLast(r)
    BY DEF DailyInv, HasLast
  <2>2. r.at \in Nat /\ s.at <= r.at
    BY <2>1, LastByClock, DailyAssumption DEF DailyInv, DailyTypeOK, ClaimRow
  <2>3. clock >= r.at + Hours
    BY <1>3, <2>1 DEF Open
  <2>4. s.at + Hours <= clock
    BY <1>1, <2>2, <2>3
  <2>5. UtcDay(s.at) < UtcDay(clock)
    BY <1>1, <2>4, DaysOrdered
  <2>6. UtcDay(s.at) \in Nat /\ UtcDay(clock) \in Nat
    BY <1>1, DayBounds
  <2> QED
    BY <1>1, <2>4, <2>5, <2>6
<1> QED
  BY <1>2, <1>3 DEF Open

-----------------------------------------------------------------------------
(* Steps. *)

\* A new player has claimed nothing.
LEMMA DailyInitial == DailyInit => DailyInv
  BY DailyAssumption
     DEF DailyInit, DailyInv, DailyTypeOK, DaysOfHours, HasLast, DailyRows, OneClaimPerDay, LadderClimbs

\* Where a claim lands on the ladder: on its first step, or one above a row that
\* the claim continues, or lower than a row that stands above the ladder's end.
LEMMA LadderStep ==
  ASSUME DailyInv, Open
  PROVE  /\ LadderDay \in 1..ladder
         /\ LadderDay > 1 =>
              \E s \in dailyClaims : /\ s.at < clock /\ clock < s.at + 2 * Hours
                                     /\ s.ladderDay = LadderDay - 1
                                          \/ (Cut /\ s.ladderDay > LadderDay)
<1>1. ladder \in Nat \ {0} /\ Hours \in Nat \ {0} /\ clock \in Nat
  BY DailyAssumption DEF DailyInv, DailyTypeOK, ladder
<1>2. CASE ~\E r \in dailyClaims : Continues(r)
  BY <1>1, <1>2 DEF LadderDay
<1>3. CASE \E r \in dailyClaims : Continues(r)
  <2>1. PICK s \in dailyClaims : Continues(s) /\ LadderDay = NextStep(s)
    BY <1>3 DEF LadderDay
  <2>2. s.ladderDay \in Nat \ {0} /\ s.at \in Nat /\ s.day = UtcDay(s.at)
    BY DailyAssumption DEF DailyInv, DailyTypeOK, ClaimRow, LadderDays, DaysOfHours
  <2>3. /\ s.ladderDay % ladder \in 0..(ladder - 1)
        /\ s.ladderDay < ladder => s.ladderDay % ladder = s.ladderDay
        /\ s.ladderDay = ladder => s.ladderDay % ladder = 0
    BY <1>1, <2>2
  <2>4. LadderDay = (s.ladderDay % ladder) + 1
    BY <2>1 DEF NextStep
  <2>5. /\ LadderDay \in 1..ladder
        /\ LadderDay > 1 => s.ladderDay = LadderDay - 1
                              \/ (s.ladderDay > ladder /\ s.ladderDay > LadderDay)
    BY <1>1, <2>2, <2>3, <2>4
  <2>6. s.ladderDay > ladder => Cut
    BY <2>1 DEF Cut, Continues
  <2>7. s.at < clock /\ clock < s.at + 2 * Hours
    <3>1. CASE cadence = "utc_day"
      <4>1. UtcDay(s.at) + 1 = UtcDay(clock)
        BY <2>1, <2>2, <3>1 DEF Continues
      <4>2. UtcDay(s.at) \in Nat /\ UtcDay(s.at) < UtcDay(clock)
        BY <2>2, <4>1, DayBounds
      <4> QED
        BY <1>1, <2>2, <4>1, <4>2, DaysOrdered
    <3>2. CASE cadence = "rolling_24h"
      <4>1. clock >= s.at + Hours
        BY <3>2, OpenApart
      <4>2. clock < s.at + 2 * Hours
        BY <2>1, <3>2 DEF Continues
      <4> QED
        BY <1>1, <2>2, <4>1, <4>2
    <3> QED
      BY <3>1, <3>2 DEF Open
  <2> QED
    BY <2>5, <2>6, <2>7
<1> QED
  BY <1>2, <1>3

LEMMA DailyClaimKeeps == ASSUME DailyInv, DailyClaim PROVE DailyInv'
<1>1. PICK row : row = [day |-> UtcDay(clock), at |-> clock, ladderDay |-> LadderDay,
                        cut |-> Cut,
                        grantKey |-> [generation |-> IF cadence = "rolling_24h" THEN generation
                                                     ELSE NoGeneration,
                                      day |-> UtcDay(clock)]]
  OBVIOUS
<1>2. /\ Open /\ dailyClaims' = dailyClaims \cup {row}
      /\ UNCHANGED <<clock, document, generation, progress>>
  BY <1>1 DEF DailyClaim
<1>3. /\ clock \in 0..MaxHour /\ MaxHour \in Nat /\ generation \in 0..MaxGenerations
      /\ MaxGenerations \in Nat /\ UtcDay(clock) \in Nat /\ UtcDay(MaxHour) \in Nat
      /\ UtcDay(clock) <= UtcDay(MaxHour)
  <2>1. /\ clock \in 0..MaxHour /\ MaxHour \in Nat /\ generation \in 0..MaxGenerations
        /\ MaxGenerations \in Nat
    BY DailyAssumption DEF DailyInv, DailyTypeOK
  <2>2. clock \in Nat /\ clock <= MaxHour
    BY <2>1
  <2>3. UtcDay(clock) \in Nat /\ UtcDay(MaxHour) \in Nat
    BY <2>1, <2>2, DayBounds
  <2>4. UtcDay(clock) <= UtcDay(MaxHour)
    BY <2>1, <2>2, DaysOrdered
  <2> QED
    BY <2>1, <2>3, <2>4
<1>4. LadderDay \in LadderDays /\ Cut \in BOOLEAN
  <2>1. LadderDay \in 1..document.ladder /\ document \in Documents
    BY <1>2, LadderStep DEF DailyInv, DailyTypeOK, ladder
  <2> QED
    BY <2>1 DEF LadderDays, Cut
<1>5. PICK key \in [generation : 0..NoGeneration, day : 0..UtcDay(MaxHour)] :
        key = row.grantKey /\ key.day = UtcDay(clock)
  BY <1>1, <1>3 DEF NoGeneration
<1>6. /\ row.day = UtcDay(clock) /\ row.at = clock /\ row.ladderDay = LadderDay
      /\ row.cut = Cut /\ row.grantKey = key /\ row \in ClaimRow
  <2>1. /\ row.day = UtcDay(clock) /\ row.at = clock /\ row.ladderDay = LadderDay /\ row.cut = Cut
        /\ row = [day |-> UtcDay(clock), at |-> clock, ladderDay |-> LadderDay, cut |-> Cut,
                  grantKey |-> key]
    BY <1>1, <1>5
  <2>2. row.day \in 0..UtcDay(MaxHour)
    BY <1>3, <2>1
  <2> QED
    BY <1>3, <1>4, <1>5, <2>1, <2>2 DEF ClaimRow
<1>7. DailyTypeOK'
  BY <1>2, <1>6 DEF DailyInv, DailyTypeOK
<1>8. DaysOfHours'
  BY <1>2, <1>5, <1>6 DEF DailyInv, DaysOfHours
<1>9. \A s \in dailyClaims : s.day # row.day /\ s.grantKey # row.grantKey
  BY <1>2, <1>5, <1>6, OpenApart DEF DailyInv, DaysOfHours
<1>10. HasLast'
  <2>1. \A s \in dailyClaims' : s.day \in Nat
    BY <1>7, <1>3 DEF DailyTypeOK, ClaimRow
  <2>2. CASE dailyClaims = {}
    BY <1>2, <2>1, <2>2 DEF HasLast, IsLast
  <2>3. CASE dailyClaims # {}
    <3>1. PICK last \in dailyClaims : \A s \in dailyClaims : s.day <= last.day
      BY <2>3 DEF DailyInv, HasLast, IsLast
    <3>2. last \in dailyClaims' /\ row \in dailyClaims' /\ last.day \in Nat /\ row.day \in Nat
      BY <1>2, <2>1
    <3>3. CASE row.day <= last.day
      BY <1>2, <3>1, <3>2, <3>3 DEF HasLast, IsLast
    <3>4. CASE last.day <= row.day
      <4>1. \A s \in dailyClaims' : s.day <= row.day
        BY <1>2, <2>1, <3>1, <3>2, <3>4
      <4> QED
        BY <3>2, <4>1 DEF HasLast, IsLast
    <3> QED
      BY <3>2, <3>3, <3>4
  <2> QED
    BY <2>2, <2>3
<1>11. OneClaimPerDay'
  BY <1>2, <1>9 DEF DailyInv, DailyRows, OneClaimPerDay
<1>12. LadderClimbs'
  <2> SUFFICES ASSUME NEW r \in dailyClaims', r.ladderDay > 1
               PROVE  \E s \in dailyClaims' :
                        /\ s.at < r.at /\ r.at < s.at + 2 * Hours
                        /\ s.ladderDay = r.ladderDay - 1 \/ (r.cut /\ s.ladderDay > r.ladderDay)
    BY DEF LadderClimbs
  <2>1. CASE r \in dailyClaims
    BY <1>2, <2>1 DEF DailyInv, DailyRows, LadderClimbs
  <2>2. CASE r = row
    BY <1>2, <1>6, <2>2, LadderStep
  <2> QED
    BY <1>2, <2>1, <2>2
<1> QED
  BY <1>7, <1>8, <1>10, <1>11, <1>12 DEF DailyInv, DailyRows

\* No step leaves the invariant.
LEMMA DailyInductive == DailyInv /\ [DailyNext]_dailyVars => DailyInv'
<1> SUFFICES ASSUME DailyInv, [DailyNext]_dailyVars PROVE DailyInv'
  OBVIOUS
<1>1. CASE DailyClaim
  BY <1>1, DailyClaimKeeps
<1>2. ASSUME UNCHANGED dailyClaims, DailyTypeOK' PROVE DailyInv'
  BY <1>2 DEF DailyInv, DaysOfHours, HasLast, IsLast, DailyRows, OneClaimPerDay, LadderClimbs
<1>3. CASE Tick
  BY <1>2, <1>3, DailyAssumption DEF Tick, DailyInv, DailyTypeOK
<1>4. CASE SetBack
  BY <1>2, <1>4, DailyAssumption DEF SetBack, DailyInv, DailyTypeOK
<1>5. CASE Publish \/ Progress
  BY <1>2, <1>5, DailyAssumption DEF Publish, Progress, DailyInv, DailyTypeOK
<1>6. CASE NewGeneration
  BY <1>2, <1>6, DailyAssumption DEF NewGeneration, DailyInv, DailyTypeOK
<1>7. CASE UNCHANGED dailyVars
  BY <1>2, <1>7 DEF dailyVars, DailyInv, DailyTypeOK
<1> QED
  BY <1>1, <1>3, <1>4, <1>5, <1>6, <1>7 DEF DailyNext

\* The invariant holds in every state.
LEMMA DailyAlways == DailySpec => []DailyInv
<1> QED
  BY DailyInitial, DailyInductive, PTL DEF DailySpec

-----------------------------------------------------------------------------
(* Theorems. *)

\* The types of the clock, the published document and the rows.
THEOREM DailyTypeCorrect == DailySpec => []DailyTypeOK
<1>1. DailyInv => DailyTypeOK
  BY DEF DailyInv
<1> QED
  BY <1>1, DailyAlways, PTL

\* A day has one row and one grant, and a step of the ladder follows the one below,
\* whatever ladders were published, but where one was cut below the step last claimed.
THEOREM RowsAlwaysAgree == DailySpec => []DailyRows
<1>1. DailyInv => DailyRows
  BY DEF DailyInv
<1> QED
  BY <1>1, DailyAlways, PTL

\* Under the rolling cadence a claim comes a period after every earlier one,
\* whatever became of the clock and the document between them.
THEOREM RollingAlwaysSpaced == DailySpec => RollingSpaced
<1>1. ASSUME DailyInv, [DailyNext]_dailyVars
      PROVE  [\A r \in dailyClaims' \ dailyClaims :
                cadence = "rolling_24h" => \A s \in dailyClaims : r.at >= s.at + Hours]_dailyVars
  <2> SUFFICES ASSUME NEW r \in dailyClaims' \ dailyClaims, cadence = "rolling_24h",
                      NEW s \in dailyClaims
               PROVE  r.at >= s.at + Hours
    OBVIOUS
  <2>1. DailyClaim
    BY <1>1 DEF DailyNext, Tick, SetBack, Publish, Progress, NewGeneration, dailyVars
  <2>2. r.at = clock
    BY <2>1 DEF DailyClaim
  <2>3. clock >= s.at + Hours
    BY <1>1, <2>1, OpenApart DEF DailyClaim
  <2> QED
    BY <2>2, <2>3
<1> QED
  BY <1>1, DailyAlways, PTL DEF DailySpec, RollingSpaced

-----------------------------------------------------------------------------
(* Jobs. *)

-----------------------------------------------------------------------------
(* The inductive invariant.  The types say nothing of the queue, and a     *)
(* finished call hands its slot to the head of it: that head must be       *)
(* waiting, and stand in the queue once, or a call under way would start   *)
(* again.  The slots in use are counted to see that the count never falls  *)
(* short.                                                                  *)

Types ==
  /\ phase \in [Replicas -> [JobNames -> Phases]]
  /\ mode \in [Replicas -> [JobNames -> Modes]]
  /\ waiters \in [Replicas -> Seq(JobNames)]
  /\ jobLock \in [JobNames -> Replicas \cup {NoReplica}]
  /\ recentOk \subseteq JobNames /\ recentTry \subseteq JobNames

\* Whoever waits in a queue is waiting, and waits there once.
QueuedWait ==
  \A r \in Replicas :
    /\ \A i \in 1..Len(waiters[r]) : phase[r][waiters[r][i]] = "waiting"
    /\ \A i, k \in 1..Len(waiters[r]) : waiters[r][i] = waiters[r][k] => i = k

\* A call past its lock holds it, until its connection breaks.
LockHeld ==
  \A r \in Replicas, j \in JobNames : phase[r][j] \in {"locked", "working"} => jobLock[j] = r

\* The calls of a replica that occupy a slot.
Slotted(r) == {j \in JobNames : phase[r][j] \notin {"idle", "waiting"}}

SlotsCounted ==
  \A r \in Replicas : /\ IsFiniteSet(Slotted(r))
                      /\ active[r] = Cardinality(Slotted(r))
                      /\ active[r] \in 0..MaxConcurrent

JobsInv == Types /\ active \in [Replicas -> Nat] /\ QueuedWait /\ LockHeld /\ SlotsCounted

-----------------------------------------------------------------------------
(* What calls share. *)

\* A call in a slot goes on to another phase in its slot: queue and count stand.
LEMMA MovesOn ==
  ASSUME JobsInv, NEW r \in Replicas, NEW j \in JobNames, NEW p \in Phases \ {"idle", "waiting"},
         phase[r][j] \notin {"idle", "waiting"},
         phase' = [phase EXCEPT ![r][j] = p], UNCHANGED <<waiters, active>>
  PROVE  /\ phase' \in [Replicas -> [JobNames -> Phases]]
         /\ QueuedWait' /\ SlotsCounted'
<1>1. phase' \in [Replicas -> [JobNames -> Phases]]
  BY DEF JobsInv, Types
<1>2. QueuedWait'
  <2> SUFFICES ASSUME NEW s \in Replicas, NEW i \in 1..Len(waiters[s])
               PROVE  phase'[s][waiters[s][i]] = "waiting"
    BY DEF JobsInv, QueuedWait
  <2>1. waiters[s][i] \in JobNames /\ phase[s][waiters[s][i]] = "waiting"
    BY DEF JobsInv, Types, QueuedWait
  <2> QED
    BY <2>1 DEF JobsInv, Types
<1>3. ASSUME NEW s \in Replicas PROVE Slotted(s)' = Slotted(s)
  BY DEF JobsInv, Types, Slotted
<1>4. SlotsCounted'
  BY <1>3 DEF JobsInv, SlotsCounted
<1> QED
  BY <1>1, <1>2, <1>4

\* A call ends: its slot is free or goes to the head of the queue, and no other
\* call comes any further by it.
LEMMA EndsCall ==
  ASSUME JobsInv, NEW r \in Replicas, NEW j \in JobNames,
         phase[r][j] \notin {"idle", "waiting"}, Finish(r, j)
  PROVE  /\ phase' \in [Replicas -> [JobNames -> Phases]]
         /\ waiters' \in [Replicas -> Seq(JobNames)]
         /\ active' \in [Replicas -> Nat]
         /\ QueuedWait' /\ SlotsCounted'
         /\ phase'[r][j] = "idle"
         /\ \A s \in Replicas, k \in JobNames :
              phase'[s][k] \in {"locked", "working"} => phase[s][k] = phase'[s][k]
<1>1. CASE waiters[r] = <<>>
  <2>1. /\ active' = [active EXCEPT ![r] = @ - 1]
        /\ phase' = [phase EXCEPT ![r][j] = "idle"]
        /\ waiters' = waiters
    BY <1>1 DEF Finish
  <2>2. /\ phase' \in [Replicas -> [JobNames -> Phases]]
        /\ phase'[r][j] = "idle"
        /\ \A s \in Replicas, k \in JobNames :
             phase'[s][k] \in {"locked", "working"} => phase[s][k] = phase'[s][k]
    BY <2>1 DEF JobsInv, Types, Phases
  <2>3. QueuedWait'
    <3> SUFFICES ASSUME NEW s \in Replicas, NEW i \in 1..Len(waiters[s])
                 PROVE  phase'[s][waiters[s][i]] = "waiting"
      BY <2>1 DEF JobsInv, QueuedWait
    <3>1. waiters[s][i] \in JobNames /\ phase[s][waiters[s][i]] = "waiting"
      BY DEF JobsInv, Types, QueuedWait
    <3> QED
      BY <3>1, <2>1 DEF JobsInv, Types
  <2>4. Slotted(r)' = Slotted(r) \ {j} /\ j \in Slotted(r)
    BY <2>1 DEF JobsInv, Types, Slotted
  <2>5. \A s \in Replicas \ {r} : Slotted(s)' = Slotted(s)
    BY <2>1 DEF JobsInv, Types, Slotted
  <2>6. IsFiniteSet(Slotted(r)') /\ Cardinality(Slotted(r)') = active[r] - 1
    BY <2>4, FS_RemoveElement DEF JobsInv, SlotsCounted
  <2>7. active[r] \in 0..MaxConcurrent /\ Cardinality(Slotted(r)') \in Nat
    BY <2>6, FS_CardinalityType DEF JobsInv, SlotsCounted
  <2>8. active' \in [Replicas -> Nat] /\ SlotsCounted'
    <3>1. active[r] - 1 \in 0..MaxConcurrent
      BY <2>6, <2>7, JobsAssumption DEF JobsAssumption
    <3>2. active' \in [Replicas -> Nat] /\ active'[r] = active[r] - 1
          /\ \A s \in Replicas \ {r} : active'[s] = active[s]
      BY <3>1, <2>1, JobsAssumption DEF JobsInv, JobsAssumption
    <3> QED
      BY <3>1, <3>2, <2>5, <2>6 DEF JobsInv, SlotsCounted
  <2> QED
    BY <2>1, <2>2, <2>3, <2>8 DEF JobsInv, Types
<1>2. CASE waiters[r] # <<>>
  <2> DEFINE h == Head(waiters[r])
  <2>1. /\ phase' = [phase EXCEPT ![r][j] = "idle", ![r][h] = "slotted"]
        /\ waiters' = [waiters EXCEPT ![r] = Tail(@)]
        /\ active' = active
    BY <1>2 DEF Finish
  <2>2. waiters[r] \in Seq(JobNames) /\ Len(waiters[r]) \in Nat \ {0} /\ h = waiters[r][1]
    BY <1>2 DEF JobsInv, Types
  <2>3. h \in JobNames /\ phase[r][h] = "waiting" /\ h # j
    BY <2>2 DEF JobsInv, Types, QueuedWait
  <2>4. /\ phase' \in [Replicas -> [JobNames -> Phases]]
        /\ phase'[r][j] = "idle" /\ phase'[r][h] = "slotted"
        /\ \A s \in Replicas, k \in JobNames :
             (s # r \/ k \notin {j, h}) => phase'[s][k] = phase[s][k]
    BY <2>1, <2>3 DEF JobsInv, Types, Phases
  <2>5. /\ waiters' \in [Replicas -> Seq(JobNames)]
        /\ waiters'[r] = Tail(waiters[r])
        /\ \A s \in Replicas \ {r} : waiters'[s] = waiters[s]
    BY <2>1, <2>2 DEF JobsInv, Types
  <2>6. /\ Len(Tail(waiters[r])) = Len(waiters[r]) - 1
        /\ \A i \in 1..Len(Tail(waiters[r])) : Tail(waiters[r])[i] = waiters[r][i + 1]
    BY <2>2
  <2>7. QueuedWait'
    <3>1. ASSUME NEW s \in Replicas, NEW i \in 1..Len(waiters'[s])
          PROVE  phase'[s][waiters'[s][i]] = "waiting"
      <4>1. CASE s = r
        <5>1. i + 1 \in 1..Len(waiters[r]) /\ waiters'[r][i] = waiters[r][i + 1]
          BY <4>1, <2>2, <2>5, <2>6
        <5>2. waiters[r][i + 1] \in JobNames /\ phase[r][waiters[r][i + 1]] = "waiting"
          BY <5>1 DEF JobsInv, Types, QueuedWait
        <5>3. waiters[r][i + 1] # h
          BY <5>1, <2>2 DEF JobsInv, QueuedWait
        <5> QED
          BY <4>1, <5>1, <5>2, <5>3, <2>4
      <4>2. CASE s # r
        <5>1. waiters[s][i] \in JobNames /\ phase[s][waiters[s][i]] = "waiting"
          BY <4>2, <2>5 DEF JobsInv, Types, QueuedWait
        <5> QED
          BY <4>2, <5>1, <2>4, <2>5
      <4> QED
        BY <4>1, <4>2
    <3>2. ASSUME NEW s \in Replicas, NEW i \in 1..Len(waiters'[s]), NEW k \in 1..Len(waiters'[s]),
                 waiters'[s][i] = waiters'[s][k]
          PROVE  i = k
      <4>1. CASE s = r
        <5>1. /\ i + 1 \in 1..Len(waiters[r]) /\ k + 1 \in 1..Len(waiters[r])
              /\ waiters[r][i + 1] = waiters[r][k + 1]
          BY <4>1, <3>2, <2>2, <2>5, <2>6
        <5>2. i + 1 = k + 1
          BY <5>1 DEF JobsInv, QueuedWait
        <5> QED
          BY <5>2
      <4>2. CASE s # r
        BY <4>2, <3>2, <2>5 DEF JobsInv, QueuedWait
      <4> QED
        BY <4>1, <4>2
    <3> QED
      BY <3>1, <3>2 DEF QueuedWait
  <2>8. /\ Slotted(r)' = (Slotted(r) \ {j}) \cup {h}
        /\ j \in Slotted(r) /\ h \notin Slotted(r)
    BY <2>3, <2>4 DEF Slotted
  <2>9. \A s \in Replicas \ {r} : Slotted(s)' = Slotted(s)
    BY <2>4 DEF Slotted
  <2>10. IsFiniteSet(Slotted(r)') /\ Cardinality(Slotted(r)') = Cardinality(Slotted(r))
    <3>1. IsFiniteSet(Slotted(r)) /\ Cardinality(Slotted(r)) \in Nat
      BY FS_CardinalityType DEF JobsInv, SlotsCounted
    <3>2. /\ IsFiniteSet(Slotted(r) \ {j})
          /\ Cardinality(Slotted(r) \ {j}) = Cardinality(Slotted(r)) - 1
      BY <3>1, <2>8, FS_RemoveElement
    <3>3. /\ IsFiniteSet((Slotted(r) \ {j}) \cup {h})
          /\ Cardinality((Slotted(r) \ {j}) \cup {h}) = Cardinality(Slotted(r) \ {j}) + 1
      BY <3>2, <2>8, FS_AddElement
    <3> QED
      BY <3>1, <3>2, <3>3, <2>8
  <2>11. SlotsCounted'
    BY <2>1, <2>9, <2>10 DEF JobsInv, SlotsCounted
  <2>12. \A s \in Replicas, k \in JobNames :
           phase'[s][k] \in {"locked", "working"} => phase[s][k] = phase'[s][k]
    BY <2>4
  <2> QED
    BY <2>1, <2>4, <2>5, <2>7, <2>11, <2>12 DEF JobsInv
<1> QED
  BY <1>1, <1>2

\* Who holds a lock keeps it when another call of whatever replica lets its own go.
LEMMA UnlocksOwn ==
  ASSUME JobsInv, NEW r \in Replicas, NEW j \in JobNames, Unlock(r, j),
         phase'[r][j] \notin {"locked", "working"},
         \A s \in Replicas, k \in JobNames :
           phase'[s][k] \in {"locked", "working"} => phase[s][k] \in {"locked", "working"}
  PROVE  jobLock' \in [JobNames -> Replicas \cup {NoReplica}] /\ LockHeld'
  BY DEF JobsInv, Types, LockHeld, Unlock

-----------------------------------------------------------------------------
(* The invariant. *)

\* At first no replica runs anything.
LEMMA JobsInitial == JobsInit => JobsInv
<1> SUFFICES ASSUME JobsInit PROVE JobsInv
  OBVIOUS
<1>1. Types /\ active \in [Replicas -> Nat] /\ QueuedWait /\ LockHeld
  BY DEF JobsInit, Types, Phases, Modes, QueuedWait, LockHeld
<1>2. \A r \in Replicas : Slotted(r) = {}
  BY DEF JobsInit, Slotted
<1>3. SlotsCounted
  BY <1>2, FS_EmptySet, JobsAssumption, SMTT(30) DEF JobsInit, SlotsCounted, JobsAssumption
<1> QED
  BY <1>1, <1>3 DEF JobsInv

LEMMA CallKeeps ==
  ASSUME JobsInv, NEW r \in Replicas, NEW j \in JobNames, NEW m \in Modes, Call(r, j, m)
  PROVE  JobsInv'
<1>0. /\ phase[r][j] = "idle"
      /\ mode' \in [Replicas -> [JobNames -> Modes]]
      /\ UNCHANGED <<jobLock, recentOk, recentTry>>
  BY DEF Call, JobsInv, Types
<1>1. CASE /\ active[r] < MaxConcurrent
           /\ active' = [active EXCEPT ![r] = @ + 1]
           /\ phase' = [phase EXCEPT ![r][j] = "slotted"]
           /\ UNCHANGED waiters
  <2>1. phase' \in [Replicas -> [JobNames -> Phases]] /\ active' \in [Replicas -> Nat]
    BY <1>1 DEF JobsInv, Types, Phases
  <2>2. QueuedWait'
    <3> SUFFICES ASSUME NEW s \in Replicas, NEW i \in 1..Len(waiters[s])
                 PROVE  phase'[s][waiters[s][i]] = "waiting"
      BY <1>1 DEF JobsInv, QueuedWait
    <3>1. waiters[s][i] \in JobNames /\ phase[s][waiters[s][i]] = "waiting"
      BY DEF JobsInv, Types, QueuedWait
    <3> QED
      BY <3>1, <1>0, <1>1 DEF JobsInv, Types
  <2>3. LockHeld'
    BY <1>0, <1>1 DEF JobsInv, Types, LockHeld
  <2>4. /\ Slotted(r)' = Slotted(r) \cup {j} /\ j \notin Slotted(r)
        /\ \A s \in Replicas \ {r} : Slotted(s)' = Slotted(s)
    BY <1>0, <1>1 DEF JobsInv, Types, Slotted
  <2>5. IsFiniteSet(Slotted(r)') /\ Cardinality(Slotted(r)') = active[r] + 1
    BY <2>4, FS_AddElement DEF JobsInv, SlotsCounted
  <2>6. active[r] + 1 \in 0..MaxConcurrent /\ active'[r] = active[r] + 1
    BY <1>1, JobsAssumption DEF JobsInv, JobsAssumption
  <2>7. SlotsCounted'
    BY <1>1, <2>4, <2>5, <2>6 DEF JobsInv, SlotsCounted
  <2> QED
    BY <1>0, <1>1, <2>1, <2>2, <2>3, <2>7 DEF JobsInv, Types
<1>2. CASE /\ active[r] >= MaxConcurrent
           /\ waiters' = [waiters EXCEPT ![r] = Append(@, j)]
           /\ phase' = [phase EXCEPT ![r][j] = "waiting"]
           /\ UNCHANGED active
  <2>1. /\ phase' \in [Replicas -> [JobNames -> Phases]]
        /\ waiters' \in [Replicas -> Seq(JobNames)]
        /\ waiters'[r] = Append(waiters[r], j)
        /\ \A s \in Replicas \ {r} : waiters'[s] = waiters[s]
    BY <1>2 DEF JobsInv, Types, Phases
  <2>2. /\ Len(waiters[r]) \in Nat /\ Len(waiters'[r]) = Len(waiters[r]) + 1
        /\ \A i \in 1..Len(waiters[r]) : waiters'[r][i] = waiters[r][i]
        /\ waiters'[r][Len(waiters[r]) + 1] = j
    BY <2>1 DEF JobsInv, Types
  <2>3. \A s \in Replicas : \A i \in 1..Len(waiters[s]) :
          /\ waiters[s][i] \in JobNames /\ phase[s][waiters[s][i]] = "waiting"
          /\ phase'[s][waiters[s][i]] = "waiting"
          /\ s = r => waiters[s][i] # j
    BY <1>0, <1>2 DEF JobsInv, Types, QueuedWait
  <2>4. phase'[r][j] = "waiting"
    BY <1>2 DEF JobsInv, Types
  <2>5. QueuedWait'
    <3>1. ASSUME NEW s \in Replicas, NEW i \in 1..Len(waiters'[s])
          PROVE  phase'[s][waiters'[s][i]] = "waiting"
      <4>1. CASE s = r /\ i = Len(waiters[r]) + 1
        BY <4>1, <2>2, <2>4
      <4>2. CASE s = r /\ i # Len(waiters[r]) + 1
        <5>1. i \in 1..Len(waiters[r])
          BY <4>2, <2>2
        <5> QED
          BY <4>2, <5>1, <2>2, <2>3
      <4>3. CASE s # r
        BY <4>3, <2>1, <2>3, ZenonT(30)
      <4> QED
        BY <4>1, <4>2, <4>3
    <3>2. ASSUME NEW s \in Replicas, NEW i \in 1..Len(waiters'[s]), NEW k \in 1..Len(waiters'[s]),
                 waiters'[s][i] = waiters'[s][k]
          PROVE  i = k
      <4>1. CASE s = r
        <5> DEFINE n == Len(waiters[r])
        <5>1. i \in 1..n \/ i = n + 1
          BY <4>1, <2>2
        <5>2. k \in 1..n \/ k = n + 1
          BY <4>1, <2>2
        <5>3. CASE i \in 1..n /\ k \in 1..n
          <6>1. waiters[r][i] = waiters[r][k]
            BY <4>1, <3>2, <5>3, <2>2
          <6> QED
            BY <6>1, <5>3 DEF JobsInv, QueuedWait
        <5>4. CASE i \in 1..n /\ k = n + 1
          BY <4>1, <3>2, <5>4, <2>2, <2>3
        <5>5. CASE i = n + 1 /\ k \in 1..n
          BY <4>1, <3>2, <5>5, <2>2, <2>3
        <5> QED
          BY <5>1, <5>2, <5>3, <5>4, <5>5
      <4>2. CASE s # r
        BY <4>2, <3>2, <2>1 DEF JobsInv, QueuedWait
      <4> QED
        BY <4>1, <4>2
    <3> QED
      BY <3>1, <3>2 DEF QueuedWait
  <2>6. LockHeld'
    BY <1>0, <1>2 DEF JobsInv, Types, LockHeld
  <2>7. \A s \in Replicas : Slotted(s)' = Slotted(s)
    BY <1>0, <1>2 DEF JobsInv, Types, Slotted
  <2>8. SlotsCounted'
    BY <1>2, <2>7 DEF JobsInv, SlotsCounted
  <2> QED
    BY <1>0, <1>2, <2>1, <2>5, <2>6, <2>8 DEF JobsInv, Types
<1> QED
  BY <1>1, <1>2 DEF Call

LEMMA TryLockKeeps ==
  ASSUME JobsInv, NEW r \in Replicas, NEW j \in JobNames, TryLock(r, j)
  PROVE  JobsInv'
<1>0. phase[r][j] = "slotted" /\ UNCHANGED <<mode, recentOk, recentTry>>
  BY DEF TryLock
<1>1. CASE /\ jobLock[j] = NoReplica
           /\ jobLock' = [jobLock EXCEPT ![j] = r]
           /\ phase' = [phase EXCEPT ![r][j] = "locked"]
           /\ UNCHANGED <<waiters, active>>
  <2>1. phase' \in [Replicas -> [JobNames -> Phases]] /\ QueuedWait' /\ SlotsCounted'
    BY <1>0, <1>1, MovesOn DEF Phases
  <2>2. LockHeld' /\ jobLock' \in [JobNames -> Replicas \cup {NoReplica}]
    BY <1>1, JobsAssumption DEF JobsInv, Types, LockHeld, JobsAssumption
  <2> QED
    BY <1>0, <1>1, <2>1, <2>2 DEF JobsInv, Types
<1>2. CASE Finish(r, j) /\ UNCHANGED jobLock
  <2>1. /\ phase' \in [Replicas -> [JobNames -> Phases]]
        /\ waiters' \in [Replicas -> Seq(JobNames)]
        /\ active' \in [Replicas -> Nat] /\ QueuedWait' /\ SlotsCounted'
        /\ \A s \in Replicas, k \in JobNames :
             phase'[s][k] \in {"locked", "working"} => phase[s][k] = phase'[s][k]
    BY <1>0, <1>2, EndsCall
  <2>2. LockHeld'
    BY <1>2, <2>1 DEF JobsInv, LockHeld
  <2> QED
    BY <1>0, <1>2, <2>1, <2>2 DEF JobsInv, Types
<1> QED
  BY <1>1, <1>2 DEF TryLock

\* Calls that end and let their lock go.
LEMMA EndKeeps ==
  ASSUME JobsInv, NEW r \in Replicas, NEW j \in JobNames,
         phase[r][j] \notin {"idle", "waiting"}, Finish(r, j), Unlock(r, j), UNCHANGED mode,
         recentOk' \subseteq JobNames, recentTry' \subseteq JobNames
  PROVE  JobsInv'
<1>1. /\ phase' \in [Replicas -> [JobNames -> Phases]]
      /\ waiters' \in [Replicas -> Seq(JobNames)]
      /\ active' \in [Replicas -> Nat] /\ QueuedWait' /\ SlotsCounted'
      /\ phase'[r][j] = "idle"
      /\ \A s \in Replicas, k \in JobNames :
           phase'[s][k] \in {"locked", "working"} => phase[s][k] = phase'[s][k]
  BY EndsCall
<1>2. jobLock' \in [JobNames -> Replicas \cup {NoReplica}] /\ LockHeld'
  BY <1>1, UnlocksOwn
<1> QED
  BY <1>1, <1>2 DEF JobsInv, Types

LEMMA DecideKeeps ==
  ASSUME JobsInv, NEW r \in Replicas, NEW j \in JobNames, Decide(r, j)
  PROVE  JobsInv'
<1>0. phase[r][j] = "locked" /\ UNCHANGED <<mode, recentOk, recentTry>>
  BY DEF Decide
<1>1. CASE phase' = [phase EXCEPT ![r][j] = "working"] /\ UNCHANGED <<waiters, active, jobLock>>
  <2>1. phase' \in [Replicas -> [JobNames -> Phases]] /\ QueuedWait' /\ SlotsCounted'
    BY <1>0, <1>1, MovesOn DEF Phases
  <2>2. LockHeld'
    BY <1>0, <1>1 DEF JobsInv, Types, LockHeld
  <2> QED
    BY <1>0, <1>1, <2>1, <2>2 DEF JobsInv, Types
<1>2. CASE Finish(r, j) /\ Unlock(r, j)
  BY <1>0, <1>2, EndKeeps DEF JobsInv, Types
<1> QED
  BY <1>1, <1>2 DEF Decide

LEMMA LoseConnectionKeeps ==
  ASSUME JobsInv, NEW r \in Replicas, NEW j \in JobNames, LoseConnection(r, j)
  PROVE  JobsInv'
<1>0. /\ phase[r][j] = "working" /\ phase' = [phase EXCEPT ![r][j] = "orphaned"]
      /\ Unlock(r, j) /\ UNCHANGED <<mode, waiters, active, recentOk, recentTry>>
  BY DEF LoseConnection
<1>1. phase' \in [Replicas -> [JobNames -> Phases]] /\ QueuedWait' /\ SlotsCounted'
  BY <1>0, MovesOn DEF Phases
<1>2. /\ phase'[r][j] = "orphaned"
      /\ \A s \in Replicas, k \in JobNames :
           phase'[s][k] \in {"locked", "working"} => phase[s][k] \in {"locked", "working"}
  BY <1>0 DEF JobsInv, Types
<1>3. jobLock' \in [JobNames -> Replicas \cup {NoReplica}] /\ LockHeld'
  BY <1>0, <1>2, UnlocksOwn
<1> QED
  BY <1>0, <1>1, <1>3 DEF JobsInv, Types

LEMMA OrphanEndsKeeps ==
  ASSUME JobsInv, NEW r \in Replicas, NEW j \in JobNames, OrphanEnds(r, j)
  PROVE  JobsInv'
<1>0. /\ phase[r][j] = "orphaned" /\ Finish(r, j)
      /\ UNCHANGED <<mode, jobLock, recentOk, recentTry>>
  BY DEF OrphanEnds
<1>1. /\ phase' \in [Replicas -> [JobNames -> Phases]]
      /\ waiters' \in [Replicas -> Seq(JobNames)]
      /\ active' \in [Replicas -> Nat] /\ QueuedWait' /\ SlotsCounted'
      /\ \A s \in Replicas, k \in JobNames :
           phase'[s][k] \in {"locked", "working"} => phase[s][k] = phase'[s][k]
  BY <1>0, EndsCall
<1>2. LockHeld'
  BY <1>0, <1>1 DEF JobsInv, LockHeld
<1> QED
  BY <1>0, <1>1, <1>2 DEF JobsInv, Types

LEMMA DieKeeps ==
  ASSUME JobsInv, NEW r \in Replicas, Die(r)
  PROVE  JobsInv'
<1>1. /\ phase' \in [Replicas -> [JobNames -> Phases]]
      /\ waiters' \in [Replicas -> Seq(JobNames)]
      /\ active' \in [Replicas -> Nat]
      /\ jobLock' \in [JobNames -> Replicas \cup {NoReplica}]
      /\ UNCHANGED <<mode, recentOk, recentTry>>
  BY DEF Die, JobsInv, Types, Phases
<1>2. /\ phase'[r] = [k \in JobNames |-> "idle"] /\ waiters'[r] = <<>> /\ active'[r] = 0
      /\ \A s \in Replicas \ {r} :
           phase'[s] = phase[s] /\ waiters'[s] = waiters[s] /\ active'[s] = active[s]
  BY DEF Die, JobsInv, Types
<1>3. QueuedWait'
  <2> SUFFICES ASSUME NEW s \in Replicas
               PROVE  /\ \A i \in 1..Len(waiters'[s]) : phase'[s][waiters'[s][i]] = "waiting"
                      /\ \A i, k \in 1..Len(waiters'[s]) : waiters'[s][i] = waiters'[s][k] => i = k
    BY DEF QueuedWait
  <2>1. CASE s = r
    <3>1. Len(waiters'[s]) = 0
      BY <2>1, <1>2
    <3> QED
      BY <3>1
  <2>2. CASE s # r
    <3>1. phase'[s] = phase[s] /\ waiters'[s] = waiters[s]
      BY <2>2, <1>2
    <3> QED
      BY <3>1 DEF JobsInv, QueuedWait
  <2> QED
    BY <2>1, <2>2
<1>4. LockHeld'
  <2> SUFFICES ASSUME NEW s \in Replicas, NEW k \in JobNames, phase'[s][k] \in {"locked", "working"}
               PROVE  jobLock'[k] = s
    BY DEF LockHeld
  <2>1. s # r /\ phase[s][k] \in {"locked", "working"}
    BY <1>2
  <2>2. jobLock[k] = s
    BY <2>1 DEF JobsInv, LockHeld
  <2> QED
    BY <2>1, <2>2 DEF Die
<1>5. Slotted(r)' = {} /\ \A s \in Replicas \ {r} : Slotted(s)' = Slotted(s)
  BY <1>2 DEF Slotted
<1>6. SlotsCounted'
  <2> SUFFICES ASSUME NEW s \in Replicas
               PROVE  /\ IsFiniteSet(Slotted(s)')
                      /\ active'[s] = Cardinality(Slotted(s)')
                      /\ active'[s] \in 0..MaxConcurrent
    BY DEF SlotsCounted
  <2>1. CASE s = r
    <3>1. 0 \in 0..MaxConcurrent
      BY JobsAssumption DEF JobsAssumption
    <3> QED
      BY <2>1, <3>1, <1>2, <1>5, FS_EmptySet
  <2>2. CASE s # r
    BY <2>2, <1>2, <1>5 DEF JobsInv, SlotsCounted
  <2> QED
    BY <2>1, <2>2
<1> QED
  BY <1>1, <1>3, <1>4, <1>6 DEF JobsInv, Types

\* No step leaves the invariant.
LEMMA JobsInductive == JobsInv /\ [JobsNext]_jobsVars => JobsInv'
<1> SUFFICES ASSUME JobsInv, [JobsNext]_jobsVars PROVE JobsInv'
  OBVIOUS
<1>1. ASSUME NEW r \in Replicas, NEW j \in JobNames, NEW m \in Modes, Call(r, j, m) PROVE JobsInv'
  BY <1>1, CallKeeps
<1>2. ASSUME NEW r \in Replicas, NEW j \in JobNames, TryLock(r, j) PROVE JobsInv'
  BY <1>2, TryLockKeeps
<1>3. ASSUME NEW r \in Replicas, NEW j \in JobNames, Decide(r, j) PROVE JobsInv'
  BY <1>3, DecideKeeps
<1>4. ASSUME NEW r \in Replicas, NEW j \in JobNames, JobEnds(r, j) PROVE JobsInv'
  BY <1>4, EndKeeps DEF JobEnds, JobsInv, Types
<1>5. ASSUME NEW r \in Replicas, NEW j \in JobNames, LoseConnection(r, j) PROVE JobsInv'
  BY <1>5, LoseConnectionKeeps
<1>6. ASSUME NEW r \in Replicas, NEW j \in JobNames, OrphanEnds(r, j) PROVE JobsInv'
  BY <1>6, OrphanEndsKeeps
<1>7. ASSUME NEW r \in Replicas, NEW j \in JobNames, RunnerFails(r, j) PROVE JobsInv'
  BY <1>7, EndKeeps DEF RunnerFails, JobsInv, Types
<1>8. ASSUME NEW r \in Replicas, Die(r) PROVE JobsInv'
  BY <1>8, DieKeeps
<1>9. ASSUME NEW j \in JobNames, Age(j), UNCHANGED <<phase, mode, waiters, active, jobLock>>
      PROVE  JobsInv'
  BY <1>9 DEF Age, JobsInv, Types, QueuedWait, LockHeld, SlotsCounted, Slotted
<1>10. CASE UNCHANGED jobsVars
  BY <1>10 DEF jobsVars, JobsInv, Types, QueuedWait, LockHeld, SlotsCounted, Slotted
<1> QED
  BY <1>1, <1>2, <1>3, <1>4, <1>5, <1>6, <1>7, <1>8, <1>9, <1>10 DEF JobsNext

\* The invariant holds in every state.
LEMMA JobsAlways == JobsSpec => []JobsInv
  BY JobsInitial, JobsInductive, PTL DEF JobsSpec

-----------------------------------------------------------------------------
(* Theorems. *)

\* The types of the runners' state; no replica uses more slots than it has, whatever
\* order calls, failures and deaths come in (acquire and release of jobs/index.ts).
THEOREM JobsTypeCorrect == JobsSpec => []JobsTypeOK
<1>1. JobsInv => JobsTypeOK
  BY DEF JobsInv, Types, SlotsCounted, JobsTypeOK
<1> QED
  BY <1>1, JobsAlways, PTL

\* Replicas never run a job at once with their connections intact.
THEOREM JobsNeverTwice == JobsSpec => []NeverTwiceAtOnce
<1>1. JobsInv => NeverTwiceAtOnce
  BY DEF JobsInv, LockHeld, NeverTwiceAtOnce
<1> QED
  BY <1>1, JobsAlways, PTL

\* What the due check read stays true while the job runs: a heartbeat is recorded only
\* under the lock, by the one call that works under it, which ends with it.
THEOREM JobsRunWhileDue == JobsSpec => []RunsWhileDue
<1>1. JobsInit => RunsWhileDue
  BY DEF JobsInit, RunsWhileDue
<1>2. JobsInv /\ RunsWhileDue /\ [JobsNext]_jobsVars => RunsWhileDue'
  <2> SUFFICES ASSUME JobsInv, RunsWhileDue, [JobsNext]_jobsVars,
                      NEW r \in Replicas, NEW j \in JobNames,
                      phase'[r][j] = "working", mode'[r][j] = "due"
               PROVE  Due(j)'
    BY DEF RunsWhileDue
  <2> DEFINE Worked == phase[r][j] = "working" /\ mode[r][j] = "due"
             Unheard == recentOk' \subseteq recentOk /\ recentTry' \subseteq recentTry
  <2>1. Worked /\ Unheard => Due(j)'
    BY DEF RunsWhileDue, Due
  <2>2. ASSUME NEW s \in Replicas, NEW k \in JobNames,
               phase[s][k] \notin {"idle", "waiting"}, Finish(s, k), UNCHANGED mode
        PROVE  Worked /\ phase'[s][k] = "idle"
    BY <2>2, EndsCall
  <2>3. ASSUME NEW s \in Replicas, NEW k \in JobNames, NEW p \in Phases \ {"working"},
               phase' = [phase EXCEPT ![s][k] = p]
        PROVE  phase[r][j] = "working" /\ (s # r \/ k # j)
    BY <2>3 DEF JobsInv, Types
  <2> HIDE DEF Worked, Unheard
  <2>4. ASSUME NEW s \in Replicas, NEW k \in JobNames, NEW m \in Modes, Call(s, k, m)
        PROVE  Due(j)'
    <3>1. phase[r][j] = "working" /\ (s # r \/ k # j)
      BY <2>4, <2>3 DEF Call, Phases
    <3>2. mode[r][j] = "due" /\ Unheard
      BY <2>4, <3>1 DEF Call, JobsInv, Types, Unheard
    <3> QED
      BY <2>1, <3>1, <3>2 DEF Worked
  <2>5. ASSUME NEW s \in Replicas, NEW k \in JobNames, TryLock(s, k) PROVE Due(j)'
    <3>1. Worked
      BY <2>5, <2>2, <2>3 DEF TryLock, Phases, Worked
    <3> QED
      BY <2>1, <2>5, <3>1 DEF TryLock, Unheard
  <2>6. ASSUME NEW s \in Replicas, NEW k \in JobNames, Decide(s, k) PROVE Due(j)'
    <3>1. phase[s][k] = "locked" /\ UNCHANGED <<mode, recentOk, recentTry>>
      BY <2>6 DEF Decide
    <3>2. CASE Finish(s, k)
      BY <2>1, <2>2, <3>1, <3>2 DEF Unheard
    <3>3. CASE phase' = [phase EXCEPT ![s][k] = "working"] /\ (mode[s][k] = "force" \/ Due(k))
      <4>1. CASE s = r /\ k = j
        BY <3>1, <3>3, <4>1 DEF Due
      <4>2. CASE s # r \/ k # j
        BY <2>1, <3>1, <3>3, <4>2 DEF JobsInv, Types, Worked, Unheard
      <4> QED
        BY <4>1, <4>2
    <3> QED
      BY <2>6, <3>2, <3>3 DEF Decide
  <2>7. ASSUME NEW s \in Replicas, NEW k \in JobNames, JobEnds(s, k) PROVE Due(j)'
    <3>1. phase[s][k] = "working" /\ Worked /\ phase'[s][k] = "idle"
      BY <2>7, <2>2 DEF JobEnds
    <3>2. k # j
      BY <3>1 DEF Worked, JobsInv, LockHeld
    <3> QED
      BY <2>7, <3>1, <3>2 DEF JobEnds, Worked, RunsWhileDue, Due
  <2>8. ASSUME NEW s \in Replicas, NEW k \in JobNames, LoseConnection(s, k) PROVE Due(j)'
    <3>1. Worked
      BY <2>8, <2>3 DEF LoseConnection, Phases, Worked
    <3> QED
      BY <2>1, <2>8, <3>1 DEF LoseConnection, Unheard
  <2>9. ASSUME NEW s \in Replicas, NEW k \in JobNames, OrphanEnds(s, k) PROVE Due(j)'
    BY <2>1, <2>2, <2>9 DEF OrphanEnds, Unheard
  <2>10. ASSUME NEW s \in Replicas, NEW k \in JobNames, RunnerFails(s, k) PROVE Due(j)'
    BY <2>1, <2>2, <2>10 DEF RunnerFails, Unheard
  <2>11. ASSUME NEW s \in Replicas, Die(s) PROVE Due(j)'
    <3>1. Worked
      BY <2>11 DEF Die, JobsInv, Types, Worked
    <3> QED
      BY <2>1, <2>11, <3>1 DEF Die, Unheard
  <2>12. ASSUME NEW k \in JobNames, Age(k), UNCHANGED <<phase, mode, waiters, active, jobLock>>
         PROVE  Due(j)'
    BY <2>1, <2>12 DEF Age, Worked, Unheard
  <2>13. CASE UNCHANGED jobsVars
    BY <2>1, <2>13 DEF jobsVars, Worked, Unheard
  <2> QED
    BY <2>4, <2>5, <2>6, <2>7, <2>8, <2>9, <2>10, <2>11, <2>12, <2>13 DEF JobsNext
<1> QED
  BY <1>1, <1>2, JobsAlways, PTL DEF JobsSpec

-----------------------------------------------------------------------------
(* Seasons. *)

OnePer(runs) == \A m, n \in runs : Racer[m] = Racer[n] => m = n

-----------------------------------------------------------------------------
(* Bests and ranks. *)

\* A selection of bests has one run of each player, scores being all different.
LEMMA BestOnePer == ASSUME NEW S \in SUBSET Runs
                    PROVE  Best(S) \subseteq S /\ OnePer(Best(S))
<1>1. \A m, n \in Runs : Score[m] <= Score[n] /\ Score[n] <= Score[m] => m = n
  BY SeasonsAssumption
<1>. QED  BY <1>1 DEF Best, OnePer

\* The players of a season are finitely many.
LEMMA RacersFinite == IsFiniteSet(Racers) /\ Cardinality(Racers) \in Nat
<1>. DEFINE f == [n \in Runs |-> Racer[n]]
<1>1. f \in Surjection(Runs, Racers)
  BY DEF Surjection, Racers
<1>. QED  BY <1>1, FS_Surjection, FS_CardinalityType, SeasonsAssumption

\* In a table with one entry of each player, ranks go from one to the number of players.
LEMMA RankBound ==
  ASSUME NEW table \in SUBSET Runs, OnePer(table), NEW n \in table
  PROVE  Rank(table, n) \in 0 .. Cardinality(Racers)
<1>. DEFINE A == {m \in table : Score[m] > Score[n]}
            T == Racers \ {Racer[n]}
            f == [m \in A |-> Racer[m]]
<1>1. f \in Injection(A, T)
  <2>1. \A m \in A : Racer[m] \in T
    BY SeasonsAssumption DEF OnePer, Racers
  <2>. QED  BY <2>1 DEF Injection, IsInjective, OnePer
<1>2. IsFiniteSet(T) /\ Cardinality(T) = Cardinality(Racers) - 1
  <2>1. Racer[n] \in Racers
    BY DEF Racers
  <2>. HIDE DEF Racers
  <2>. QED  BY <2>1, RacersFinite, FS_RemoveElement
<1>3. IsFiniteSet(A) /\ Cardinality(A) <= Cardinality(T)
  BY <1>1, <1>2, FS_Injection
<1>4. Cardinality(A) \in Nat
  BY <1>3, FS_CardinalityType
<1>. QED  BY <1>2, <1>3, <1>4, RacersFinite DEF Rank

-----------------------------------------------------------------------------
(* The inductive invariant. *)

Listed == {n \in submissions : n \notin quarantined \/ n \in approved}
GameKinds == {"reject", "approve", "close"}

\* The run a transaction makes visible, for itself until it commits.
Own(x) == IF session[x].kind = "approve" \/ (session[x].kind = "submit" /\ ~session[x].hidden)
            THEN {session[x].run} ELSE {}

Data ==
  /\ status \in {"active", "closed"}
  /\ submissions \subseteq Runs /\ quarantined \subseteq submissions
  /\ approved \subseteq submissions /\ rejected \subseteq submissions
  /\ entries \subseteq Runs
  /\ rewarded \subseteq Racers

Sessioned ==
  /\ session \in [Sessions -> Session]
  /\ \A x \in Sessions :
       /\ session[x].kind = "idle" => session[x] = IdleSession
       /\ session[x].kind = "submit" => session[x].run \in Runs \ submissions
       /\ session[x].kind \in {"reject", "approve"} =>
            session[x].run \in submissions \ (approved \cup rejected)

\* What a rebuild has done so far.
Rebuilding ==
  \A x \in Sessions :
    /\ session[x].pc \in {"begun", "deleting"} => session[x].gone = {}
    /\ session[x].pc \in {"begun", "deleting", "deleted"} => session[x].adding = {}
    /\ session[x].pc # "rebuilt" => session[x].added = {}
    /\ session[x].pc = "deleting" => session[x].saw \subseteq entries
    /\ session[x].gone \subseteq entries
    /\ OnePer(session[x].adding) /\ OnePer(session[x].added)

\* The locks: a player's submissions one at a time, and one command of the game.
SessionsApart ==
  \A x, y \in Sessions : x # y =>
    /\ session[x].kind = "submit" /\ session[y].kind = "submit"
         => Racer[session[x].run] # Racer[session[y].run]
    /\ ~(session[x].kind \in GameKinds /\ session[y].kind \in GameKinds)

\* The key of the table: nobody deletes a row twice, or inserts beside one that stays.
Keyed ==
  \A x, y \in Sessions :
    /\ x # y => session[x].gone \cap session[y].gone = {}
    /\ x # y => PlayersOf(session[x].added) \cap PlayersOf(session[y].added) = {}
    /\ PlayersOf(session[x].added) \cap PlayersOf(entries \ session[x].gone) = {}

\* Only runs that were visible or approved are listed, and a close lists those that still are.
Listing ==
  /\ entries \subseteq Listed
  /\ \A x \in Sessions :
       /\ session[x].adding \subseteq Listed \cup Own(x)
       /\ session[x].added \subseteq Listed \cup Own(x)
       /\ session[x].kind = "close" =>
            session[x].adding \subseteq Visible /\ session[x].added \subseteq Visible

SeasonsInv ==
  /\ Data /\ placed \in [Racers -> 0 .. Cardinality(Racers)]
  /\ OneEntryEach /\ Sessioned /\ Rebuilding /\ SessionsApart /\ Keyed /\ Listing

-----------------------------------------------------------------------------
(* What the steps do to the transactions. *)

\* The others are left alone.
Only(x) == \A y \in Sessions : y # x => session'[y] = session[y]

\* Transaction x moves to another point of its rebuild.
Advances(x, from, to) ==
  /\ Only(x) /\ UNCHANGED board
  /\ session[x].kind # "idle" /\ session[x].pc = from /\ session'[x].pc = to
  /\ session'[x].kind = session[x].kind /\ session'[x].run = session[x].run
  /\ session'[x].hidden = session[x].hidden

\* Transaction x begins, with nothing of a rebuild done.
Begins(x) ==
  /\ Only(x) /\ UNCHANGED board
  /\ session[x].kind = "idle" /\ session'[x] \in Session
  /\ session'[x].kind # "idle" /\ session'[x].pc = "begun"
  /\ session'[x].gone = {} /\ session'[x].adding = {} /\ session'[x].added = {}

\* Transaction x ends; those that wait on rows it deleted pass them over.
Ends(x) ==
  /\ session'[x] = IdleSession
  /\ \A y \in Sessions : y # x =>
       /\ session'[y] \in Session
       /\ session'[y].kind = session[y].kind /\ session'[y].pc = session[y].pc
       /\ session'[y].run = session[y].run /\ session'[y].hidden = session[y].hidden
       /\ session'[y].gone = session[y].gone /\ session'[y].adding = session[y].adding
       /\ session'[y].added = session[y].added
       /\ session[y].kind = "idle" => session'[y] = session[y]
       /\ session'[y].saw = IF session[y].pc = "deleting" THEN session[y].saw \ session[x].gone
                                                         ELSE session[y].saw

\* A transaction not begun has its type.
LEMMA IdleTyped == IdleSession \in Session
  BY DEF IdleSession, Session

\* A transaction has its type.
LEMMA Sending == ASSUME session \in [Sessions -> Session], NEW x \in Sessions
                 PROVE  session[x] \in Session
  OBVIOUS

\* The kinds of step, as the proofs use them.
Opens(x) ==
  /\ Begins(x)
  /\ session'[x].kind = "submit" =>
       /\ session'[x].run \in Runs \ submissions
       /\ \A y \in Sessions : session[y].kind = "submit" => Racer[session[y].run] # Racer[session'[x].run]
  /\ session'[x].kind # "submit" => \A y \in Sessions : session[y].kind \notin GameKinds
  /\ session'[x].kind \in {"reject", "approve"} =>
       session'[x].run \in submissions \ (approved \cup rejected)

Looks(x) ==
  /\ Advances(x, "begun", "deleting") /\ session'[x].saw = entries
  /\ session'[x].gone = session[x].gone /\ session'[x].adding = session[x].adding
  /\ session'[x].added = session[x].added

Deletes(x) ==
  /\ Advances(x, "deleting", "deleted") /\ session'[x].gone = session[x].saw
  /\ session'[x].adding = session[x].adding /\ session'[x].added = session[x].added
  /\ \A y \in Sessions \ {x} : session[y].gone \cap session[x].saw = {}

Selects(x) ==
  /\ Advances(x, "deleted", "inserting") /\ session'[x].adding = Best(Eligible(x))
  /\ session'[x].gone = session[x].gone /\ session'[x].added = session[x].added

Inserts(x) ==
  /\ Advances(x, "inserting", "rebuilt") /\ session'[x].added = session[x].adding
  /\ session'[x].gone = session[x].gone /\ session'[x].adding = session[x].adding
  /\ PlayersOf(session[x].adding) \cap PlayersOf(entries \ session[x].gone) = {}
  /\ \A y \in Sessions \ {x} :
       PlayersOf(session[x].adding) \cap PlayersOf(session[y].added \cup session[y].gone) = {}

Fails(x) == Only(x) /\ UNCHANGED board /\ session[x].kind # "idle" /\ session'[x] = IdleSession

\* A commit with no pay.
Commits(x) ==
  /\ Ends(x) /\ entries' = Table(x) /\ UNCHANGED <<placed, rewarded>> /\ session[x].pc = "rebuilt"
  /\ \/ CommitSubmit(x)
     \/ CommitReview(x)

Closes(x) == CommitClose(x) /\ Ends(x)

\* One that is not under way is idle.
LEMMA BusyOnes == ASSUME Sessioned, NEW y \in Sessions
                  PROVE  y \notin Busy => session[y] = IdleSession
  BY DEF Sessioned, Busy

\* Every step of the seasons is one of the moves above.
LEMMA Steps ==
  ASSUME Data, Sessioned, Rebuilding, SeasonsNext
  PROVE  /\ session' \in [Sessions -> Session]
         /\ \/ \E x \in Sessions :
                 \/ Opens(x) \/ Looks(x) \/ Deletes(x) \/ Selects(x) \/ Inserts(x)
                 \/ Fails(x) \/ Commits(x) \/ Closes(x)
            \/ Reopen
<1>. session \in [Sessions -> Session] /\ \A y \in Sessions : session[y] \in Session
  BY DEF Sessioned
<1>0. /\ IdleSession \in Session /\ IdleSession.pc = "begun"
      /\ IdleSession.gone = {} /\ IdleSession.adding = {} /\ IdleSession.added = {}
  BY IdleTyped DEF IdleSession
<1>1. ASSUME NEW x \in Sessions, NEW n \in Runs, Submit(x, n)
      PROVE  session' \in [Sessions -> Session] /\ Opens(x)
  <2>1. PICK h \in BOOLEAN : session' = [session EXCEPT ![x] =
          [IdleSession EXCEPT !.kind = "submit", !.run = n, !.hidden = h]]
    <3>. DEFINE better == {Racer[m] : m \in {k \in submissions \ rejected :
                                        Racer[k] # Racer[n] /\ Score[k] > Score[n]}}
    <3>1. (Cardinality(better) < QuarantineTop) \in BOOLEAN
      OBVIOUS
    <3>2. session' = [session EXCEPT ![x] = [IdleSession EXCEPT
             !.kind = "submit", !.run = n, !.hidden = (Cardinality(better) < QuarantineTop)]]
      BY <1>1 DEF Submit
    <3>. QED  BY <3>1, <3>2
  <2>2. /\ session'[x] \in Session /\ session'[x].kind = "submit" /\ session'[x].run = n
        /\ session'[x].pc = "begun" /\ session'[x].gone = {}
        /\ session'[x].adding = {} /\ session'[x].added = {}
    BY <2>1, <1>0 DEF Session
  <2>3. session' \in [Sessions -> Session] /\ Only(x)
    BY <2>1, <2>2 DEF Only
  <2>. QED  BY <1>1, <2>2, <2>3 DEF Submit, Opens, Begins, Busy
<1>2. ASSUME NEW x \in Sessions, NEW n \in Runs, NEW a \in {"reject", "approve"}, Review(x, n, a)
      PROVE  session' \in [Sessions -> Session] /\ Opens(x)
  <2>1. /\ session'[x] \in Session /\ session'[x].kind = a /\ session'[x].run = n
        /\ session'[x].pc = "begun" /\ session'[x].gone = {}
        /\ session'[x].adding = {} /\ session'[x].added = {}
    BY <1>2, <1>0 DEF Session, Review
  <2>2. session' \in [Sessions -> Session] /\ Only(x)
    BY <1>2, <2>1 DEF Only, Review
  <2>. QED  BY <1>2, <2>1, <2>2 DEF Review, Opens, Begins, Busy, GameLocked, GameKinds
<1>3. ASSUME NEW x \in Sessions, Close(x)
      PROVE  session' \in [Sessions -> Session] /\ Opens(x)
  <2>1. /\ session'[x] \in Session /\ session'[x].kind = "close"
        /\ session'[x].pc = "begun" /\ session'[x].gone = {}
        /\ session'[x].adding = {} /\ session'[x].added = {}
    BY <1>3, <1>0 DEF Session, Close
  <2>2. session' \in [Sessions -> Session] /\ Only(x)
    BY <1>3, <2>1 DEF Only, Close
  <2>. QED  BY <1>3, <2>1, <2>2 DEF Close, Opens, Begins, Busy, GameLocked, GameKinds
<1>4. ASSUME NEW x \in Sessions, DeleteBegins(x)
      PROVE  session' \in [Sessions -> Session] /\ Looks(x)
  <2>1. session' \in [Sessions -> Session] /\ Only(x)
    <3>1. session' = [session EXCEPT ![x] = [session[x] EXCEPT !.pc = "deleting", !.saw = entries]]
      BY <1>4 DEF DeleteBegins
    <3>2. entries \in SUBSET Runs
      BY DEF Data
    <3>3. [session[x] EXCEPT !.pc = "deleting", !.saw = entries] \in Session
      BY <3>2 DEF Session
    <3>. QED  BY <3>1, <3>3 DEF Only
  <2>. QED  BY <1>4, <2>1 DEF DeleteBegins, Looks, Advances, Session
<1>5. ASSUME NEW x \in Sessions, DeleteEnds(x)
      PROVE  session' \in [Sessions -> Session] /\ Deletes(x)
  <2>1. session' \in [Sessions -> Session] /\ Only(x)
    <3>1. session' = [session EXCEPT ![x] = [session[x] EXCEPT !.pc = "deleted", !.gone = session[x].saw]]
      BY <1>5 DEF DeleteEnds
    <3>2. session[x].saw \in SUBSET Runs
      BY DEF Session
    <3>3. [session[x] EXCEPT !.pc = "deleted", !.gone = session[x].saw] \in Session
      BY <3>2 DEF Session
    <3>. QED  BY <3>1, <3>3 DEF Only
  <2>2. session[x].kind # "idle"
    BY <1>5, <1>0 DEF DeleteEnds, Sessioned
  <2>3. \A y \in Sessions \ {x} : session[y].gone \cap session[x].saw = {}
    BY <1>5, <1>0, BusyOnes DEF DeleteEnds, Others
  <2>. QED  BY <1>5, <2>1, <2>2, <2>3 DEF DeleteEnds, Deletes, Advances, Session
<1>6. ASSUME NEW x \in Sessions, InsertBegins(x)
      PROVE  session' \in [Sessions -> Session] /\ Selects(x)
  <2>1. Best(Eligible(x)) \in SUBSET Runs
    <3>1. session[x].kind = "submit" => session[x].run \in Runs
      BY DEF Sessioned
    <3>. QED  BY <3>1 DEF Best, Eligible, Data
  <2>2. session' \in [Sessions -> Session] /\ Only(x)
    <3>1. session' = [session EXCEPT ![x] = [session[x] EXCEPT !.pc = "inserting", !.adding = Best(Eligible(x))]]
      BY <1>6 DEF InsertBegins
    <3>2. Best(Eligible(x)) \in SUBSET Runs
      BY <2>1
    <3>3. [session[x] EXCEPT !.pc = "inserting", !.adding = Best(Eligible(x))] \in Session
      BY <3>2 DEF Session
    <3>. QED  BY <3>1, <3>3 DEF Only
  <2>3. session[x].kind # "idle"
    BY <1>6, <1>0 DEF InsertBegins, Sessioned
  <2>. QED  BY <1>6, <2>2, <2>3 DEF InsertBegins, Selects, Advances, Session
<1>7. ASSUME NEW x \in Sessions, InsertEnds(x)
      PROVE  session' \in [Sessions -> Session] /\ Inserts(x)
  <2>1. session' \in [Sessions -> Session] /\ Only(x)
    <3>1. session' = [session EXCEPT ![x] = [session[x] EXCEPT !.pc = "rebuilt", !.added = session[x].adding]]
      BY <1>7 DEF InsertEnds
    <3>2. session[x].adding \in SUBSET Runs
      BY DEF Session
    <3>3. [session[x] EXCEPT !.pc = "rebuilt", !.added = session[x].adding] \in Session
      BY <3>2 DEF Session
    <3>. QED  BY <3>1, <3>3 DEF Only
  <2>2. session[x].kind # "idle"
    BY <1>7, <1>0 DEF InsertEnds, Sessioned
  <2>3. \A y \in Sessions \ {x} :
          PlayersOf(session[x].adding) \cap PlayersOf(session[y].added \cup session[y].gone) = {}
    BY <1>7, <1>0, BusyOnes DEF InsertEnds, Others, PlayersOf
  <2>4. Advances(x, "inserting", "rebuilt") /\ session'[x].added = session[x].adding
        /\ session'[x].gone = session[x].gone /\ session'[x].adding = session[x].adding
    BY <1>7, <2>1, <2>2 DEF InsertEnds, Advances, Session
  <2>5. PlayersOf(session[x].adding) \cap PlayersOf(entries \ session[x].gone) = {}
    BY <1>7 DEF InsertEnds
  <2>. QED  BY <2>1, <2>3, <2>4, <2>5 DEF Inserts
<1>8. ASSUME NEW x \in Sessions, session' = Ended(x)
      PROVE  session' \in [Sessions -> Session] /\ Ends(x)
  <2>1. session'[x] = IdleSession
    BY <1>8 DEF Ended
  <2>2. ASSUME NEW y \in Sessions, y # x, session[y].pc = "deleting"
        PROVE  session'[y] = [session[y] EXCEPT !.saw = @ \ session[x].gone]
    BY <1>8, <2>2 DEF Ended
  <2>3. ASSUME NEW y \in Sessions, y # x, session[y].pc # "deleting"
        PROVE  session'[y] = session[y]
    BY <1>8, <2>3 DEF Ended
  <2>4. ASSUME NEW y \in Sessions PROVE session'[y] \in Session
    <3>1. session[y].saw \ session[x].gone \in SUBSET Runs
      BY DEF Session
    <3>2. [session[y] EXCEPT !.saw = session[y].saw \ session[x].gone] \in Session
      BY <3>1 DEF Session
    <3>3. [session[y] EXCEPT !.saw = @ \ session[x].gone]
            = [session[y] EXCEPT !.saw = session[y].saw \ session[x].gone]
      OBVIOUS
    <3>. QED  BY <2>1, <2>2, <2>3, <1>0, <3>2, <3>3
  <2>5. session' \in [Sessions -> Session]
    BY <1>8, <2>4 DEF Ended
  <2>6. ASSUME NEW y \in Sessions, y # x
        PROVE  /\ session'[y].kind = session[y].kind /\ session'[y].pc = session[y].pc
               /\ session'[y].run = session[y].run /\ session'[y].hidden = session[y].hidden
               /\ session'[y].gone = session[y].gone /\ session'[y].adding = session[y].adding
               /\ session'[y].added = session[y].added
               /\ session[y].kind = "idle" => session'[y] = session[y]
               /\ session'[y].saw = IF session[y].pc = "deleting" THEN session[y].saw \ session[x].gone
                                                         ELSE session[y].saw
    <3>1. session[y].kind = "idle" => session[y].pc # "deleting"
      BY <1>0 DEF Sessioned
    <3>. QED  BY <2>2, <2>3, <2>6, <3>1 DEF Session
  <2>. QED  BY <2>1, <2>4, <2>5, <2>6 DEF Ends
<1>9. ASSUME NEW x \in Sessions, CommitSubmit(x) \/ CommitReview(x)
      PROVE  session' \in [Sessions -> Session] /\ Commits(x)
  BY <1>8, <1>9 DEF CommitSubmit, CommitReview, Commits
<1>10. ASSUME NEW x \in Sessions, CommitClose(x)
       PROVE  session' \in [Sessions -> Session] /\ Closes(x)
  BY <1>8, <1>10 DEF CommitClose, Closes
<1>11. ASSUME NEW x \in Sessions, Fail(x)
       PROVE  session' \in [Sessions -> Session] /\ Fails(x)
  BY <1>0, <1>11 DEF Fail, Fails, Only
<1>12. Reopen => session' \in [Sessions -> Session]
  BY DEF Reopen
<1>. QED
  BY <1>1, <1>2, <1>3, <1>4, <1>5, <1>6, <1>7, <1>9, <1>10, <1>11, <1>12 DEF SeasonsNext

-----------------------------------------------------------------------------
(* Each part is kept. *)

\* The table as a transaction leaves it has one entry of each player.
LEMMA TableKeyed ==
  ASSUME SeasonsInv, NEW x \in Sessions
  PROVE  Table(x) \subseteq Runs /\ OnePer(Table(x))
<1>1. session[x].added \subseteq Runs
  BY Sending DEF SeasonsInv, Sessioned, Session
<1>2. OnePer(session[x].added) /\ OnePer(entries)
  BY DEF SeasonsInv, Rebuilding, OneEntryEach, OnePer
<1>3. PlayersOf(session[x].added) \cap PlayersOf(entries \ session[x].gone) = {}
  BY DEF SeasonsInv, Keyed
<1>. QED  BY <1>1, <1>2, <1>3 DEF SeasonsInv, Data, Table, OnePer, PlayersOf

\* The rows keep their types.
LEMMA DataKept == SeasonsInv /\ [SeasonsNext]_seasonsVars => Data'
<1>. SUFFICES ASSUME SeasonsInv, [SeasonsNext]_seasonsVars PROVE Data'
  OBVIOUS
<1>. USE DEF Data
<1>. Data
  BY DEF SeasonsInv
<1>1. ASSUME NEW x \in Sessions,
             Opens(x) \/ Looks(x) \/ Deletes(x) \/ Selects(x) \/ Inserts(x) \/ Fails(x)
      PROVE  Data'
  BY <1>1 DEF Opens, Begins, Looks, Deletes, Selects, Inserts, Advances, Fails, board, reviews
<1>2. ASSUME NEW x \in Sessions, Commits(x) PROVE Data'
  <2>1. session[x].kind = "submit" => session[x].run \in Runs
    BY DEF SeasonsInv, Sessioned
  <2>2. session[x].kind \in {"reject", "approve"} => session[x].run \in submissions
    BY DEF SeasonsInv, Sessioned
  <2>. QED  BY <1>2, <2>1, <2>2, TableKeyed DEF Commits, CommitSubmit, CommitReview, reviews
<1>3. ASSUME NEW x \in Sessions, Closes(x) PROVE Data'
  <2>1. PlayersOf(Table(x)) \subseteq Racers
    BY TableKeyed DEF PlayersOf, Racers
  <2>. QED  BY <1>3, <2>1, TableKeyed DEF Closes, CommitClose, reviews
<1>4. Reopen => Data'
  BY DEF Reopen, reviews
<1>5. UNCHANGED seasonsVars => Data'
  BY DEF seasonsVars, board, reviews
<1>. QED  BY <1>1, <1>2, <1>3, <1>4, <1>5, Steps DEF SeasonsInv

\* A place is a rank of the table, or none.
LEMMA PlacedKept ==
  SeasonsInv /\ [SeasonsNext]_seasonsVars => placed' \in [Racers -> 0 .. Cardinality(Racers)]
<1>. SUFFICES ASSUME SeasonsInv, [SeasonsNext]_seasonsVars
              PROVE  placed' \in [Racers -> 0 .. Cardinality(Racers)]
  OBVIOUS
<1>. placed \in [Racers -> 0 .. Cardinality(Racers)]
  BY DEF SeasonsInv
<1>1. ASSUME NEW x \in Sessions, Closes(x) PROVE placed' \in [Racers -> 0 .. Cardinality(Racers)]
  <2>. DEFINE rankOf(p) == Rank(Table(x), CHOOSE n \in Table(x) : Racer[n] = p)
  <2>1. ASSUME NEW p \in PlayersOf(Table(x)) PROVE rankOf(p) \in 0 .. Cardinality(Racers)
    <3>1. (CHOOSE n \in Table(x) : Racer[n] = p) \in Table(x)
      BY DEF PlayersOf
    <3>. QED  BY <3>1, TableKeyed, RankBound
  <2>2. placed' = [p \in Racers |-> IF p \in PlayersOf(Table(x)) THEN rankOf(p) ELSE placed[p]]
    BY <1>1 DEF Closes, CommitClose
  <2>. QED  BY <2>1, <2>2
<1>2. ASSUME NEW x \in Sessions, Commits(x) PROVE placed' = placed
  BY <1>2 DEF Commits
<1>3. ASSUME NEW x \in Sessions,
             Opens(x) \/ Looks(x) \/ Deletes(x) \/ Selects(x) \/ Inserts(x) \/ Fails(x)
      PROVE  placed' = placed
  BY <1>3 DEF Opens, Begins, Looks, Deletes, Selects, Inserts, Advances, Fails, board
<1>4. Reopen \/ UNCHANGED seasonsVars => placed' = placed
  BY DEF Reopen, seasonsVars, board
<1>. QED  BY <1>1, <1>2, <1>3, <1>4, Steps DEF SeasonsInv

\* What the table becomes.
LEMMA EntriesStep ==
  ASSUME SeasonsInv, [SeasonsNext]_seasonsVars
  PROVE  \/ entries' = entries
         \/ \E x \in Sessions : (Commits(x) \/ Closes(x)) /\ entries' = Table(x)
<1>1. ASSUME NEW x \in Sessions,
             Opens(x) \/ Looks(x) \/ Deletes(x) \/ Selects(x) \/ Inserts(x) \/ Fails(x)
      PROVE  entries' = entries
  BY <1>1 DEF Opens, Begins, Looks, Deletes, Selects, Inserts, Advances, Fails, board
<1>2. ASSUME NEW x \in Sessions, Commits(x) \/ Closes(x) PROVE entries' = Table(x)
  BY <1>2 DEF Commits, Closes, CommitClose
<1>3. Reopen \/ UNCHANGED seasonsVars => entries' = entries
  BY DEF Reopen, seasonsVars, board
<1>. QED  BY <1>1, <1>2, <1>3, Steps DEF SeasonsInv

\* The table keeps one entry of each player.
LEMMA OneEntryKept == SeasonsInv /\ [SeasonsNext]_seasonsVars => OneEntryEach'
  BY EntriesStep, TableKeyed DEF SeasonsInv, OneEntryEach, OnePer

\* Transactions keep their types and what they hold.
LEMMA SessionedKept == SeasonsInv /\ [SeasonsNext]_seasonsVars => Sessioned'
<1>. SUFFICES ASSUME SeasonsInv, [SeasonsNext]_seasonsVars PROVE Sessioned'
  OBVIOUS
<1>. USE DEF Sessioned
<1>. Sessioned
  BY DEF SeasonsInv
<1>1. UNCHANGED seasonsVars => Sessioned'
  BY DEF seasonsVars, board, reviews
<1>. SUFFICES ASSUME SeasonsNext PROVE Sessioned'
  BY <1>1
<1>2. session' \in [Sessions -> Session]
  BY Steps DEF SeasonsInv
<1>3. ASSUME NEW x \in Sessions, Opens(x) PROVE Sessioned'
  BY <1>2, <1>3 DEF Opens, Begins, Only, board, reviews
<1>4. ASSUME NEW x \in Sessions, Looks(x) \/ Deletes(x) \/ Selects(x) \/ Inserts(x)
      PROVE  Sessioned'
  BY <1>2, <1>4 DEF Looks, Deletes, Selects, Inserts, Advances, Only, board, reviews
<1>5. ASSUME NEW x \in Sessions, Fails(x) PROVE Sessioned'
  BY <1>2, <1>5 DEF Fails, Only, board, reviews, IdleSession
<1>6. ASSUME NEW x \in Sessions, Ends(x), NEW n,
             submissions \subseteq submissions', approved \subseteq approved', rejected \subseteq rejected',
             submissions' \ submissions \subseteq {n}, (approved' \cup rejected') \ (approved \cup rejected) \subseteq {n},
             \A y \in Sessions \ {x} : session[y].kind \in {"submit", "reject", "approve"} => session[y].run # n
      PROVE  Sessioned'
  <2>1. session'[x] = IdleSession /\ IdleSession.kind = "idle"
    BY <1>6 DEF Ends, IdleSession
  <2>2. ASSUME NEW y \in Sessions, y # x
        PROVE  /\ session'[y].kind = "idle" => session'[y] = IdleSession
               /\ session'[y].kind = "submit" => session'[y].run \in Runs \ submissions'
               /\ session'[y].kind \in {"reject", "approve"} =>
                    session'[y].run \in submissions' \ (approved' \cup rejected')
    <3>1. /\ session'[y].kind = session[y].kind /\ session'[y].run = session[y].run
          /\ session[y].kind = "idle" => session'[y] = session[y]
      BY <1>6, <2>2 DEF Ends
    <3>2. session[y].kind \in {"submit", "reject", "approve"} => session[y].run # n
      BY <1>6, <2>2
    <3>3. /\ session[y].kind = "idle" => session[y] = IdleSession
          /\ session[y].kind = "submit" => session[y].run \in Runs \ submissions
          /\ session[y].kind \in {"reject", "approve"} =>
               session[y].run \in submissions \ (approved \cup rejected)
      OBVIOUS
    <3>. HIDE DEF Sessioned
    <3>. QED  BY <1>6, <3>1, <3>2, <3>3
  <2>. QED  BY <1>2, <2>1, <2>2
<1>7. ASSUME NEW x \in Sessions, Commits(x), CommitSubmit(x) PROVE Sessioned'
  <2>1. \A y \in Sessions \ {x} :
          session[y].kind \in {"submit", "reject", "approve"} => session[y].run # session[x].run
    BY <1>7 DEF SeasonsInv, SessionsApart, CommitSubmit
  <2>. QED  BY <1>6, <1>7, <2>1 DEF Commits, CommitSubmit, reviews
<1>8. ASSUME NEW x \in Sessions, Commits(x), CommitReview(x) PROVE Sessioned'
  <2>1. \A y \in Sessions \ {x} :
          session[y].kind \in {"submit", "reject", "approve"} => session[y].run # session[x].run
    BY <1>8 DEF SeasonsInv, SessionsApart, CommitReview, GameKinds
  <2>2. /\ submissions' = submissions /\ approved \subseteq approved' /\ rejected \subseteq rejected'
        /\ (approved' \cup rejected') \ (approved \cup rejected) \subseteq {session[x].run}
    BY <1>8 DEF CommitReview
  <2>3. Ends(x)
    BY <1>8 DEF Commits
  <2>. QED  BY <1>6, <2>1, <2>2, <2>3
<1>10. ASSUME NEW x \in Sessions, Closes(x) PROVE Sessioned'
  <2>1. Ends(x) /\ UNCHANGED <<submissions, approved, rejected>>
    BY <1>10 DEF Closes, CommitClose, reviews
  <2>2. session'[x] = IdleSession /\ IdleSession.kind = "idle"
    BY <2>1 DEF Ends, IdleSession
  <2>. QED  BY <1>2, <2>1, <2>2, ZenonT(30) DEF Ends
<1>9. Reopen => Sessioned'
  BY DEF Reopen, reviews
<1>. QED  BY <1>3, <1>4, <1>5, <1>7, <1>8, <1>9, <1>10, Steps DEF SeasonsInv, Commits

\* Only runs are listed.
LEMMA EligibleTyped ==
  ASSUME Data, Sessioned, NEW x \in Sessions
  PROVE  Eligible(x) \subseteq Runs
<1>1. session[x].kind = "submit" => session[x].run \in Runs
  BY DEF Sessioned
<1>. QED  BY <1>1 DEF Eligible, Data

\* A transaction that ends: with its table committed, or with nothing.
LEMMA Endings ==
  ASSUME NEW x \in Sessions, Commits(x) \/ Closes(x)
  PROVE  Ends(x) /\ entries' = Table(x) /\ session[x].pc = "rebuilt"
  BY DEF Commits, Closes, CommitClose

\* A rebuild keeps to its order.
LEMMA RebuildingKept == SeasonsInv /\ [SeasonsNext]_seasonsVars => Rebuilding'
<1>. SUFFICES ASSUME SeasonsInv, [SeasonsNext]_seasonsVars PROVE Rebuilding'
  OBVIOUS
<1>. USE DEF Rebuilding
<1>. Rebuilding
  BY DEF SeasonsInv
<1>0. IdleSession.pc = "begun" /\ IdleSession.gone = {} /\ IdleSession.adding = {}
      /\ IdleSession.added = {} /\ OnePer({})
  BY DEF IdleSession, OnePer
<1>1. ASSUME NEW x \in Sessions, Opens(x) PROVE Rebuilding'
  BY <1>0, <1>1 DEF Opens, Begins, Only, board
<1>2. ASSUME NEW x \in Sessions, Looks(x) \/ Deletes(x) \/ Inserts(x) PROVE Rebuilding'
  BY <1>2 DEF Looks, Deletes, Inserts, Advances, Only, board
<1>3. ASSUME NEW x \in Sessions, Selects(x) PROVE Rebuilding'
  <2>1. OnePer(session'[x].adding)
    BY <1>3, EligibleTyped, BestOnePer DEF SeasonsInv, Selects
  <2>. QED  BY <1>3, <2>1 DEF Selects, Advances, Only, board
<1>4. ASSUME NEW x \in Sessions, Fails(x) PROVE Rebuilding'
  BY <1>0, <1>4 DEF Fails, Only, board
<1>5. ASSUME NEW x \in Sessions, Commits(x) \/ Closes(x) PROVE Rebuilding'
  <2>1. Ends(x) /\ entries' = Table(x)
    BY <1>5, Endings
  <2>2. ASSUME NEW y \in Sessions, y # x
        PROVE  /\ session[y].gone \subseteq entries'
               /\ session[y].pc = "deleting" => session[y].saw \ session[x].gone \subseteq entries'
    <3>1. session[y].gone \cap session[x].gone = {}
      BY <2>2 DEF SeasonsInv, Keyed
    <3>. QED  BY <2>1, <3>1 DEF Table
  <2>3. ASSUME NEW y \in Sessions, y # x
        PROVE  /\ session'[y].pc = session[y].pc /\ session'[y].gone = session[y].gone
               /\ session'[y].adding = session[y].adding /\ session'[y].added = session[y].added
               /\ session[y].pc = "deleting" => session'[y].saw = session[y].saw \ session[x].gone
    BY <2>1, <2>3 DEF Ends
  <2>4. session'[x] = IdleSession
    BY <2>1 DEF Ends
  <2>. QED  BY <1>0, <2>2, <2>3, <2>4, ZenonT(30)
<1>6. Reopen \/ UNCHANGED seasonsVars => Rebuilding'
  BY DEF Reopen, seasonsVars, board
<1>. QED  BY <1>1, <1>2, <1>3, <1>4, <1>5, <1>6, Steps DEF SeasonsInv

\* The locks keep commands of one game, and a player's submissions, apart.
LEMMA SessionsApartKept == SeasonsInv /\ [SeasonsNext]_seasonsVars => SessionsApart'
<1>. SUFFICES ASSUME SeasonsInv, [SeasonsNext]_seasonsVars PROVE SessionsApart'
  OBVIOUS
<1>. USE DEF SessionsApart, GameKinds
<1>. SessionsApart /\ \A x \in Sessions : session[x] \in Session
  BY DEF SeasonsInv, Sessioned
<1>0. IdleSession.kind = "idle"
  BY DEF IdleSession
<1>1. ASSUME NEW x \in Sessions, Opens(x) PROVE SessionsApart'
  <2>1. session'[x].kind = "submit" \/ session'[x].kind \in GameKinds
    BY <1>1 DEF Opens, Begins, Session
  <2>. QED  BY <1>1, <2>1 DEF Opens, Begins, Only
<1>2. ASSUME NEW x \in Sessions, Looks(x) \/ Deletes(x) \/ Selects(x) \/ Inserts(x) PROVE SessionsApart'
  BY <1>2 DEF Looks, Deletes, Selects, Inserts, Advances, Only
<1>3. ASSUME NEW x \in Sessions, Fails(x) PROVE SessionsApart'
  BY <1>0, <1>3 DEF Fails, Only
<1>4. ASSUME NEW x \in Sessions, Commits(x) \/ Closes(x) PROVE SessionsApart'
  <2>1. Ends(x)
    BY <1>4, Endings
  <2>2. session'[x].kind = "idle"
    BY <1>0, <2>1 DEF Ends
  <2>3. \A y \in Sessions \ {x} : session'[y].kind = session[y].kind /\ session'[y].run = session[y].run
    BY <2>1 DEF Ends
  <2>. QED  BY <2>2, <2>3
<1>5. Reopen \/ UNCHANGED seasonsVars => SessionsApart'
  BY DEF Reopen, seasonsVars, board
<1>. QED  BY <1>1, <1>2, <1>3, <1>4, <1>5, Steps DEF SeasonsInv

\* Nobody inserts beside an entry that stays.
LEMMA KeyedKept == SeasonsInv /\ [SeasonsNext]_seasonsVars => Keyed'
<1>. SUFFICES ASSUME SeasonsInv, [SeasonsNext]_seasonsVars PROVE Keyed'
  OBVIOUS
<1>. USE DEF Keyed
<1>. Keyed /\ Rebuilding
  BY DEF SeasonsInv
<1>0. IdleSession.gone = {} /\ IdleSession.added = {} /\ PlayersOf({}) = {}
  BY DEF IdleSession, PlayersOf
<1>1. ASSUME entries' = entries,
             \A y \in Sessions : session'[y].gone = session[y].gone /\ session'[y].added = session[y].added
      PROVE  Keyed'
  BY <1>1
<1>2. ASSUME NEW x \in Sessions,
             \A y \in Sessions \ {x} :
               /\ session'[y].gone = session[y].gone /\ session'[y].added = session[y].added
               /\ PlayersOf(session[y].added) \cap PlayersOf(entries' \ session[y].gone) = {}
               /\ session'[x].gone \cap session[y].gone = {}
               /\ PlayersOf(session'[x].added) \cap PlayersOf(session[y].added) = {},
             PlayersOf(session'[x].added) \cap PlayersOf(entries' \ session'[x].gone) = {}
      PROVE  Keyed'
  <2>. SUFFICES ASSUME NEW y \in Sessions, NEW z \in Sessions
       PROVE  /\ y # z => session'[y].gone \cap session'[z].gone = {}
              /\ y # z => PlayersOf(session'[y].added) \cap PlayersOf(session'[z].added) = {}
              /\ PlayersOf(session'[y].added) \cap PlayersOf(entries' \ session'[y].gone) = {}
    OBVIOUS
  <2>1. CASE y = x /\ z = x
    BY <1>2, <2>1
  <2>2. CASE y = x /\ z # x
    BY <1>2, <2>2
  <2>3. CASE y # x /\ z = x
    BY <1>2, <2>3
  <2>4. CASE y # x /\ z # x
    BY <1>2, <2>4
  <2>. QED  BY <2>1, <2>2, <2>3, <2>4
<1>3. ASSUME NEW x \in Sessions, Opens(x) \/ Fails(x) PROVE Keyed'
  <2>1. session'[x].gone = {} /\ PlayersOf(session'[x].added) = {} /\ entries' = entries /\ Only(x)
    BY <1>0, <1>3 DEF Opens, Begins, Fails, board
  <2>. QED  BY <1>2, <2>1 DEF Only
<1>4. ASSUME NEW x \in Sessions, Looks(x) \/ Selects(x) PROVE Keyed'
  BY <1>1, <1>4 DEF Looks, Selects, Advances, Only, board
<1>5. ASSUME NEW x \in Sessions, Deletes(x) PROVE Keyed'
  <2>1. session'[x].added = {} /\ session'[x].gone = session[x].saw /\ entries' = entries /\ Only(x)
    BY <1>5 DEF Deletes, Advances, Rebuilding, board
  <2>2. \A y \in Sessions \ {x} : session[y].gone \cap session[x].saw = {}
    BY <1>5 DEF Deletes
  <2>3. \A y \in Sessions \ {x} : session'[x].gone \cap session[y].gone = {}
    BY <2>1, <2>2
  <2>4. PlayersOf(session'[x].added) = {}
    BY <1>0, <2>1
  <2>. QED  BY <1>2, <2>1, <2>3, <2>4, ZenonT(30) DEF Only
<1>6. ASSUME NEW x \in Sessions, Inserts(x) PROVE Keyed'
  <2>1. ASSUME NEW y \in Sessions \ {x}
        PROVE  PlayersOf(session[x].adding) \cap PlayersOf(session[y].added) = {}
    <3>1. PlayersOf(session[x].adding) \cap PlayersOf(session[y].added \cup session[y].gone) = {}
      BY <1>6 DEF Inserts
    <3>. QED  BY <3>1 DEF PlayersOf
  <2>2. /\ session'[x].added = session[x].adding /\ session'[x].gone = session[x].gone
        /\ PlayersOf(session[x].adding) \cap PlayersOf(entries \ session[x].gone) = {}
        /\ entries' = entries /\ Only(x)
    BY <1>6 DEF Inserts, Advances, board
  <2>3. PlayersOf(session'[x].added) \cap PlayersOf(entries' \ session'[x].gone) = {}
    BY <2>2
  <2>4. ASSUME NEW y \in Sessions \ {x}
        PROVE  /\ session'[y] = session[y]
               /\ PlayersOf(session[y].added) \cap PlayersOf(entries' \ session[y].gone) = {}
               /\ session'[x].gone \cap session[y].gone = {}
               /\ PlayersOf(session'[x].added) \cap PlayersOf(session[y].added) = {}
    BY <2>1, <2>2 DEF Only
  <2>. QED  BY <1>2, <2>3, <2>4
<1>8. ASSUME NEW x \in Sessions, Commits(x) \/ Closes(x) PROVE Keyed'
  <2>1. Ends(x) /\ entries' = Table(x)
    BY <1>8, Endings
  <2>2. ASSUME NEW y \in Sessions, y # x
        PROVE  PlayersOf(session[y].added) \cap PlayersOf(entries' \ session[y].gone) = {}
    <3>1. entries' \ session[y].gone \subseteq (entries \ session[y].gone) \cup session[x].added
      BY <2>1 DEF Table
    <3>2. /\ PlayersOf(session[y].added) \cap PlayersOf(session[x].added) = {}
          /\ PlayersOf(session[y].added) \cap PlayersOf(entries \ session[y].gone) = {}
      BY <2>2
    <3>. QED  BY <3>1, <3>2 DEF PlayersOf
  <2>3. session'[x].gone = {} /\ PlayersOf(session'[x].added) = {}
    BY <1>0, <2>1 DEF Ends
  <2>4. \A y \in Sessions \ {x} : session'[y].gone = session[y].gone /\ session'[y].added = session[y].added
    BY <2>1 DEF Ends
  <2>. QED  BY <1>2, <2>2, <2>3, <2>4
<1>7. Reopen \/ UNCHANGED seasonsVars => Keyed'
  BY DEF Reopen, seasonsVars, board
<1>. QED  BY <1>3, <1>4, <1>5, <1>6, <1>7, <1>8, Steps DEF SeasonsInv

-----------------------------------------------------------------------------
(* What is listed. *)

\* What a rebuild may list was visible or approved; of a close, still is.
LEMMA EligibleListed ==
  ASSUME SeasonsInv, NEW x \in Sessions
  PROVE  /\ Eligible(x) \subseteq Listed \cup Own(x)
         /\ session[x].kind = "close" => Eligible(x) \subseteq Visible
  BY DEF SeasonsInv, Data, Sessioned, Eligible, Listed, Own, Visible

\* A commit lists what its transaction saw, and takes nothing off the list.
LEMMA ListedGrows ==
  ASSUME SeasonsInv, [SeasonsNext]_seasonsVars
  PROVE  /\ Listed \subseteq Listed'
         /\ \A x \in Sessions : Commits(x) => Own(x) \subseteq Listed'
         /\ \A x \in Sessions : Closes(x) => Own(x) = {}
<1>. Data /\ Sessioned
  BY DEF SeasonsInv
<1>1. ASSUME NEW x \in Sessions, CommitSubmit(x)
      PROVE  Listed \subseteq Listed' /\ Own(x) \subseteq Listed'
  <2>1. session[x].run \notin submissions /\ session[x].kind = "submit"
    BY <1>1 DEF CommitSubmit, Sessioned
  <2>. QED  BY <1>1, <2>1 DEF CommitSubmit, Listed, Own, Data, reviews
<1>2. ASSUME NEW x \in Sessions, CommitReview(x)
      PROVE  Listed \subseteq Listed' /\ Own(x) \subseteq Listed'
  <2>1. session[x].run \in submissions
    BY <1>2 DEF CommitReview, Sessioned
  <2>. QED  BY <1>2, <2>1 DEF CommitReview, Listed, Own
<1>3. ASSUME NEW x \in Sessions, Closes(x) PROVE Listed' = Listed /\ Own(x) = {}
  BY <1>3 DEF Closes, CommitClose, Listed, Own, reviews
<1>4. ASSUME NEW x \in Sessions,
             Opens(x) \/ Looks(x) \/ Deletes(x) \/ Selects(x) \/ Inserts(x) \/ Fails(x)
      PROVE  Listed' = Listed
  BY <1>4 DEF Opens, Begins, Looks, Deletes, Selects, Inserts, Advances, Fails, board, reviews, Listed
<1>5. Reopen \/ UNCHANGED seasonsVars => Listed' = Listed
  BY DEF Reopen, seasonsVars, board, reviews, Listed
<1>6. Listed \subseteq Listed'
  BY <1>1, <1>2, <1>3, <1>4, <1>5, Steps DEF SeasonsInv, Commits
<1>. QED  BY <1>1, <1>2, <1>3, <1>6 DEF Commits

\* What is listed was visible or approved.
LEMMA ListingKept == SeasonsInv /\ [SeasonsNext]_seasonsVars => Listing'
<1>. SUFFICES ASSUME SeasonsInv, [SeasonsNext]_seasonsVars PROVE Listing'
  OBVIOUS
<1>. Data /\ Sessioned /\ Rebuilding /\ Listing
  BY DEF SeasonsInv
<1>0. IdleSession.kind = "idle" /\ IdleSession.adding = {} /\ IdleSession.added = {}
  BY DEF IdleSession
<1>1. Listed \subseteq Listed'
  BY ListedGrows
\* It is enough that what the others have selected stays right.
<1>2. ASSUME NEW x \in Sessions, session'[x].adding = {}, session'[x].added = {},
             entries' \subseteq Listed',
             \A y \in Sessions \ {x} :
               /\ session'[y].kind = session[y].kind /\ session'[y].run = session[y].run
               /\ session'[y].hidden = session[y].hidden
               /\ session'[y].adding = session[y].adding /\ session'[y].added = session[y].added,
             \A y \in Sessions \ {x} : session[y].kind = "close" => Visible \subseteq Visible'
      PROVE  Listing'
  <2>1. \A y \in Sessions \ {x} : Own(y)' = Own(y)
    BY <1>2 DEF Own
  <2>2. ASSUME NEW y \in Sessions
        PROVE  /\ session'[y].adding \subseteq Listed' \cup Own(y)'
               /\ session'[y].added \subseteq Listed' \cup Own(y)'
               /\ session'[y].kind = "close" =>
                    session'[y].adding \subseteq Visible' /\ session'[y].added \subseteq Visible'
    <3>1. CASE y = x
      BY <1>2, <3>1
    <3>2. CASE y # x
      BY <1>1, <1>2, <2>1, <3>2 DEF Listing
    <3>. QED  BY <3>1, <3>2
  <2>. QED  BY <1>2, <2>2 DEF Listing
<1>3. ASSUME NEW x \in Sessions, Opens(x) \/ Fails(x) PROVE Listing'
  <2>1. /\ session'[x].adding = {} /\ session'[x].added = {} /\ entries' = entries
        /\ Only(x) /\ Visible' = Visible
    BY <1>0, <1>3 DEF Opens, Begins, Fails, board, reviews, Visible
  <2>2. entries' \subseteq Listed'
    BY <1>1, <2>1 DEF Listing
  <2>. QED  BY <1>2, <2>1, <2>2 DEF Only
<1>4. ASSUME NEW x \in Sessions, Looks(x) \/ Deletes(x) \/ Selects(x) \/ Inserts(x) PROVE Listing'
  <2>1. /\ entries' = entries /\ Listed' = Listed /\ Visible' = Visible /\ Only(x)
        /\ session'[x].kind = session[x].kind /\ Own(x)' = Own(x)
    BY <1>4 DEF Looks, Deletes, Selects, Inserts, Advances, board, reviews, Listed, Visible, Own
  <2>2. \A y \in Sessions \ {x} : session'[y] = session[y] /\ Own(y)' = Own(y)
    BY <2>1 DEF Only, Own
  <2>3. /\ session'[x].adding \subseteq Listed \cup Own(x)
        /\ session'[x].added \subseteq Listed \cup Own(x)
        /\ session[x].kind = "close" =>
             session'[x].adding \subseteq Visible /\ session'[x].added \subseteq Visible
    <3>1. Best(Eligible(x)) \subseteq Eligible(x)
      BY DEF Best
    <3>. QED  BY <1>4, <3>1, EligibleListed DEF Looks, Deletes, Selects, Inserts, Listing
  <2>. QED  BY <2>1, <2>2, <2>3 DEF Listing
<1>5. ASSUME NEW x \in Sessions, Commits(x) \/ Closes(x) PROVE Listing'
  <2>1. Ends(x) /\ entries' = Table(x)
    BY <1>5, Endings
  <2>2. entries' \subseteq Listed'
    BY <1>1, <1>5, <2>1, ListedGrows DEF Table, Listing
  <2>3. ASSUME NEW y \in Sessions \ {x}, session[y].kind = "close" PROVE Visible \subseteq Visible'
    <3>1. session[x].kind \notin GameKinds
      BY <2>3 DEF SeasonsInv, SessionsApart, GameKinds
    <3>2. CommitSubmit(x)
      BY <1>5, <3>1 DEF Commits, Closes, CommitReview, CommitClose, GameKinds
    <3>3. session[x].run \notin submissions
      BY <3>2 DEF CommitSubmit, Sessioned
    \* A visible run stays visible while no review commits.
    <3>4. /\ approved' = approved /\ rejected' = rejected /\ submissions \subseteq submissions'
          /\ quarantined' \cap submissions = quarantined
      BY <3>2, <3>3 DEF CommitSubmit, reviews, Data
    <3>. QED  BY <3>4 DEF Data, Visible
  <2>. QED  BY <1>0, <1>2, <2>1, <2>2, <2>3, ZenonT(30) DEF Ends
<1>6. Reopen \/ UNCHANGED seasonsVars => Listing'
  BY DEF Reopen, seasonsVars, board, reviews, Listing, Listed, Visible, Own
<1>. QED  BY <1>3, <1>4, <1>5, <1>6, Steps DEF SeasonsInv

-----------------------------------------------------------------------------
(* The theorems. *)

\* A new season lists nobody.
LEMMA SeasonsStart == SeasonsInit => SeasonsInv
<1>. SUFFICES ASSUME SeasonsInit PROVE SeasonsInv
  OBVIOUS
<1>. USE DEF SeasonsInit
<1>1. Data /\ OneEntryEach /\ placed \in [Racers -> 0 .. Cardinality(Racers)]
  BY RacersFinite DEF Data, OneEntryEach
<1>2. \A x \in Sessions : session[x] = IdleSession
  OBVIOUS
<1>3. IdleSession.kind = "idle" /\ IdleSession.pc = "begun" /\ IdleSession.gone = {}
      /\ IdleSession.adding = {} /\ IdleSession.added = {} /\ PlayersOf({}) = {} /\ OnePer({})
  BY DEF IdleSession, PlayersOf, OnePer
<1>4. Sessioned /\ Rebuilding /\ SessionsApart /\ Listing
  BY <1>2, <1>3, IdleTyped DEF Sessioned, Rebuilding, SessionsApart, Listing, GameKinds
<1>5. Keyed
  BY <1>2, <1>3 DEF Keyed
<1>. QED  BY <1>1, <1>4, <1>5 DEF SeasonsInv

\* The invariant holds in every state.
THEOREM SeasonsAlways == SeasonsSpec => []SeasonsInv
<1>1. SeasonsInv /\ [SeasonsNext]_seasonsVars => SeasonsInv'
  BY DataKept, PlacedKept, OneEntryKept, SessionedKept, RebuildingKept, SessionsApartKept, KeyedKept,
     ListingKept DEF SeasonsInv
<1>. QED  BY <1>1, SeasonsStart, PTL DEF SeasonsSpec

\* The season's state keeps its types.
THEOREM SeasonsTypesKept == SeasonsSpec => []SeasonsTypeOK
<1>1. SeasonsInv => SeasonsTypeOK
  BY DEF SeasonsInv, SeasonsTypeOK, Data, Sessioned
<1>. QED  BY <1>1, SeasonsAlways, PTL

\* Whatever rebuilds overlap, the table lists a player once.
THEOREM AlwaysOneEntry == SeasonsSpec => []OneEntryEach
<1>1. SeasonsInv => OneEntryEach
  BY DEF SeasonsInv
<1>. QED  BY <1>1, SeasonsAlways, PTL

\* A season's reward goes to a player one of whose runs is visible or approved when it closes,
\* or whose rejected run a submission put back while the closing waited.
THEOREM AlwaysPaidWhenVisible == SeasonsSpec => PaidWhenVisible
<1>. DEFINE Paid == \A p \in rewarded' \ rewarded :
       \/ p \in PlayersOf(Visible)
       \/ \E x \in Busy : \E n \in rejected \cap (entries \ session[x].gone) :
            session[x].kind = "close" /\ Racer[n] = p
<1>1. SeasonsInv /\ [SeasonsNext]_seasonsVars => [Paid]_seasonsVars
  <2>. SUFFICES ASSUME SeasonsInv, SeasonsNext, NEW p \in rewarded' \ rewarded
                PROVE  \/ p \in PlayersOf(Visible)
                       \/ \E x \in Busy : \E n \in rejected \cap (entries \ session[x].gone) :
                            session[x].kind = "close" /\ Racer[n] = p
    OBVIOUS
  <2>1. PICK x \in Sessions : Closes(x)
    <3>1. ASSUME NEW x \in Sessions,
             Opens(x) \/ Looks(x) \/ Deletes(x) \/ Selects(x) \/ Inserts(x) \/ Fails(x) \/ Commits(x)
          PROVE  rewarded' = rewarded
      BY <3>1 DEF Opens, Begins, Looks, Deletes, Selects, Inserts, Advances, Fails, Commits, board
    <3>2. Reopen => rewarded' = rewarded
      BY DEF Reopen
    <3>. QED  BY <3>1, <3>2, Steps DEF SeasonsInv
  <2>2. session[x].kind = "close" /\ x \in Busy /\ p \in PlayersOf(Table(x))
    BY <2>1 DEF Closes, CommitClose, Busy
  <2>3. PICK n \in Table(x) : Racer[n] = p
    BY <2>2 DEF PlayersOf
  <2>4. CASE n \in session[x].added
    BY <2>2, <2>3, <2>4 DEF SeasonsInv, Listing, PlayersOf
  <2>5. CASE n \in entries \ session[x].gone
    <3>1. n \in Visible \/ n \in rejected
      BY <2>5 DEF SeasonsInv, Listing, Listed, Visible
    <3>. QED  BY <2>2, <2>3, <2>5, <3>1 DEF PlayersOf
  <2>. QED  BY <2>3, <2>4, <2>5 DEF Table
<1>. QED  BY <1>1, SeasonsAlways, PTL DEF SeasonsSpec, PaidWhenVisible
=============================================================================

-------------------------- MODULE CommandBusProofs --------------------------
(***************************************************************************)
(* Theorems about CommandBus for any ids, requests and executions.         *)
(*                                                                         *)
(* A reservation excludes duplicates only while the row it found is not a  *)
(* result (ReservationExclusive).  Between its tombstone check and its     *)
(* reservation an execution may miss a result being swept; the unique      *)
(* constraint on what a referenced command produces then refuses a second  *)
(* effect (ReferencedOnce), so that the tombstone, which yields to an      *)
(* earlier one of its id, is never missing (ReferencedKept).               *)
(***************************************************************************)
EXTENDS CommandBus, TLAPS

\* What is recorded, or was answered, was performed.
RecordsPerformed ==
  /\ \A i \in Ids : row[i].status = "done" => <<i, row[i].req>> \in performed
  /\ \A i \in Ids : tomb[i] # NoRequest => <<i, tomb[i]>> \in performed
  /\ answered \subseteq performed

ReferencedOnce ==
  \A i \in Ids, r \in Referenced, q \in Referenced :
    <<i, r>> \in performed /\ <<i, q>> \in performed => r = q

ReferencedKept ==
  \A i \in Ids, r \in Referenced :
    <<i, r>> \in performed => row[i] = [status |-> "done", req |-> r] \/ tomb[i] = r

ReservationExclusive ==
  /\ \A x \in Executions : exec[x].pc = "reserved" => row[exec[x].id].status # "done"
  /\ \A x \in Executions, y \in Executions :
       exec[x].pc = "reserved" /\ exec[y].pc = "reserved" /\ exec[x].id = exec[y].id => x = y

BusInv ==
  /\ TypeOK
  /\ RecordsPerformed
  /\ ReferencedOnce
  /\ ReferencedKept
  /\ ReservationExclusive

-----------------------------------------------------------------------------
(* Rows and executions.                                                    *)

\* The absent row and the idle execution have their types.
LEMMA BusConstants ==
  /\ NoRow \in Row /\ NoRow.status = "none"
  /\ Idle \in Execution /\ Idle.pc = "idle"
BY DEF NoRow, Row, Idle, Execution

\* A recorded result is a row of the commands table.
LEMMA RecordedRow ==
  ASSUME NEW status \in {"done", "failed"}, NEW r \in Requests
  PROVE  [status |-> status, req |-> r] \in Row
BY DEF Row

\* What the status of a row says about its request.
LEMMA RowParts ==
  ASSUME NEW r \in Row
  PROVE  /\ r.status \in {"none", "done", "failed"}
         /\ r.status # "none" => r.req \in Requests
         /\ r.status = "done" => r = [status |-> "done", req |-> r.req]
BY DEF Row

\* An execution that has begun carries a call.
LEMMA UnderWay ==
  ASSUME TypeOK, NEW x \in Executions, exec[x].pc # "idle"
  PROVE  /\ exec[x].id \in Ids
         /\ exec[x].req \in Requests
         /\ Call(x) = <<exec[x].id, exec[x].req>>
         /\ Call(x) \in Calls
<1>1. exec[x] \in Execution
  BY DEF TypeOK
<1>2. exec[x].id \in Ids /\ exec[x].req \in Requests
  BY <1>1 DEF Execution
<1> QED
  BY <1>2 DEF Call, Calls

\* Moving one execution on keeps the types and its call.
LEMMA MovesFacts ==
  ASSUME TypeOK, NEW x \in Executions, exec[x].pc # "idle",
         NEW pc \in {"begun", "entered", "unknown", "reserved", "refused"}, Moves(x, pc)
  PROVE  /\ exec' \in [Executions -> Execution]
         /\ exec'[x].pc = pc /\ exec'[x].id = exec[x].id /\ exec'[x].req = exec[x].req
         /\ \A y \in Executions : y # x => exec'[y] = exec[y]
<1>1. exec \in [Executions -> Execution] /\ exec' = [exec EXCEPT ![x].pc = pc]
  BY DEF TypeOK, Moves
<1>2. exec[x] \in [pc : {"begun", "entered", "unknown", "reserved", "refused"},
                   id : Ids, req : Requests]
  BY <1>1 DEF Execution
<1>3. [exec[x] EXCEPT !.pc = pc] \in Execution
  BY <1>2 DEF Execution
<1> QED
  BY <1>1, <1>2, <1>3

\* An execution that ends is idle, the others are where they were.
LEMMA EndsFacts ==
  ASSUME TypeOK, NEW x \in Executions, Ends(x)
  PROVE  /\ exec' \in [Executions -> Execution]
         /\ exec'[x].pc = "idle"
         /\ \A y \in Executions : y # x => exec'[y] = exec[y]
<1>1. exec \in [Executions -> Execution] /\ exec' = [exec EXCEPT ![x] = Idle]
  BY DEF TypeOK, Ends
<1> QED
  BY <1>1, BusConstants

-----------------------------------------------------------------------------
(* Each action keeps the invariant.                                        *)

\* A step of one execution that ends nowhere new and changes nothing else.
LEMMA QuietKeeps ==
  ASSUME BusInv, NEW x \in Executions, UNCHANGED <<row, old, tomb, performed, answered>>,
         exec' \in [Executions -> Execution], exec'[x].pc # "reserved",
         \A y \in Executions : y # x => exec'[y] = exec[y]
  PROVE  BusInv'
<1>1. ReservationExclusive'
  BY DEF BusInv, ReservationExclusive
<1> QED
  BY <1>1 DEF BusInv, TypeOK, RecordsPerformed, ReferencedOnce, ReferencedKept

\* A refusal (rollback, not recorded yet) keeps the invariant.
LEMMA RefuseKeeps ==
  ASSUME BusInv, NEW x \in Executions, exec[x].pc # "idle", Refuse(x)
  PROVE  BusInv'
<1>1. Moves(x, "refused") /\ UNCHANGED <<row, old, tomb, performed, answered>>
  BY DEF Refuse
<1> QED
  BY <1>1, MovesFacts, QuietKeeps DEF BusInv

\* Answering from a row or a tombstone keeps the invariant: the call was performed.
LEMMA ReplayKeeps ==
  ASSUME BusInv, NEW x \in Executions, exec[x].pc # "idle", Replay(x), Call(x) \in performed
  PROVE  BusInv'
<1>1. /\ answered' \in {answered, answered \cup {Call(x)}}
      /\ Ends(x)
      /\ UNCHANGED <<row, old, tomb, performed>>
  BY DEF Replay
<1>2. TypeOK'
  BY <1>1, EndsFacts, UnderWay DEF BusInv, TypeOK
<1>3. RecordsPerformed'
  BY <1>1 DEF BusInv, RecordsPerformed
<1>4. ReservationExclusive'
  BY <1>1, EndsFacts DEF BusInv, ReservationExclusive
<1> QED
  BY <1>1, <1>2, <1>3, <1>4 DEF BusInv, ReferencedOnce, ReferencedKept

\* A call that arrives keeps the invariant.
LEMMA BeginKeeps ==
  ASSUME BusInv, NEW x \in Executions, NEW i \in Ids, NEW r \in Requests, Begin(x, i, r)
  PROVE  BusInv'
<1>1. [pc |-> "begun", id |-> i, req |-> r] \in Execution
  BY DEF Execution
<1>2. /\ exec' \in [Executions -> Execution]
      /\ exec'[x].pc # "reserved"
      /\ \A y \in Executions : y # x => exec'[y] = exec[y]
  BY <1>1 DEF Begin, BusInv, TypeOK
<1> QED
  BY <1>2, QuietKeeps DEF Begin

\* Taking the scope's advisory lock keeps the invariant.
LEMMA TakeLockKeeps ==
  ASSUME BusInv, NEW x \in Executions, TakeLock(x)
  PROVE  BusInv'
<1>1. /\ exec[x].pc # "idle"
      /\ Moves(x, "entered")
      /\ UNCHANGED <<row, old, tomb, performed, answered>>
  BY DEF TakeLock
<1> QED
  BY <1>1, MovesFacts, QuietKeeps DEF BusInv

\* The tombstone lookup of reserve keeps the invariant, whatever it finds.
LEMMA CheckTombstoneKeeps ==
  ASSUME BusInv, NEW x \in Executions, CheckTombstone(x)
  PROVE  BusInv'
<1>1. exec[x].pc # "idle"
  BY DEF CheckTombstone
<1>2. CASE Moves(x, "unknown") /\ UNCHANGED <<row, old, tomb, performed, answered>>
  BY <1>1, <1>2, MovesFacts, QuietKeeps DEF BusInv
<1>3. CASE tomb[exec[x].id] = exec[x].req /\ Replay(x)
  <2>1. Call(x) \in performed
    BY <1>1, <1>3, UnderWay, BusAssumption DEF BusInv, RecordsPerformed
  <2> QED
    BY <1>1, <1>3, <2>1, ReplayKeeps
<1>4. CASE Refuse(x)
  BY <1>1, <1>4, RefuseKeeps
<1> QED
  BY <1>2, <1>3, <1>4 DEF CheckTombstone

\* The reserving insert keeps the invariant: a command id has one reservation.
LEMMA ReserveKeeps ==
  ASSUME BusInv, NEW x \in Executions, Reserve(x)
  PROVE  BusInv'
<1>1. exec[x].pc # "idle" /\ ~Contested(x)
  BY DEF Reserve
<1>2. CASE /\ row[exec[x].id].status # "done"
           /\ Moves(x, "reserved")
           /\ UNCHANGED <<row, old, tomb, performed, answered>>
  <2>1. /\ exec' \in [Executions -> Execution]
        /\ exec'[x].id = exec[x].id
        /\ \A y \in Executions : y # x => exec'[y] = exec[y]
    BY <1>1, <1>2, MovesFacts DEF BusInv
  <2>2. ReservationExclusive'
    BY <1>1, <1>2, <2>1 DEF BusInv, ReservationExclusive, Contested
  <2> QED
    BY <1>2, <2>1, <2>2 DEF BusInv, TypeOK, RecordsPerformed, ReferencedOnce, ReferencedKept
<1>3. CASE /\ row[exec[x].id].status = "done" /\ row[exec[x].id].req = exec[x].req
           /\ Replay(x)
  <2>1. Call(x) \in performed
    BY <1>1, <1>3, UnderWay DEF BusInv, RecordsPerformed
  <2> QED
    BY <1>1, <1>3, <2>1, ReplayKeeps
<1>4. CASE Refuse(x)
  BY <1>1, <1>4, RefuseKeeps
<1> QED
  BY <1>2, <1>3, <1>4 DEF Reserve

\* A commit keeps the invariant: a referenced command performs once per id.
LEMMA CommitKeeps ==
  ASSUME BusInv, NEW x \in Executions, Commit(x)
  PROVE  BusInv'
<1> USE DEF BusInv
<1>1. PICK i \in Ids, r \in Requests : i = exec[x].id /\ r = exec[x].req /\ Call(x) = <<i, r>>
  BY UnderWay DEF Commit
<1>2. /\ exec[x].pc = "reserved"
      /\ r \in Referenced => \A q \in Referenced : <<i, q>> \notin performed
      /\ row' = [row EXCEPT ![i] = [status |-> "done", req |-> r]]
      /\ performed' = performed \cup {<<i, r>>}
      /\ answered' \in {answered, answered \cup {<<i, r>>}}
      /\ Ends(x)
      /\ UNCHANGED <<old, tomb>>
  BY <1>1 DEF Commit, MayPerform, Produced
<1>3. /\ row' \in [Ids -> Row]
      /\ row'[i] = [status |-> "done", req |-> r]
      /\ \A j \in Ids : j # i => row'[j] = row[j]
  BY <1>2, RecordedRow DEF TypeOK
<1>4. row[i].status # "done"
  BY <1>1, <1>2 DEF ReservationExclusive
<1>5. TypeOK'
  BY <1>2, <1>3, EndsFacts DEF TypeOK, Calls
<1>6. RecordsPerformed'
  BY <1>2, <1>3 DEF RecordsPerformed
<1>7. ReferencedOnce'
  <2>1. ASSUME NEW j \in Ids, NEW q \in Referenced, NEW p \in Referenced,
               <<j, q>> \in performed', <<j, p>> \in performed'
        PROVE  q = p
    <3>1. CASE <<j, q>> \in performed /\ <<j, p>> \in performed
      BY <3>1 DEF ReferencedOnce
    <3>2. CASE <<j, q>> = <<i, r>> \/ <<j, p>> = <<i, r>>
      BY <1>2, <2>1, <3>2
    <3> QED
      BY <1>2, <2>1, <3>1, <3>2
  <2> QED
    BY <2>1 DEF ReferencedOnce
<1>8. ReferencedKept'
  <2>1. ASSUME NEW j \in Ids, NEW q \in Referenced, <<j, q>> \in performed'
        PROVE  row'[j] = [status |-> "done", req |-> q] \/ tomb'[j] = q
    <3>1. CASE <<j, q>> = <<i, r>>
      BY <1>3, <3>1
    <3>2. CASE <<j, q>> \in performed
      <4>1. row[j] = [status |-> "done", req |-> q] \/ tomb[j] = q
        BY <3>2 DEF ReferencedKept
      <4> QED
        BY <1>2, <1>3, <1>4, <4>1
    <3> QED
      BY <1>2, <2>1, <3>1, <3>2
  <2> QED
    BY <2>1 DEF ReferencedKept
<1>9. ReservationExclusive'
  <2>1. \A y \in Executions : exec'[y].pc = "reserved" =>
          exec'[y] = exec[y] /\ exec[y].id # i /\ exec[y].id \in Ids
    BY <1>1, <1>2, EndsFacts, UnderWay DEF ReservationExclusive
  <2> QED
    BY <1>3, <2>1 DEF ReservationExclusive
<1> QED
  BY <1>5, <1>6, <1>7, <1>8, <1>9

\* recordFailure keeps the invariant: it replaces no row.
LEMMA RecordFailureKeeps ==
  ASSUME BusInv, NEW x \in Executions, RecordFailure(x)
  PROVE  BusInv'
<1> USE DEF BusInv
<1>1. PICK i \in Ids, r \in Requests : i = exec[x].id /\ r = exec[x].req
  BY UnderWay DEF RecordFailure
<1>2. /\ exec[x].pc = "refused"
      /\ row' = IF row[i].status = "none"
                THEN [row EXCEPT ![i] = [status |-> "failed", req |-> r]] ELSE row
      /\ Ends(x)
      /\ UNCHANGED <<old, tomb, performed, answered>>
  BY <1>1 DEF RecordFailure
<1>3. CASE row[i].status # "none"
  BY <1>2, <1>3, EndsFacts, QuietKeeps
<1>4. CASE row[i].status = "none"
  <2>1. /\ row' \in [Ids -> Row]
        /\ row'[i] = [status |-> "failed", req |-> r]
        /\ \A j \in Ids : j # i => row'[j] = row[j]
    BY <1>2, <1>4, RecordedRow DEF TypeOK
  <2>2. TypeOK'
    BY <1>2, <2>1, EndsFacts DEF TypeOK
  <2>3. RecordsPerformed'
    BY <1>2, <2>1 DEF RecordsPerformed
  <2>4. ReferencedKept'
    BY <1>2, <1>4, <2>1 DEF ReferencedKept
  <2>5. ReservationExclusive'
    <3>1. \A y \in Executions : exec'[y].pc = "reserved" => exec'[y] = exec[y] /\ exec[y].id \in Ids
      BY <1>2, EndsFacts, UnderWay
    <3> QED
      BY <2>1, <3>1 DEF ReservationExclusive
  <2> QED
    BY <1>2, <2>2, <2>3, <2>4, <2>5 DEF ReferencedOnce
<1> QED
  BY <1>3, <1>4

\* An execution that ends with nothing behind it keeps the invariant.
LEMMA FailKeeps ==
  ASSUME BusInv, NEW x \in Executions, Fail(x)
  PROVE  BusInv'
<1>1. Ends(x) /\ UNCHANGED <<row, old, tomb, performed, answered>>
  BY DEF Fail
<1> QED
  BY <1>1, EndsFacts, QuietKeeps DEF BusInv

\* A sweep keeps the invariant: what is referenced leaves its tombstone.
LEMMA BusRetentionKeeps ==
  ASSUME BusInv, ApplyRetention
  PROVE  BusInv'
<1> USE DEF BusInv
<1>1. /\ \A x \in Executions : exec[x].pc = "reserved" => exec[x].id \notin old
      /\ row' = [i \in Ids |-> IF i \in old THEN NoRow ELSE row[i]]
      /\ tomb' = [i \in Ids |-> Tombstone(i)]
      /\ old' = {}
      /\ UNCHANGED <<performed, answered, exec>>
  BY DEF ApplyRetention
<1>2. \A i \in Ids : /\ row'[i] = IF i \in old THEN NoRow ELSE row[i]
                     /\ tomb'[i] = Tombstone(i)
                     /\ Tombstone(i) \in {row[i].req, tomb[i]}
                     /\ Tombstone(i) \in Referenced \cup {NoRequest}
                     /\ Tombstone(i) # tomb[i] => row[i].status = "done" /\ Tombstone(i) = row[i].req
                     /\ tomb[i] # NoRequest => Tombstone(i) = tomb[i]
  BY <1>1 DEF Tombstone, TypeOK
<1>3. TypeOK'
  BY <1>1, <1>2, BusConstants DEF TypeOK
<1>4. RecordsPerformed'
  BY <1>1, <1>2, BusConstants DEF RecordsPerformed
<1>5. ReferencedKept'
  <2>1. ASSUME NEW i \in Ids, NEW r \in Referenced, <<i, r>> \in performed
        PROVE  row'[i] = [status |-> "done", req |-> r] \/ tomb'[i] = r
    <3>1. CASE tomb[i] = r
      BY <1>2, <3>1, BusAssumption
    <3>2. CASE row[i] = [status |-> "done", req |-> r] /\ i \notin old
      BY <1>2, <3>2
    <3>3. CASE row[i] = [status |-> "done", req |-> r] /\ i \in old /\ tomb[i] = NoRequest
      BY <1>2, <3>3 DEF Tombstone
    <3>4. CASE tomb[i] # NoRequest
      <4>1. tomb[i] \in Referenced /\ <<i, tomb[i]>> \in performed
        BY <3>4 DEF TypeOK, RecordsPerformed
      <4>2. tomb[i] = r
        BY <2>1, <4>1 DEF ReferencedOnce
      <4> QED
        BY <3>1, <4>2
    <3> QED
      BY <2>1, <3>1, <3>2, <3>3, <3>4 DEF ReferencedKept
  <2> QED
    BY <1>1, <2>1 DEF ReferencedKept
<1>6. ReservationExclusive'
  <2>1. \A x \in Executions : exec[x].pc = "reserved" => exec[x].id \in Ids
    BY UnderWay
  <2> QED
    BY <1>1, <1>2, <2>1 DEF ReservationExclusive
<1> QED
  BY <1>1, <1>3, <1>4, <1>5, <1>6 DEF ReferencedOnce

\* An empty commands table satisfies the invariant.
LEMMA BusInit == Init => BusInv
<1> SUFFICES ASSUME Init PROVE BusInv
  OBVIOUS
<1>1. /\ row \in [Ids -> Row] /\ exec \in [Executions -> Execution]
      /\ \A i \in Ids : row[i].status = "none" /\ tomb[i] = NoRequest
      /\ \A x \in Executions : exec[x].pc = "idle"
  BY BusConstants DEF Init
<1> QED
  BY <1>1 DEF Init, BusInv, TypeOK, RecordsPerformed, ReferencedOnce, ReferencedKept,
              ReservationExclusive

\* Every step of the bus keeps the invariant.
LEMMA BusStep == BusInv /\ [Next]_vars => BusInv'
<1> SUFFICES ASSUME BusInv, [Next]_vars PROVE BusInv'
  OBVIOUS
<1>1. ASSUME NEW x \in Executions, Execute(x) PROVE BusInv'
  <2>1. ASSUME NEW i \in Ids, NEW r \in Requests, Begin(x, i, r) PROVE BusInv'
    BY <2>1, BeginKeeps
  <2>2. CASE TakeLock(x) \/ CheckTombstone(x) \/ Reserve(x)
    BY <2>2, TakeLockKeeps, CheckTombstoneKeeps, ReserveKeeps
  <2>3. CASE Commit(x)
    BY <2>3, CommitKeeps
  <2>4. CASE HandlerRefuses(x)
    BY <2>4, RefuseKeeps DEF HandlerRefuses
  <2>5. CASE RecordFailure(x) \/ Fail(x)
    BY <2>5, RecordFailureKeeps, FailKeeps
  <2> QED
    BY <1>1, <2>1, <2>2, <2>3, <2>4, <2>5 DEF Execute
<1>2. ASSUME NEW i \in Ids, Age(i) PROVE BusInv'
  BY <1>2 DEF Age, BusInv, TypeOK, RecordsPerformed, ReferencedOnce, ReferencedKept,
              ReservationExclusive
<1>3. CASE ApplyRetention
  BY <1>3, BusRetentionKeeps
<1>4. CASE UNCHANGED vars
  BY <1>4 DEF vars, BusInv, TypeOK, RecordsPerformed, ReferencedOnce, ReferencedKept,
              ReservationExclusive
<1> QED
  BY <1>1, <1>2, <1>3, <1>4 DEF Next

\* The inductive invariant of the bus holds in every reachable state: rows and
\* tombstones record performed calls, and a referenced one is recorded for ever.
THEOREM BusInvariant == Spec => []BusInv
BY BusInit, BusStep, PTL DEF Spec

\* Every variable keeps its type and only commands with an outcomeRef leave
\* tombstones.
THEOREM BusTypeCorrect == Spec => []TypeOK
<1>1. BusInv => TypeOK
  BY DEF BusInv
<1> QED
  BY <1>1, BusInvariant, PTL

-----------------------------------------------------------------------------
\* A recorded result is replaced by no refusal (recordFailure's ON CONFLICT DO
\* NOTHING, the guard of the reservation's DO UPDATE): only its age removes it.
THEOREM ResultsStand == Spec => ResultStands
<1> DEFINE Stands ==
      \A i \in Ids : row[i].status = "done" => row'[i] = row[i] \/ (i \in old /\ row'[i] = NoRow)
<1>1. ASSUME BusInv, [Next]_vars PROVE Stands
  <2>1. ASSUME NEW x \in Executions, Execute(x) PROVE Stands
    <3>1. CASE Commit(x)
      <4>1. /\ row' = [row EXCEPT ![exec[x].id] = [status |-> "done", req |-> exec[x].req]]
            /\ row[exec[x].id].status # "done"
        BY <1>1, <3>1 DEF Commit, BusInv, ReservationExclusive
      <4> QED
        BY <1>1, <4>1 DEF BusInv, TypeOK
    <3>2. CASE RecordFailure(x)
      <4>1. \/ row' = row
            \/ /\ row' = [row EXCEPT ![exec[x].id] = [status |-> "failed", req |-> exec[x].req]]
               /\ row[exec[x].id].status = "none"
        BY <3>2 DEF RecordFailure
      <4> QED
        BY <1>1, <4>1 DEF BusInv, TypeOK
    <3>3. CASE row' = row
      BY <3>3
    <3> QED
      BY <2>1, <3>1, <3>2, <3>3
      DEF Execute, Begin, TakeLock, CheckTombstone, Reserve, HandlerRefuses, Fail, Refuse, Replay
  <2>2. CASE ApplyRetention
    BY <2>2 DEF ApplyRetention
  <2>3. CASE (\E i \in Ids : Age(i)) \/ UNCHANGED vars
    BY <2>3 DEF Age, vars
  <2> QED
    BY <1>1, <2>1, <2>2, <2>3 DEF Next
<1>2. ASSUME BusInv, [Next]_vars PROVE [Stands]_vars
  BY <1>1, <1>2
<1> QED
  BY <1>2, BusInvariant, PTL DEF Spec, ResultStands

-----------------------------------------------------------------------------
(* The bus implements the once-only register.                              *)

OnceStep == Idempotence!OnceNext \/ UNCHANGED <<performed, Remembered, answered>>

\* What the bus remembers was performed.
LEMMA RememberedPerformed ==
  ASSUME BusInv
  PROVE  Remembered \subseteq performed
<1>1. ASSUME NEW c \in Remembered PROVE c \in performed
  <2>1. PICK i \in Ids, r \in Requests : c = <<i, r>>
    BY <1>1 DEF Remembered, Calls
  <2>2. row[i] = [status |-> "done", req |-> r] \/ tomb[i] = r
    BY <2>1 DEF Remembered
  <2> QED
    BY <2>1, <2>2, BusAssumption DEF BusInv, RecordsPerformed
<1> QED
  BY <1>1

\* Rows and tombstones that stay keep what is remembered.
LEMMA RememberedKept ==
  ASSUME UNCHANGED <<row, tomb>>
  PROVE  Remembered' = Remembered
BY DEF Remembered

\* An answer from memory is an Answer of Once.
LEMMA ReplayRefines ==
  ASSUME BusInv, NEW x \in Executions, Replay(x), Call(x) \in performed
  PROVE  OnceStep
<1>1. answered' \in {answered, answered \cup {Call(x)}} /\ UNCHANGED <<row, tomb, performed>>
  BY DEF Replay
<1> QED
  BY <1>1, RememberedKept
  DEF OnceStep, Idempotence!OnceNext, Idempotence!Answer

\* A commit performs a call nothing remembers.
LEMMA CommitRefines ==
  ASSUME BusInv, NEW x \in Executions, Commit(x)
  PROVE  OnceStep
<1>1. PICK i \in Ids, r \in Requests : i = exec[x].id /\ r = exec[x].req /\ Call(x) = <<i, r>>
  BY UnderWay DEF Commit, BusInv
<1>2. /\ r \in Referenced => \A q \in Referenced : <<i, q>> \notin performed
      /\ row' = [row EXCEPT ![i] = [status |-> "done", req |-> r]]
      /\ performed' = performed \cup {<<i, r>>}
      /\ answered' \in {answered, answered \cup {<<i, r>>}}
      /\ tomb' = tomb
      /\ row[i].status # "done"
  BY <1>1 DEF Commit, MayPerform, Produced, BusInv, ReservationExclusive
<1>3. <<i, r>> \in Calls \ Remembered
  <2>1. tomb[i] # r
    BY <1>2, BusAssumption DEF BusInv, TypeOK, RecordsPerformed
  <2> QED
    BY <1>2, <2>1 DEF Remembered, Calls
<1>4. Remembered' = Remembered \cup {<<i, r>>}
  <2>1. \A c \in Calls : c \in Remembered' <=> c \in Remembered \/ c = <<i, r>>
    <3>1. ASSUME NEW j \in Ids, NEW q \in Requests
          PROVE  <<j, q>> \in Remembered' <=> <<j, q>> \in Remembered \/ <<j, q>> = <<i, r>>
      <4>1. row'[j] = IF j = i THEN [status |-> "done", req |-> r] ELSE row[j]
        BY <1>2 DEF BusInv, TypeOK
      <4> QED
        BY <1>2, <4>1 DEF Remembered, Calls
    <3> QED
      BY <3>1 DEF Calls
  <2> QED
    BY <1>3, <2>1 DEF Remembered
<1> QED
  BY <1>2, <1>3, <1>4 DEF OnceStep, Idempotence!OnceNext, Idempotence!Perform

\* Recording a refusal changes nothing that Once sees.
LEMMA RecordFailureRefines ==
  ASSUME BusInv, NEW x \in Executions, RecordFailure(x)
  PROVE  OnceStep
<1>1. /\ \/ row' = row
         \/ /\ row' = [row EXCEPT ![exec[x].id] = [status |-> "failed", req |-> exec[x].req]]
            /\ row[exec[x].id].status = "none"
      /\ UNCHANGED <<tomb, performed, answered>>
  BY DEF RecordFailure
<1>2. \A i \in Ids : row'[i] = row[i] \/ (row[i].status = "none" /\ row'[i].status = "failed")
  BY <1>1 DEF BusInv, TypeOK
<1>3. \A i \in Ids, r \in Requests :
        row'[i] = [status |-> "done", req |-> r] <=> row[i] = [status |-> "done", req |-> r]
  BY <1>2
<1>4. Remembered' = Remembered
  BY <1>1, <1>3 DEF Remembered, Calls
<1> QED
  BY <1>1, <1>4 DEF OnceStep

\* A sweep forgets unreferenced calls alone: the others leave a tombstone.
LEMMA BusRetentionRefines ==
  ASSUME BusInv, ApplyRetention
  PROVE  OnceStep
<1>1. /\ \A i \in Ids : /\ row'[i] = IF i \in old THEN NoRow ELSE row[i]
                        /\ tomb'[i] = Tombstone(i)
      /\ UNCHANGED <<performed, answered>>
  BY DEF ApplyRetention
<1>2. Remembered' \subseteq Remembered
  <2>1. ASSUME NEW i \in Ids, NEW r \in Requests, <<i, r>> \in Remembered'
        PROVE  <<i, r>> \in Remembered
    <3>1. row'[i] = [status |-> "done", req |-> r] \/ tomb'[i] = r
      BY <2>1 DEF Remembered
    <3>2. row[i] \in Row
      BY DEF BusInv, TypeOK
    <3>3. row[i] = [status |-> "done", req |-> r] \/ tomb[i] = r
      BY <1>1, <3>1, <3>2, RowParts, BusConstants DEF Tombstone
    <3> QED
      BY <3>3 DEF Remembered, Calls
  <2> QED
    BY <2>1 DEF Remembered, Calls
<1>3. (Remembered \ Remembered') \cap (Ids \X Referenced) = {}
  <2>1. ASSUME NEW i \in Ids, NEW r \in Referenced, <<i, r>> \in Remembered
        PROVE  <<i, r>> \in Remembered'
    <3>1. BusInv' /\ <<i, r>> \in performed'
      BY <1>1, <2>1, BusRetentionKeeps, RememberedPerformed
    <3>2. row'[i] = [status |-> "done", req |-> r] \/ tomb'[i] = r
      BY <3>1 DEF BusInv, ReferencedKept
    <3> QED
      BY <3>2, BusAssumption DEF Remembered, Calls
  <2> QED
    BY <2>1
<1>4. PICK C \in SUBSET (Remembered \ (Ids \X Referenced)) : C = Remembered \ Remembered'
  BY <1>3
<1>5. Remembered' = Remembered \ C
  BY <1>2, <1>4
<1> QED
  BY <1>1, <1>5 DEF OnceStep, Idempotence!OnceNext, Idempotence!Forget

\* A remembered call is not performed again, success is answered only for what
\* was performed, and a call with an outcomeRef is remembered for ever, whatever
\* duplicates, failures, lost answers and sweeps do.
THEOREM BusImplementsOnce == Spec => OnceRefined
<1>1. Init => Idempotence!OnceInit
  <2> SUFFICES ASSUME Init PROVE Idempotence!OnceInit
    OBVIOUS
  <2>1. Remembered = {}
    <3>1. \A i \in Ids : row[i].status = "none" /\ tomb[i] = NoRequest
      BY BusConstants DEF Init
    <3> QED
      BY <3>1, BusAssumption DEF Remembered, Calls
  <2> QED
    BY <2>1 DEF Init, Idempotence!OnceInit
<1>2. ASSUME BusInv, [Next]_vars PROVE [Idempotence!OnceNext]_(Idempotence!ovars)
  <2>1. SUFFICES OnceStep
    BY <2>1 DEF OnceStep, Idempotence!ovars
  <2>2. ASSUME NEW x \in Executions, Execute(x) PROVE OnceStep
    <3>1. CASE CheckTombstone(x)
      <4>1. CASE tomb[exec[x].id] = exec[x].req /\ Replay(x)
        <5>1. exec[x].pc # "idle"
          BY <3>1 DEF CheckTombstone
        <5>2. Call(x) \in performed
          BY <1>2, <4>1, <5>1, UnderWay, BusAssumption DEF BusInv, RecordsPerformed
        <5> QED
          BY <1>2, <4>1, <5>2, ReplayRefines
      <4> QED
        BY <3>1, <4>1, RememberedKept DEF CheckTombstone, Refuse, OnceStep
    <3>2. CASE Reserve(x)
      <4>1. CASE row[exec[x].id].status = "done" /\ row[exec[x].id].req = exec[x].req /\ Replay(x)
        <5>1. exec[x].pc # "idle"
          BY <3>2 DEF Reserve
        <5>2. Call(x) \in performed
          BY <1>2, <4>1, <5>1, UnderWay DEF BusInv, RecordsPerformed
        <5> QED
          BY <1>2, <4>1, <5>2, ReplayRefines
      <4> QED
        BY <3>2, <4>1, RememberedKept DEF Reserve, Refuse, OnceStep
    <3>3. CASE Commit(x)
      BY <1>2, <3>3, CommitRefines
    <3>4. CASE RecordFailure(x)
      BY <1>2, <3>4, RecordFailureRefines
    <3>5. CASE (\E i \in Ids, r \in Requests : Begin(x, i, r)) \/ TakeLock(x) \/ HandlerRefuses(x) \/ Fail(x)
      BY <3>5, RememberedKept DEF Begin, TakeLock, HandlerRefuses, Fail, Refuse, OnceStep
    <3> QED
      BY <2>2, <3>1, <3>2, <3>3, <3>4, <3>5 DEF Execute
  <2>3. CASE ApplyRetention
    BY <1>2, <2>3, BusRetentionRefines
  <2>4. CASE (\E i \in Ids : Age(i)) \/ UNCHANGED vars
    BY <2>4, RememberedKept DEF Age, vars, OnceStep
  <2> QED
    BY <1>2, <2>2, <2>3, <2>4 DEF Next
<1> QED
  BY <1>1, <1>2, BusInvariant, PTL DEF Spec, OnceRefined, Idempotence!OnceSpec
=============================================================================

----------------------------- MODULE CommandBus -----------------------------
(***************************************************************************)
(* The command bus (packages/server, cqrs/bus.ts): idempotent execution of *)
(* the commands of one scope, a player's or the game's, retried by clients *)
(* and executed concurrently, while apply_retention ages the memory of     *)
(* them into tombstones.                                                   *)
(*                                                                         *)
(* An execution is one transaction of several statements, each a step, and *)
(* what it writes is seen when it commits.  A request stands for a command *)
(* type and its payload, as request_hash does.  Definitions marked "Fault" *)
(* are bugs the properties are tried against; nothing uses them.           *)
(***************************************************************************)
EXTENDS Naturals, FiniteSets

CONSTANTS
  Ids,          \* command ids
  Requests,     \* what a command id may be sent with
  NoRequest,
  Referenced,   \* requests with an outcomeRef, whose fact carries the command id (all
                \* but lineage.restart, whose restart_id SaveLedger's RestartOnce is about)
  Locking,      \* requests whose command takes the scope's advisory lock
  Executions    \* executions under way at once, in whichever process

ASSUME BusAssumption ==
  /\ NoRequest \notin Requests
  /\ Referenced \subseteq Requests
  /\ Locking \subseteq Requests

VARIABLES
  row,          \* commands, as committed, by command id
  old,          \* ids whose row was received longer ago than its retention
  tomb,         \* command_tombstones: the request of each command id
  performed,    \* the calls whose effect was committed
  answered,     \* the calls a success was returned for
  exec          \* the executions

vars == <<row, old, tomb, performed, answered, exec>>

Calls == Ids \X Requests

Row == [status : {"none"}, req : {NoRequest}] \cup [status : {"done", "failed"}, req : Requests]
NoRow == [status |-> "none", req |-> NoRequest]

\* Where an execution is: waiting for its lock, before the tombstone check,
\* before the reservation, holding it, or rolled back with the refusal unrecorded.
Execution ==
  [pc : {"idle"}, id : {NoRequest}, req : {NoRequest}] \cup
  [pc : {"begun", "entered", "unknown", "reserved", "refused"}, id : Ids, req : Requests]
Idle == [pc |-> "idle", id |-> NoRequest, req |-> NoRequest]

Init ==
  /\ row = [i \in Ids |-> NoRow]
  /\ old = {}
  /\ tomb = [i \in Ids |-> NoRequest]
  /\ performed = {}
  /\ answered = {}
  /\ exec = [x \in Executions |-> Idle]

Call(x) == <<exec[x].id, exec[x].req>>

Moves(x, pc) == exec' = [exec EXCEPT ![x].pc = pc]
Ends(x) == exec' = [exec EXCEPT ![x] = Idle]

\* The transaction is rolled back on a refusal, which is recorded next.
Refuse(x) == Moves(x, "refused") /\ UNCHANGED <<row, old, tomb, performed, answered>>

Replay(x) ==
  /\ answered' \in {answered, answered \cup {Call(x)}}
  /\ Ends(x)
  /\ UNCHANGED <<row, old, tomb, performed>>

-----------------------------------------------------------------------------
(* run: the middleware that may refuse before the transaction changes      *)
(* nothing and is left out.                                                *)

Begin(x, i, r) ==
  /\ exec[x].pc = "idle"
  /\ exec' = [exec EXCEPT ![x] = [pc |-> "begun", id |-> i, req |-> r]]
  /\ UNCHANGED <<row, old, tomb, performed, answered>>

InTransaction(x) == exec[x].pc \in {"entered", "unknown", "reserved"}

TakeLock(x) ==
  /\ exec[x].pc = "begun"
  /\ exec[x].req \in Locking =>
       \A y \in Executions : ~(InTransaction(y) /\ exec[y].req \in Locking)
  /\ Moves(x, "entered")
  /\ UNCHANGED <<row, old, tomb, performed, answered>>

\* reserve, first statement: a tombstone stands for a row already swept.
CheckTombstone(x) ==
  /\ exec[x].pc = "entered"
  /\ \/ tomb[exec[x].id] = NoRequest
        /\ Moves(x, "unknown")
        /\ UNCHANGED <<row, old, tomb, performed, answered>>
     \/ tomb[exec[x].id] = exec[x].req /\ Replay(x)
     \/ tomb[exec[x].id] \notin {NoRequest, exec[x].req} /\ Refuse(x)

\* The unique index makes a duplicate wait for the transaction that reserved.
Contested(x) ==
  \E y \in Executions : y # x /\ exec[y].pc = "reserved" /\ exec[y].id = exec[x].id

\* The insert on conflict, and the read of what it conflicted with: the conflict
\* locks the row, so nothing comes between them.  A failed row is reserved anew
\* and keeps its received_at.
Reserve(x) ==
  /\ exec[x].pc = "unknown"
  /\ ~Contested(x)
  /\ LET found == row[exec[x].id] IN
     \/ /\ found.status = "none" \/ (found.status = "failed" /\ found.req = exec[x].req)
        /\ Moves(x, "reserved")
        /\ UNCHANGED <<row, old, tomb, performed, answered>>
     \/ found.status = "done" /\ found.req = exec[x].req /\ Replay(x)
     \/ found.status # "none" /\ found.req # exec[x].req /\ Refuse(x)

\* What a referenced request produces carries its command id under a unique
\* constraint: the handler fails rather than produce it twice.
Produced(i) == \E r \in Referenced : <<i, r>> \in performed

\* Fault: nothing keeps a command id from producing twice.
MayPerformAgain(x) == exec[x].req \in Requests

MayPerform(x) == exec[x].req \in Referenced => ~Produced(exec[x].id)

\* The handler succeeds, the row is finalised and the transaction commits; the
\* answer may be lost.
Commit(x) ==
  /\ exec[x].pc = "reserved"
  /\ MayPerform(x)
  /\ row' = [row EXCEPT ![exec[x].id] = [status |-> "done", req |-> exec[x].req]]
  /\ performed' = performed \cup {Call(x)}
  /\ answered' \in {answered, answered \cup {Call(x)}}
  /\ Ends(x)
  /\ UNCHANGED <<old, tomb>>

\* The handler refuses: it threw an AppError that is not retry_later.
HandlerRefuses(x) == exec[x].pc = "reserved" /\ Refuse(x)

\* Anything else ends the execution and leaves nothing behind: an error of the
\* database, a timeout of a wait, retry_later, a lost connection or process.
Fail(x) ==
  /\ exec[x].pc # "idle"
  /\ Ends(x)
  /\ UNCHANGED <<row, old, tomb, performed, answered>>

\* Fault: a recorded refusal replaces whatever the row says.
RecordFailureOverwriting(x) ==
  /\ exec[x].pc = "refused"
  /\ row' = [row EXCEPT ![exec[x].id] = [status |-> "failed", req |-> exec[x].req]]
  /\ Ends(x)
  /\ UNCHANGED <<old, tomb, performed, answered>>

\* recordFailure, a statement of its own after the rollback: it waits for a
\* reservation not committed yet, and yields to a row that is there.
RecordFailure(x) ==
  /\ exec[x].pc = "refused"
  /\ row[exec[x].id].status = "none" => ~Contested(x)
  /\ row' = IF row[exec[x].id].status = "none"
            THEN [row EXCEPT ![exec[x].id] = [status |-> "failed", req |-> exec[x].req]]
            ELSE row
  /\ Ends(x)
  /\ UNCHANGED <<old, tomb, performed, answered>>

-----------------------------------------------------------------------------
(* apply_retention, as far as it sweeps commands: one transaction.         *)

Age(i) ==
  /\ row[i].status # "none"
  /\ old' = old \cup {i}
  /\ UNCHANGED <<row, tomb, performed, answered, exec>>

\* Fault: every swept command leaves a tombstone, refused ones too.
TombstoneOfAny(i) ==
  IF i \in old /\ tomb[i] = NoRequest THEN row[i].req ELSE tomb[i]

\* Only a finished command with an outcome_ref leaves a tombstone.
Tombstone(i) ==
  IF i \in old /\ tomb[i] = NoRequest /\ row[i].status = "done" /\ row[i].req \in Referenced
  THEN row[i].req ELSE tomb[i]

\* The DELETE waits for a transaction that reserved an expired row anew.
ApplyRetention ==
  /\ \A x \in Executions : exec[x].pc = "reserved" => exec[x].id \notin old
  /\ row' = [i \in Ids |-> IF i \in old THEN NoRow ELSE row[i]]
  /\ tomb' = [i \in Ids |-> Tombstone(i)]
  /\ old' = {}
  /\ UNCHANGED <<performed, answered, exec>>

-----------------------------------------------------------------------------
Execute(x) ==
  \/ \E i \in Ids, r \in Requests : Begin(x, i, r)
  \/ TakeLock(x)
  \/ CheckTombstone(x)
  \/ Reserve(x)
  \/ Commit(x)
  \/ HandlerRefuses(x)
  \/ RecordFailure(x)
  \/ Fail(x)

Next ==
  \/ \E x \in Executions : Execute(x)
  \/ \E i \in Ids : Age(i)
  \/ ApplyRetention

Spec == Init /\ [][Next]_vars

-----------------------------------------------------------------------------
(* Properties.                                                             *)

\* Every variable has its type; tombstones are of referenced requests alone.
TypeOK ==
  /\ row \in [Ids -> Row]
  /\ old \subseteq {i \in Ids : row[i].status # "none"}
  /\ tomb \in [Ids -> Referenced \cup {NoRequest}]
  /\ performed \subseteq Calls
  /\ answered \subseteq Calls
  /\ exec \in [Executions -> Execution]

Remembered ==
  {c \in Calls : row[c[1]] = [status |-> "done", req |-> c[2]] \/ tomb[c[1]] = c[2]}

\* A remembered call is not performed again, success is answered only for the
\* very request that was performed, and a referenced call is remembered for ever,
\* however duplicates, failures and sweeps interleave.
Idempotence ==
  INSTANCE Once WITH Lasting <- Ids \X Referenced, remembered <- Remembered

OnceRefined == Idempotence!OnceSpec

\* A recorded result stands until it is swept for its age: no refusal of a
\* concurrent or later attempt replaces it.
ResultStands ==
  [][\A i \in Ids : row[i].status = "done" => row'[i] = row[i] \/ (i \in old /\ row'[i] = NoRow)]_vars
=============================================================================

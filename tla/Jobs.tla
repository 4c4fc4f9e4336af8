-------------------------------- MODULE Jobs --------------------------------
(***************************************************************************)
(* Scheduled jobs (packages/server, jobs/index.ts): every replica's runner, *)
(* with its slots, a job's advisory lock in a transaction of its own, and   *)
(* the heartbeats of job_runs, while replicas die and connections break.    *)
(*                                                                          *)
(* A heartbeat is recent until its job's interval has passed; what time is  *)
(* within the interval makes no difference.  Definitions marked "Fault" are *)
(* bugs the properties are tried against; nothing uses them.                *)
(***************************************************************************)
EXTENDS Naturals, Sequences, FiniteSets

CONSTANTS
  Replicas,
  JobNames,       \* scheduled jobs, of a minute or slower
  MaxConcurrent,  \* slots of a replica
  NoReplica

ASSUME JobsAssumption == MaxConcurrent \in Nat \ {0} /\ NoReplica \notin Replicas

VARIABLES
  phase,        \* where runOne is for each replica and job
  mode,         \* what it was called with
  waiters,      \* a replica's queue for a slot
  active,       \* its slots in use
  jobLock,      \* the replica whose transaction holds a job's advisory lock
  recentOk,     \* jobs with a committed heartbeat of a success within the interval
  recentTry     \* jobs with a committed heartbeat within the retry delay

jobsVars == <<phase, mode, waiters, active, jobLock, recentOk, recentTry>>

\* "orphaned": its connection is gone and with it the lock, job.run() goes on.
Phases == {"idle", "waiting", "slotted", "locked", "working", "orphaned"}
Modes == {"due", "force"}

JobsInit ==
  /\ phase = [r \in Replicas |-> [j \in JobNames |-> "idle"]]
  /\ mode = [r \in Replicas |-> [j \in JobNames |-> "due"]]
  /\ waiters = [r \in Replicas |-> <<>>]
  /\ active = [r \in Replicas |-> 0]
  /\ jobLock = [j \in JobNames |-> NoReplica]
  /\ recentOk = {} /\ recentTry = {}

\* A timer, the boot or an operator calls runOne; `running` refuses a second call.
Call(r, j, m) ==
  /\ phase[r][j] = "idle"
  /\ mode' = [mode EXCEPT ![r][j] = m]
  /\ \/ /\ active[r] < MaxConcurrent
        /\ active' = [active EXCEPT ![r] = @ + 1]
        /\ phase' = [phase EXCEPT ![r][j] = "slotted"]
        /\ UNCHANGED waiters
     \/ /\ active[r] >= MaxConcurrent
        /\ waiters' = [waiters EXCEPT ![r] = Append(@, j)]
        /\ phase' = [phase EXCEPT ![r][j] = "waiting"]
        /\ UNCHANGED active
  /\ UNCHANGED <<jobLock, recentOk, recentTry>>

\* Fault: the slot is freed and the next waiter called, which counts it no more.
FinishFreeing(r, j) ==
  /\ active' = [active EXCEPT ![r] = @ - 1]
  /\ IF waiters[r] = <<>>
     THEN phase' = [phase EXCEPT ![r][j] = "idle"] /\ UNCHANGED waiters
     ELSE /\ phase' = [phase EXCEPT ![r][j] = "idle", ![r][Head(waiters[r])] = "slotted"]
          /\ waiters' = [waiters EXCEPT ![r] = Tail(@)]

\* release() in `finally`: the slot goes straight to the next waiter.
Finish(r, j) ==
  IF waiters[r] = <<>>
  THEN /\ active' = [active EXCEPT ![r] = @ - 1]
       /\ phase' = [phase EXCEPT ![r][j] = "idle"]
       /\ UNCHANGED waiters
  ELSE /\ phase' = [phase EXCEPT ![r][j] = "idle", ![r][Head(waiters[r])] = "slotted"]
       /\ waiters' = [waiters EXCEPT ![r] = Tail(@)]
       /\ UNCHANGED active

\* Fault: the lock is taken outside the transaction, and is free again at once.
TryLockAtOnce(r, j) ==
  /\ phase[r][j] = "slotted"
  /\ \/ jobLock[j] = NoReplica /\ phase' = [phase EXCEPT ![r][j] = "locked"] /\ UNCHANGED <<waiters, active>>
     \/ jobLock[j] # NoReplica /\ Finish(r, j)
  /\ UNCHANGED <<mode, jobLock, recentOk, recentTry>>

\* pg_try_advisory_xact_lock: held elsewhere ends the call.
TryLock(r, j) ==
  /\ phase[r][j] = "slotted"
  /\ \/ /\ jobLock[j] = NoReplica
        /\ jobLock' = [jobLock EXCEPT ![j] = r]
        /\ phase' = [phase EXCEPT ![r][j] = "locked"]
        /\ UNCHANGED <<waiters, active>>
     \/ jobLock[j] # NoReplica /\ Finish(r, j) /\ UNCHANGED jobLock
  /\ UNCHANGED <<mode, recentOk, recentTry>>

Unlock(r, j) == jobLock' = [jobLock EXCEPT ![j] = IF @ = r THEN NoReplica ELSE @]

Due(j) == j \notin recentOk /\ j \notin recentTry

\* Fault: the lock alone decides, the heartbeats are not read again under it.
DecideByLock(r, j) ==
  /\ phase[r][j] = "locked"
  /\ phase' = [phase EXCEPT ![r][j] = "working"]
  /\ UNCHANGED <<waiters, active, jobLock, mode, recentOk, recentTry>>

\* The heartbeats are read under the lock.
Decide(r, j) ==
  /\ phase[r][j] = "locked"
  /\ \/ /\ mode[r][j] = "force" \/ Due(j)
        /\ phase' = [phase EXCEPT ![r][j] = "working"]
        /\ UNCHANGED <<waiters, active, jobLock>>
     \/ mode[r][j] = "due" /\ ~Due(j) /\ Finish(r, j) /\ Unlock(r, j)
  /\ UNCHANGED <<mode, recentOk, recentTry>>

\* job.run() ends, well or not, and the heartbeat commits with the lock's transaction.
JobEnds(r, j) ==
  /\ phase[r][j] = "working"
  /\ recentOk' \in {recentOk, recentOk \cup {j}}
  /\ recentTry' = recentTry \cup {j}
  /\ Finish(r, j) /\ Unlock(r, j)
  /\ UNCHANGED mode

\* The lock's connection breaks: the heartbeat is rolled back, the lock is free,
\* and job.run(), on connections of its own, goes on.
LoseConnection(r, j) ==
  /\ phase[r][j] = "working"
  /\ phase' = [phase EXCEPT ![r][j] = "orphaned"]
  /\ Unlock(r, j)
  /\ UNCHANGED <<mode, waiters, active, recentOk, recentTry>>

\* Fault: the heartbeat is written on a connection of its own, which the loss of the
\* lock's does not touch.
OrphanEndsRecording(r, j) ==
  /\ phase[r][j] = "orphaned"
  /\ recentOk' = recentOk \cup {j} /\ recentTry' = recentTry \cup {j}
  /\ Finish(r, j)
  /\ UNCHANGED <<mode, jobLock>>

OrphanEnds(r, j) ==
  /\ phase[r][j] = "orphaned"
  /\ Finish(r, j)
  /\ UNCHANGED <<mode, jobLock, recentOk, recentTry>>

\* A query of the runner fails before the job has started.
RunnerFails(r, j) ==
  /\ phase[r][j] \in {"slotted", "locked"}
  /\ Finish(r, j) /\ Unlock(r, j)
  /\ UNCHANGED <<mode, recentOk, recentTry>>

Die(r) ==
  /\ phase' = [phase EXCEPT ![r] = [j \in JobNames |-> "idle"]]
  /\ waiters' = [waiters EXCEPT ![r] = <<>>]
  /\ active' = [active EXCEPT ![r] = 0]
  /\ jobLock' = [j \in JobNames |-> IF jobLock[j] = r THEN NoReplica ELSE jobLock[j]]
  /\ UNCHANGED <<mode, recentOk, recentTry>>

\* The retry delay passes before the interval does.
Age(j) ==
  \/ j \in recentTry /\ recentTry' = recentTry \ {j} /\ UNCHANGED recentOk
  \/ j \in recentOk \ recentTry /\ recentOk' = recentOk \ {j} /\ UNCHANGED recentTry

JobsNext ==
  \/ \E r \in Replicas, j \in JobNames :
       \/ \E m \in Modes : Call(r, j, m)
       \/ TryLock(r, j) \/ Decide(r, j) \/ JobEnds(r, j)
       \/ LoseConnection(r, j) \/ OrphanEnds(r, j) \/ RunnerFails(r, j)
  \/ \E r \in Replicas : Die(r)
  \/ \E j \in JobNames : Age(j) /\ UNCHANGED <<phase, mode, waiters, active, jobLock>>

JobsSpec == JobsInit /\ [][JobsNext]_jobsVars

-----------------------------------------------------------------------------
(* Properties. *)

JobsTypeOK ==
  /\ phase \in [Replicas -> [JobNames -> Phases]]
  /\ mode \in [Replicas -> [JobNames -> Modes]]
  /\ waiters \in [Replicas -> Seq(JobNames)]
  /\ active \in [Replicas -> 0..MaxConcurrent]
  /\ jobLock \in [JobNames -> Replicas \cup {NoReplica}]
  /\ recentOk \subseteq JobNames /\ recentTry \subseteq JobNames

\* Two replicas run a job at once only after the connection of one broke under
\* it ("so replicas never double-run it", jobs/index.ts:8).
NeverTwiceAtOnce ==
  \A j \in JobNames, r, s \in Replicas :
    r # s => ~(phase[r][j] = "working" /\ phase[s][j] = "working")

\* The due check is read once, before the job runs, and stays true until it ends:
\* nothing records a heartbeat under a due run, not a forced run, nor another
\* replica's, nor the end of one that lost its connection and its lock.
RunsWhileDue ==
  \A r \in Replicas, j \in JobNames :
    phase[r][j] = "working" /\ mode[r][j] = "due" => Due(j)
=============================================================================

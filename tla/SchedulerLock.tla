---------------------------- MODULE SchedulerLock ----------------------------
(***************************************************************************)
(* The scheduler's jobs (scraper/scheduler.py), the leadership lock they   *)
(* take (AdvisoryLock in scraper/db.py) and the job_runs rows that record  *)
(* them (scraper/job_runs.py).  A job that runs in several instances is    *)
(* meant to do its work in one of them; within a process the two locking   *)
(* jobs also exclude each other by an asyncio lock.  The advisory lock     *)
(* belongs to a database session of its own and ends with it.              *)
(***************************************************************************)
EXTENDS Naturals, FiniteSets, Sequences

CONSTANTS
    Instances,      \* scheduler processes
    Jobs,           \* jobs that take the lock: "pipeline" and "history"
    Keys,           \* advisory lock keys
    KeyOf,          \* [Instances -> [Jobs -> Keys]]: _key_for in each process
    NoHolder,       \* a key nobody has locked
    MaxFired,       \* bound: runs the cron triggers start
    MaxLost,        \* bound: lock sessions the database drops
    MaxStops,       \* bound: processes that crash or are shut down
    MaxDbFailures   \* bound: failed statements on job_runs

ASSUME SchedulerAssumption ==
    /\ IsFiniteSet(Instances) /\ IsFiniteSet(Jobs)
    /\ KeyOf \in [Instances -> [Jobs -> Keys]]
    /\ NoHolder \notin Instances \X Jobs
    /\ {MaxFired, MaxLost, MaxStops, MaxDbFailures} \subseteq Nat

VARIABLES
    run,            \* [Instances -> [Jobs -> RunState]]: max_instances is 1
    locked,         \* [Instances -> BOOLEAN]: PIPELINE_LOCK._local
    holder,         \* [Keys -> sessions]: pg_locks
    rows,           \* job_runs: the status of each row, by id
    worked,         \* ids of rows whose run has done its work (history)
    failed,         \* ids of rows whose run's work raised (history)
    fired, lost, stops, dbFailures

vars == <<run, locked, holder, rows, worked, failed, fired, lost, stops, dbFailures>>

Status == {"running", "ok", "skipped"}

(* A run: where it is, the id of its row (0: none) and its outcome.        *)
RunState ==
    [pc : {"idle", "open", "check", "connect", "body", "unlock", "close"},
     row : Nat, outcome : Status]

NotRunning == [pc |-> "idle", row |-> 0, outcome |-> "running"]

AllIdle == [j \in Jobs |-> NotRunning]

SchedulerTypeOK ==
    /\ run \in [Instances -> [Jobs -> RunState]]
    /\ locked \in [Instances -> BOOLEAN]
    /\ holder \in [Keys -> (Instances \X Jobs) \cup {NoHolder}]
    /\ rows \in Seq(Status)
    /\ worked \subseteq Nat /\ failed \subseteq Nat
    /\ fired \in Nat /\ lost \in Nat /\ stops \in Nat /\ dbFailures \in Nat

Init ==
    /\ run = [i \in Instances |-> AllIdle]
    /\ locked = [i \in Instances |-> FALSE]
    /\ holder = [k \in Keys |-> NoHolder]
    /\ rows = <<>>
    /\ worked = {} /\ failed = {}
    /\ fired = 0 /\ lost = 0 /\ stops = 0 /\ dbFailures = 0

-----------------------------------------------------------------------------
At(i, j, pc) == run[i][j].pc = pc
Goto(i, j, pc) == run' = [run EXCEPT ![i][j].pc = pc]
End(i, j, outcome) ==
    run' = [run EXCEPT ![i][j] =
                [pc |-> "close", row |-> @.row, outcome |-> outcome]]
bookkeepingSame == UNCHANGED <<rows, worked, failed, fired, lost, stops, dbFailures>>

Fire(i, j) ==
    /\ At(i, j, "idle")
    /\ fired < MaxFired
    /\ fired' = fired + 1
    /\ Goto(i, j, "open")
    /\ UNCHANGED <<locked, holder, rows, worked, failed, lost, stops, dbFailures>>

(* start_job_run: a history that cannot be written does not stop the job.  *)
OpenRow(i, j) ==
    /\ At(i, j, "open")
    /\ rows' = Append(rows, "running")
    /\ run' = [run EXCEPT ![i][j] =
                  [@ EXCEPT !.pc = "check", !.row = Len(rows) + 1]]
    /\ UNCHANGED <<locked, holder, worked, failed, fired, lost, stops, dbFailures>>

OpenRowFails(i, j) ==
    /\ At(i, j, "open")
    /\ dbFailures < MaxDbFailures
    /\ dbFailures' = dbFailures + 1
    /\ Goto(i, j, "check")
    /\ UNCHANGED <<locked, holder, rows, worked, failed, fired, lost, stops>>

(* The test of the process's own lock and its acquisition are not          *)
(* separated by an await.                                                  *)
Skip(i, j) ==
    /\ At(i, j, "check") /\ locked[i]
    /\ End(i, j, "skipped")
    /\ UNCHANGED <<locked, holder>> /\ bookkeepingSame

TakeLocal(i, j) ==
    /\ At(i, j, "check") /\ ~locked[i]
    /\ locked' = [locked EXCEPT ![i] = TRUE]
    /\ Goto(i, j, "connect")
    /\ UNCHANGED holder /\ bookkeepingSame

(* pg_try_advisory_lock, in a session opened for it.                       *)
Lead(i, j) ==
    /\ At(i, j, "connect")
    /\ holder[KeyOf[i][j]] = NoHolder
    /\ holder' = [holder EXCEPT ![KeyOf[i][j]] = <<i, j>>]
    /\ Goto(i, j, "body")
    /\ UNCHANGED locked /\ bookkeepingSame

(* Mutants: the local lock is kept; the caller takes no lock for the end   *)
(* of its work, or for an outcome of its own.                              *)
MutRefusedKeepsLocal(i, j) ==
    /\ At(i, j, "connect")
    /\ holder[KeyOf[i][j]] # NoHolder
    /\ End(i, j, "skipped")
    /\ UNCHANGED <<locked, holder>> /\ bookkeepingSame

\* Mutant: a run that was refused the lock is recorded as done.
MutRefusedReportsOk(i, j) ==
    /\ At(i, j, "connect")
    /\ holder[KeyOf[i][j]] # NoHolder
    /\ locked' = [locked EXCEPT ![i] = FALSE]
    /\ End(i, j, "ok")
    /\ UNCHANGED holder /\ bookkeepingSame

Refused(i, j) ==
    /\ At(i, j, "connect")
    /\ holder[KeyOf[i][j]] # NoHolder
    /\ locked' = [locked EXCEPT ![i] = FALSE]
    /\ End(i, j, "skipped")
    /\ UNCHANGED holder /\ bookkeepingSame

AcquireFails(i, j) ==
    /\ At(i, j, "connect")
    /\ dbFailures < MaxDbFailures
    /\ dbFailures' = dbFailures + 1
    /\ locked' = [locked EXCEPT ![i] = FALSE]
    /\ End(i, j, "skipped")
    /\ UNCHANGED <<holder, rows, worked, failed, fired, lost, stops>>

BodyEnds(i, j) ==
    /\ At(i, j, "body")
    /\ worked' = worked \cup ({run[i][j].row} \ {0})
    /\ Goto(i, j, "unlock")
    /\ UNCHANGED <<locked, holder, rows, failed, fired, lost, stops, dbFailures>>

(* The work raises: the job logs the exception, swallows it and goes on to *)
(* release the lock and to return "ok", as if it had worked.               *)
BodyRaises(i, j) ==
    /\ At(i, j, "body")
    /\ failed' = failed \cup ({run[i][j].row} \ {0})
    /\ Goto(i, j, "unlock")
    /\ UNCHANGED <<locked, holder, rows, worked, fired, lost, stops, dbFailures>>

(* What the keys are left with when sessions close.                        *)
Unheld(sessions) ==
    [k \in Keys |-> IF holder[k] \in sessions THEN NoHolder ELSE holder[k]]

(* Mutant: the session goes back to a pool with its lock.                  *)
MutPooledSession(i, j) ==
    /\ At(i, j, "unlock")
    /\ locked' = [locked EXCEPT ![i] = FALSE]
    /\ End(i, j, "ok")
    /\ UNCHANGED holder /\ bookkeepingSame

(* Unlocking is best effort: closing the session frees what it still held. *)
Unlock(i, j) ==
    /\ At(i, j, "unlock")
    /\ holder' = Unheld({<<i, j>>})
    /\ locked' = [locked EXCEPT ![i] = FALSE]
    /\ End(i, j, "ok")
    /\ bookkeepingSame

CloseRow(i, j) ==
    /\ At(i, j, "close")
    /\ rows' = IF run[i][j].row = 0 THEN rows
               ELSE [rows EXCEPT ![run[i][j].row] = run[i][j].outcome]
    /\ run' = [run EXCEPT ![i][j] = NotRunning]
    /\ UNCHANGED <<locked, holder, worked, failed, fired, lost, stops, dbFailures>>

CloseRowFails(i, j) ==
    /\ At(i, j, "close")
    /\ run[i][j].row # 0
    /\ dbFailures < MaxDbFailures
    /\ dbFailures' = dbFailures + 1
    /\ run' = [run EXCEPT ![i][j] = NotRunning]
    /\ UNCHANGED <<locked, holder, rows, worked, failed, fired, lost, stops>>

(* The database drops an idle lock session; the job does not notice.       *)
SessionLost(k) ==
    /\ holder[k] # NoHolder
    /\ lost < MaxLost
    /\ lost' = lost + 1
    /\ holder' = [holder EXCEPT ![k] = NoHolder]
    /\ UNCHANGED <<run, locked, rows, worked, failed, fired, stops, dbFailures>>

(* A process crashes, or is shut down and its jobs are cancelled; it comes *)
(* back with nothing running.                                              *)
Stop(i) ==
    /\ stops < MaxStops
    /\ stops' = stops + 1
    /\ run' = [run EXCEPT ![i] = AllIdle]
    /\ locked' = [locked EXCEPT ![i] = FALSE]
    /\ holder' = Unheld({i} \X Jobs)
    /\ UNCHANGED <<rows, worked, failed, fired, lost, dbFailures>>

Advance(i, j) ==
    \/ OpenRow(i, j) \/ OpenRowFails(i, j) \/ Skip(i, j) \/ TakeLocal(i, j)
    \/ Lead(i, j) \/ Refused(i, j) \/ AcquireFails(i, j) \/ BodyEnds(i, j)
    \/ BodyRaises(i, j) \/ Unlock(i, j) \/ CloseRow(i, j) \/ CloseRowFails(i, j)

Next ==
    \/ \E i \in Instances, j \in Jobs : Fire(i, j) \/ Advance(i, j)
    \/ \E i \in Instances : Stop(i)
    \/ \E k \in Keys : SessionLost(k)

Spec == Init /\ [][Next]_vars

(* A coroutine that can run is run, and the work of a job comes to an end. *)
FairSpec == Spec /\ \A i \in Instances, j \in Jobs : WF_vars(Advance(i, j))

-----------------------------------------------------------------------------
Working(j) == {i \in Instances : At(i, j, "body")}

(* "Cross-instance scheduler leadership" (AdvisoryLock): a job does its    *)
(* work in one instance at a time, but for one more for each lock session  *)
(* the database has dropped under a job that was still at work.            *)
OneLeader == \A j \in Jobs : Cardinality(Working(j)) <= 1 + lost

(* A process's own lock is held exactly while one of its runs is between   *)
(* taking and releasing it, on every path out of acquire and release: it   *)
(* is never leaked, which would skip every later run, and never shared.    *)
LocalLockTracked ==
    \A i \in Instances :
        Cardinality({j \in Jobs : run[i][j].pc \in {"connect", "body", "unlock"}})
            = IF locked[i] THEN 1 ELSE 0

(* An advisory lock is held for a run that is at work or about to unlock:  *)
(* whichever way a run ends or its process stops, it leaves none behind.   *)
HeldByItsRun ==
    \A i \in Instances, j \in Jobs, k \in Keys :
        holder[k] = <<i, j>> =>
            k = KeyOf[i][j] /\ run[i][j].pc \in {"body", "unlock"}

(* Whoever works, leads, and no lock outlives or precedes its run.         *)
LeadersLocked == OneLeader /\ LocalLockTracked /\ HeldByItsRun

Abandoned ==
    {n \in DOMAIN rows :
        /\ rows[n] = "running"
        /\ \A i \in Instances, j \in Jobs : run[i][j].row # n}

(* The rows whose run has reached its work and come back from it.          *)
Ended == worked \cup failed

(* job_runs accounts for every run.  A closed row tells whether its run    *)
(* had the lock and came back from its work: ok if it did, skipped if it   *)
(* never began; a row is left at running for no more than one per stop of  *)
(* a process and run it had, and one per failed write.  Whether the work   *)
(* succeeded is not among what a row tells: both ways are ok, although     *)
(* job_runs.py and orm/jobs.py promise failed rows with an error.          *)
HistoryAccounts ==
    /\ \A n \in DOMAIN rows :
        /\ rows[n] = "ok" => n \in Ended
        /\ rows[n] = "skipped" => n \notin Ended
    /\ Cardinality(Abandoned) <= stops * Cardinality(Jobs) + dbFailures

(* The lock "never lingers": whoever holds it, whatever fails or stops, it *)
(* is free again in the end.                                               *)
LockComesFree ==
    \A k \in Keys : holder[k] # NoHolder ~> holder[k] = NoHolder
=============================================================================

-------------------------- MODULE SchedulerProofs --------------------------
(***************************************************************************)
(* The scheduler's locks and its job history, for any number of instances, *)
(* jobs and keys, and any number of runs, stops and failures; and the      *)
(* weekly training it starts, with whoever promotes and serves models      *)
(* meanwhile, for any number of them and any bounds.                       *)
(***************************************************************************)
EXTENDS SchedulerLock, ModelLifecycle, FiniteSetTheorems, SequenceTheorems, TLAPS

PCs == {"idle", "open", "check", "connect", "body", "unlock", "close"}

-----------------------------------------------------------------------------
(* How a step changes the runs.                                            *)

(* Of all the runs, the step changes only that of job j in instance i.     *)
OnlyRun(i, j) ==
    \A i2 \in Instances, j2 \in Jobs :
        i2 # i \/ j2 # j => run'[i2][j2] = run[i2][j2]

LEMMA RunType ==
    ASSUME SchedulerTypeOK, NEW i \in Instances, NEW j \in Jobs
    PROVE  run[i][j] \in RunState
BY DEF SchedulerTypeOK

LEMMA SetRun ==
    ASSUME SchedulerTypeOK, NEW i \in Instances, NEW j \in Jobs,
           NEW r \in RunState, run' = [run EXCEPT ![i][j] = r]
    PROVE  /\ run' \in [Instances -> [Jobs -> RunState]]
           /\ run'[i][j] = r
           /\ OnlyRun(i, j)
BY DEF SchedulerTypeOK, OnlyRun

LEMMA GotoFacts ==
    ASSUME SchedulerTypeOK, NEW i \in Instances, NEW j \in Jobs,
           NEW pc \in PCs, Goto(i, j, pc)
    PROVE  /\ run' \in [Instances -> [Jobs -> RunState]]
           /\ run'[i][j] = [run[i][j] EXCEPT !.pc = pc]
           /\ OnlyRun(i, j)
<1> DEFINE r == [run[i][j] EXCEPT !.pc = pc]
<1>1. r \in RunState
  BY RunType DEF RunState, PCs
<1>2. run' = [run EXCEPT ![i][j] = r]
  BY DEF Goto, SchedulerTypeOK
<1> QED
  BY <1>1, <1>2, SetRun

LEMMA EndFacts ==
    ASSUME SchedulerTypeOK, NEW i \in Instances, NEW j \in Jobs,
           NEW outcome \in Status, End(i, j, outcome)
    PROVE  /\ run' \in [Instances -> [Jobs -> RunState]]
           /\ run'[i][j] =
                 [pc |-> "close", row |-> run[i][j].row, outcome |-> outcome]
           /\ OnlyRun(i, j)
<1> DEFINE r == [pc |-> "close", row |-> run[i][j].row, outcome |-> outcome]
<1>0. run[i][j] \in RunState
  BY RunType
<1>1. r \in RunState
  BY <1>0 DEF RunState
<1>2. run' = [run EXCEPT ![i][j] = r]
  BY DEF End
<1> QED
  BY <1>1, <1>2, SetRun

LEMMA OpenFacts ==
    ASSUME SchedulerTypeOK, NEW i \in Instances, NEW j \in Jobs, OpenRow(i, j)
    PROVE  /\ run' \in [Instances -> [Jobs -> RunState]]
           /\ run'[i][j] = [run[i][j] EXCEPT !.pc = "check", !.row = Len(rows) + 1]
           /\ OnlyRun(i, j)
<1> DEFINE r == [run[i][j] EXCEPT !.pc = "check", !.row = Len(rows) + 1]
<1>1. r \in RunState
  <2>1. Len(rows) + 1 \in Nat
    BY DEF SchedulerTypeOK
  <2> QED
    BY <2>1, RunType DEF RunState
<1>2. run' = [run EXCEPT ![i][j] = r]
  BY DEF OpenRow
<1> QED
  BY <1>1, <1>2, SetRun

LEMMA RestFacts ==
    ASSUME SchedulerTypeOK, NEW i \in Instances, NEW j \in Jobs,
           run' = [run EXCEPT ![i][j] = NotRunning]
    PROVE  /\ run' \in [Instances -> [Jobs -> RunState]]
           /\ run'[i][j] = NotRunning
           /\ OnlyRun(i, j)
<1>1. NotRunning \in RunState
  BY DEF NotRunning, RunState, Status
<1> QED
  BY <1>1, SetRun

LEMMA StopFacts ==
    ASSUME SchedulerTypeOK, NEW i \in Instances, Stop(i)
    PROVE  /\ run' \in [Instances -> [Jobs -> RunState]]
           /\ \A j \in Jobs : run'[i][j] = NotRunning
           /\ \A i2 \in Instances, j2 \in Jobs :
                 i2 # i => run'[i2][j2] = run[i2][j2]
<1>1. NotRunning \in RunState
  BY DEF NotRunning, RunState, Status
<1>2. AllIdle \in [Jobs -> RunState]
  BY <1>1 DEF AllIdle
<1> QED
  BY <1>2 DEF Stop, SchedulerTypeOK, AllIdle

(* The run of job j in instance i moves, to these values, and no other.    *)
Moved(i, j, pc, row, outcome) ==
    /\ OnlyRun(i, j)
    /\ run'[i][j].pc = pc /\ run'[i][j].row = row /\ run'[i][j].outcome = outcome

LEMMA StepFacts ==
    ASSUME SchedulerTypeOK, NEW i \in Instances, NEW j \in Jobs
    PROVE  LET row == run[i][j].row
               outcome == run[i][j].outcome
           IN  /\ Fire(i, j) => Moved(i, j, "open", row, outcome)
               /\ OpenRow(i, j) => Moved(i, j, "check", Len(rows) + 1, outcome)
               /\ OpenRowFails(i, j) => Moved(i, j, "check", row, outcome)
               /\ Skip(i, j) => Moved(i, j, "close", row, "skipped")
               /\ TakeLocal(i, j) => Moved(i, j, "connect", row, outcome)
               /\ Lead(i, j) => Moved(i, j, "body", row, outcome)
               /\ Refused(i, j) => Moved(i, j, "close", row, "skipped")
               /\ AcquireFails(i, j) => Moved(i, j, "close", row, "skipped")
               /\ BodyEnds(i, j) => Moved(i, j, "unlock", row, outcome)
               /\ BodyRaises(i, j) => Moved(i, j, "unlock", row, outcome)
               /\ Unlock(i, j) => Moved(i, j, "close", row, "ok")
               /\ CloseRow(i, j) => Moved(i, j, "idle", 0, "running")
               /\ CloseRowFails(i, j) => Moved(i, j, "idle", 0, "running")
<1>1. ASSUME NEW pc \in PCs, Goto(i, j, pc)
      PROVE  Moved(i, j, pc, run[i][j].row, run[i][j].outcome)
  <2>1. /\ OnlyRun(i, j)
        /\ run'[i][j] = [run[i][j] EXCEPT !.pc = pc]
    BY <1>1, GotoFacts
  <2>2. run[i][j] \in RunState
    BY RunType
  <2> QED
    BY <2>1, <2>2 DEF Moved, RunState
<1>2. ASSUME NEW o \in Status, End(i, j, o)
      PROVE  Moved(i, j, "close", run[i][j].row, o)
  <2>1. /\ OnlyRun(i, j)
        /\ run'[i][j] = [pc |-> "close", row |-> run[i][j].row, outcome |-> o]
    BY <1>2, EndFacts
  <2>2. run[i][j] \in RunState
    BY RunType
  <2> QED
    BY <2>1, <2>2 DEF Moved, RunState
<1>3. ASSUME OpenRow(i, j)
      PROVE  Moved(i, j, "check", Len(rows) + 1, run[i][j].outcome)
  <2>1. /\ OnlyRun(i, j)
        /\ run'[i][j] = [run[i][j] EXCEPT !.pc = "check", !.row = Len(rows) + 1]
    BY <1>3, OpenFacts
  <2>2. run[i][j] \in RunState
    BY RunType
  <2> QED
    BY <2>1, <2>2 DEF Moved, RunState
<1>4. ASSUME run' = [run EXCEPT ![i][j] = NotRunning]
      PROVE  Moved(i, j, "idle", 0, "running")
  BY <1>4, RestFacts DEF Moved, NotRunning
<1>5. /\ Fire(i, j) => Goto(i, j, "open")
      /\ OpenRowFails(i, j) => Goto(i, j, "check")
      /\ TakeLocal(i, j) => Goto(i, j, "connect")
      /\ Lead(i, j) => Goto(i, j, "body")
      /\ BodyEnds(i, j) \/ BodyRaises(i, j) => Goto(i, j, "unlock")
  BY DEF Fire, OpenRowFails, TakeLocal, Lead, BodyEnds, BodyRaises
<1>6. /\ Skip(i, j) \/ Refused(i, j) \/ AcquireFails(i, j) => End(i, j, "skipped")
      /\ Unlock(i, j) => End(i, j, "ok")
  BY DEF Skip, Refused, AcquireFails, Unlock
<1>7. CloseRow(i, j) \/ CloseRowFails(i, j)
          => run' = [run EXCEPT ![i][j] = NotRunning]
  BY DEF CloseRow, CloseRowFails
<1> QED
  BY <1>1, <1>2, <1>3, <1>4, <1>5, <1>6, <1>7 DEF PCs, Status

-----------------------------------------------------------------------------
(* Type correctness.                                                       *)

LEMMA UnheldType ==
    ASSUME SchedulerTypeOK, NEW S
    PROVE  Unheld(S) \in [Keys -> (Instances \X Jobs) \cup {NoHolder}]
BY DEF SchedulerTypeOK, Unheld

LEMMA InitType == Init => SchedulerTypeOK
<1>1. AllIdle \in [Jobs -> RunState]
  BY DEF AllIdle, NotRunning, RunState, Status
<1> QED
  BY <1>1 DEF Init, SchedulerTypeOK

LEMMA TypeStep == SchedulerTypeOK /\ [Next]_vars => SchedulerTypeOK'
<1> SUFFICES ASSUME SchedulerTypeOK, [Next]_vars PROVE SchedulerTypeOK'
  OBVIOUS
<1>1. ASSUME NEW i \in Instances, NEW j \in Jobs, Fire(i, j)
      PROVE  SchedulerTypeOK'
  <2>1. run' \in [Instances -> [Jobs -> RunState]]
    BY <1>1, GotoFacts DEF Fire, PCs
  <2> QED
    BY <1>1, <2>1 DEF Fire, SchedulerTypeOK
<1>2. ASSUME NEW i \in Instances, NEW j \in Jobs, Advance(i, j)
      PROVE  SchedulerTypeOK'
  <2>1. CASE OpenRow(i, j)
    <3>1. rows' \in Seq(Status) /\ Len(rows') = Len(rows) + 1
      BY <2>1 DEF OpenRow, SchedulerTypeOK, Status
    <3>2. run' \in [Instances -> [Jobs -> RunState]]
      BY <2>1, OpenFacts
    <3> QED
      BY <2>1, <3>1, <3>2 DEF OpenRow, SchedulerTypeOK
  <2>2. CASE OpenRowFails(i, j)
    <3>1. run' \in [Instances -> [Jobs -> RunState]]
      BY <2>2, GotoFacts DEF OpenRowFails, PCs
    <3> QED
      BY <2>2, <3>1 DEF OpenRowFails, SchedulerTypeOK
  <2>3. CASE Skip(i, j)
    <3>1. run' \in [Instances -> [Jobs -> RunState]]
      BY <2>3, EndFacts DEF Skip, Status
    <3> QED
      BY <2>3, <3>1 DEF Skip, SchedulerTypeOK, bookkeepingSame
  <2>4. CASE TakeLocal(i, j)
    <3>1. run' \in [Instances -> [Jobs -> RunState]]
      BY <2>4, GotoFacts DEF TakeLocal, PCs
    <3> QED
      BY <2>4, <3>1 DEF TakeLocal, SchedulerTypeOK, bookkeepingSame
  <2>5. CASE Lead(i, j)
    <3>1. run' \in [Instances -> [Jobs -> RunState]]
      BY <2>5, GotoFacts DEF Lead, PCs
    <3> QED
      BY <2>5, <3>1 DEF Lead, SchedulerTypeOK, bookkeepingSame
  <2>6. CASE Refused(i, j)
    <3>1. run' \in [Instances -> [Jobs -> RunState]]
      BY <2>6, EndFacts DEF Refused, Status
    <3> QED
      BY <2>6, <3>1 DEF Refused, SchedulerTypeOK, bookkeepingSame
  <2>7. CASE AcquireFails(i, j)
    <3>1. run' \in [Instances -> [Jobs -> RunState]]
      BY <2>7, EndFacts DEF AcquireFails, Status
    <3>2. dbFailures' \in Nat /\ locked' \in [Instances -> BOOLEAN]
      BY <2>7 DEF AcquireFails, SchedulerTypeOK
    <3> QED
      BY <2>7, <3>1, <3>2 DEF AcquireFails, SchedulerTypeOK
  <2>8. CASE BodyEnds(i, j) \/ BodyRaises(i, j)
    <3>1. run' \in [Instances -> [Jobs -> RunState]]
      BY <2>8, GotoFacts DEF BodyEnds, BodyRaises, PCs
    <3>2. worked' \subseteq Nat /\ failed' \subseteq Nat
      BY <2>8, RunType DEF BodyEnds, BodyRaises, SchedulerTypeOK, RunState
    <3> QED
      BY <2>8, <3>1, <3>2 DEF BodyEnds, BodyRaises, SchedulerTypeOK
  <2>9. CASE Unlock(i, j)
    <3>1. run' \in [Instances -> [Jobs -> RunState]]
      BY <2>9, EndFacts DEF Unlock, Status
    <3>2. holder' \in [Keys -> (Instances \X Jobs) \cup {NoHolder}]
      BY <2>9, UnheldType DEF Unlock
    <3> QED
      BY <2>9, <3>1, <3>2 DEF Unlock, SchedulerTypeOK, bookkeepingSame
  <2>10. CASE CloseRow(i, j)
    <3>1. rows' \in Seq(Status) /\ Len(rows') = Len(rows)
      <4>1. run[i][j].outcome \in Status
        BY RunType DEF RunState
      <4>2. rows \in Seq(Status)
        BY DEF SchedulerTypeOK
      <4>3. rows' = rows \/ rows' = [rows EXCEPT ![run[i][j].row] = run[i][j].outcome]
        BY <2>10 DEF CloseRow
      <4> QED
        BY <4>1, <4>2, <4>3
    <3>2. run' \in [Instances -> [Jobs -> RunState]]
      BY <2>10, RestFacts DEF CloseRow
    <3> QED
      BY <2>10, <3>1, <3>2 DEF CloseRow, SchedulerTypeOK
  <2>11. CASE CloseRowFails(i, j)
    <3>1. run' \in [Instances -> [Jobs -> RunState]]
      BY <2>11, RestFacts DEF CloseRowFails
    <3> QED
      BY <2>11, <3>1 DEF CloseRowFails, SchedulerTypeOK
  <2> QED
    BY <1>2, <2>1, <2>2, <2>3, <2>4, <2>5, <2>6, <2>7, <2>8, <2>9, <2>10, <2>11
       DEF Advance
<1>3. ASSUME NEW i \in Instances, Stop(i) PROVE SchedulerTypeOK'
  <2>1. run' \in [Instances -> [Jobs -> RunState]]
    BY <1>3, StopFacts
  <2>2. holder' \in [Keys -> (Instances \X Jobs) \cup {NoHolder}]
    BY <1>3, UnheldType DEF Stop
  <2>3. stops' \in Nat /\ locked' \in [Instances -> BOOLEAN]
    BY <1>3 DEF Stop, SchedulerTypeOK
  <2> QED
    BY <1>3, <2>1, <2>2, <2>3 DEF Stop, SchedulerTypeOK
<1>4. ASSUME NEW k \in Keys, SessionLost(k) PROVE SchedulerTypeOK'
  BY <1>4 DEF SessionLost, SchedulerTypeOK
<1>5. CASE UNCHANGED vars
  BY <1>5 DEF vars, SchedulerTypeOK
<1> QED
  BY <1>1, <1>2, <1>3, <1>4, <1>5 DEF Next

(* Every state the scheduler reaches is well formed.                       *)
THEOREM SchedulerTypeCorrect == Spec => []SchedulerTypeOK
BY InitType, TypeStep, PTL DEF Spec

-----------------------------------------------------------------------------
(* The locks.                                                              *)

Locking == {"connect", "body", "unlock"}

(* The process's own lock is held for one run, or for none.                *)
LocalOwnedIn(i) ==
    /\ \A j \in Jobs : run[i][j].pc \in Locking => locked[i]
    /\ \A j, j2 \in Jobs :
          run[i][j].pc \in Locking /\ run[i][j2].pc \in Locking => j = j2
    /\ locked[i] => \E j \in Jobs : run[i][j].pc \in Locking

LocalOwned == \A i \in Instances : LocalOwnedIn(i)

(* The instances in which a job goes on without the lock it took.          *)
OrphansOf(j) ==
    {i \in Instances :
        run[i][j].pc \in {"body", "unlock"} /\ holder[KeyOf[i][j]] # <<i, j>>}

OrphansFew == \A j \in Jobs : Cardinality(OrphansOf(j)) <= lost

LockInv == SchedulerTypeOK /\ LocalOwned /\ HeldByItsRun /\ OrphansFew

(* A step that leaves an instance's lock alone, and the runs that hold it. *)
LEMMA SameLocal ==
    ASSUME NEW i \in Instances, LocalOwnedIn(i),
           locked'[i] = locked[i],
           \A j \in Jobs : run'[i][j].pc \in Locking <=> run[i][j].pc \in Locking
    PROVE  LocalOwnedIn(i)'
BY DEF LocalOwnedIn

LEMMA NoneLocal ==
    ASSUME NEW i \in Instances, ~locked'[i],
           \A j \in Jobs : run'[i][j].pc \notin Locking
    PROVE  LocalOwnedIn(i)'
BY DEF LocalOwnedIn

(* A step of one run that neither takes nor gives back the lock.           *)
LEMMA KeepsLocal ==
    ASSUME LocalOwned, NEW i \in Instances, NEW j \in Jobs,
           OnlyRun(i, j), locked' = locked,
           run'[i][j].pc \in Locking <=> run[i][j].pc \in Locking
    PROVE  LocalOwned'
<1> SUFFICES ASSUME NEW i2 \in Instances PROVE LocalOwnedIn(i2)'
  BY DEF LocalOwned
<1>1. LocalOwnedIn(i2) /\ locked'[i2] = locked[i2]
  BY DEF LocalOwned
<1>2. \A j2 \in Jobs : run'[i2][j2].pc \in Locking <=> run[i2][j2].pc \in Locking
  BY DEF OnlyRun
<1> QED
  BY <1>1, <1>2, SameLocal

(* A run that leaves gives the process's own lock back.                    *)
LEMMA GivesLocal ==
    ASSUME SchedulerTypeOK, LocalOwned, NEW i \in Instances, NEW j \in Jobs,
           OnlyRun(i, j), locked' = [locked EXCEPT ![i] = FALSE],
           run[i][j].pc \in Locking, run'[i][j].pc \notin Locking
    PROVE  LocalOwned'
<1> SUFFICES ASSUME NEW i2 \in Instances PROVE LocalOwnedIn(i2)'
  BY DEF LocalOwned
<1>1. CASE i2 = i
  <2>1. \A j2 \in Jobs : run'[i][j2].pc \notin Locking
    BY DEF LocalOwned, LocalOwnedIn, OnlyRun
  <2>2. ~locked'[i]
    BY DEF SchedulerTypeOK
  <2> QED
    BY <1>1, <2>1, <2>2, NoneLocal
<1>2. CASE i2 # i
  <2>1. LocalOwnedIn(i2) /\ locked'[i2] = locked[i2]
    BY <1>2 DEF LocalOwned, SchedulerTypeOK
  <2>2. \A j2 \in Jobs : run'[i2][j2] = run[i2][j2]
    BY <1>2 DEF OnlyRun
  <2> QED
    BY <2>1, <2>2, SameLocal
<1> QED
  BY <1>1, <1>2

LEMMA LocalStep ==
    SchedulerTypeOK /\ LocalOwned /\ [Next]_vars => LocalOwned'
<1> SUFFICES ASSUME SchedulerTypeOK, LocalOwned, [Next]_vars PROVE LocalOwned'
  OBVIOUS
<1> USE DEF Locking
<1>1. ASSUME NEW i \in Instances, NEW j \in Jobs, Fire(i, j) PROVE LocalOwned'
  <2>1. Moved(i, j, "open", run[i][j].row, run[i][j].outcome)
    BY <1>1, StepFacts
  <2> QED
    BY <1>1, <2>1, KeepsLocal DEF Fire, At, Moved
<1>2. ASSUME NEW i \in Instances, NEW j \in Jobs, Advance(i, j)
      PROVE  LocalOwned'
  <2>1. CASE OpenRow(i, j) \/ OpenRowFails(i, j)
    <3>1. OnlyRun(i, j) /\ run'[i][j].pc = "check"
      BY <2>1, StepFacts DEF Moved
    <3> QED
      BY <2>1, <3>1, KeepsLocal DEF OpenRow, OpenRowFails, At
  <2>2. CASE Skip(i, j)
    <3>1. OnlyRun(i, j) /\ run'[i][j].pc = "close"
      BY <2>2, StepFacts DEF Moved
    <3> QED
      BY <2>2, <3>1, KeepsLocal DEF Skip, At
  <2>3. CASE TakeLocal(i, j)
    <3>1. OnlyRun(i, j) /\ run'[i][j].pc = "connect"
      BY <2>3, StepFacts DEF Moved
    <3>2. ~locked[i] /\ locked'[i]
          /\ \A i2 \in Instances : i2 # i => locked'[i2] = locked[i2]
      BY <2>3 DEF TakeLocal, SchedulerTypeOK
    <3>3. \A j2 \in Jobs : run'[i][j2].pc \in Locking => j2 = j
      BY <3>1, <3>2 DEF LocalOwned, LocalOwnedIn, OnlyRun
    <3>4. LocalOwnedIn(i)'
      BY <3>1, <3>2, <3>3 DEF LocalOwnedIn
    <3>5. ASSUME NEW i2 \in Instances, i2 # i PROVE LocalOwnedIn(i2)'
      BY <3>1, <3>2, <3>5, SameLocal DEF LocalOwned, OnlyRun
    <3> QED
      BY <3>4, <3>5 DEF LocalOwned
  <2>4. CASE Lead(i, j)
    <3>1. OnlyRun(i, j) /\ run'[i][j].pc = "body"
      BY <2>4, StepFacts DEF Moved
    <3> QED
      BY <2>4, <3>1, KeepsLocal DEF Lead, At
  <2>5. CASE Refused(i, j) \/ AcquireFails(i, j) \/ Unlock(i, j)
    <3>1. OnlyRun(i, j) /\ run'[i][j].pc = "close"
      BY <2>5, StepFacts DEF Moved
    <3>2. /\ run[i][j].pc \in {"connect", "unlock"}
          /\ locked' = [locked EXCEPT ![i] = FALSE]
      BY <2>5 DEF Refused, AcquireFails, Unlock, At
    <3> QED
      BY <3>1, <3>2, GivesLocal
  <2>6. CASE BodyEnds(i, j) \/ BodyRaises(i, j)
    <3>1. OnlyRun(i, j) /\ run'[i][j].pc = "unlock"
      BY <2>6, StepFacts DEF Moved
    <3> QED
      BY <2>6, <3>1, KeepsLocal DEF BodyEnds, BodyRaises, At
  <2>7. CASE CloseRow(i, j) \/ CloseRowFails(i, j)
    <3>1. OnlyRun(i, j) /\ run'[i][j].pc = "idle"
      BY <2>7, StepFacts DEF Moved
    <3> QED
      BY <2>7, <3>1, KeepsLocal DEF CloseRow, CloseRowFails, At
  <2> QED
    BY <1>2, <2>1, <2>2, <2>3, <2>4, <2>5, <2>6, <2>7 DEF Advance
<1>3. ASSUME NEW i \in Instances, Stop(i) PROVE LocalOwned'
  <2>1. \A j \in Jobs : run'[i][j].pc \notin Locking
    BY <1>3, StopFacts DEF NotRunning
  <2>2. ~locked'[i] /\ \A i2 \in Instances : i2 # i => locked'[i2] = locked[i2]
    BY <1>3 DEF Stop, SchedulerTypeOK
  <2>3. LocalOwnedIn(i)'
    BY <2>1, <2>2, NoneLocal
  <2>4. ASSUME NEW i2 \in Instances, i2 # i PROVE LocalOwnedIn(i2)'
    <3>1. \A j \in Jobs : run'[i2][j] = run[i2][j]
      BY <1>3, <2>4, StopFacts
    <3> QED
      BY <2>2, <2>4, <3>1, SameLocal DEF LocalOwned
  <2> QED
    BY <2>3, <2>4 DEF LocalOwned
<1>4. ASSUME NEW k \in Keys, SessionLost(k) PROVE LocalOwned'
  BY <1>4 DEF SessionLost, LocalOwned, LocalOwnedIn
<1>5. CASE UNCHANGED vars
  BY <1>5 DEF vars, LocalOwned, LocalOwnedIn
<1> QED
  BY <1>1, <1>2, <1>3, <1>4, <1>5 DEF Next

(* What a key is left with when sessions close: a lock of another session, *)
(* or none.                                                                *)
LEMMA UnheldFacts ==
    ASSUME SchedulerTypeOK, NEW S, holder' = Unheld(S),
           NEW i \in Instances, NEW j \in Jobs, NEW k \in Keys
    PROVE  /\ holder'[k] = <<i, j>> => holder[k] = <<i, j>> /\ <<i, j>> \notin S
           /\ holder[k] = <<i, j>> /\ <<i, j>> \notin S => holder'[k] = <<i, j>>
<1>1. holder'[k] = IF holder[k] \in S THEN NoHolder ELSE holder[k]
  BY DEF Unheld
<1>2. NoHolder # <<i, j>>
  BY SchedulerAssumption DEF SchedulerAssumption
<1> QED
  BY <1>1, <1>2

Leading == {"body", "unlock"}

LEMMA KeepsHeld ==
    ASSUME HeldByItsRun, NEW i \in Instances, NEW j \in Jobs,
           OnlyRun(i, j), holder' = holder,
           run[i][j].pc \in Leading => run'[i][j].pc \in Leading
    PROVE  HeldByItsRun'
BY DEF HeldByItsRun, OnlyRun, Leading

LEMMA HeldStep ==
    SchedulerTypeOK /\ HeldByItsRun /\ [Next]_vars => HeldByItsRun'
<1> SUFFICES ASSUME SchedulerTypeOK, HeldByItsRun, [Next]_vars
             PROVE  HeldByItsRun'
  OBVIOUS
<1> USE DEF Leading
<1>1. ASSUME NEW i \in Instances, NEW j \in Jobs, Fire(i, j) \/ Advance(i, j)
      PROVE  HeldByItsRun'
  <2>1. CASE \/ Fire(i, j) \/ OpenRow(i, j) \/ OpenRowFails(i, j) \/ Skip(i, j)
             \/ TakeLocal(i, j) \/ Refused(i, j) \/ AcquireFails(i, j)
             \/ CloseRow(i, j) \/ CloseRowFails(i, j)
    <3>1. OnlyRun(i, j)
      BY <2>1, StepFacts DEF Moved
    <3>2. run[i][j].pc \notin Leading /\ holder' = holder
      BY <2>1 DEF Fire, OpenRow, OpenRowFails, Skip, TakeLocal, Refused,
                  AcquireFails, CloseRow, CloseRowFails, At
    <3> QED
      BY <3>1, <3>2, KeepsHeld
  <2>2. CASE BodyEnds(i, j) \/ BodyRaises(i, j)
    <3>1. OnlyRun(i, j) /\ run'[i][j].pc = "unlock"
      BY <2>2, StepFacts DEF Moved
    <3> QED
      BY <2>2, <3>1, KeepsHeld DEF BodyEnds, BodyRaises
  <2>3. CASE Lead(i, j)
    <3>1. OnlyRun(i, j) /\ run'[i][j].pc = "body"
      BY <2>3, StepFacts DEF Moved
    <3>2. holder' = [holder EXCEPT ![KeyOf[i][j]] = <<i, j>>]
          /\ holder \in [Keys -> (Instances \X Jobs) \cup {NoHolder}]
      BY <2>3 DEF Lead, SchedulerTypeOK
    <3>3. SUFFICES ASSUME NEW i2 \in Instances, NEW j2 \in Jobs, NEW k \in Keys,
                          holder'[k] = <<i2, j2>>
                   PROVE  k = KeyOf[i2][j2] /\ run'[i2][j2].pc \in Leading
      BY DEF HeldByItsRun
    <3>4. CASE i2 = i /\ j2 = j
      <4>1. k = KeyOf[i][j] \/ holder[k] = <<i, j>>
        BY <3>2, <3>3, <3>4
      <4> QED
        BY <3>1, <3>4, <4>1 DEF HeldByItsRun
    <3>5. CASE i2 # i \/ j2 # j
      <4>1. holder[k] = <<i2, j2>>
        BY <3>2, <3>3, <3>5
      <4> QED
        BY <3>1, <3>5, <4>1 DEF HeldByItsRun, OnlyRun
    <3> QED
      BY <3>4, <3>5
  <2>4. CASE Unlock(i, j)
    <3>1. OnlyRun(i, j) /\ holder' = Unheld({<<i, j>>})
      BY <2>4, StepFacts DEF Moved, Unlock
    <3>2. SUFFICES ASSUME NEW i2 \in Instances, NEW j2 \in Jobs, NEW k \in Keys,
                          holder'[k] = <<i2, j2>>
                   PROVE  k = KeyOf[i2][j2] /\ run'[i2][j2].pc \in Leading
      BY DEF HeldByItsRun
    <3>3. holder[k] = <<i2, j2>> /\ <<i2, j2>> # <<i, j>>
      BY <3>1, <3>2, UnheldFacts
    <3> QED
      BY <3>1, <3>3 DEF HeldByItsRun, OnlyRun
  <2> QED
    BY <1>1, <2>1, <2>2, <2>3, <2>4 DEF Advance
<1>2. ASSUME NEW i \in Instances, Stop(i) PROVE HeldByItsRun'
  <2>1. PICK sessions : holder' = Unheld(sessions)
                        /\ \A j \in Jobs : <<i, j>> \in sessions
    BY <1>2 DEF Stop
  <2>2. SUFFICES ASSUME NEW i2 \in Instances, NEW j2 \in Jobs, NEW k \in Keys,
                        holder'[k] = <<i2, j2>>
                 PROVE  k = KeyOf[i2][j2] /\ run'[i2][j2].pc \in Leading
    BY DEF HeldByItsRun
  <2>3. holder[k] = <<i2, j2>> /\ <<i2, j2>> \notin sessions
    BY <2>1, <2>2, UnheldFacts
  <2>4. i2 # i
    BY <2>1, <2>3
  <2>5. run'[i2][j2] = run[i2][j2]
    BY <1>2, <2>4, StopFacts
  <2> QED
    BY <2>3, <2>5 DEF HeldByItsRun
<1>3. ASSUME NEW k \in Keys, SessionLost(k) PROVE HeldByItsRun'
  <2>1. \A k2 \in Keys : holder'[k2] = holder[k2] \/ holder'[k2] = NoHolder
    BY <1>3 DEF SessionLost, SchedulerTypeOK
  <2>2. \A i \in Instances, j \in Jobs : NoHolder # <<i, j>>
    BY SchedulerAssumption DEF SchedulerAssumption
  <2>3. run' = run
    BY <1>3 DEF SessionLost
  <2>4. SUFFICES ASSUME NEW i \in Instances, NEW j \in Jobs, NEW k2 \in Keys,
                        holder'[k2] = <<i, j>>
                 PROVE  /\ k2 = KeyOf[i][j]
                        /\ run[i][j].pc \in {"body", "unlock"}
    BY <2>3 DEF HeldByItsRun
  <2>5. holder[k2] = <<i, j>>
    BY <2>1, <2>2, <2>4
  <2> QED
    BY <2>5 DEF HeldByItsRun
<1>4. CASE UNCHANGED vars
  BY <1>4 DEF vars, HeldByItsRun
<1> QED
  BY <1>1, <1>2, <1>3, <1>4 DEF Next

(* A step after which no job has more orphans, as one that loses no lock.  *)
LEMMA FewerOrphans ==
    ASSUME SchedulerTypeOK, OrphansFew, lost' = lost,
           \A j \in Jobs : OrphansOf(j)' \subseteq OrphansOf(j)
    PROVE  OrphansFew'
<1> SUFFICES ASSUME NEW j \in Jobs PROVE Cardinality(OrphansOf(j)') <= lost'
  BY DEF OrphansFew
<1>1. IsFiniteSet(OrphansOf(j))
  BY SchedulerAssumption, FS_Subset DEF SchedulerAssumption, OrphansOf
<1>2. Cardinality(OrphansOf(j)') <= Cardinality(OrphansOf(j))
      /\ Cardinality(OrphansOf(j)') \in Nat /\ Cardinality(OrphansOf(j)) \in Nat
  BY <1>1, FS_Subset, FS_CardinalityType
<1> QED
  BY <1>2 DEF OrphansFew, SchedulerTypeOK

(* A step of one run that leaves the locks alone makes no orphan, unless   *)
(* the run comes to lead by it.                                            *)
LEMMA NoNewOrphan ==
    ASSUME SchedulerTypeOK, OrphansFew, lost' = lost, holder' = holder,
           NEW i \in Instances, NEW j \in Jobs, OnlyRun(i, j),
           run'[i][j].pc \in Leading => run[i][j].pc \in Leading
    PROVE  OrphansFew'
<1>1. \A j2 \in Jobs : OrphansOf(j2)' \subseteq OrphansOf(j2)
  BY DEF OrphansOf, OnlyRun, Leading
<1> QED
  BY <1>1, FewerOrphans

LEMMA OrphansStep ==
    SchedulerTypeOK /\ OrphansFew /\ [Next]_vars => OrphansFew'
<1> SUFFICES ASSUME SchedulerTypeOK, OrphansFew, [Next]_vars PROVE OrphansFew'
  OBVIOUS
<1>1. ASSUME NEW i \in Instances, NEW j \in Jobs, Fire(i, j) \/ Advance(i, j)
      PROVE  OrphansFew'
  <2>0. lost' = lost
    BY <1>1 DEF Fire, Advance, OpenRow, OpenRowFails, Skip, TakeLocal, Lead, Refused,
                AcquireFails, BodyEnds, BodyRaises, Unlock, CloseRow,
                CloseRowFails, bookkeepingSame
  <2>1. CASE \/ Fire(i, j) \/ OpenRow(i, j) \/ OpenRowFails(i, j) \/ Skip(i, j)
             \/ TakeLocal(i, j) \/ Refused(i, j) \/ AcquireFails(i, j)
             \/ CloseRow(i, j) \/ CloseRowFails(i, j)
    <3>1. OnlyRun(i, j) /\ run'[i][j].pc \notin Leading
      BY <2>1, StepFacts DEF Moved, Leading
    <3>2. holder' = holder
      BY <2>1 DEF Fire, OpenRow, OpenRowFails, Skip, TakeLocal, Refused,
                  AcquireFails, CloseRow, CloseRowFails
    <3> QED
      BY <2>0, <3>1, <3>2, NoNewOrphan
  <2>2. CASE BodyEnds(i, j) \/ BodyRaises(i, j)
    <3>1. OnlyRun(i, j) /\ run[i][j].pc \in Leading /\ holder' = holder
      BY <2>2, StepFacts DEF Moved, BodyEnds, BodyRaises, At, Leading
    <3> QED
      BY <2>0, <3>1, NoNewOrphan
  <2>3. CASE Lead(i, j)
    <3>1. OnlyRun(i, j)
      BY <2>3, StepFacts DEF Moved
    <3>2. /\ holder[KeyOf[i][j]] = NoHolder
          /\ holder' = [holder EXCEPT ![KeyOf[i][j]] = <<i, j>>]
      BY <2>3 DEF Lead
    <3>3. KeyOf[i][j] \in Keys /\ holder \in [Keys -> (Instances \X Jobs) \cup {NoHolder}]
      BY SchedulerAssumption DEF SchedulerAssumption, SchedulerTypeOK
    <3>4. ASSUME NEW j2 \in Jobs, NEW i2 \in OrphansOf(j2)' PROVE i2 \in OrphansOf(j2)
      <4>0. i2 \in Instances /\ holder'[KeyOf[i2][j2]] # <<i2, j2>>
            /\ run'[i2][j2].pc \in {"body", "unlock"}
        BY <3>4 DEF OrphansOf
      <4>1. i2 # i \/ j2 # j
        BY <3>2, <3>3, <4>0
      <4>2. run[i2][j2].pc \in {"body", "unlock"}
        BY <3>1, <4>0, <4>1 DEF OnlyRun
      <4>3. holder[KeyOf[i2][j2]] # <<i2, j2>>
        <5>1. NoHolder # <<i2, j2>>
          BY <4>0, SchedulerAssumption DEF SchedulerAssumption
        <5>2. CASE KeyOf[i2][j2] = KeyOf[i][j]
          BY <3>2, <5>1, <5>2
        <5>3. CASE KeyOf[i2][j2] # KeyOf[i][j]
          BY <3>2, <3>3, <4>0, <5>3
        <5> QED
          BY <5>2, <5>3
      <4> QED
        BY <4>0, <4>2, <4>3 DEF OrphansOf
    <3> QED
      BY <2>0, <3>4, FewerOrphans
  <2>4. CASE Unlock(i, j)
    <3>0. OnlyRun(i, j) /\ run'[i][j].pc = "close"
      BY <2>4, StepFacts DEF Moved
    <3>1. PICK sessions : /\ holder' = Unheld(sessions)
                          /\ \A i2, j2 : <<i2, j2>> \in sessions
                                           => i2 = i /\ j2 = j
      BY <2>4 DEF Unlock
    <3>2. ASSUME NEW j2 \in Jobs, NEW i2 \in OrphansOf(j2)' PROVE i2 \in OrphansOf(j2)
      <4>0. i2 \in Instances /\ holder'[KeyOf[i2][j2]] # <<i2, j2>>
            /\ run'[i2][j2].pc \in {"body", "unlock"} /\ KeyOf[i2][j2] \in Keys
        BY <3>2, SchedulerAssumption DEF OrphansOf, SchedulerAssumption
      <4>1. i2 # i \/ j2 # j
        BY <3>0, <4>0
      <4>2. run[i2][j2].pc \in {"body", "unlock"}
        BY <3>0, <4>0, <4>1 DEF OnlyRun
      <4>3. <<i2, j2>> \notin sessions
        BY <3>1, <4>1
      <4>4. holder[KeyOf[i2][j2]] # <<i2, j2>>
        <5>1. PICK k \in Keys : k = KeyOf[i2][j2]
          BY <4>0
        <5>2. holder'[k] # <<i2, j2>>
          BY <4>0, <5>1
        <5>3. holder[k] # <<i2, j2>>
          BY <3>1, <4>0, <4>3, <5>2, UnheldFacts
        <5> QED
          BY <5>1, <5>3
      <4> QED
        BY <4>0, <4>2, <4>4 DEF OrphansOf
    <3> QED
      BY <2>0, <3>2, FewerOrphans
  <2> QED
    BY <1>1, <2>1, <2>2, <2>3, <2>4 DEF Advance
<1>2. ASSUME NEW i \in Instances, Stop(i) PROVE OrphansFew'
  <2>1. PICK sessions : /\ holder' = Unheld(sessions)
                        /\ \A i2 \in Instances, j2 \in Jobs :
                              i2 # i => <<i2, j2>> \notin sessions
    BY <1>2 DEF Stop
  <2>2. ASSUME NEW j2 \in Jobs, NEW i2 \in OrphansOf(j2)' PROVE i2 \in OrphansOf(j2)
    <3>0. i2 \in Instances /\ holder'[KeyOf[i2][j2]] # <<i2, j2>>
          /\ run'[i2][j2].pc \in {"body", "unlock"} /\ KeyOf[i2][j2] \in Keys
      BY <2>2, SchedulerAssumption DEF OrphansOf, SchedulerAssumption
    <3>1. i2 # i
      BY <1>2, <3>0, StopFacts DEF NotRunning
    <3>2. run'[i2][j2] = run[i2][j2]
      BY <1>2, <3>0, <3>1, StopFacts
    <3>3. holder[KeyOf[i2][j2]] # <<i2, j2>>
      <4>1. PICK k \in Keys : k = KeyOf[i2][j2]
        BY <3>0
      <4>2. holder'[k] # <<i2, j2>> /\ <<i2, j2>> \notin sessions
        BY <2>1, <3>0, <3>1, <4>1
      <4>3. holder[k] # <<i2, j2>>
        BY <2>1, <3>0, <4>2, UnheldFacts
      <4> QED
        BY <4>1, <4>3
    <3> QED
      BY <3>0, <3>2, <3>3 DEF OrphansOf
  <2>3. lost' = lost
    BY <1>2 DEF Stop
  <2> QED
    BY <2>2, <2>3, FewerOrphans
<1>3. ASSUME NEW k \in Keys, SessionLost(k) PROVE OrphansFew'
  <2> SUFFICES ASSUME NEW j \in Jobs PROVE Cardinality(OrphansOf(j)') <= lost'
    BY DEF OrphansFew
  <2>1. PICK i \in Instances, j2 \in Jobs : holder[k] = <<i, j2>>
    BY <1>3 DEF SessionLost, SchedulerTypeOK
  <2>2. OrphansOf(j)' \subseteq OrphansOf(j) \cup {i}
    <3>1. SUFFICES ASSUME NEW i2 \in OrphansOf(j)', i2 # i PROVE i2 \in OrphansOf(j)
      OBVIOUS
    <3>2. i2 \in Instances /\ holder'[KeyOf[i2][j]] # <<i2, j>>
          /\ run[i2][j].pc \in {"body", "unlock"}
      BY <1>3, <3>1 DEF OrphansOf, SessionLost
    <3>3. holder' = [holder EXCEPT ![k] = NoHolder]
      BY <1>3 DEF SessionLost
    <3>4. holder[KeyOf[i2][j]] # <<i2, j>>
      BY <2>1, <3>1, <3>2, <3>3 DEF SchedulerTypeOK
    <3> QED
      BY <3>2, <3>4 DEF OrphansOf
  <2>3. IsFiniteSet(OrphansOf(j))
    BY SchedulerAssumption, FS_Subset DEF SchedulerAssumption, OrphansOf
  <2>4. /\ IsFiniteSet(OrphansOf(j) \cup {i})
        /\ Cardinality(OrphansOf(j) \cup {i}) <= Cardinality(OrphansOf(j)) + 1
        /\ Cardinality(OrphansOf(j)) \in Nat
    <3>1. Cardinality(OrphansOf(j)) \in Nat
      BY <2>3, FS_CardinalityType
    <3>2. /\ IsFiniteSet(OrphansOf(j) \cup {i})
          /\ Cardinality(OrphansOf(j) \cup {i})
                = IF i \in OrphansOf(j) THEN Cardinality(OrphansOf(j))
                  ELSE Cardinality(OrphansOf(j)) + 1
      BY <2>3, FS_AddElement
    <3> QED
      BY <3>1, <3>2
  <2>5. /\ Cardinality(OrphansOf(j)') <= Cardinality(OrphansOf(j) \cup {i})
        /\ Cardinality(OrphansOf(j)') \in Nat
        /\ Cardinality(OrphansOf(j) \cup {i}) \in Nat
    BY <2>2, <2>4, FS_Subset, FS_CardinalityType
  <2>6. lost' = lost + 1 /\ lost \in Nat /\ Cardinality(OrphansOf(j)) <= lost
    BY <1>3 DEF SessionLost, SchedulerTypeOK, OrphansFew
  <2> QED
    BY <2>4, <2>5, <2>6
<1>4. CASE UNCHANGED vars
  BY <1>4 DEF vars, OrphansFew, OrphansOf
<1> QED
  BY <1>1, <1>2, <1>3, <1>4 DEF Next

LEMMA LockInit == Init => LockInv
<1> SUFFICES ASSUME Init PROVE LockInv
  OBVIOUS
<1>1. \A i \in Instances, j \in Jobs : run[i][j] = NotRunning
  BY DEF Init, AllIdle
<1>2. LocalOwned
  BY <1>1 DEF Init, LocalOwned, LocalOwnedIn, NotRunning, Locking
<1>3. HeldByItsRun
  BY SchedulerAssumption DEF Init, HeldByItsRun, SchedulerAssumption
<1>4. OrphansFew
  <2>1. \A j \in Jobs : OrphansOf(j) = {}
    BY <1>1 DEF OrphansOf, NotRunning
  <2> QED
    <3>1. \A j \in Jobs : Cardinality(OrphansOf(j)) = 0
      BY <2>1, FS_EmptySet
    <3> QED
      BY <3>1 DEF Init, OrphansFew
<1> QED
  BY <1>2, <1>3, <1>4, InitType DEF LockInv

LEMMA LockStep == LockInv /\ [Next]_vars => LockInv'
BY TypeStep, LocalStep, HeldStep, OrphansStep DEF LockInv

LEMMA LockTracked == LockInv => LocalLockTracked
<1> SUFFICES ASSUME LockInv, NEW i \in Instances
             PROVE  Cardinality({j \in Jobs : run[i][j].pc \in Locking})
                        = IF locked[i] THEN 1 ELSE 0
  BY DEF LocalLockTracked, Locking
<1> DEFINE L == {j \in Jobs : run[i][j].pc \in Locking}
<1>1. CASE locked[i]
  <2>1. PICK j \in Jobs : L = {j}
    BY <1>1 DEF LockInv, LocalOwned, LocalOwnedIn
  <2> QED
    BY <1>1, <2>1, FS_Singleton
<1>2. CASE ~locked[i]
  <2>1. L = {}
    BY <1>2 DEF LockInv, LocalOwned, LocalOwnedIn
  <2> QED
    BY <1>2, <2>1, FS_EmptySet
<1> QED
  BY <1>1, <1>2

(* Every process derives the same key for a job, as hashlib does and the   *)
(* built-in hash does not.                                                 *)
OneHash == \A i1, i2 \in Instances, j \in Jobs : KeyOf[i1][j] = KeyOf[i2][j]

LEMMA OneLeads == OneHash /\ LockInv => OneLeader
<1> SUFFICES ASSUME OneHash, LockInv, NEW j \in Jobs
             PROVE  Cardinality(Working(j)) <= 1 + lost
  BY DEF OneLeader
<1>1. lost \in Nat /\ Cardinality(OrphansOf(j)) <= lost
  BY DEF LockInv, SchedulerTypeOK, OrphansFew
<1>2. IsFiniteSet(OrphansOf(j))
  BY SchedulerAssumption, FS_Subset DEF SchedulerAssumption, OrphansOf
<1>3. ASSUME NEW x, Working(j) \subseteq OrphansOf(j) \cup {x}
      PROVE  Cardinality(Working(j)) <= 1 + lost
  <2>1. /\ IsFiniteSet(OrphansOf(j) \cup {x})
        /\ Cardinality(OrphansOf(j) \cup {x}) <= Cardinality(OrphansOf(j)) + 1
        /\ Cardinality(OrphansOf(j)) \in Nat
    BY <1>2, FS_AddElement, FS_CardinalityType
  <2>2. /\ Cardinality(Working(j)) <= Cardinality(OrphansOf(j) \cup {x})
        /\ Cardinality(Working(j)) \in Nat
        /\ Cardinality(OrphansOf(j) \cup {x}) \in Nat
    BY <1>3, <2>1, FS_Subset, FS_CardinalityType
  <2> QED
    BY <1>1, <2>1, <2>2
<1>4. CASE Working(j) \subseteq OrphansOf(j)
  BY <1>3, <1>4
<1>5. CASE ~(Working(j) \subseteq OrphansOf(j))
  <2>1. PICK x \in Working(j) : x \notin OrphansOf(j)
    BY <1>5
  <2>2. x \in Instances /\ holder[KeyOf[x][j]] = <<x, j>>
    BY <2>1 DEF Working, OrphansOf, At
  <2>3. ASSUME NEW i \in Working(j), i \notin OrphansOf(j) PROVE i = x
    <3>1. i \in Instances /\ holder[KeyOf[i][j]] = <<i, j>>
      BY <2>3 DEF Working, OrphansOf, At
    <3> QED
      BY <2>2, <3>1 DEF OneHash
  <2> QED
    BY <1>3, <2>3
<1> QED
  BY <1>4, <1>5

(* A process's own lock is held exactly while one of its runs is between   *)
(* taking and releasing it, and an advisory lock only for such a run.      *)
THEOREM LocksTracked == Spec => [](LocalLockTracked /\ HeldByItsRun)
<1>1. LockInv => LocalLockTracked /\ HeldByItsRun
  BY LockTracked DEF LockInv
<1> QED
  BY <1>1, LockInit, LockStep, PTL DEF Spec

(* If every process derives the same key for a job, the job is at work in  *)
(* one instance, and in at most one more for each session dropped.         *)
THEOREM LeadershipHolds ==
    ASSUME OneHash
    PROVE  Spec => []LeadersLocked
<1>1. LockInv => LeadersLocked
  BY LockTracked, OneLeads DEF LockInv, LeadersLocked
<1> QED
  BY <1>1, LockInit, LockStep, PTL DEF Spec

-----------------------------------------------------------------------------
(* The job history.                                                        *)

Row(i, j) == run[i][j].row

(* A run has a row of its own, not yet closed, or none.                    *)
RowsOwned ==
    /\ \A i \in Instances, j \in Jobs :
          /\ Row(i, j) <= Len(rows)
          /\ run[i][j].pc \in {"idle", "open"} => Row(i, j) = 0
          /\ Row(i, j) # 0 => rows[Row(i, j)] = "running"
    /\ \A i, i2 \in Instances, j, j2 \in Jobs :
          Row(i, j) = Row(i2, j2) /\ Row(i, j) # 0 => i = i2 /\ j = j2

(* A run is about to tell that its work ended exactly if it did.           *)
RunAccounted ==
    \A i \in Instances, j \in Jobs :
        /\ run[i][j].pc = "close" => run[i][j].outcome \in {"ok", "skipped"}
        /\ Row(i, j) # 0 =>
             Row(i, j) \in Ended
               <=> \/ run[i][j].pc = "unlock"
                   \/ run[i][j].pc = "close" /\ run[i][j].outcome = "ok"

RowsAccounted ==
    /\ Ended \subseteq 1..Len(rows)
    /\ \A n \in DOMAIN rows :
          /\ rows[n] = "ok" => n \in Ended
          /\ rows[n] = "skipped" => n \notin Ended

AbandonedFew == Cardinality(Abandoned) <= stops * Cardinality(Jobs) + dbFailures

HistoryInv ==
    SchedulerTypeOK /\ RowsOwned /\ RunAccounted /\ RowsAccounted /\ AbandonedFew

LEMMA RowsType ==
    ASSUME SchedulerTypeOK
    PROVE  /\ Len(rows) \in Nat /\ DOMAIN rows = 1..Len(rows)
           /\ \A i \in Instances, j \in Jobs : Row(i, j) \in Nat
           /\ \A n \in 1..Len(rows) : rows[n] \in Status
<1>1. rows \in Seq(Status)
  BY DEF SchedulerTypeOK
<1>2. \A i \in Instances, j \in Jobs : Row(i, j) \in Nat
  BY RunType DEF RunState, Row
<1> QED
  BY <1>1, <1>2

(* A step that writes no row, and of a run that keeps its row.             *)
LEMMA SameRows ==
    ASSUME RowsOwned, NEW i \in Instances, NEW j \in Jobs, OnlyRun(i, j),
           rows' = rows, Row(i, j)' = Row(i, j),
           run'[i][j].pc \in {"idle", "open"} => run[i][j].pc \in {"idle", "open"}
    PROVE  RowsOwned'
<1>1. \A i2 \in Instances, j2 \in Jobs : Row(i2, j2)' = Row(i2, j2)
  BY DEF OnlyRun, Row
<1>2. \A i2 \in Instances, j2 \in Jobs :
          run'[i2][j2].pc \in {"idle", "open"} => run[i2][j2].pc \in {"idle", "open"}
  BY DEF OnlyRun
<1> QED
  BY <1>1, <1>2 DEF RowsOwned

(* A step after which some runs have no row any more.                      *)
LEMMA FewerRows ==
    ASSUME SchedulerTypeOK, RowsOwned, rows' = rows,
           \A i \in Instances, j \in Jobs :
               run'[i][j] = run[i][j] \/ Row(i, j)' = 0
    PROVE  RowsOwned'
<1>1. \A i \in Instances, j \in Jobs :
          (Row(i, j)' = Row(i, j) /\ run'[i][j].pc = run[i][j].pc) \/ Row(i, j)' = 0
  BY DEF Row
<1> QED
  BY <1>1, RowsType DEF RowsOwned

LEMMA RowsOwnedStep ==
    SchedulerTypeOK /\ RowsOwned /\ [Next]_vars => RowsOwned'
<1> SUFFICES ASSUME SchedulerTypeOK, RowsOwned, [Next]_vars PROVE RowsOwned'
  OBVIOUS
<1>1. ASSUME NEW i \in Instances, NEW j \in Jobs, Fire(i, j) \/ Advance(i, j)
      PROVE  RowsOwned'
  <2>1. CASE Fire(i, j) \/ OpenRowFails(i, j) \/ Skip(i, j) \/ TakeLocal(i, j)
             \/ Lead(i, j) \/ Refused(i, j) \/ AcquireFails(i, j)
             \/ BodyEnds(i, j) \/ BodyRaises(i, j) \/ Unlock(i, j)
    <3>1. OnlyRun(i, j) /\ Row(i, j)' = Row(i, j)
      BY <2>1, StepFacts DEF Moved, Row
    <3>2. run'[i][j].pc \in {"idle", "open"} => run[i][j].pc \in {"idle", "open"}
      <4>1. CASE Fire(i, j) \/ OpenRowFails(i, j)
        BY <4>1 DEF Fire, OpenRowFails, At
      <4>2. CASE Skip(i, j) \/ TakeLocal(i, j) \/ Lead(i, j) \/ Refused(i, j)
                 \/ AcquireFails(i, j) \/ BodyEnds(i, j) \/ BodyRaises(i, j) \/ Unlock(i, j)
        BY <4>2, StepFacts DEF Moved
      <4> QED
        BY <2>1, <4>1, <4>2
    <3>3. rows' = rows
      BY <2>1 DEF Fire, OpenRowFails, Skip, TakeLocal, Lead, Refused, AcquireFails,
                  BodyEnds, BodyRaises, Unlock, bookkeepingSame
    <3> QED
      BY <3>1, <3>2, <3>3, SameRows
  <2>2. CASE OpenRow(i, j)
    <3>1. /\ OnlyRun(i, j) /\ run'[i][j].pc = "check"
          /\ Row(i, j)' = Len(rows) + 1
      BY <2>2, StepFacts DEF Moved, Row
    <3>2. /\ Len(rows') = Len(rows) + 1 /\ rows'[Len(rows) + 1] = "running"
          /\ \A n \in 1..Len(rows) : rows'[n] = rows[n]
      BY <2>2 DEF OpenRow, SchedulerTypeOK, Status
    <3>3. \A i2 \in Instances, j2 \in Jobs :
              i2 # i \/ j2 # j => /\ Row(i2, j2)' = Row(i2, j2)
                                  /\ run'[i2][j2].pc = run[i2][j2].pc
                                  /\ Row(i2, j2) <= Len(rows)
      BY <3>1 DEF OnlyRun, Row, RowsOwned
    <3>4. ASSUME NEW i2 \in Instances, NEW j2 \in Jobs
          PROVE  /\ Row(i2, j2)' <= Len(rows')
                 /\ run'[i2][j2].pc \in {"idle", "open"} => Row(i2, j2)' = 0
                 /\ Row(i2, j2)' # 0 => rows'[Row(i2, j2)'] = "running"
      <4>1. CASE i2 = i /\ j2 = j
        BY <3>1, <3>2, <4>1, RowsType
      <4>2. CASE i2 # i \/ j2 # j
        BY <3>2, <3>3, <4>2, RowsType DEF RowsOwned
      <4> QED
        BY <4>1, <4>2
    <3>5. ASSUME NEW i2 \in Instances, NEW j2 \in Jobs,
                 NEW i3 \in Instances, NEW j3 \in Jobs,
                 Row(i2, j2)' = Row(i3, j3)', Row(i2, j2)' # 0
          PROVE  i2 = i3 /\ j2 = j3
      BY <3>1, <3>3, <3>5, RowsType DEF RowsOwned
    <3> QED
      BY <3>4, <3>5 DEF RowsOwned
  <2>3. CASE CloseRow(i, j)
    <3>1. OnlyRun(i, j) /\ Row(i, j)' = 0
      BY <2>3, StepFacts DEF Moved, Row
    <3>2. \A i2 \in Instances, j2 \in Jobs :
              i2 # i \/ j2 # j => Row(i2, j2)' = Row(i2, j2)
                                 /\ run'[i2][j2].pc = run[i2][j2].pc
      BY <3>1 DEF OnlyRun, Row
    <3>3. /\ Len(rows') = Len(rows)
          /\ \A n \in 1..Len(rows) : n # Row(i, j) => rows'[n] = rows[n]
      BY <2>3 DEF CloseRow, SchedulerTypeOK, Row
    <3>4. ASSUME NEW i2 \in Instances, NEW j2 \in Jobs
          PROVE  /\ Row(i2, j2)' <= Len(rows')
                 /\ run'[i2][j2].pc \in {"idle", "open"} => Row(i2, j2)' = 0
                 /\ Row(i2, j2)' # 0 => rows'[Row(i2, j2)'] = "running"
      <4>1. CASE i2 = i /\ j2 = j
        BY <3>1, <3>3, <4>1, RowsType
      <4>2. CASE i2 # i \/ j2 # j
        <5>1. Row(i2, j2) # 0 => Row(i2, j2) # Row(i, j)
          BY <4>2 DEF RowsOwned
        <5> QED
          BY <3>2, <3>3, <4>2, <5>1, RowsType DEF RowsOwned
      <4> QED
        BY <4>1, <4>2
    <3>5. ASSUME NEW i2 \in Instances, NEW j2 \in Jobs,
                 NEW i3 \in Instances, NEW j3 \in Jobs,
                 Row(i2, j2)' = Row(i3, j3)', Row(i2, j2)' # 0
          PROVE  i2 = i3 /\ j2 = j3
      BY <3>1, <3>2, <3>5 DEF RowsOwned
    <3> QED
      BY <3>4, <3>5 DEF RowsOwned
  <2>4. CASE CloseRowFails(i, j)
    <3>1. OnlyRun(i, j) /\ Row(i, j)' = 0
      BY <2>4, StepFacts DEF Moved, Row
    <3> QED
      BY <2>4, <3>1, FewerRows DEF CloseRowFails, OnlyRun
  <2> QED
    BY <1>1, <2>1, <2>2, <2>3, <2>4 DEF Advance
<1>2. ASSUME NEW i \in Instances, Stop(i) PROVE RowsOwned'
  <2>1. \A i2 \in Instances, j2 \in Jobs :
            run'[i2][j2] = run[i2][j2] \/ Row(i2, j2)' = 0
    BY <1>2, StopFacts DEF NotRunning, Row
  <2> QED
    BY <1>2, <2>1, FewerRows DEF Stop
<1>3. ASSUME NEW k \in Keys, SessionLost(k) PROVE RowsOwned'
  BY <1>3 DEF SessionLost, RowsOwned, Row
<1>4. CASE UNCHANGED vars
  BY <1>4 DEF vars, RowsOwned, Row
<1> QED
  BY <1>1, <1>2, <1>3, <1>4 DEF Next

(* What a step that leaves the rows, the work and a run alone leaves true. *)
RunTold(i, j) ==
    /\ run[i][j].pc = "close" => run[i][j].outcome \in {"ok", "skipped"}
    /\ Row(i, j) # 0 =>
         Row(i, j) \in Ended
           <=> \/ run[i][j].pc = "unlock"
               \/ run[i][j].pc = "close" /\ run[i][j].outcome = "ok"

LEMMA OthersTold ==
    ASSUME RunAccounted, NEW i \in Instances, NEW j \in Jobs, OnlyRun(i, j),
           Ended' = Ended, RunTold(i, j)'
    PROVE  RunAccounted'
<1> SUFFICES ASSUME NEW i2 \in Instances, NEW j2 \in Jobs PROVE RunTold(i2, j2)'
  BY DEF RunAccounted, RunTold
<1>1. CASE i2 # i \/ j2 # j
  <2>1. RunTold(i2, j2) /\ run'[i2][j2] = run[i2][j2]
    BY <1>1 DEF RunAccounted, RunTold, OnlyRun
  <2> QED
    BY <2>1 DEF RunTold, Row
<1> QED
  BY <1>1

LEMMA RunAccountedStep ==
    SchedulerTypeOK /\ RowsOwned /\ RunAccounted /\ RowsAccounted /\ [Next]_vars
        => RunAccounted'
<1> SUFFICES ASSUME SchedulerTypeOK, RowsOwned, RunAccounted, RowsAccounted, [Next]_vars
             PROVE  RunAccounted'
  OBVIOUS
<1>1. ASSUME NEW i \in Instances, NEW j \in Jobs, Fire(i, j) \/ Advance(i, j)
      PROVE  RunAccounted'
  <2>0. RunTold(i, j)
    BY DEF RunAccounted, RunTold
  <2>1. CASE Fire(i, j) \/ OpenRowFails(i, j) \/ TakeLocal(i, j) \/ Lead(i, j)
    <3>1. /\ OnlyRun(i, j) /\ Row(i, j)' = Row(i, j)
          /\ run'[i][j].pc \in {"open", "check", "connect", "body"}
      BY <2>1, StepFacts DEF Moved, Row
    <3>2. /\ run[i][j].pc \in {"idle", "open", "check", "connect"}
          /\ Ended' = Ended
      BY <2>1 DEF Fire, OpenRowFails, TakeLocal, Lead, At, bookkeepingSame, Ended
    <3>3. RunTold(i, j)'
      BY <2>0, <3>1, <3>2 DEF RunTold
    <3> QED
      BY <3>1, <3>2, <3>3, OthersTold
  <2>2. CASE Skip(i, j) \/ Refused(i, j) \/ AcquireFails(i, j)
    <3>1. /\ OnlyRun(i, j) /\ Row(i, j)' = Row(i, j)
          /\ run'[i][j].pc = "close" /\ run'[i][j].outcome = "skipped"
      BY <2>2, StepFacts DEF Moved, Row
    <3>2. run[i][j].pc \in {"check", "connect"} /\ Ended' = Ended
      BY <2>2 DEF Skip, Refused, AcquireFails, At, bookkeepingSame, Ended
    <3>3. RunTold(i, j)'
      BY <2>0, <3>1, <3>2 DEF RunTold
    <3> QED
      BY <3>1, <3>2, <3>3, OthersTold
  <2>3. CASE Unlock(i, j)
    <3>1. /\ OnlyRun(i, j) /\ Row(i, j)' = Row(i, j)
          /\ run'[i][j].pc = "close" /\ run'[i][j].outcome = "ok"
      BY <2>3, StepFacts DEF Moved, Row
    <3>2. run[i][j].pc = "unlock" /\ Ended' = Ended
      BY <2>3 DEF Unlock, At, bookkeepingSame, Ended
    <3>3. RunTold(i, j)'
      BY <2>0, <3>1, <3>2 DEF RunTold
    <3> QED
      BY <3>1, <3>2, <3>3, OthersTold
  <2>4. CASE CloseRow(i, j) \/ CloseRowFails(i, j)
    <3>1. OnlyRun(i, j) /\ Row(i, j)' = 0 /\ run'[i][j].pc = "idle"
      BY <2>4, StepFacts DEF Moved, Row
    <3>2. Ended' = Ended
      BY <2>4 DEF CloseRow, CloseRowFails, Ended
    <3>3. RunTold(i, j)'
      BY <3>1 DEF RunTold
    <3> QED
      BY <3>1, <3>2, <3>3, OthersTold
  <2>5. CASE OpenRow(i, j)
    <3>1. /\ OnlyRun(i, j) /\ Row(i, j)' = Len(rows) + 1
          /\ run'[i][j].pc = "check"
      BY <2>5, StepFacts DEF Moved, Row
    <3>2. Ended' = Ended /\ Len(rows) + 1 \notin Ended
      BY <2>5, RowsType DEF OpenRow, RowsAccounted, Ended
    <3>3. RunTold(i, j)'
      BY <3>1, <3>2 DEF RunTold
    <3> QED
      BY <3>1, <3>2, <3>3, OthersTold
  <2>6. CASE BodyEnds(i, j) \/ BodyRaises(i, j)
    <3>1. /\ OnlyRun(i, j) /\ Row(i, j)' = Row(i, j)
          /\ run'[i][j].pc = "unlock"
      BY <2>6, StepFacts DEF Moved, Row
    <3>2. Ended' = Ended \cup ({Row(i, j)} \ {0})
      BY <2>6 DEF BodyEnds, BodyRaises, Row, Ended
    <3> SUFFICES ASSUME NEW i2 \in Instances, NEW j2 \in Jobs PROVE RunTold(i2, j2)'
      BY DEF RunAccounted, RunTold
    <3>3. CASE i2 = i /\ j2 = j
      BY <3>1, <3>2, <3>3 DEF RunTold
    <3>4. CASE i2 # i \/ j2 # j
      <4>1. RunTold(i2, j2) /\ run'[i2][j2] = run[i2][j2] /\ Row(i2, j2)' = Row(i2, j2)
        BY <3>1, <3>4 DEF RunAccounted, RunTold, OnlyRun, Row
      <4>2. Row(i2, j2) # 0 => Row(i2, j2) # Row(i, j)
        BY <3>4 DEF RowsOwned
      <4>3. Row(i2, j2) # 0 => (Row(i2, j2) \in Ended' <=> Row(i2, j2) \in Ended)
        BY <3>2, <4>2
      <4> QED
        BY <4>1, <4>3 DEF RunTold
    <3> QED
      BY <3>3, <3>4
  <2> QED
    BY <1>1, <2>1, <2>2, <2>3, <2>4, <2>5, <2>6 DEF Advance
<1>2. ASSUME NEW i \in Instances, Stop(i) PROVE RunAccounted'
  <2> SUFFICES ASSUME NEW i2 \in Instances, NEW j2 \in Jobs PROVE RunTold(i2, j2)'
    BY DEF RunAccounted, RunTold
  <2>1. CASE i2 = i
    BY <1>2, <2>1, StopFacts DEF NotRunning, RunTold, Row
  <2>2. CASE i2 # i
    <3>1. run'[i2][j2] = run[i2][j2] /\ Ended' = Ended /\ RunTold(i2, j2)
      BY <1>2, <2>2, StopFacts DEF Stop, RunAccounted, RunTold, Ended
    <3> QED
      BY <3>1 DEF RunTold, Row
  <2> QED
    BY <2>1, <2>2
<1>3. ASSUME NEW k \in Keys, SessionLost(k) PROVE RunAccounted'
  BY <1>3 DEF SessionLost, RunAccounted, Row, Ended
<1>4. CASE UNCHANGED vars
  BY <1>4 DEF vars, RunAccounted, Row, Ended
<1> QED
  BY <1>1, <1>2, <1>3, <1>4 DEF Next

LEMMA RowsAccountedStep ==
    SchedulerTypeOK /\ RowsOwned /\ RunAccounted /\ RowsAccounted /\ [Next]_vars
        => RowsAccounted'
<1> SUFFICES ASSUME SchedulerTypeOK, RowsOwned, RunAccounted, RowsAccounted, [Next]_vars
             PROVE  RowsAccounted'
  OBVIOUS
<1>0. Len(rows) \in Nat /\ DOMAIN rows = 1..Len(rows)
  BY RowsType
<1>1. ASSUME rows' = rows, Ended' = Ended PROVE RowsAccounted'
  BY <1>1 DEF RowsAccounted
<1>2. ASSUME NEW i \in Instances, NEW j \in Jobs, OpenRow(i, j) PROVE RowsAccounted'
  <2>1. /\ Len(rows') = Len(rows) + 1 /\ rows'[Len(rows) + 1] = "running"
        /\ \A n \in 1..Len(rows) : rows'[n] = rows[n]
        /\ DOMAIN rows' = 1..(Len(rows) + 1) /\ Ended' = Ended
    BY <1>2 DEF OpenRow, SchedulerTypeOK, Status, Ended
  <2> QED
    BY <1>0, <2>1 DEF RowsAccounted
<1>3. ASSUME NEW i \in Instances, NEW j \in Jobs, BodyEnds(i, j) \/ BodyRaises(i, j)
      PROVE  RowsAccounted'
  <2>1. Ended' = Ended \cup ({Row(i, j)} \ {0}) /\ rows' = rows
    BY <1>3 DEF BodyEnds, BodyRaises, Row, Ended
  <2>2. Row(i, j) # 0 => Row(i, j) \in 1..Len(rows) /\ rows[Row(i, j)] = "running"
    BY RowsType DEF RowsOwned
  <2> QED
    BY <2>1, <2>2 DEF RowsAccounted
<1>4. ASSUME NEW i \in Instances, NEW j \in Jobs, CloseRow(i, j) PROVE RowsAccounted'
  <2>1. CASE Row(i, j) = 0
    BY <1>1, <1>4, <2>1 DEF CloseRow, Row, Ended
  <2>2. CASE Row(i, j) # 0
    <3>1. /\ rows' = [rows EXCEPT ![Row(i, j)] = run[i][j].outcome]
          /\ Ended' = Ended /\ run[i][j].pc = "close"
      BY <1>4, <2>2 DEF CloseRow, Row, At, Ended
    <3>2. /\ run[i][j].outcome \in {"ok", "skipped"}
          /\ Row(i, j) \in Ended <=> run[i][j].outcome = "ok"
      BY <2>2, <3>1 DEF RunAccounted
    <3>3. Len(rows') = Len(rows) /\ DOMAIN rows' = DOMAIN rows
      BY <3>1 DEF SchedulerTypeOK
    <3> QED
      BY <1>0, <3>1, <3>2, <3>3 DEF RowsAccounted
  <2> QED
    BY <2>1, <2>2
<1>5. ASSUME NEW i \in Instances, NEW j \in Jobs,
             Fire(i, j) \/ OpenRowFails(i, j) \/ Skip(i, j) \/ TakeLocal(i, j)
                 \/ Lead(i, j) \/ Refused(i, j) \/ AcquireFails(i, j)
                 \/ Unlock(i, j) \/ CloseRowFails(i, j)
      PROVE  RowsAccounted'
  <2>1. rows' = rows /\ Ended' = Ended
    BY <1>5 DEF Fire, OpenRowFails, Skip, TakeLocal, Lead, Refused, AcquireFails,
                Unlock, CloseRowFails, bookkeepingSame, Ended
  <2> QED
    BY <1>1, <2>1
<1>6. ASSUME NEW i \in Instances, Stop(i) PROVE RowsAccounted'
  BY <1>1, <1>6 DEF Stop, Ended
<1>7. ASSUME NEW k \in Keys, SessionLost(k) PROVE RowsAccounted'
  BY <1>1, <1>7 DEF SessionLost, Ended
<1>8. CASE UNCHANGED vars
  BY <1>1, <1>8 DEF vars, Ended
<1> QED
  BY <1>2, <1>3, <1>4, <1>5, <1>6, <1>7, <1>8 DEF Next, Advance

Bound == stops * Cardinality(Jobs) + dbFailures

LEMMA BoundArithmetic ==
    ASSUME NEW a \in Nat, NEW b \in Nat, NEW c \in Nat
    PROVE  a * b + c \in Nat
<1>1. a * b \in Nat
  OBVIOUS
<1> QED
  BY <1>1

LEMMA BoundType ==
    ASSUME SchedulerTypeOK
    PROVE  /\ Bound \in Nat /\ Cardinality(Jobs) \in Nat
           /\ IsFiniteSet(Abandoned) /\ Cardinality(Abandoned) \in Nat
<1>1. Cardinality(Jobs) \in Nat
  BY SchedulerAssumption, FS_CardinalityType DEF SchedulerAssumption
<1>2. Bound \in Nat
  <2>1. PICK c \in Nat : c = Cardinality(Jobs)
    BY <1>1
  <2>2. stops \in Nat /\ dbFailures \in Nat
    BY DEF SchedulerTypeOK
  <2>3. stops * c + dbFailures \in Nat
    BY <2>1, <2>2, BoundArithmetic
  <2> QED
    BY <2>1, <2>3 DEF Bound
<1>3. IsFiniteSet(DOMAIN rows) /\ Abandoned \subseteq DOMAIN rows
  BY RowsType, FS_Interval DEF Abandoned
<1>4. IsFiniteSet(Abandoned)
  BY <1>3, FS_Subset
<1> QED
  BY <1>1, <1>2, <1>4, FS_CardinalityType

(* A step that abandons at most the rows N, and raises the bound by those. *)
LEMMA AbandonsAtMost ==
    ASSUME SchedulerTypeOK, SchedulerTypeOK', AbandonedFew,
           NEW N, IsFiniteSet(N), Abandoned' \subseteq Abandoned \cup N,
           Bound' >= Bound + Cardinality(N)
    PROVE  AbandonedFew'
<1>1. Cardinality(N) \in Nat /\ Cardinality(Abandoned \cap N) \in Nat
  BY FS_CardinalityType, FS_Subset, BoundType
<1>2. /\ IsFiniteSet(Abandoned \cup N)
      /\ Cardinality(Abandoned \cup N)
           = Cardinality(Abandoned) + Cardinality(N) - Cardinality(Abandoned \cap N)
  BY FS_Union, BoundType
<1>3. Cardinality(Abandoned') <= Cardinality(Abandoned \cup N)
  BY <1>2, FS_Subset
<1>4. /\ Cardinality(Abandoned) \in Nat /\ Bound \in Nat
      /\ Cardinality(Abandoned) <= Bound
  BY BoundType DEF AbandonedFew, Bound
<1>5. Bound' \in Nat /\ Cardinality(Abandoned') \in Nat
  <2>1. IsFiniteSet(Abandoned')
    BY <1>2, FS_Subset
  <2>2. Cardinality(Abandoned') \in Nat
    BY <2>1, FS_CardinalityType
  <2>3. PICK c \in Nat : c = Cardinality(Jobs)
    BY BoundType
  <2>4. stops' \in Nat /\ dbFailures' \in Nat
    BY DEF SchedulerTypeOK
  <2>5. stops' * c + dbFailures' \in Nat
    BY <2>3, <2>4, BoundArithmetic
  <2>6. Bound' \in Nat
    BY <2>3, <2>5 DEF Bound
  <2> QED
    BY <2>2, <2>6
<1>6. Cardinality(Abandoned') <= Bound'
  BY <1>1, <1>2, <1>3, <1>4, <1>5
<1> QED
  BY <1>6 DEF AbandonedFew, Bound

LEMMA AbandonsNothing ==
    ASSUME SchedulerTypeOK, SchedulerTypeOK', AbandonedFew,
           Abandoned' \subseteq Abandoned, Bound' >= Bound
    PROVE  AbandonedFew'
<1>1. IsFiniteSet({}) /\ Cardinality({}) = 0
  BY FS_EmptySet
<1>2. Bound' >= Bound + 0
  BY BoundType
<1> QED
  BY <1>1, <1>2, AbandonsAtMost

(* The rows of an instance's runs are no more than its jobs.               *)
LEMMA RowsOfInstance ==
    ASSUME SchedulerTypeOK, NEW i \in Instances
    PROVE  LET S == {Row(i, j) : j \in Jobs}
           IN  IsFiniteSet(S) /\ Cardinality(S) <= Cardinality(Jobs)
<1> DEFINE S == {Row(i, j) : j \in Jobs}
           f == [j \in Jobs |-> Row(i, j)]
<1>1. f \in Surjection(Jobs, S)
  BY DEF Surjection
<1>2. IsFiniteSet(Jobs)
  BY SchedulerAssumption DEF SchedulerAssumption
<1> HIDE DEF f, S
<1>3. IsFiniteSet(S) /\ Cardinality(S) <= Cardinality(Jobs)
  BY <1>1, <1>2, FS_Surjection
<1> QED
  BY <1>3 DEF S

LEMMA AbandonedStep ==
    SchedulerTypeOK /\ RowsOwned /\ RunAccounted /\ AbandonedFew /\ [Next]_vars
        => AbandonedFew'
<1> SUFFICES ASSUME SchedulerTypeOK, RowsOwned, RunAccounted, AbandonedFew, [Next]_vars
             PROVE  AbandonedFew'
  OBVIOUS
<1>0. SchedulerTypeOK' /\ Bound \in Nat /\ Cardinality(Jobs) \in Nat
  BY TypeStep, BoundType
<1>1. ASSUME NEW i \in Instances, NEW j \in Jobs, Fire(i, j) \/ Advance(i, j)
      PROVE  AbandonedFew'
  <2>1. CASE Fire(i, j) \/ OpenRowFails(i, j) \/ Skip(i, j) \/ TakeLocal(i, j)
             \/ Lead(i, j) \/ Refused(i, j) \/ AcquireFails(i, j)
             \/ BodyEnds(i, j) \/ BodyRaises(i, j) \/ Unlock(i, j)
    <3>1. OnlyRun(i, j) /\ run'[i][j].row = run[i][j].row
      BY <2>1, StepFacts DEF Moved
    <3>2. rows' = rows
      BY <2>1 DEF Fire, OpenRowFails, Skip, TakeLocal, Lead, Refused, AcquireFails,
                  BodyEnds, BodyRaises, Unlock, bookkeepingSame
    <3>3. Abandoned' \subseteq Abandoned
      BY <3>1, <3>2 DEF Abandoned, OnlyRun
    <3>4. stops' = stops /\ (dbFailures' = dbFailures \/ dbFailures' = dbFailures + 1)
      BY <2>1 DEF Fire, OpenRowFails, Skip, TakeLocal, Lead, Refused, AcquireFails,
                  BodyEnds, BodyRaises, Unlock, bookkeepingSame
    <3>5. Bound' >= Bound
      BY <1>0, <3>4 DEF Bound, SchedulerTypeOK
    <3> QED
      BY <1>0, <3>3, <3>5, AbandonsNothing
  <2>2. CASE OpenRow(i, j)
    <3>1. OnlyRun(i, j) /\ run'[i][j].row = Len(rows) + 1
      BY <2>2, StepFacts DEF Moved
    <3>2. /\ DOMAIN rows' = 1..(Len(rows) + 1)
          /\ \A n \in 1..Len(rows) : rows'[n] = rows[n]
      BY <2>2 DEF OpenRow, SchedulerTypeOK, Status
    <3>3. run[i][j].row = 0 /\ DOMAIN rows = 1..Len(rows) /\ Len(rows) \in Nat
      BY <2>2, RowsType DEF OpenRow, At, RowsOwned, Row
    <3>4. Abandoned' \subseteq Abandoned
      <4>1. SUFFICES ASSUME NEW n \in Abandoned' PROVE n \in Abandoned
        OBVIOUS
      <4>2. n \in 1..Len(rows) /\ rows[n] = "running"
        BY <3>1, <3>2, <3>3, <4>1 DEF Abandoned
      <4>3. \A i2 \in Instances, j2 \in Jobs : run[i2][j2].row # n
        BY <3>1, <3>3, <4>1, <4>2 DEF Abandoned, OnlyRun
      <4> QED
        BY <3>3, <4>2, <4>3 DEF Abandoned
    <3>5. Bound' = Bound
      BY <2>2 DEF OpenRow, Bound
    <3> QED
      BY <1>0, <3>4, <3>5, AbandonsNothing
  <2>3. CASE CloseRow(i, j)
    <3>1. OnlyRun(i, j)
      BY <2>3, StepFacts DEF Moved
    <3>2. /\ DOMAIN rows' = DOMAIN rows
          /\ \A n \in DOMAIN rows : n # Row(i, j) => rows'[n] = rows[n]
          /\ Row(i, j) \in DOMAIN rows => rows'[Row(i, j)] = run[i][j].outcome
      BY <2>3, RowsType DEF CloseRow, SchedulerTypeOK, Row
    <3>3. run[i][j].outcome # "running"
      BY <2>3 DEF CloseRow, At, RunAccounted
    <3>4. Abandoned' \subseteq Abandoned
      <4>1. SUFFICES ASSUME NEW n \in Abandoned' PROVE n \in Abandoned
        OBVIOUS
      <4>2. n \in DOMAIN rows /\ n # Row(i, j) /\ rows[n] = "running"
        BY <3>2, <3>3, <4>1 DEF Abandoned
      <4>3. \A i2 \in Instances, j2 \in Jobs : run[i2][j2].row # n
        BY <3>1, <4>1, <4>2 DEF Abandoned, OnlyRun, Row
      <4> QED
        BY <4>2, <4>3 DEF Abandoned
    <3>5. Bound' = Bound
      BY <2>3 DEF CloseRow, Bound
    <3> QED
      BY <1>0, <3>4, <3>5, AbandonsNothing
  <2>4. CASE CloseRowFails(i, j)
    <3>1. OnlyRun(i, j)
      BY <2>4, StepFacts DEF Moved
    <3>2. Abandoned' \subseteq Abandoned \cup {Row(i, j)}
      BY <2>4, <3>1 DEF CloseRowFails, Abandoned, OnlyRun, Row
    <3>3. IsFiniteSet({Row(i, j)}) /\ Cardinality({Row(i, j)}) = 1
      BY FS_Singleton
    <3>4. Bound' = Bound + 1
      BY <1>0, <2>4 DEF CloseRowFails, Bound, SchedulerTypeOK
    <3>5. Bound' >= Bound + Cardinality({Row(i, j)})
      BY <1>0, <3>3, <3>4
    <3> QED
      BY <1>0, <3>2, <3>3, <3>5, AbandonsAtMost
  <2> QED
    BY <1>1, <2>1, <2>2, <2>3, <2>4 DEF Advance
<1>2. ASSUME NEW i \in Instances, Stop(i) PROVE AbandonedFew'
  <2> DEFINE N == {Row(i, j) : j \in Jobs}
  <2>1. IsFiniteSet(N) /\ Cardinality(N) <= Cardinality(Jobs) /\ Cardinality(N) \in Nat
    BY RowsOfInstance, FS_CardinalityType
  <2>2. Abandoned' \subseteq Abandoned \cup N
    <3>1. SUFFICES ASSUME NEW n \in Abandoned', n \notin N PROVE n \in Abandoned
      OBVIOUS
    <3>2. n \in DOMAIN rows /\ rows[n] = "running"
      BY <1>2, <3>1 DEF Abandoned, Stop
    <3>3. ASSUME NEW i2 \in Instances, NEW j2 \in Jobs PROVE run[i2][j2].row # n
      <4>1. CASE i2 = i
        BY <3>1, <4>1 DEF Row
      <4>2. CASE i2 # i
        BY <1>2, <3>1, <4>2, StopFacts DEF Abandoned
      <4> QED
        BY <4>1, <4>2
    <3> QED
      BY <3>2, <3>3 DEF Abandoned
  <2>3. Bound' = Bound + Cardinality(Jobs)
    BY <1>0, <1>2 DEF Stop, Bound, SchedulerTypeOK
  <2>4. Bound' >= Bound + Cardinality(N)
    BY <1>0, <2>1, <2>3
  <2> HIDE DEF N
  <2> QED
    BY <1>0, <2>1, <2>2, <2>4, AbandonsAtMost
<1>3. ASSUME NEW k \in Keys, SessionLost(k) PROVE AbandonedFew'
  BY <1>3 DEF SessionLost, AbandonedFew, Abandoned
<1>4. CASE UNCHANGED vars
  BY <1>4 DEF vars, AbandonedFew, Abandoned
<1> QED
  BY <1>1, <1>2, <1>3, <1>4 DEF Next

LEMMA HistoryInit == Init => HistoryInv
<1> SUFFICES ASSUME Init PROVE HistoryInv
  OBVIOUS
<1>1. \A i \in Instances, j \in Jobs : run[i][j] = NotRunning
  BY DEF Init, AllIdle
<1>2. rows = <<>> /\ Ended = {} /\ stops = 0 /\ dbFailures = 0
  BY DEF Init, Ended
<1>3. SchedulerTypeOK
  BY InitType
<1>4. RowsOwned
  BY <1>1, <1>2 DEF RowsOwned, NotRunning, Row
<1>5. RunAccounted
  BY <1>1 DEF RunAccounted, NotRunning, Row
<1>6. RowsAccounted
  BY <1>2 DEF RowsAccounted
<1>7. AbandonedFew
  <2>1. Abandoned = {}
    BY <1>2 DEF Abandoned
  <2>2. Cardinality(Abandoned) = 0
    BY <2>1, FS_EmptySet
  <2>3. Bound = 0
    BY <1>2, <1>3, BoundType DEF Bound
  <2> QED
    BY <2>2, <2>3 DEF AbandonedFew, Bound
<1> QED
  BY <1>3, <1>4, <1>5, <1>6, <1>7 DEF HistoryInv

(* job_runs accounts for every run: a row closed as ok is of a run that    *)
(* had the lock and came back from its work (well or not: the job swallows *)
(* its exceptions), one closed as skipped of a run that never began, and   *)
(* rows are left running for at most each run a stop cut short and each    *)
(* write that failed.                                                      *)
THEOREM HistoryHolds == Spec => []HistoryAccounts
<1>1. HistoryInv /\ [Next]_vars => HistoryInv'
  BY TypeStep, RowsOwnedStep, RunAccountedStep, RowsAccountedStep, AbandonedStep
     DEF HistoryInv
<1>2. HistoryInv => HistoryAccounts
  BY DEF HistoryInv, RowsAccounted, AbandonedFew, HistoryAccounts
<1> QED
  BY <1>1, <1>2, HistoryInit, PTL DEF Spec

-----------------------------------------------------------------------------
(* Sequences: whom a sequence holds, and what removing one leaves.         *)

Holds(s, e) == \E i \in DOMAIN s : s[i] = e
OneEach(s) == \A i, j \in DOMAIN s : s[i].version = s[j].version => i = j

LEMMA Removed ==
  ASSUME NEW S, NEW s \in Seq(S), NEW i \in DOMAIN s
  PROVE  LET r == RemoveAt(s, i)
         IN  /\ r \in Seq(S)
             /\ Len(r) = Len(s) - 1
             /\ \A j \in 1 .. Len(s) - 1 : r[j] = IF j < i THEN s[j] ELSE s[j + 1]
<1> DEFINE a == SubSeq(s, 1, i - 1)
           b == SubSeq(s, i + 1, Len(s))
           r == a \o b
<1>1. Len(s) \in Nat /\ i \in 1 .. Len(s) /\ s \in [1 .. Len(s) -> S]
  OBVIOUS
<1>2. a \in Seq(S) /\ Len(a) = i - 1 /\ \A j \in 1 .. i - 1 : a[j] = s[j]
  BY <1>1
<1>3. b \in Seq(S) /\ Len(b) = Len(s) - i /\ \A j \in 1 .. Len(s) - i : b[j] = s[i + j]
  <2>1. i + 1 \in Int /\ Len(s) \in Int /\ \A j \in i + 1 .. Len(s) : s[j] \in S
    BY <1>1
  <2>2. /\ b \in Seq(S)
        /\ Len(b) = IF i + 1 <= Len(s) THEN Len(s) - (i + 1) + 1 ELSE 0
        /\ \A j \in 1 .. Len(s) - (i + 1) + 1 : b[j] = s[i + 1 + j - 1]
    BY <2>1, SubSeqProperties
  <2> HIDE DEF b
  <2>3. Len(b) = Len(s) - i
    BY <1>1, <2>2
  <2>4. ASSUME NEW j \in 1 .. Len(s) - i PROVE b[j] = s[i + j]
    <3>1. j \in 1 .. Len(s) - (i + 1) + 1 /\ i + 1 + j - 1 = i + j
      BY <1>1
    <3> QED
      BY <2>2, <3>1
  <2> QED
    BY <2>2, <2>3, <2>4
<1>4. RemoveAt(s, i) = r
  BY DEF RemoveAt
<1> HIDE DEF a, b
<1>5. /\ r \in Seq(S) /\ Len(r) = Len(s) - 1
      /\ \A j \in 1 .. Len(a) + Len(b) : r[j] = IF j <= Len(a) THEN a[j] ELSE b[j - Len(a)]
  <2>1. /\ r \in Seq(S) /\ Len(r) = Len(a) + Len(b)
        /\ \A j \in 1 .. Len(a) + Len(b) : r[j] = IF j <= Len(a) THEN a[j] ELSE b[j - Len(a)]
    BY <1>2, <1>3, ConcatProperties
  <2> HIDE DEF r
  <2>2. Len(a) + Len(b) = Len(s) - 1
    BY <1>1, <1>2, <1>3
  <2> QED
    BY <2>1, <2>2
<1>6. ASSUME NEW j \in 1 .. Len(s) - 1 PROVE r[j] = IF j < i THEN s[j] ELSE s[j + 1]
  <2>1. CASE j < i
    BY <1>1, <1>2, <1>3, <1>5, <2>1
  <2>2. CASE ~ (j < i)
    <3>1. j - (i - 1) \in 1 .. Len(s) - i /\ i + (j - (i - 1)) = j + 1
      BY <1>1, <2>2
    <3>2. r[j] = b[j - (i - 1)]
      BY <1>1, <1>2, <1>3, <1>5, <2>2
    <3> QED
      BY <1>3, <2>2, <3>1, <3>2
  <2> QED
    BY <2>1, <2>2
<1> QED
  BY <1>4, <1>5, <1>6

(* What is left of a sequence without one of its elements.                 *)
LEMMA RemovedHolds ==
  ASSUME NEW S, NEW s \in Seq(S), NEW i \in DOMAIN s
  PROVE  LET r == RemoveAt(s, i)
         IN  /\ r \in Seq(S)
             /\ \A e : Holds(r, e) => Holds(s, e)
             /\ OneEach(s) => OneEach(r) /\ \A e : Holds(r, e) <=> Holds(s, e) /\ e.version # s[i].version
             /\ i # Len(s) => r # << >> /\ Last(r) = Last(s)
<1> DEFINE r == RemoveAt(s, i)
           at(j) == IF j < i THEN j ELSE j + 1
<1>1. /\ r \in Seq(S) /\ Len(r) = Len(s) - 1 /\ Len(s) \in Nat /\ i \in 1 .. Len(s)
      /\ DOMAIN r = 1 .. Len(s) - 1 /\ DOMAIN s = 1 .. Len(s)
      /\ \A j \in 1 .. Len(s) - 1 : r[j] = s[at(j)]
  BY Removed
<1> HIDE DEF r
<1>2. \A j \in DOMAIN r : at(j) \in DOMAIN s /\ at(j) # i /\ r[j] = s[at(j)]
  BY <1>1
<1>3. \A j, k \in DOMAIN r : at(j) = at(k) => j = k
  BY <1>1
<1>4. ASSUME NEW e, Holds(r, e) PROVE Holds(s, e)
  BY <1>2, <1>4 DEF Holds
<1>5. ASSUME OneEach(s) PROVE OneEach(r) /\ \A e : Holds(r, e) <=> Holds(s, e) /\ e.version # s[i].version
  <2>1. OneEach(r)
    <3>1. ASSUME NEW j \in DOMAIN r, NEW k \in DOMAIN r, r[j].version = r[k].version PROVE j = k
      <4>1. at(j) = at(k)
        BY <1>2, <1>5, <3>1 DEF OneEach
      <4> QED
        BY <1>3, <4>1
    <3> QED
      BY <3>1 DEF OneEach
  <2>2. ASSUME NEW e, Holds(r, e) PROVE Holds(s, e) /\ e.version # s[i].version
    <3>1. PICK j \in DOMAIN r : r[j] = e
      BY <2>2 DEF Holds
    <3>2. s[at(j)] = e /\ at(j) \in DOMAIN s /\ at(j) # i
      BY <1>2, <3>1
    <3> HIDE DEF at
    <3> QED
      BY <1>5, <3>2 DEF Holds, OneEach
  <2>3. ASSUME NEW e, Holds(s, e), e.version # s[i].version PROVE Holds(r, e)
    <3>1. PICK j \in DOMAIN s : s[j] = e
      BY <2>3 DEF Holds
    <3>2. j # i
      BY <2>3, <3>1
    <3>3. CASE j < i
      <4>1. j \in DOMAIN r /\ r[j] = e
        BY <1>1, <3>1, <3>3
      <4> QED
        BY <4>1 DEF Holds
    <3>4. CASE ~ (j < i)
      <4>1. j - 1 \in DOMAIN r /\ at(j - 1) = j
        BY <1>1, <3>2, <3>4
      <4>2. r[j - 1] = e
        BY <1>2, <3>1, <4>1
      <4> QED
        BY <4>1, <4>2 DEF Holds
    <3> QED
      BY <3>3, <3>4
  <2> QED
    BY <2>1, <2>2, <2>3
<1>6. ASSUME i # Len(s) PROVE r # << >> /\ Last(r) = Last(s)
  <2>1. Len(s) - 1 \in DOMAIN r /\ at(Len(s) - 1) = Len(s)
    BY <1>1, <1>6
  <2>2. Last(r) = r[Len(s) - 1]
    BY <1>1 DEF Last
  <2>3. Last(r) = Last(s)
    BY <1>2, <2>1, <2>2 DEF Last
  <2> QED
    BY <1>1, <2>1, <2>3
<1> QED
  BY <1>1, <1>4, <1>5, <1>6 DEF r

LEMMA WithoutHolds ==
  ASSUME NEW S, NEW s \in Seq(S), NEW v
  PROVE  LET r == Without(s, v)
         IN  /\ r \in Seq(S)
             /\ \A e : Holds(r, e) => Holds(s, e)
             /\ OneEach(s) => OneEach(r) /\ \A e : Holds(r, e) <=> Holds(s, e) /\ e.version # v
             /\ s # << >> /\ Last(s).version # v => r # << >> /\ Last(r) = Last(s)
<1> DEFINE places == {i \in DOMAIN s : s[i].version = v}
           c == CHOOSE i \in places : TRUE
<1>1. CASE places = {}
  <2>1. Without(s, v) = s
    BY <1>1 DEF Without
  <2>2. \A e : Holds(s, e) => e.version # v
    BY <1>1 DEF Holds
  <2> QED
    BY <2>1, <2>2
<1>2. CASE places # {}
  <2>1. c \in places
    BY <1>2
  <2>2. Without(s, v) = RemoveAt(s, c)
    BY <1>2 DEF Without
  <2>3. c \in DOMAIN s /\ s[c].version = v
    BY <2>1
  <2> HIDE DEF c, places
  <2>4. Last(s).version # v => c # Len(s)
    BY <2>3 DEF Last
  <2> QED
    BY <2>2, <2>3, <2>4, RemovedHolds
<1> QED
  BY <1>1, <1>2

(* What a write makes of the files of a kind.                              *)
LEMMA AddedHolds ==
  ASSUME NEW S, NEW s \in Seq(S), NEW f \in S, OneEach(s)
  PROVE  LET r == Append(Without(s, f.version), f)
         IN  /\ r \in Seq(S)
             /\ OneEach(r)
             /\ \A e : Holds(r, e) <=> e = f \/ (Holds(s, e) /\ e.version # f.version)
             /\ r # << >> /\ Last(r) = f
<1> DEFINE w == Without(s, f.version)
           r == Append(w, f)
<1>1. w \in Seq(S) /\ OneEach(w) /\ \A e : Holds(w, e) <=> Holds(s, e) /\ e.version # f.version
  BY WithoutHolds
<1> HIDE DEF w
<1>2. /\ r \in Seq(S) /\ r # << >> /\ Len(r) = Len(w) + 1
      /\ \A i \in 1 .. Len(w) : r[i] = w[i]
      /\ r[Len(w) + 1] = f
  BY <1>1, AppendProperties
<1>3. Len(w) \in Nat /\ DOMAIN w = 1 .. Len(w) /\ DOMAIN r = 1 .. Len(r)
  BY <1>1, <1>2
<1> HIDE DEF r
<1>4. Last(r) = f
  BY <1>2 DEF Last
<1>5. \A i \in DOMAIN r : (i \in DOMAIN w /\ r[i] = w[i]) \/ (i = Len(w) + 1 /\ r[i] = f)
  BY <1>2, <1>3
<1>6. \A i \in DOMAIN w : w[i].version # f.version
  BY <1>1 DEF Holds
<1>7. OneEach(r)
  BY <1>1, <1>5, <1>6 DEF OneEach
<1>8. ASSUME NEW e, Holds(r, e) PROVE e = f \/ Holds(w, e)
  BY <1>5, <1>8 DEF Holds
<1>9. Holds(r, f)
  BY <1>2, <1>3 DEF Holds
<1>10. ASSUME NEW e, Holds(w, e) PROVE Holds(r, e)
  <2>1. PICK i \in DOMAIN w : w[i] = e
    BY <1>10 DEF Holds
  <2>2. i \in DOMAIN r /\ r[i] = e
    BY <1>2, <1>3, <2>1
  <2> QED
    BY <2>2 DEF Holds
<1> QED
  BY <1>1, <1>2, <1>4, <1>7, <1>8, <1>9, <1>10 DEF r, w

(* What the newest Keep leave is old.                                      *)
LEMMA OlderHolds ==
  ASSUME NEW S, NEW s \in Seq(S), OneEach(s)
  PROVE  /\ Older(s) \in Seq(S) /\ OneEach(Older(s))
         /\ \A e : Holds(Older(s), e) => Holds(s, e) /\ e.version # Last(s).version
<1> DEFINE r == SubSeq(s, 1, Len(s) - Keep)
<1>1. Len(s) \in Nat /\ DOMAIN s = 1 .. Len(s) /\ Keep \in Nat /\ Keep # 0 /\ \A i \in DOMAIN s : s[i] \in S
  BY LifecycleAssumption
<1>2. CASE Len(s) > Keep
  <2>1. PICK n \in Nat : n = Len(s) - Keep /\ n < Len(s)
    <3>1. Len(s) - Keep \in Int /\ Len(s) - Keep > 0 /\ Len(s) - Keep < Len(s)
      BY <1>1, <1>2
    <3>2. Len(s) - Keep \in Nat
      BY <3>1
    <3> QED
      BY <3>1, <3>2
  <2>2. r = [i \in 1 .. n |-> s[i]] /\ r \in Seq(S)
    BY <1>1, <2>1, SubSeqRestrict
  <2>3. Older(s) = r
    BY <1>2 DEF Older
  <2> HIDE DEF r
  <2>4. DOMAIN r = 1 .. n
    BY <2>2
  <2>5. ASSUME NEW i \in DOMAIN r PROVE i \in DOMAIN s /\ i # Len(s) /\ r[i] = s[i]
    <3>1. i \in 1 .. n
      BY <2>4
    <3>2. i \in 1 .. Len(s) /\ i # Len(s)
      BY <1>1, <2>1, <3>1
    <3> QED
      BY <1>1, <2>2, <3>1, <3>2
  <2>6. OneEach(r)
    BY <2>5 DEF OneEach
  <2>7. Len(s) \in DOMAIN s
    BY <1>1, <1>2
  <2>8. \A e : Holds(r, e) => Holds(s, e) /\ e.version # Last(s).version
    BY <2>5, <2>7 DEF Holds, OneEach, Last
  <2> QED
    BY <2>2, <2>3, <2>6, <2>8
<1>3. CASE ~ (Len(s) > Keep)
  BY <1>3 DEF Older, OneEach, Holds
<1> QED
  BY <1>2, <1>3

LEMMA ReverseHolds ==
  ASSUME NEW S, NEW s \in Seq(S)
  PROVE  Reverse(s) \in Seq(S) /\ \A e : Holds(Reverse(s), e) => Holds(s, e)
<1>1. Len(s) \in Nat /\ DOMAIN s = 1 .. Len(s) /\ \A i \in DOMAIN s : s[i] \in S
  OBVIOUS
<1>2. \A i \in 1 .. Len(s) : Len(s) - i + 1 \in DOMAIN s
  BY <1>1
<1>3. Reverse(s) \in [1 .. Len(s) -> S]
  BY <1>1, <1>2 DEF Reverse
<1>4. Reverse(s) \in Seq(S)
  BY <1>1, <1>3, IsASeq
<1>5. DOMAIN Reverse(s) = 1 .. Len(s) /\ \A i \in 1 .. Len(s) : Reverse(s)[i] = s[Len(s) - i + 1]
  BY DEF Reverse
<1>6. \A e : Holds(Reverse(s), e) => Holds(s, e)
  BY <1>2, <1>5 DEF Holds
<1> QED
  BY <1>4, <1>6

LEMMA TailHolds ==
  ASSUME NEW S, NEW s \in Seq(S), s # << >>
  PROVE  Tail(s) \in Seq(S) /\ Head(s) \in S /\ Holds(s, Head(s)) /\ \A e : Holds(Tail(s), e) => Holds(s, e)
<1>1. /\ Tail(s) \in Seq(S) /\ Len(Tail(s)) = Len(s) - 1
      /\ \A i \in 1 .. Len(Tail(s)) : Tail(s)[i] = s[i + 1]
  BY HeadTailProperties
<1>2. Len(s) \in Nat /\ Len(s) # 0 /\ DOMAIN s = 1 .. Len(s) /\ DOMAIN Tail(s) = 1 .. Len(Tail(s))
  BY <1>1
<1>3. \A i \in DOMAIN Tail(s) : i + 1 \in DOMAIN s /\ Tail(s)[i] = s[i + 1]
  BY <1>1, <1>2
<1>4. 1 \in DOMAIN s /\ s[1] = Head(s)
  BY <1>2
<1> QED
  BY <1>1, <1>3, <1>4 DEF Holds

-----------------------------------------------------------------------------
(* The training, its directory of models and those who serve from it.      *)

Made == Nat \ {Broken}
Files == [version : Nat, made : Nat]
Entries == [kind : Kinds, version : Nat, made : Made]
ModelRows == [version : Nat, kind : Kinds, made : Made]
VersionsByKind == [Kinds -> Nat \cup {NoArtifact}]
MadeByKind == [Kinds -> Made \cup {NoArtifact}]
Forecasts == [version : VersionsByKind, made : MadeByKind]
TrainingSteps == {"fit", "write", "store"}
PruningSteps == {"list", "unlink"}
ModelSteps == TrainingSteps \cup PruningSteps \cup {"idle", "choose", "load", "loaded", "prune"}
Models == [step : ModelSteps, kind : Kinds, version : VersionsByKind, path : VersionsByKind,
           made : MadeByKind, champions : VersionsByKind, doomed : Seq(Files)]

LifeTypeOK ==
  /\ second \in 1 .. LastSecond
  /\ files \in [Kinds -> Seq(Files)]
  /\ champion \in VersionsByKind
  /\ modelRow \in SUBSET ModelRows
  /\ forecast \in SUBSET Forecasts
  /\ loaded \in [Processes -> Seq(Entries)]
  /\ model \in [Processes -> Models]
  /\ finished \in Nat
  /\ named \in SUBSET (1 .. LastSecond)
  /\ shared \in SUBSET named

(* Where a process is in its run tells what it has named, made and chosen. *)
StepHolds(p, m) ==
  /\ m.step = "idle" => m = Idle
  /\ m.step \in TrainingSteps => m.path = None /\ p \in Trainers
  /\ m.step \notin TrainingSteps => m.version = None
  /\ m.step \notin TrainingSteps \cup {"load", "loaded"} => m.made = None
  /\ m.step \notin {"load", "loaded"} => m.path = None
  /\ \A k \in Kinds : m.version[k] # NoArtifact =>
       m.made[k] # NoArtifact \/ (m.step = "write" /\ m.kind = k)
  /\ m.step \in {"fit", "write"} => m.made[m.kind] = NoArtifact
  /\ m.step = "fit" => m.version[m.kind] = NoArtifact
  /\ m.step = "write" => m.version[m.kind] # NoArtifact
  /\ m.step \in {"fit", "write"} /\ m.kind = "regressor" =>
       m.version["classifier"] = NoArtifact /\ m.made["classifier"] = NoArtifact
  /\ m.step \in TrainingSteps => \A k \in Kinds :
       m.made[k] # NoArtifact => m.version[k] # NoArtifact
  /\ m.step = "store" \/ (m.step \in {"fit", "write"} /\ m.kind = "classifier") =>
       m.made["regressor"] # NoArtifact
  /\ m.step = "load" => m.made["classifier"] = NoArtifact
  /\ m.step = "load" /\ m.kind = "regressor" => m.made["regressor"] = NoArtifact
  /\ m.step = "load" /\ m.kind = "classifier" /\ m.path["regressor"] # NoArtifact =>
       m.made["regressor"] # NoArtifact
  /\ m.step = "loaded" => \A k \in Kinds : m.path[k] # NoArtifact => m.made[k] # NoArtifact

File(v, x) == [version |-> v, made |-> x]
HasFile(k, v, x) == Holds(files[k], File(v, x))

(* Somebody takes the artifact that was finished as number x for version v. *)
OnRow(k, v, x) == [version |-> v, kind |-> k, made |-> x] \in modelRow
Cached(k, v, x) == \E p \in Processes : Holds(loaded[p], [kind |-> k, version |-> v, made |-> x])
Forecast(k, v, x) == \E f \in forecast : f.version[k] = v /\ f.made[k] = x
RunTells(m, k, v, x) == m.made[k] = x /\ (m.version[k] = v \/ m.path[k] = v)
OnRun(k, v, x) == \E p \in Processes : RunTells(model[p], k, v, x)
Tells(k, v, x) == HasFile(k, v, x) \/ OnRow(k, v, x) \/ Cached(k, v, x) \/ Forecast(k, v, x) \/ OnRun(k, v, x)

Unfinished(k, v) == Writing(k, v) \/ HasFile(k, v, Broken)

Bears(t, k, v) == model[t].version[k] = v

NamesHold ==
  /\ \A k \in Kinds : \A v \in Nat : Unfinished(k, v) => v \in named
  /\ \A k \in Kinds : \A v \in Nat, x \in Made : Tells(k, v, x) => v \in named
  /\ \A k \in Kinds : \A v \in Nat, t \in Trainers : Bears(t, k, v) => v \in named
  /\ \A t, u \in Trainers, k, l \in Kinds : \A v \in Nat :
       Bears(t, k, v) /\ Bears(u, l, v) /\ (t # u \/ k # l) => v \in shared
  /\ \A r \in modelRow : \A t \in Trainers, k \in Kinds : Bears(t, k, r.version) => r.version \in shared

TalesHold ==
  /\ \A k \in Kinds : \A v \in Nat, x \in Made : Tells(k, v, x) => x =< finished
  /\ \A k \in Kinds : \A v, w \in Nat, x \in Made : Tells(k, v, x) /\ Tells(k, w, x) => v = w
  /\ \A k \in Kinds : \A v \in Nat : \A x, y \in Made :
       Tells(k, v, x) /\ Tells(k, v, y) => x = y \/ v \in shared
  /\ \A k \in Kinds : \A v \in Nat : \A x \in Made :
       Tells(k, v, x) /\ Unfinished(k, v) => v \in shared

FilesHold ==
  /\ \A k \in Kinds : OneEach(files[k])
  /\ \A k \in Kinds : \A v \in Nat : HasFile(k, v, Broken) =>
       Writing(k, v) \/ <<k, v>> \in abandoned \/ v \in shared

Pruning(t, k) == AtStep(t, "unlink") /\ model[t].kind = k
Picked(m, f) == Holds(m.doomed, f)

ChampionsHold ==
  /\ \A k \in Kinds : champion[k] # NoArtifact /\ <<k, champion[k]>> \notin passedOver =>
       /\ \E x \in Nat : HasFile(k, champion[k], x)
       /\ \A t \in Trainers : model[t].step \in PruningSteps => model[t].champions[k] = champion[k]
  /\ \A t \in Trainers, k \in Kinds : \A f \in Files :
       Pruning(t, k) /\ Picked(model[t], f) => f.version # model[t].champions[k]

ForecastsFull ==
  \A f \in forecast : \A k \in Kinds : f.version[k] # NoArtifact => f.made[k] # NoArtifact

Clean(k) == shared = {} /\ \A v \in 1 .. LastSecond : <<k, v>> \notin abandoned

Trained(k) == (\E r \in modelRow : r.kind = k) \/ (\E t \in Trainers : model[t].version[k] # NoArtifact)

CleanHolds(k) ==
  /\ \A t \in Trainers : \A f \in Files : Pruning(t, k) /\ Picked(model[t], f) =>
       /\ f.version \in named /\ ~ Writing(k, f.version)
       /\ files[k] # << >> => Last(files[k]).version # f.version
  /\ Trained(k) => files[k] # << >>
  /\ \A v \in Nat : Writing(k, v) => HasFile(k, v, Broken)
  /\ files[k] # << >> /\ Last(files[k]).made # Broken =>
       \A v \in Nat, x \in Made : Tells(k, v, x) => x =< Last(files[k]).made
  /\ unannounced = {} => \A v \in Nat, x \in Made : HasFile(k, v, x) =>
       OnRow(k, v, x) \/ \E t \in Trainers : Bears(t, k, v) /\ model[t].made[k] = x

LifeInvariant ==
  /\ LifeTypeOK
  /\ \A p \in Processes : StepHolds(p, model[p])
  /\ NamesHold /\ TalesHold /\ FilesHold /\ ChampionsHold /\ ForecastsFull
  /\ \A k \in Kinds : Clean(k) => CleanHolds(k)

LEMMA Absent ==
  /\ NoArtifact \notin Nat /\ Broken \in Nat /\ Broken \notin Made /\ Made \subseteq Nat
  /\ None \in VersionsByKind /\ None \in MadeByKind
BY DEF NoArtifact, Broken, Made, None, VersionsByKind, MadeByKind

LEMMA TheKinds == \A k \in Kinds : k = "regressor" \/ k = "classifier"
BY DEF Kinds

LEMMA BothKinds == "regressor" \in Kinds /\ "classifier" \in Kinds
BY DEF Kinds

LEMMA ModelFields ==
  ASSUME NEW m \in Models
  PROVE  /\ m.step \in ModelSteps /\ m.kind \in Kinds /\ m.doomed \in Seq(Files)
         /\ \A k \in Kinds : /\ m.version[k] \in Nat \cup {NoArtifact}
                             /\ m.path[k] \in Nat \cup {NoArtifact}
                             /\ m.made[k] \in Made \cup {NoArtifact}
                             /\ m.champions[k] \in Nat \cup {NoArtifact}
BY DEF Models, VersionsByKind, MadeByKind

LEMMA IdleIsModel == Idle \in Models
BY BothKinds, Absent DEF Idle, Models, ModelSteps

(* A step that changes one process's run.                                  *)
OneRun(p, m) ==
  /\ model'[p] = m
  /\ \A q \in Processes : q # p => model'[q] = model[q]

LEMMA RunChanges ==
  ASSUME LifeTypeOK, NEW p \in Processes, NEW m \in Models, model' = [model EXCEPT ![p] = m]
  PROVE  OneRun(p, m) /\ model' \in [Processes -> Models]
BY DEF OneRun, LifeTypeOK

LEMMA StepsKept ==
  ASSUME \A q \in Processes : StepHolds(q, model[q]), NEW p \in Processes, NEW m, OneRun(p, m), StepHolds(p, m)
  PROVE  (\A q \in Processes : StepHolds(q, model[q]))'
<1>1. ASSUME NEW q \in Processes PROVE StepHolds(q, model'[q])
  <2>1. CASE q = p
    BY <2>1 DEF OneRun
  <2>2. CASE q # p
    BY <2>2 DEF OneRun
  <2> QED
    BY <2>1, <2>2
<1> QED
  BY <1>1 DEF StepHolds

-----------------------------------------------------------------------------
(* A step that brings nothing new.                                         *)

NothingTold == \A k \in Kinds : \A v \in Nat, x \in Made : Tells(k, v, x)' => Tells(k, v, x)
NothingNamed == \A k \in Kinds : \A v \in Nat, t \in Trainers : Bears(t, k, v)' => Bears(t, k, v)
NothingBegun == \A k \in Kinds : \A v \in Nat : Unfinished(k, v)' => Unfinished(k, v)
RowsOfOthers ==
  \A r \in modelRow' : \A t \in Trainers, k \in Kinds :
    Bears(t, k, r.version)' => r \in modelRow \/ r.version \in shared

LEMMA NamesKept ==
  ASSUME NamesHold, NothingTold, NothingNamed, NothingBegun, RowsOfOthers,
         named' = named, shared' = shared, LifeTypeOK'
  PROVE  NamesHold'
<1>1. \A k \in Kinds : \A v \in Nat : Unfinished(k, v)' => v \in named
  BY DEF NamesHold, NothingBegun
<1>2. \A k \in Kinds : \A v \in Nat, x \in Made : Tells(k, v, x)' => v \in named
  BY DEF NamesHold, NothingTold
<1>3. \A k \in Kinds : \A v \in Nat, t \in Trainers : Bears(t, k, v)' => v \in named
  BY DEF NamesHold, NothingNamed
<1>4. \A t, u \in Trainers, k, l \in Kinds : \A v \in Nat :
        Bears(t, k, v)' /\ Bears(u, l, v)' /\ (t # u \/ k # l) => v \in shared
  BY DEF NamesHold, NothingNamed
<1>5. ASSUME NEW r \in modelRow', NEW t \in Trainers, NEW k \in Kinds, Bears(t, k, r.version)'
      PROVE  r.version \in shared
  <2>1. r.version \in Nat
    BY DEF LifeTypeOK, ModelRows
  <2>2. Bears(t, k, r.version)
    BY <1>5, <2>1 DEF NothingNamed
  <2> QED
    BY <1>5, <2>2 DEF RowsOfOthers, NamesHold
<1> QED
  BY <1>1, <1>2, <1>3, <1>4, <1>5 DEF NamesHold

LEMMA TalesKept ==
  ASSUME TalesHold, NothingTold, NothingBegun, finished' = finished, shared' = shared
  PROVE  TalesHold'
<1>1. \A k \in Kinds : \A v \in Nat, x \in Made : Tells(k, v, x)' => x =< finished
  BY DEF TalesHold, NothingTold
<1>2. \A k \in Kinds : \A v, w \in Nat, x \in Made : Tells(k, v, x)' /\ Tells(k, w, x)' => v = w
  BY DEF TalesHold, NothingTold
<1>3. \A k \in Kinds : \A v \in Nat : \A x, y \in Made :
        Tells(k, v, x)' /\ Tells(k, v, y)' => x = y \/ v \in shared
  BY DEF TalesHold, NothingTold
<1>4. \A k \in Kinds : \A v \in Nat : \A x \in Made :
        Tells(k, v, x)' /\ Unfinished(k, v)' => v \in shared
  BY DEF TalesHold, NothingTold, NothingBegun
<1> QED
  BY <1>1, <1>2, <1>3, <1>4 DEF TalesHold

-----------------------------------------------------------------------------
(* A step of a run that leaves the directory and the table alone.          *)

DirectoryKept ==
  /\ second' \in 1 .. LastSecond /\ files' = files /\ named' = named /\ shared' = shared /\ finished' = finished
  /\ champion' = champion /\ modelRow' = modelRow /\ passedOver' = passedOver
  /\ abandoned \subseteq abandoned' /\ unannounced \subseteq unannounced'

CachesExplained ==
  /\ loaded' \in [Processes -> Seq(Entries)]
  /\ \A q \in Processes : \A e \in Entries :
       Holds(loaded'[q], e) => Holds(loaded[q], e) \/ Tells(e.kind, e.version, e.made)

ForecastExplained ==
  \A f \in forecast' : f \in forecast \/
    /\ f \in Forecasts
    /\ \A k \in Kinds : /\ f.version[k] # NoArtifact => f.made[k] # NoArtifact
                        /\ \A v \in Nat, x \in Made : f.version[k] = v /\ f.made[k] = x => Tells(k, v, x)

RunExplained(p, m) ==
  /\ \A k \in Kinds : m.version[k] \in {NoArtifact, model[p].version[k]}
  /\ \A k \in Kinds : \A v \in Nat, x \in Made : RunTells(m, k, v, x) => Tells(k, v, x)
  /\ m.step # "write"
  /\ AtStep(p, "write") => <<model[p].kind, model[p].version[model[p].kind]>> \in abandoned'
  /\ unannounced' = {} => \A k \in Kinds :
       model[p].version[k] # NoArtifact /\ model[p].made[k] # NoArtifact =>
         m.version[k] = model[p].version[k] /\ m.made[k] = model[p].made[k]

PruneExplained(p, m) ==
  /\ m.step \in PruningSteps =>
       m.champions = champion \/ (model[p].step \in PruningSteps /\ m.champions = model[p].champions)
  /\ m.step = "unlink" => \A f \in Files : Picked(m, f) =>
       /\ f.version # m.champions[m.kind]
       /\ Clean(m.kind)' => /\ f.version \in named /\ ~ Writing(m.kind, f.version)
                            /\ files[m.kind] # << >> => Last(files[m.kind]).version # f.version

QuietRun(p, m) ==
  /\ model' = [model EXCEPT ![p] = m] /\ StepHolds(p, m)
  /\ DirectoryKept /\ CachesExplained /\ ForecastExplained
  /\ RunExplained(p, m) /\ PruneExplained(p, m)

LEMMA QuietType ==
  ASSUME LifeTypeOK, NEW p \in Processes, NEW m \in Models, QuietRun(p, m)
  PROVE  LifeTypeOK'
<1>1. model' \in [Processes -> Models]
  BY RunChanges DEF QuietRun
<1>2. forecast' \in SUBSET Forecasts
  BY DEF QuietRun, ForecastExplained, LifeTypeOK
<1> QED
  BY <1>1, <1>2 DEF QuietRun, DirectoryKept, CachesExplained, LifeTypeOK

LEMMA QuietTells ==
  ASSUME LifeInvariant, NEW p \in Processes, NEW m \in Models, QuietRun(p, m)
  PROVE  NothingTold
<1> SUFFICES ASSUME NEW k \in Kinds, NEW v \in Nat, NEW x \in Made, Tells(k, v, x)'
             PROVE  Tells(k, v, x)
  BY DEF NothingTold
<1>1. CASE HasFile(k, v, x)'
  BY <1>1 DEF QuietRun, DirectoryKept, HasFile, File, Tells
<1>2. CASE OnRow(k, v, x)'
  BY <1>2 DEF QuietRun, DirectoryKept, OnRow, Tells
<1>3. CASE Cached(k, v, x)'
  <2> DEFINE e == [kind |-> k, version |-> v, made |-> x]
  <2>1. PICK q \in Processes : Holds(loaded'[q], e)
    BY <1>3 DEF Cached
  <2>2. e \in Entries /\ e.kind = k /\ e.version = v /\ e.made = x
    BY DEF Entries
  <2>3. Holds(loaded[q], e) \/ Tells(k, v, x)
    BY <2>1, <2>2 DEF QuietRun, CachesExplained
  <2> QED
    BY <2>3 DEF Cached, Tells
<1>4. CASE Forecast(k, v, x)'
  BY <1>4 DEF Forecast, Tells, QuietRun, ForecastExplained
<1>5. CASE OnRun(k, v, x)'
  <2>1. PICK q \in Processes : RunTells(model'[q], k, v, x)
    BY <1>5 DEF OnRun, RunTells
  <2>2. OneRun(p, m)
    BY RunChanges DEF QuietRun, LifeInvariant
  <2>3. CASE q = p
    BY <2>1, <2>2, <2>3 DEF OneRun, QuietRun, RunExplained
  <2>4. CASE q # p
    BY <2>1, <2>2, <2>4 DEF OneRun, OnRun, Tells
  <2> QED
    BY <2>3, <2>4
<1> QED
  BY <1>1, <1>2, <1>3, <1>4, <1>5 DEF Tells

LEMMA QuietNames ==
  ASSUME LifeTypeOK, NEW p \in Processes, NEW m \in Models, QuietRun(p, m)
  PROVE  NothingNamed
<1> SUFFICES ASSUME NEW k \in Kinds, NEW v \in Nat, NEW t \in Trainers, Bears(t, k, v)'
             PROVE  Bears(t, k, v)
  BY DEF NothingNamed
<1>1. OneRun(p, m) /\ t \in Processes
  BY RunChanges DEF QuietRun, Processes
<1>2. CASE t = p
  BY <1>1, <1>2, Absent DEF OneRun, QuietRun, RunExplained, Bears
<1>3. CASE t # p
  BY <1>1, <1>3 DEF OneRun, Bears
<1> QED
  BY <1>2, <1>3

LEMMA QuietWrites ==
  ASSUME LifeTypeOK, NEW p \in Processes, NEW m \in Models, QuietRun(p, m), NEW k \in Kinds, NEW v \in Nat
  PROVE  /\ Writing(k, v)' => Writing(k, v)
         /\ Writing(k, v) => Writing(k, v)' \/ <<k, v>> \in abandoned'
<1>1. OneRun(p, m) /\ Trainers \subseteq Processes
  BY RunChanges DEF QuietRun, Processes
<1>2. ASSUME Writing(k, v)' PROVE Writing(k, v)
  BY <1>1, <1>2 DEF Writing, AtStep, OneRun, QuietRun, RunExplained
<1>3. ASSUME Writing(k, v) PROVE Writing(k, v)' \/ <<k, v>> \in abandoned'
  <2>1. PICK t \in Trainers : AtStep(t, "write") /\ model[t].kind = k /\ model[t].version[k] = v
    BY <1>3 DEF Writing
  <2>2. CASE t = p
    BY <2>1, <2>2 DEF QuietRun, RunExplained
  <2>3. CASE t # p
    BY <1>1, <2>1, <2>3 DEF OneRun, Writing, AtStep
  <2> QED
    BY <2>2, <2>3
<1> QED
  BY <1>2, <1>3

LEMMA QuietBegins ==
  ASSUME LifeTypeOK, NEW p \in Processes, NEW m \in Models, QuietRun(p, m)
  PROVE  NothingBegun
<1> SUFFICES ASSUME NEW k \in Kinds, NEW v \in Nat, Unfinished(k, v)' PROVE Unfinished(k, v)
  BY DEF NothingBegun
<1>1. CASE Writing(k, v)'
  BY <1>1, QuietWrites DEF Unfinished
<1>2. CASE HasFile(k, v, Broken)'
  BY <1>2 DEF Unfinished, HasFile, File, QuietRun, DirectoryKept
<1> QED
  BY <1>1, <1>2 DEF Unfinished

LEMMA QuietFiles ==
  ASSUME LifeTypeOK, FilesHold, NEW p \in Processes, NEW m \in Models, QuietRun(p, m)
  PROVE  FilesHold'
<1>1. (\A k \in Kinds : OneEach(files[k]))'
  BY DEF FilesHold, QuietRun, DirectoryKept, OneEach
<1>2. ASSUME NEW k \in Kinds, NEW v \in Nat, HasFile(k, v, Broken)'
      PROVE  (Writing(k, v) \/ <<k, v>> \in abandoned \/ v \in shared)'
  <2>1. HasFile(k, v, Broken)
    BY <1>2 DEF HasFile, File, QuietRun, DirectoryKept
  <2>2. Writing(k, v) \/ <<k, v>> \in abandoned \/ v \in shared
    BY <2>1 DEF FilesHold
  <2> QED
    BY <2>2, QuietWrites DEF QuietRun, DirectoryKept
<1> QED
  BY <1>1, <1>2 DEF FilesHold

LEMMA QuietChampions ==
  ASSUME LifeTypeOK, ChampionsHold, NEW p \in Processes, NEW m \in Models, QuietRun(p, m)
  PROVE  ChampionsHold'
<1>1. OneRun(p, m) /\ Trainers \subseteq Processes
  BY RunChanges DEF QuietRun, Processes
<1>2. ASSUME NEW k \in Kinds, champion'[k] # NoArtifact, <<k, champion'[k]>> \notin passedOver'
      PROVE  /\ (\E x \in Nat : HasFile(k, champion[k], x))'
             /\ \A t \in Trainers : model'[t].step \in PruningSteps => model'[t].champions[k] = champion'[k]
  <2>1. champion[k] # NoArtifact /\ <<k, champion[k]>> \notin passedOver
    BY <1>2 DEF QuietRun, DirectoryKept
  <2>2. (\E x \in Nat : HasFile(k, champion[k], x))'
    BY <2>1 DEF ChampionsHold, HasFile, File, QuietRun, DirectoryKept
  <2>3. ASSUME NEW t \in Trainers, model'[t].step \in PruningSteps PROVE model'[t].champions[k] = champion'[k]
    <3>1. CASE t = p
      <4>1. m.champions = champion \/ (model[p].step \in PruningSteps /\ m.champions = model[p].champions)
        BY <1>1, <2>3, <3>1 DEF OneRun, QuietRun, PruneExplained
      <4>2. model[p].step \in PruningSteps => model[p].champions[k] = champion[k]
        BY <2>1, <3>1 DEF ChampionsHold
      <4> QED
        BY <1>1, <3>1, <4>1, <4>2 DEF OneRun, QuietRun, DirectoryKept
    <3>2. CASE t # p
      BY <1>1, <2>1, <2>3, <3>2 DEF OneRun, ChampionsHold, QuietRun, DirectoryKept
    <3> QED
      BY <3>1, <3>2
  <2> QED
    BY <2>2, <2>3
<1>3. ASSUME NEW t \in Trainers, NEW k \in Kinds, NEW f \in Files, Pruning(t, k)', Picked(model'[t], f)
      PROVE  f.version # model'[t].champions[k]
  <2>1. CASE t = p
    BY <1>1, <1>3, <2>1 DEF OneRun, QuietRun, PruneExplained, Pruning, AtStep, PruningSteps
  <2>2. CASE t # p
    BY <1>1, <1>3, <2>2 DEF OneRun, ChampionsHold, Pruning, AtStep
  <2> QED
    BY <2>1, <2>2
<1> QED
  BY <1>2, <1>3 DEF ChampionsHold, Picked

LEMMA QuietForecasts ==
  ASSUME ForecastsFull, NEW p \in Processes, NEW m \in Models, QuietRun(p, m)
  PROVE  ForecastsFull'
BY DEF ForecastsFull, QuietRun, ForecastExplained

LEMMA QuietClean ==
  ASSUME LifeInvariant, NEW p \in Processes, NEW m \in Models, QuietRun(p, m), NEW k \in Kinds, Clean(k)'
  PROVE  CleanHolds(k)'
<1>1. OneRun(p, m) /\ Trainers \subseteq Processes /\ LifeTypeOK
  BY RunChanges DEF QuietRun, Processes, LifeInvariant
<1>2. Clean(k)
  BY DEF Clean, QuietRun, DirectoryKept
<1>3. CleanHolds(k)
  BY <1>2 DEF LifeInvariant
<1>4. NothingTold /\ NothingNamed
  BY <1>1, QuietTells, QuietNames
<1>5. /\ files' = files /\ named' = named /\ modelRow' = modelRow /\ (unannounced' = {} => unannounced = {})
      /\ \A v \in Nat, x \in Nat : HasFile(k, v, x)' <=> HasFile(k, v, x)
      /\ \A v \in Nat, x \in Nat : OnRow(k, v, x)' <=> OnRow(k, v, x)
  BY DEF QuietRun, DirectoryKept, HasFile, File, OnRow
<1>6. ASSUME NEW t \in Trainers, NEW f \in Files, Pruning(t, k)', Picked(model'[t], f)
      PROVE  /\ f.version \in named /\ ~ Writing(k, f.version)'
             /\ files[k] # << >> => Last(files[k]).version # f.version
  <2>1. f.version \in Nat
    BY DEF Files
  <2>2. ~ Writing(k, f.version) => ~ Writing(k, f.version)'
    BY <1>1, <2>1, QuietWrites
  <2>3. CASE t = p
    <3>1. m.kind = k /\ m.step = "unlink" /\ Picked(m, f)
      BY <1>1, <1>6, <2>3 DEF OneRun, Pruning, AtStep
    <3> QED
      BY <2>2, <3>1 DEF QuietRun, PruneExplained
  <2>4. CASE t # p
    <3>1. Pruning(t, k) /\ Picked(model[t], f)
      BY <1>1, <1>6, <2>4 DEF OneRun, Pruning, AtStep
    <3> QED
      BY <1>3, <2>2, <3>1 DEF CleanHolds
  <2> QED
    BY <2>3, <2>4
<1>7. ASSUME Trained(k)' PROVE files[k] # << >>
  <2>1. CASE \E r \in modelRow' : r.kind = k
    BY <1>3, <1>5, <2>1 DEF Trained, CleanHolds
  <2>2. CASE \E t \in Trainers : model'[t].version[k] # NoArtifact
    <3>1. PICK t \in Trainers : model'[t].version[k] # NoArtifact
      BY <2>2
    <3>2. model[t].version[k] # NoArtifact
      BY <1>1, <3>1 DEF OneRun, QuietRun, RunExplained
    <3> QED
      BY <1>3, <3>2 DEF Trained, CleanHolds
  <2> QED
    BY <1>7, <2>1, <2>2 DEF Trained
<1>8. ASSUME NEW v \in Nat, Writing(k, v)' PROVE HasFile(k, v, Broken)'
  <2>1. Writing(k, v)
    BY <1>1, <1>8, QuietWrites
  <2> QED
    BY <1>3, <1>5, <2>1, Absent DEF CleanHolds
<1>9. ASSUME files[k] # << >>, Last(files[k]).made # Broken, NEW v \in Nat, NEW x \in Made, Tells(k, v, x)'
      PROVE  x =< Last(files[k]).made
  BY <1>3, <1>4, <1>9 DEF CleanHolds, NothingTold
<1>10. ASSUME unannounced' = {}, NEW v \in Nat, NEW x \in Made, HasFile(k, v, x)'
       PROVE  OnRow(k, v, x)' \/ \E t \in Trainers : Bears(t, k, v)' /\ model'[t].made[k] = x
  <2>1. OnRow(k, v, x) \/ \E t \in Trainers : Bears(t, k, v) /\ model[t].made[k] = x
    BY <1>3, <1>5, <1>10, Absent DEF CleanHolds
  <2>2. CASE OnRow(k, v, x)
    BY <1>5, <2>2, Absent
  <2>3. ASSUME NEW t \in Trainers, Bears(t, k, v), model[t].made[k] = x
        PROVE  Bears(t, k, v)' /\ model'[t].made[k] = x
    <3>1. model[t].version[k] # NoArtifact /\ model[t].made[k] # NoArtifact
      BY <2>3, Absent DEF Bears, NoArtifact
    <3>2. CASE t = p
      BY <1>1, <1>10, <2>3, <3>1, <3>2 DEF OneRun, QuietRun, RunExplained, Bears
    <3>3. CASE t # p
      BY <1>1, <2>3, <3>3 DEF OneRun, Bears
    <3> QED
      BY <3>2, <3>3
  <2> QED
    BY <2>1, <2>2, <2>3
<1>11. (\A t \in Trainers : \A f \in Files : Pruning(t, k) /\ Picked(model[t], f) =>
       /\ f.version \in named /\ ~ Writing(k, f.version)
       /\ files[k] # << >> => Last(files[k]).version # f.version)'
  BY <1>5, <1>6 DEF Picked
<1>12. (files[k] # << >> /\ Last(files[k]).made # Broken =>
       \A v \in Nat, x \in Made : Tells(k, v, x) => x =< Last(files[k]).made)'
  BY <1>5, <1>9
<1> QED
  BY <1>5, <1>7, <1>8, <1>10, <1>11, <1>12 DEF CleanHolds

LEMMA QuietKeeps ==
  ASSUME LifeInvariant, NEW p \in Processes, NEW m \in Models, QuietRun(p, m)
  PROVE  LifeInvariant'
<1>1. /\ LifeTypeOK /\ NamesHold /\ TalesHold /\ FilesHold /\ ChampionsHold /\ ForecastsFull
      /\ \A q \in Processes : StepHolds(q, model[q])
  BY DEF LifeInvariant
<1>2. LifeTypeOK'
  BY <1>1, QuietType
<1>3. (\A q \in Processes : StepHolds(q, model[q]))'
  BY <1>1, RunChanges, StepsKept DEF QuietRun
<1>4. NothingTold /\ NothingNamed /\ NothingBegun
  BY <1>1, QuietTells, QuietNames, QuietBegins
<1>5. RowsOfOthers /\ named' = named /\ shared' = shared /\ finished' = finished
  BY DEF RowsOfOthers, QuietRun, DirectoryKept
<1>6. NamesHold'
  BY <1>1, <1>2, <1>4, <1>5, NamesKept
<1>7. TalesHold'
  BY <1>1, <1>4, <1>5, TalesKept
<1>8. FilesHold' /\ ChampionsHold' /\ ForecastsFull'
  BY <1>1, QuietFiles, QuietChampions, QuietForecasts
<1>9. ASSUME NEW k \in Kinds, Clean(k)' PROVE CleanHolds(k)'
  BY <1>9, QuietClean
<1> QED
  BY <1>2, <1>3, <1>6, <1>7, <1>8, <1>9 DEF LifeInvariant

-----------------------------------------------------------------------------
(* The steps that leave the directory and the table alone.                 *)

LEMMA CachesSame == LifeTypeOK /\ loaded' = loaded => CachesExplained
BY DEF LifeTypeOK, CachesExplained

LEMMA ForecastSame == forecast' = forecast => ForecastExplained
BY DEF ForecastExplained

LEMMA StepOf ==
  ASSUME LifeInvariant, NEW p \in Processes
  PROVE  model[p] \in Models /\ StepHolds(p, model[p])
BY DEF LifeInvariant, LifeTypeOK

LEMMA GoesTo ==
  ASSUME LifeTypeOK, NEW p \in Processes, NEW s \in ModelSteps, Goes(p, s)
  PROVE  \E m \in Models : model' = [model EXCEPT ![p] = m] /\ m = [model[p] EXCEPT !.step = s]
BY DEF LifeTypeOK, Goes, Models

(* A run that has named and made nothing has nothing to explain.           *)
LEMMA BlankRun ==
  ASSUME NEW p \in Processes, NEW m \in Models, m.version = None, m.made = None, m.step # "write",
         AtStep(p, "write") => <<model[p].kind, model[p].version[model[p].kind]>> \in abandoned',
         unannounced' = {} => \A k \in Kinds : model[p].version[k] = NoArtifact \/ model[p].made[k] = NoArtifact
  PROVE  RunExplained(p, m)
<1>1. \A k \in Kinds : m.version[k] = NoArtifact /\ m.made[k] = NoArtifact
  BY DEF None
<1>2. NoArtifact \notin Made
  BY Absent
<1> QED
  BY <1>1, <1>2 DEF RunExplained, RunTells

LEMMA BlankIdle ==
  /\ Idle.version = None /\ Idle.made = None /\ Idle.path = None /\ Idle.step = "idle"
  /\ Idle.champions = None /\ Idle.doomed = << >> /\ Idle.kind = "regressor"
BY DEF Idle

LEMMA IdleHolds == \A p : StepHolds(p, Idle)
BY DEF StepHolds, Idle, TrainingSteps, None

LEMMA StartTrainingKeeps ==
  ASSUME LifeInvariant, NEW t \in Trainers, StartTraining(t)
  PROVE  LifeInvariant'
<1>1. t \in Processes /\ LifeTypeOK
  BY DEF Processes, LifeInvariant
<1>2. model[t] = Idle
  BY <1>1, StepOf DEF StartTraining, AtStep, StepHolds
<1>3. PICK m \in Models : model' = [model EXCEPT ![t] = m] /\ m = [Idle EXCEPT !.step = "fit"]
  BY <1>1, <1>2, GoesTo DEF StartTraining, ModelSteps, TrainingSteps
<1>4. /\ m.step = "fit" /\ m.version = None /\ m.made = None /\ m.path = None /\ m.kind = "regressor"
  BY <1>3 DEF Idle
<1>5. DirectoryKept /\ CachesExplained /\ ForecastExplained
  BY <1>1, CachesSame, ForecastSame DEF StartTraining, OnlyTraining, DirectoryKept, LifeTypeOK
<1>6. RunExplained(t, m)
  BY <1>1, <1>2, <1>4, BlankRun, BlankIdle DEF AtStep, None
<1>7. PruneExplained(t, m)
  BY <1>4 DEF PruneExplained, PruningSteps
<1>8. StepHolds(t, m)
  BY <1>4 DEF StepHolds, TrainingSteps, None, Kinds
<1> QED
  BY <1>1, <1>3, <1>5, <1>6, <1>7, <1>8, QuietKeeps DEF QuietRun

LEMMA SingleClassKeeps ==
  ASSUME LifeInvariant, NEW t \in Trainers, SingleClass(t)
  PROVE  LifeInvariant'
<1>1. t \in Processes /\ LifeTypeOK
  BY DEF Processes, LifeInvariant
<1>2. StepHolds(t, model[t]) /\ model[t].step = "fit" /\ model[t].kind = "classifier" /\ model[t] \in Models
  BY <1>1, StepOf DEF SingleClass, AtStep
<1>3. PICK m \in Models : model' = [model EXCEPT ![t] = m] /\ m = [model[t] EXCEPT !.step = "store"]
  BY <1>1, GoesTo DEF SingleClass, ModelSteps, TrainingSteps
<1>4. /\ m.step = "store" /\ m.version = model[t].version /\ m.made = model[t].made
      /\ m.path = model[t].path /\ m.kind = model[t].kind
  BY <1>2, <1>3 DEF Models
<1>5. DirectoryKept /\ CachesExplained /\ ForecastExplained
  BY <1>1, CachesSame, ForecastSame DEF SingleClass, OnlyTraining, DirectoryKept, LifeTypeOK
<1>6. RunExplained(t, m)
  BY <1>1, <1>2, <1>4 DEF RunExplained, RunTells, Tells, OnRun, AtStep
<1>7. PruneExplained(t, m)
  BY <1>4 DEF PruneExplained, PruningSteps
<1>8. StepHolds(t, m)
  BY <1>2, <1>4 DEF StepHolds, TrainingSteps
<1> QED
  BY <1>1, <1>3, <1>5, <1>6, <1>7, <1>8, QuietKeeps DEF QuietRun

LEMMA StorePredictionsKeeps ==
  ASSUME LifeInvariant, NEW t \in Trainers, StorePredictions(t)
  PROVE  LifeInvariant'
<1>1. t \in Processes /\ LifeTypeOK
  BY DEF Processes, LifeInvariant
<1>2. StepHolds(t, model[t]) /\ model[t].step = "loaded" /\ model[t] \in Models
  BY <1>1, StepOf DEF StorePredictions, AtStep
<1>3. PICK m \in Models : model' = [model EXCEPT ![t] = m] /\ m = [Idle EXCEPT !.step = "prune"]
  BY IdleIsModel DEF StorePredictions, Models, ModelSteps
<1>4. m.step = "prune" /\ m.version = None /\ m.made = None /\ m.path = None
  BY <1>3 DEF Idle
<1>5. DirectoryKept /\ CachesExplained
  BY <1>1, CachesSame DEF StorePredictions, OnlyTraining, DirectoryKept, LifeTypeOK
<1>6. ForecastExplained
  <2> DEFINE new == [version |-> model[t].path, made |-> model[t].made]
  <2>1. new \in Forecasts
    BY <1>2 DEF Models, Forecasts
  <2>2. ASSUME NEW k \in Kinds PROVE new.version[k] # NoArtifact => new.made[k] # NoArtifact
    BY <1>2 DEF StepHolds
  <2>3. ASSUME NEW k \in Kinds, NEW v \in Nat, NEW x \in Made, new.version[k] = v, new.made[k] = x
        PROVE  Tells(k, v, x)
    BY <1>1, <2>3 DEF Tells, OnRun, RunTells
  <2>4. \A f \in forecast' : f \in forecast \/ f = new
    BY DEF StorePredictions
  <2> HIDE DEF new
  <2> QED
    BY <2>1, <2>2, <2>3, <2>4 DEF ForecastExplained
<1>7. RunExplained(t, m)
  <2>1. model[t].version = None
    BY <1>2 DEF StepHolds, TrainingSteps
  <2> QED
    BY <1>1, <1>2, <1>4, <2>1, BlankRun DEF AtStep, None
<1>8. PruneExplained(t, m)
  BY <1>4 DEF PruneExplained, PruningSteps
<1>9. StepHolds(t, m)
  BY <1>4 DEF StepHolds, TrainingSteps, None, Kinds
<1> QED
  BY <1>1, <1>3, <1>5, <1>6, <1>7, <1>8, <1>9, QuietKeeps DEF QuietRun

LEMMA ReadChampionsKeeps ==
  ASSUME LifeInvariant, NEW t \in Trainers, ReadChampions(t)
  PROVE  LifeInvariant'
<1>1. t \in Processes /\ LifeTypeOK
  BY DEF Processes, LifeInvariant
<1>2. StepHolds(t, model[t]) /\ model[t].step = "prune" /\ model[t] \in Models
  BY <1>1, StepOf DEF ReadChampions, AtStep
<1>3. PICK m \in Models : /\ model' = [model EXCEPT ![t] = m]
                         /\ m = [Idle EXCEPT !.step = "list", !.champions = champion]
  BY <1>1, IdleIsModel DEF ReadChampions, Models, ModelSteps, PruningSteps, LifeTypeOK
<1>4. m.step = "list" /\ m.version = None /\ m.made = None /\ m.path = None /\ m.champions = champion
  BY <1>3 DEF Idle
<1>5. DirectoryKept /\ CachesExplained /\ ForecastExplained
  BY <1>1, CachesSame, ForecastSame DEF ReadChampions, OnlyTraining, DirectoryKept, LifeTypeOK
<1>6. RunExplained(t, m)
  <2>1. model[t].version = None
    BY <1>2 DEF StepHolds, TrainingSteps
  <2> QED
    BY <1>1, <1>2, <1>4, <2>1, BlankRun DEF AtStep, None
<1>7. PruneExplained(t, m)
  BY <1>4 DEF PruneExplained, PruningSteps
<1>8. StepHolds(t, m)
  BY <1>4 DEF StepHolds, TrainingSteps, None, Kinds
<1> QED
  BY <1>1, <1>3, <1>5, <1>6, <1>7, <1>8, QuietKeeps DEF QuietRun

LEMMA KindPrunedKeeps ==
  ASSUME LifeInvariant, NEW t \in Trainers, KindPruned(t)
  PROVE  LifeInvariant'
<1>1. t \in Processes /\ LifeTypeOK
  BY DEF Processes, LifeInvariant
<1>2. /\ StepHolds(t, model[t]) /\ model[t].step = "unlink" /\ model[t] \in Models
      /\ model[t].version = None /\ model[t].made = None /\ model[t].path = None
  BY <1>1, StepOf DEF KindPruned, AtStep, StepHolds, TrainingSteps
<1>3. PICK m \in Models : /\ model' = [model EXCEPT ![t] = m]
                          /\ m = Idle \/ m = [model[t] EXCEPT !.step = "list", !.kind = "classifier"]
  BY <1>1, <1>2, IdleIsModel DEF KindPruned, Models, ModelSteps, PruningSteps, Kinds, LifeTypeOK
<1>4. /\ m.version = None /\ m.made = None /\ m.path = None
      /\ m = Idle \/ (m.step = "list" /\ m.champions = model[t].champions)
  BY <1>2, <1>3, BlankIdle DEF Models
<1>5. DirectoryKept /\ CachesExplained /\ ForecastExplained
  BY <1>1, CachesSame, ForecastSame DEF KindPruned, OnlyTraining, DirectoryKept, LifeTypeOK
<1>6. m.step \in {"idle", "list"} /\ (m.step = "idle" => m = Idle)
  BY <1>4, BlankIdle
<1>7. RunExplained(t, m)
  BY <1>1, <1>2, <1>4, <1>6, BlankRun DEF AtStep, None
<1>8. PruneExplained(t, m)
  BY <1>2, <1>4, <1>6, BlankIdle DEF PruneExplained, PruningSteps
<1>9. StepHolds(t, m)
  BY <1>4, <1>6 DEF StepHolds, TrainingSteps, None, Kinds
<1> QED
  BY <1>1, <1>3, <1>5, <1>7, <1>8, <1>9, QuietKeeps DEF QuietRun

LEMMA RecommendKeeps ==
  ASSUME LifeInvariant, NEW r \in Readers, Recommend(r)
  PROVE  LifeInvariant'
<1>1. r \in Processes /\ LifeTypeOK
  BY DEF Processes, LifeInvariant
<1>2. model[r] = Idle
  BY <1>1, StepOf DEF Recommend, AtStep, StepHolds
<1>3. PICK m \in Models : model' = [model EXCEPT ![r] = m] /\ m = [Idle EXCEPT !.step = "choose"]
  BY <1>1, <1>2, GoesTo DEF Recommend, ModelSteps
<1>4. /\ m.step = "choose" /\ m.version = None /\ m.made = None /\ m.path = None
  BY <1>3 DEF Idle
<1>5. DirectoryKept /\ CachesExplained /\ ForecastExplained
  BY <1>1, CachesSame, ForecastSame DEF Recommend, DirectoryKept, LifeTypeOK
<1>6. RunExplained(r, m)
  BY <1>1, <1>2, <1>4, BlankRun, BlankIdle DEF AtStep, None
<1>7. PruneExplained(r, m)
  BY <1>4 DEF PruneExplained, PruningSteps
<1>8. StepHolds(r, m)
  BY <1>4 DEF StepHolds, TrainingSteps, None, Kinds
<1> QED
  BY <1>1, <1>3, <1>5, <1>6, <1>7, <1>8, QuietKeeps DEF QuietRun

LEMMA RecommendedKeeps ==
  ASSUME LifeInvariant, NEW r \in Readers, Recommended(r)
  PROVE  LifeInvariant'
<1>1. r \in Processes /\ LifeTypeOK
  BY DEF Processes, LifeInvariant
<1>2. model[r].step = "loaded" /\ model[r].version = None
  BY <1>1, StepOf DEF Recommended, AtStep, StepHolds, TrainingSteps
<1>3. DirectoryKept /\ CachesExplained /\ ForecastExplained
  BY <1>1, CachesSame, ForecastSame DEF Recommended, Unchosen, DirectoryKept, LifeTypeOK
<1>4. RunExplained(r, Idle)
  BY <1>1, <1>2, BlankRun, BlankIdle, IdleIsModel DEF AtStep, None
<1>5. PruneExplained(r, Idle)
  BY BlankIdle DEF PruneExplained, PruningSteps
<1>6. model' = [model EXCEPT ![r] = Idle]
  BY DEF Recommended
<1> QED
  BY <1>1, <1>3, <1>4, <1>5, <1>6, IdleHolds, IdleIsModel, QuietKeeps DEF QuietRun

LEMMA TrainingStopsKeeps ==
  ASSUME LifeInvariant, NEW t \in Trainers, TrainingStops(t)
  PROVE  LifeInvariant'
<1>1. t \in Processes /\ LifeTypeOK /\ model[t] \in Models
  BY StepOf DEF Processes, LifeInvariant
<1>2. DirectoryKept /\ ForecastExplained
  BY <1>1, ForecastSame DEF TrainingStops, DirectoryKept, LifeTypeOK
<1>3. CachesExplained
  <2>1. CASE loaded' = loaded
    BY <1>1, <2>1, CachesSame
  <2>2. CASE loaded' = [loaded EXCEPT ![t] = << >>]
    <3>1. loaded' \in [Processes -> Seq(Entries)]
      BY <1>1, <2>2 DEF LifeTypeOK
    <3>2. ASSUME NEW q \in Processes, NEW e \in Entries, Holds(loaded'[q], e) PROVE Holds(loaded[q], e)
      <4>1. q # t
        BY <1>1, <2>2, <3>2 DEF LifeTypeOK, Holds
      <4> QED
        BY <1>1, <2>2, <3>2, <4>1 DEF LifeTypeOK
    <3> QED
      BY <3>1, <3>2 DEF CachesExplained
  <2> QED
    BY <2>1, <2>2 DEF TrainingStops
<1>4. ASSUME unannounced' = {}, NEW k \in Kinds
      PROVE  model[t].version[k] = NoArtifact \/ model[t].made[k] = NoArtifact
  <2>1. CASE model[t].version = None
    BY <2>1 DEF None
  <2>2. CASE model[t].version # None
    <3>1. Range(model[t].made) \ {NoArtifact} = {}
      BY <1>4, <2>2 DEF TrainingStops
    <3>2. model[t].made[k] \in Range(model[t].made)
      BY <1>1 DEF Range, Models, MadeByKind
    <3> QED
      BY <3>1, <3>2
  <2> QED
    BY <2>1, <2>2
<1>5. AtStep(t, "write") => <<model[t].kind, model[t].version[model[t].kind]>> \in abandoned'
  BY DEF TrainingStops
<1>6. RunExplained(t, Idle)
  BY <1>1, <1>4, <1>5, BlankRun, BlankIdle, IdleIsModel
<1>7. PruneExplained(t, Idle)
  BY BlankIdle DEF PruneExplained, PruningSteps
<1>8. model' = [model EXCEPT ![t] = Idle]
  BY DEF TrainingStops
<1> QED
  BY <1>1, <1>2, <1>3, <1>6, <1>7, <1>8, IdleHolds, IdleIsModel, QuietKeeps DEF QuietRun

(* What is doomed is in the directory, and is neither the champion nor the newest. *)
LEMMA DoomedHolds ==
  ASSUME NEW k \in Kinds, NEW c, files[k] \in Seq(Files), OneEach(files[k])
  PROVE  LET d == Reverse(Without(Older(files[k]), c))
         IN  d \in Seq(Files) /\ \A f : Holds(d, f) =>
               Holds(files[k], f) /\ f.version # c /\ f.version # Last(files[k]).version
<1> DEFINE o == Older(files[k])
           w == Without(o, c)
<1>1. /\ o \in Seq(Files) /\ OneEach(o)
      /\ \A f : Holds(o, f) => Holds(files[k], f) /\ f.version # Last(files[k]).version
  BY OlderHolds
<1> HIDE DEF o
<1>2. w \in Seq(Files) /\ \A f : Holds(w, f) <=> Holds(o, f) /\ f.version # c
  BY <1>1, WithoutHolds
<1> HIDE DEF w
<1>3. Reverse(w) \in Seq(Files) /\ \A f : Holds(Reverse(w), f) => Holds(w, f)
  BY <1>2, ReverseHolds
<1> QED
  BY <1>1, <1>2, <1>3 DEF o, w

(* A file that is there has a name that was given.                         *)
LEMMA FileNamed ==
  ASSUME LifeInvariant, NEW k \in Kinds, NEW f \in Files, Holds(files[k], f)
  PROVE  f.version \in named
<1>1. f = File(f.version, f.made) /\ f.version \in Nat /\ f.made \in Nat
  BY DEF Files, File
<1>2. HasFile(k, f.version, f.made)
  BY <1>1 DEF HasFile
<1>3. CASE f.made = Broken
  BY <1>1, <1>2, <1>3 DEF LifeInvariant, NamesHold, Unfinished
<1>4. CASE f.made # Broken
  BY <1>1, <1>2, <1>4 DEF LifeInvariant, NamesHold, Tells, Made
<1> QED
  BY <1>3, <1>4

LEMMA ListDoomedKeeps ==
  ASSUME LifeInvariant, NEW t \in Trainers, ListDoomed(t)
  PROVE  LifeInvariant'
<1>1. t \in Processes /\ LifeTypeOK /\ FilesHold
  BY DEF Processes, LifeInvariant
<1>2. /\ StepHolds(t, model[t]) /\ model[t].step = "list" /\ model[t] \in Models
      /\ model[t].version = None /\ model[t].made = None /\ model[t].path = None
  BY <1>1, StepOf DEF ListDoomed, AtStep, StepHolds, TrainingSteps
<1>3. PICK k \in Kinds : k = model[t].kind
  BY <1>2 DEF Models
<1>4. PICK c : c = model[t].champions
  OBVIOUS
<1>5. PICK d : d = Doomed(k, c)
  OBVIOUS
<1>6. /\ d \in Seq(Files)
      /\ \A f : Holds(d, f) => Holds(files[k], f) /\ f.version # c[k] /\ f.version # Last(files[k]).version
  <2>1. files[k] \in Seq(Files) /\ OneEach(files[k])
    BY <1>1 DEF LifeTypeOK, FilesHold
  <2> QED
    BY <1>5, <2>1, DoomedHolds DEF Doomed
<1>7. PICK m \in Models : model' = [model EXCEPT ![t] = m] /\ m = [model[t] EXCEPT !.step = "unlink", !.doomed = d]
  <2>1. [model[t] EXCEPT !.step = "unlink", !.doomed = d] \in Models
    BY <1>2, <1>6 DEF Models, ModelSteps, PruningSteps
  <2>2. model' = [model EXCEPT ![t] = [model[t] EXCEPT !.step = "unlink", !.doomed = d]]
    BY <1>1, <1>3, <1>4, <1>5 DEF ListDoomed, LifeTypeOK
  <2> QED
    BY <2>1, <2>2
<1>8. /\ m.step = "unlink" /\ m.version = None /\ m.made = None /\ m.path = None
      /\ m.kind = k /\ m.champions = c /\ m.doomed = d
  BY <1>2, <1>3, <1>4, <1>7 DEF Models
<1>9. DirectoryKept /\ CachesExplained /\ ForecastExplained
  BY <1>1, CachesSame, ForecastSame DEF ListDoomed, OnlyTraining, DirectoryKept, LifeTypeOK
<1>10. RunExplained(t, m)
  BY <1>1, <1>2, <1>8, BlankRun DEF AtStep, None
<1>11. ASSUME NEW f \in Files, Holds(d, f), Writing(k, f.version) PROVE <<k, f.version>> \in abandoned'
  <2>1. f \in Range(d)
    BY <1>11 DEF Holds, Range
  <2>2. <<k, f.version>> \in {<<k, v>> : v \in {g.version : g \in {h \in Range(d) : Writing(k, h.version)}}}
    BY <1>11, <2>1
  <2> QED
    BY <1>3, <1>4, <1>5, <2>2 DEF ListDoomed
<1>12. ASSUME NEW f \in Files, Picked(m, f)
       PROVE  /\ f.version # m.champions[m.kind]
              /\ Clean(m.kind)' => /\ f.version \in named /\ ~ Writing(m.kind, f.version)
                                   /\ files[m.kind] # << >> => Last(files[m.kind]).version # f.version
  <2>1. Holds(d, f)
    BY <1>8, <1>12 DEF Picked
  <2>2. f.version \in named /\ f.version \in 1 .. LastSecond
    BY <1>1, <1>6, <2>1, FileNamed DEF LifeTypeOK
  <2>3. Clean(k)' => ~ Writing(k, f.version)
    BY <1>11, <2>1, <2>2 DEF Clean
  <2> QED
    BY <1>6, <1>8, <2>1, <2>2, <2>3 DEF Clean
<1>13. PruneExplained(t, m)
  BY <1>2, <1>4, <1>8, <1>12 DEF PruneExplained, PruningSteps
<1>14. StepHolds(t, m)
  BY <1>8 DEF StepHolds, TrainingSteps, None, Kinds
<1> QED
  BY <1>1, <1>7, <1>9, <1>10, <1>13, <1>14, QuietKeeps DEF QuietRun

LEMMA LastFile ==
  ASSUME LifeTypeOK, NEW k \in Kinds, files[k] # << >>
  PROVE  /\ Last(files[k]) \in Files /\ Holds(files[k], Last(files[k]))
         /\ HasFile(k, Last(files[k]).version, Last(files[k]).made)
<1>1. files[k] \in Seq(Files)
  BY DEF LifeTypeOK
<1>2. Len(files[k]) \in DOMAIN files[k]
  BY <1>1
<1>3. Last(files[k]) \in Files /\ Holds(files[k], Last(files[k]))
  BY <1>1, <1>2 DEF Last, Holds
<1>4. Last(files[k]) = File(Last(files[k]).version, Last(files[k]).made)
  BY <1>3 DEF Files, File
<1> QED
  BY <1>3, <1>4 DEF HasFile

LEMMA FilesOfHolds ==
  ASSUME LifeTypeOK, NEW k \in Kinds, NEW v
  PROVE  \A f : f \in FilesOf(k, v) <=> f \in Files /\ Holds(files[k], f) /\ f.version = v
<1>1. files[k] \in Seq(Files)
  BY DEF LifeTypeOK
<1>2. \A i \in DOMAIN files[k] : files[k][i] \in Files
  BY <1>1
<1> QED
  BY <1>2 DEF FilesOf, Range, Holds

LEMMA CacheHitsHold ==
  ASSUME LifeTypeOK, NEW p \in Processes, NEW k \in Kinds, NEW v
  PROVE  \A e : e \in CacheHits(p, k, v) <=> e \in Entries /\ Holds(loaded[p], e) /\ e.kind = k /\ e.version = v
<1>1. loaded[p] \in Seq(Entries)
  BY DEF LifeTypeOK
<1>2. \A i \in DOMAIN loaded[p] : loaded[p][i] \in Entries
  BY <1>1
<1> QED
  BY <1>2 DEF CacheHits, Range, Holds

LEMMA LatestType ==
  ASSUME LifeTypeOK, NEW k \in Kinds
  PROVE  Latest(k) \in Nat \cup {NoArtifact}
<1>1. champion[k] \in Nat \cup {NoArtifact}
  BY DEF LifeTypeOK, VersionsByKind
<1>2. files[k] # << >> => Last(files[k]).version \in Nat
  BY LastFile DEF Files
<1> QED
  BY <1>1, <1>2 DEF Latest

LEMMA ChoosePathsKeeps ==
  ASSUME LifeInvariant, NEW p \in Processes, ChoosePaths(p)
  PROVE  LifeInvariant'
<1>1. LifeTypeOK
  BY DEF LifeInvariant
<1>2. /\ StepHolds(p, model[p]) /\ model[p].step = "choose" /\ model[p] \in Models
      /\ model[p].version = None /\ model[p].made = None /\ model[p].path = None
  BY StepOf DEF ChoosePaths, AtStep, StepHolds, TrainingSteps
<1>3. PICK path \in VersionsByKind : path = [k \in Kinds |-> Latest(k)]
  BY <1>1, LatestType DEF VersionsByKind
<1> DEFINE chosen == IF path = None THEN [model[p] EXCEPT !.step = IF p \in Trainers THEN "prune" ELSE "loaded"]
                     ELSE [model[p] EXCEPT !.step = "load", !.kind = "regressor", !.path = path]
<1>4. chosen \in Models
  BY <1>2, BothKinds DEF Models, ModelSteps
<1>5. model' = [model EXCEPT ![p] = chosen]
  BY <1>1, <1>3 DEF ChoosePaths, LifeTypeOK
<1>6. PICK m \in Models : m = chosen
  BY <1>4
<1>7. /\ m.version = None /\ m.made = None /\ m.step \in {"prune", "loaded", "load"}
      /\ m.step # "load" => m.path = None
      /\ m.step = "load" => m.kind = "regressor"
  BY <1>2, <1>6 DEF Models
<1>8. DirectoryKept /\ CachesExplained /\ ForecastExplained
  BY <1>1, CachesSame, ForecastSame DEF ChoosePaths, Unchosen, DirectoryKept, LifeTypeOK
<1>9. RunExplained(p, m)
  BY <1>2, <1>7, BlankRun DEF AtStep, None
<1>10. PruneExplained(p, m)
  BY <1>7 DEF PruneExplained, PruningSteps
<1>11. StepHolds(p, m)
  BY <1>7, BothKinds DEF StepHolds, TrainingSteps, None
<1> QED
  BY <1>5, <1>6, <1>8, <1>9, <1>10, <1>11, QuietKeeps DEF QuietRun

LEMMA TouchedHolds ==
  ASSUME LifeTypeOK, NEW p \in Processes, NEW e \in Entries
  PROVE  Touched(p, e) \in Seq(Entries) /\ \A f : Holds(Touched(p, e), f) => f = e \/ Holds(loaded[p], f)
<1> DEFINE s == loaded[p]
           places == {i \in DOMAIN s : s[i] = e}
           others == IF places = {} THEN s ELSE RemoveAt(s, CHOOSE i \in places : TRUE)
           full == Append(others, e)
<1>1. s \in Seq(Entries)
  BY DEF LifeTypeOK
<1>2. others \in Seq(Entries) /\ \A f : Holds(others, f) => Holds(s, f)
  <2>1. CASE places = {}
    BY <1>1, <2>1
  <2>2. CASE places # {}
    <3>1. PICK c \in DOMAIN s : c = CHOOSE i \in places : TRUE
      BY <2>2
    <3> QED
      BY <1>1, <2>2, <3>1, RemovedHolds
  <2> QED
    BY <2>1, <2>2
<1>3. Touched(p, e) = IF Len(full) > CacheSize THEN Tail(full) ELSE full
  BY DEF Touched
<1> HIDE DEF others
<1>4. /\ full \in Seq(Entries) /\ full # << >> /\ Len(full) = Len(others) + 1
      /\ \A i \in 1 .. Len(others) : full[i] = others[i]
      /\ full[Len(others) + 1] = e
  BY <1>2, AppendProperties
<1>5. DOMAIN full = 1 .. Len(others) + 1 /\ DOMAIN others = 1 .. Len(others) /\ Len(others) \in Nat
  BY <1>2, <1>4
<1> HIDE DEF full, s
<1>6. \A i \in DOMAIN full : full[i] = e \/ (i \in DOMAIN others /\ full[i] = others[i])
  BY <1>4, <1>5
<1>7. \A f : Holds(full, f) => f = e \/ Holds(others, f)
  BY <1>6 DEF Holds
<1>8. Tail(full) \in Seq(Entries) /\ \A f : Holds(Tail(full), f) => Holds(full, f)
  BY <1>4, TailHolds
<1> QED
  BY <1>2, <1>3, <1>4, <1>7, <1>8 DEF s

LEMMA LoadsTold ==
  ASSUME LifeTypeOK, NEW p \in Processes, NEW k \in Kinds, NEW v \in Nat, NEW e \in Loads(p, k, v)
  PROVE  e \in Entries /\ e.kind = k /\ e.version = v /\ Tells(k, v, e.made)
<1>1. CASE CacheHits(p, k, v) # {}
  <2>1. e \in CacheHits(p, k, v)
    BY <1>1 DEF Loads
  <2>2. Holds(loaded[p], e) /\ e \in Entries /\ e.kind = k /\ e.version = v
    BY <2>1, CacheHitsHold
  <2>3. e = [kind |-> k, version |-> v, made |-> e.made]
    BY <2>2 DEF Entries
  <2>4. Cached(k, v, e.made)
    BY <2>2, <2>3 DEF Cached
  <2> QED
    BY <2>2, <2>4 DEF Tells
<1>2. CASE CacheHits(p, k, v) = {}
  <2>1. PICK f \in FilesOf(k, v) : f.made # Broken /\ e = [kind |-> k, version |-> v, made |-> f.made]
    BY <1>2 DEF Loads
  <2>2. Holds(files[k], f) /\ f \in Files /\ f.version = v
    BY <2>1, FilesOfHolds
  <2>3. f = File(v, f.made) /\ f.made \in Made
    BY <2>1, <2>2 DEF Files, File, Made
  <2>4. HasFile(k, v, f.made)
    BY <2>2, <2>3 DEF HasFile
  <2> QED
    BY <2>1, <2>3, <2>4 DEF Tells, Entries
<1> QED
  BY <1>1, <1>2

LEMMA LoadModelKeeps ==
  ASSUME LifeInvariant, NEW p \in Processes, LoadModel(p)
  PROVE  LifeInvariant'
<1>1. LifeTypeOK
  BY DEF LifeInvariant
<1>2. /\ StepHolds(p, model[p]) /\ model[p].step = "load" /\ model[p] \in Models
      /\ model[p].version = None
  BY StepOf DEF LoadModel, AtStep, StepHolds, TrainingSteps
<1>3. PICK k \in Kinds : k = model[p].kind
  BY <1>2 DEF Models
<1>4. PICK v \in Nat \cup {NoArtifact} : v = model[p].path[k]
  BY <1>2, ModelFields
<1>5. DirectoryKept /\ ForecastExplained
  BY <1>1, ForecastSame DEF LoadModel, Unchosen, DirectoryKept, LifeTypeOK
<1> DEFINE Holding(x) == [model[p] EXCEPT !.made[k] = x, !.kind = "classifier",
                                        !.step = IF k = "classifier" THEN "loaded" ELSE "load"]
<1>6. ASSUME NEW x \in Made \cup {NoArtifact}, NEW m, m = Holding(x)
      PROVE  /\ m \in Models /\ m.version = None /\ m.path = model[p].path /\ m.kind = "classifier"
             /\ m.step = IF k = "classifier" THEN "loaded" ELSE "load"
             /\ m.made[k] = x /\ \A l \in Kinds : l # k => m.made[l] = model[p].made[l]
  BY <1>2, <1>6, BothKinds DEF Models, ModelSteps, MadeByKind
<1> HIDE DEF Holding
<1>7. ASSUME NEW x \in Made \cup {NoArtifact}, NEW m, m = Holding(x), v = NoArtifact \/ x # NoArtifact,
             v # NoArtifact => Tells(k, v, x),
             CachesExplained, model' = [model EXCEPT ![p] = m]
      PROVE  LifeInvariant'
  <2>1. /\ m \in Models /\ m.version = None /\ m.path = model[p].path /\ m.kind = "classifier"
        /\ m.step = IF k = "classifier" THEN "loaded" ELSE "load"
        /\ m.made[k] = x /\ \A l \in Kinds : l # k => m.made[l] = model[p].made[l]
    BY <1>6, <1>7
  <2>2. RunExplained(p, m)
    <3>1. ASSUME NEW l \in Kinds, NEW w \in Nat, NEW y \in Made, RunTells(m, l, w, y) PROVE Tells(l, w, y)
      <4>1. m.made[l] = y /\ model[p].path[l] = w
        BY <2>1, <3>1, Absent DEF RunTells, None
      <4>2. CASE l = k
        BY <1>4, <1>7, <2>1, <4>1, <4>2, Absent
      <4>3. CASE l # k
        BY <2>1, <4>1, <4>3 DEF RunTells, Tells, OnRun
      <4> QED
        BY <4>2, <4>3
    <3>2. \A l \in Kinds : m.version[l] = NoArtifact /\ model[p].version[l] = NoArtifact
      BY <1>2, <2>1 DEF None
    <3> QED
      BY <1>2, <2>1, <3>1, <3>2 DEF RunExplained, AtStep
  <2>3. PruneExplained(p, m)
    BY <2>1 DEF PruneExplained, PruningSteps
  <2>4. StepHolds(p, m)
    <3>1. CASE k = "classifier"
      BY <1>2, <1>3, <1>4, <1>7, <2>1, <3>1, TheKinds, BothKinds DEF StepHolds, TrainingSteps, None
    <3>2. CASE k = "regressor"
      BY <1>2, <1>3, <1>4, <1>7, <2>1, <3>2, TheKinds, BothKinds DEF StepHolds, TrainingSteps, None
    <3> QED
      BY <3>1, <3>2, TheKinds
  <2> QED
    BY <1>5, <1>7, <2>1, <2>2, <2>3, <2>4, QuietKeeps DEF QuietRun
<1>8. CASE v = NoArtifact /\ model' = [model EXCEPT ![p] = Holding(NoArtifact)] /\ loaded' = loaded
  BY <1>1, <1>7, <1>8, CachesSame
<1>9. ASSUME NEW e \in Loads(p, k, v), loaded' = [loaded EXCEPT ![p] = Touched(p, e)],
             model' = [model EXCEPT ![p] = Holding(e.made)], v # NoArtifact
      PROVE  LifeInvariant'
  <2>1. e \in Entries /\ e.kind = k /\ e.version = v /\ Tells(k, v, e.made)
    BY <1>1, <1>9, LoadsTold
  <2>2. Touched(p, e) \in Seq(Entries) /\ \A f : Holds(Touched(p, e), f) => f = e \/ Holds(loaded[p], f)
    BY <1>1, <2>1, TouchedHolds
  <2>3. CachesExplained
    <3>1. loaded' \in [Processes -> Seq(Entries)]
      BY <1>1, <1>9, <2>2 DEF LifeTypeOK
    <3>2. ASSUME NEW q \in Processes, NEW f \in Entries, Holds(loaded'[q], f)
          PROVE  Holds(loaded[q], f) \/ Tells(f.kind, f.version, f.made)
      <4>1. CASE q = p
        <5>1. loaded'[q] = Touched(p, e)
          BY <1>1, <1>9, <4>1 DEF LifeTypeOK
        <5> QED
          BY <2>1, <2>2, <3>2, <4>1, <5>1
      <4>2. CASE q # p
        <5>1. loaded'[q] = loaded[q]
          BY <1>1, <1>9, <4>2 DEF LifeTypeOK
        <5> QED
          BY <3>2, <5>1
      <4> QED
        BY <4>1, <4>2
    <3> QED
      BY <3>1, <3>2 DEF CachesExplained
  <2>4. e.made \in Made /\ e.made # NoArtifact
    BY <2>1, Absent DEF Entries
  <2> QED
    BY <1>7, <1>9, <2>1, <2>3, <2>4
<1>10. CASE model' = [model EXCEPT ![p] = Idle] /\ loaded' = loaded
  <2>1. RunExplained(p, Idle)
    BY <1>2, BlankRun, BlankIdle, IdleIsModel DEF AtStep, None
  <2>2. PruneExplained(p, Idle)
    BY BlankIdle DEF PruneExplained, PruningSteps
  <2> QED
    BY <1>1, <1>5, <1>10, <2>1, <2>2, CachesSame, IdleHolds, IdleIsModel, QuietKeeps DEF QuietRun
<1>11. ASSUME v = NoArtifact PROVE Loads(p, k, v) = {}
  <2>1. CacheHits(p, k, v) = {}
    BY <1>1, <1>11, Absent, CacheHitsHold DEF Entries
  <2>2. FilesOf(k, v) = {}
    BY <1>1, <1>11, Absent, FilesOfHolds DEF Files
  <2> QED
    BY <2>1, <2>2 DEF Loads
<1> QED
  BY <1>3, <1>4, <1>8, <1>9, <1>10, <1>11 DEF LoadModel, Holding

LEMMA NextSecondKeeps ==
  ASSUME LifeInvariant, NextSecond
  PROVE  LifeInvariant'
<1>1. LifeTypeOK /\ Trainers \subseteq Processes
  BY DEF LifeInvariant, Processes
<1>2. PICK t \in Trainers : model[t].step = "fit"
  BY DEF NextSecond, AtStep
<1>3. PICK m \in Models : m = model[t]
  BY <1>1 DEF LifeTypeOK
<1>4. second' \in 1 .. LastSecond
  BY <1>1, LifecycleAssumption DEF NextSecond, LifeTypeOK
<1>5. DirectoryKept /\ CachesExplained /\ ForecastExplained
  BY <1>1, <1>4, CachesSame, ForecastSame DEF NextSecond, DirectoryKept
<1>6. RunExplained(t, m)
  BY <1>1, <1>2, <1>3 DEF RunExplained, RunTells, Tells, OnRun, AtStep
<1>7. PruneExplained(t, m)
  BY <1>2, <1>3 DEF PruneExplained, PruningSteps
<1>8. model' = [model EXCEPT ![t] = m] /\ StepHolds(t, m)
  BY <1>1, <1>3, StepOf DEF NextSecond, LifeTypeOK
<1> QED
  BY <1>1, <1>5, <1>6, <1>7, <1>8, QuietKeeps DEF QuietRun

-----------------------------------------------------------------------------
(* Steps of a run that change the directory or the table.                  *)

LEMMA TellsFrom ==
  ASSUME loaded' = loaded, forecast' = forecast, NEW p \in Processes, NEW m, OneRun(p, m),
         NEW k, NEW v, NEW x, Tells(k, v, x)'
  PROVE  Tells(k, v, x) \/ HasFile(k, v, x)' \/ OnRow(k, v, x)' \/ RunTells(m, k, v, x)
<1>1. CASE Cached(k, v, x)'
  BY <1>1 DEF Cached, Tells
<1>2. CASE Forecast(k, v, x)'
  BY <1>2 DEF Forecast, Tells
<1>3. CASE OnRun(k, v, x)'
  BY <1>3 DEF OnRun, Tells, OneRun, RunTells
<1> QED
  BY <1>1, <1>2, <1>3 DEF Tells

Writes(t, m, k, v) == m.step = "write" /\ m.kind = k /\ m.version[k] = v

LEMMA WritingFrom ==
  ASSUME NEW t \in Trainers, NEW m, OneRun(t, m), NEW k, NEW v
  PROVE  /\ Writing(k, v)' => Writing(k, v) \/ Writes(t, m, k, v)
         /\ Writing(k, v) => Writing(k, v)' \/ Writes(t, model[t], k, v)
         /\ Writes(t, m, k, v) => Writing(k, v)'
<1>1. Trainers \subseteq Processes
  BY DEF Processes
<1>2. model'[t] = m /\ \A u \in Trainers : u # t => model'[u] = model[u]
  BY <1>1 DEF OneRun
<1>3. ASSUME Writing(k, v)' PROVE Writing(k, v) \/ Writes(t, m, k, v)
  BY <1>2, <1>3 DEF Writing, AtStep, Writes
<1>4. ASSUME Writing(k, v) PROVE Writing(k, v)' \/ Writes(t, model[t], k, v)
  BY <1>2, <1>4 DEF Writing, AtStep, Writes
<1>5. ASSUME Writes(t, m, k, v) PROVE Writing(k, v)'
  BY <1>2, <1>5 DEF Writing, AtStep, Writes
<1> QED
  BY <1>3, <1>4, <1>5

(* What is left of the directory when a file is unlinked.                  *)
LEMMA Unlinked ==
  ASSUME LifeTypeOK, FilesHold, NEW k \in Kinds, NEW v, files' = [files EXCEPT ![k] = Without(@, v)]
  PROVE  /\ files' \in [Kinds -> Seq(Files)]
         /\ \A l \in Kinds : OneEach(files'[l])
         /\ \A l \in Kinds : \A f : Holds(files'[l], f) <=> Holds(files[l], f) /\ (l # k \/ f.version # v)
         /\ \A l \in Kinds : files[l] # << >> /\ (l # k \/ Last(files[l]).version # v) =>
              files'[l] # << >> /\ Last(files'[l]) = Last(files[l])
<1>1. files[k] \in Seq(Files) /\ \A l \in Kinds : OneEach(files[l])
  BY DEF LifeTypeOK, FilesHold
<1>2. PICK r : r = Without(files[k], v)
  OBVIOUS
<1>3. /\ r \in Seq(Files) /\ OneEach(r)
      /\ \A f : Holds(r, f) <=> Holds(files[k], f) /\ f.version # v
      /\ files[k] # << >> /\ Last(files[k]).version # v => r # << >> /\ Last(r) = Last(files[k])
  BY <1>1, <1>2, WithoutHolds
<1>4. files'[k] = r /\ \A l \in Kinds : l # k => files'[l] = files[l]
  BY <1>2 DEF LifeTypeOK
<1>5. files' \in [Kinds -> Seq(Files)]
  BY <1>2, <1>3 DEF LifeTypeOK
<1>6. \A l \in Kinds : OneEach(files'[l])
  BY <1>1, <1>3, <1>4
<1>7. \A l \in Kinds : \A f : Holds(files'[l], f) <=> Holds(files[l], f) /\ (l # k \/ f.version # v)
  BY <1>3, <1>4
<1>8. \A l \in Kinds : files[l] # << >> /\ (l # k \/ Last(files[l]).version # v) =>
        files'[l] # << >> /\ Last(files'[l]) = Last(files[l])
  BY <1>3, <1>4
<1> QED
  BY <1>5, <1>6, <1>7, <1>8

(* What a write makes of the directory.                                    *)
LEMMA Written ==
  ASSUME LifeTypeOK, FilesHold, NEW k \in Kinds, NEW v \in Nat, NEW x \in Nat, files' = FilesAfter(k, v, x)
  PROVE  /\ files' \in [Kinds -> Seq(Files)]
         /\ \A l \in Kinds : OneEach(files'[l])
         /\ \A l \in Kinds : \A f : Holds(files'[l], f) <=>
              \/ Holds(files[l], f) /\ (l # k \/ f.version # v)
              \/ l = k /\ f = File(v, x)
         /\ files'[k] # << >> /\ Last(files'[k]) = File(v, x)
         /\ \A l \in Kinds : l # k => files'[l] = files[l]
<1>1. files[k] \in Seq(Files) /\ \A l \in Kinds : OneEach(files[l])
  BY DEF LifeTypeOK, FilesHold
<1>0. File(v, x) \in Files /\ File(v, x).version = v
  BY DEF File, Files
<1>2. PICK g \in Files : g = File(v, x) /\ g.version = v
  BY <1>0
<1>3. PICK r : r = Append(Without(files[k], g.version), g)
  OBVIOUS
<1>4. /\ r \in Seq(Files) /\ OneEach(r)
      /\ \A f : Holds(r, f) <=> f = File(v, x) \/ (Holds(files[k], f) /\ f.version # v)
      /\ r # << >> /\ Last(r) = File(v, x)
  BY <1>1, <1>2, <1>3, AddedHolds
<1>5. files' = [files EXCEPT ![k] = r]
  BY <1>2, <1>3 DEF FilesAfter, File, LifeTypeOK
<1>6. files'[k] = r /\ \A l \in Kinds : l # k => files'[l] = files[l]
  BY <1>5 DEF LifeTypeOK
<1>7. files' \in [Kinds -> Seq(Files)]
  BY <1>4, <1>5 DEF LifeTypeOK
<1>8. \A l \in Kinds : OneEach(files'[l])
  BY <1>1, <1>4, <1>6
<1>9. ASSUME NEW l \in Kinds, NEW f
      PROVE  Holds(files'[l], f) <=> \/ Holds(files[l], f) /\ (l # k \/ f.version # v)
                                     \/ l = k /\ f = File(v, x)
  BY <1>4, <1>6
<1> QED
  BY <1>4, <1>6, <1>7, <1>8, <1>9

-----------------------------------------------------------------------------
(* A prune unlinks a file.                                                 *)

LEMMA UnlinkKeeps ==
  ASSUME LifeInvariant, NEW t \in Trainers, Unlink(t)
  PROVE  LifeInvariant'
<1>1. /\ t \in Processes /\ Trainers \subseteq Processes /\ LifeTypeOK /\ FilesHold
      /\ NamesHold /\ TalesHold /\ ChampionsHold /\ ForecastsFull
      /\ \A q \in Processes : StepHolds(q, model[q])
  BY DEF Processes, LifeInvariant
<1>2. /\ StepHolds(t, model[t]) /\ model[t].step = "unlink" /\ model[t] \in Models
      /\ model[t].version = None /\ model[t].made = None /\ model[t].path = None
  BY <1>1, StepOf DEF Unlink, AtStep, StepHolds, TrainingSteps
<1>3. PICK k \in Kinds : k = model[t].kind
  BY <1>2 DEF Models
<1>4. PICK d \in Seq(Files) : d = model[t].doomed
  BY <1>2 DEF Models
<1>5. /\ d # << >> /\ Tail(d) \in Seq(Files) /\ Head(d) \in Files /\ Holds(d, Head(d))
      /\ \A e : Holds(Tail(d), e) => Holds(d, e)
  BY <1>4, TailHolds DEF Unlink
<1>6. PICK v : v = Head(d).version
  OBVIOUS
<1>7. Head(d) \in Files /\ Picked(model[t], Head(d)) /\ Pruning(t, k) /\ v \in Nat
  BY <1>2, <1>3, <1>4, <1>5, <1>6 DEF Picked, Pruning, AtStep, Files
<1>8. files' = [files EXCEPT ![k] = Without(@, v)]
  BY <1>3, <1>4, <1>6 DEF Unlink
<1>9. /\ files' \in [Kinds -> Seq(Files)]
      /\ \A l \in Kinds : OneEach(files'[l])
      /\ \A l \in Kinds : \A f : Holds(files'[l], f) <=> Holds(files[l], f) /\ (l # k \/ f.version # v)
      /\ \A l \in Kinds : files[l] # << >> /\ (l # k \/ Last(files[l]).version # v) =>
           files'[l] # << >> /\ Last(files'[l]) = Last(files[l])
  BY <1>1, <1>8, Unlinked
<1>10. PICK m \in Models : /\ model' = [model EXCEPT ![t] = m]
                           /\ m = Idle \/ m = [model[t] EXCEPT !.doomed = Tail(d)]
  <2>1. [model[t] EXCEPT !.doomed = Tail(d)] \in Models
    BY <1>2, <1>5 DEF Models
  <2> QED
    BY <1>1, <1>4, <2>1, IdleIsModel DEF Unlink, LifeTypeOK
<1>11. /\ m.version = None /\ m.made = None /\ m.path = None
       /\ m = Idle \/ (m.step = "unlink" /\ m.kind = k /\ m.champions = model[t].champions /\ m.doomed = Tail(d))
  BY <1>2, <1>3, <1>10, BlankIdle DEF Models
<1>12. OneRun(t, m) /\ model' \in [Processes -> Models]
  BY <1>1, <1>10, RunChanges
<1>13. /\ second' = second /\ named' = named /\ shared' = shared /\ finished' = finished
       /\ champion' = champion /\ modelRow' = modelRow /\ passedOver' = passedOver
       /\ loaded' = loaded /\ forecast' = forecast /\ unannounced' = unannounced
       /\ abandoned \subseteq abandoned' /\ (Writing(k, v) => <<k, v>> \in abandoned')
  BY <1>3, <1>4, <1>6 DEF Unlink, OnlyTraining
<1>14. LifeTypeOK'
  BY <1>1, <1>9, <1>12, <1>13 DEF LifeTypeOK
<1>15. m.step # "write" /\ (m.step = "idle" => m = Idle) /\ m.step \in {"idle", "unlink"}
  BY <1>11, BlankIdle
<1>16. (\A q \in Processes : StepHolds(q, model[q]))'
  <2>1. StepHolds(t, m)
    BY <1>11, <1>15 DEF StepHolds, TrainingSteps, None, Kinds
  <2> QED
    BY <1>1, <1>12, <2>1, StepsKept
<1>17. /\ \A u \in Trainers : model'[u].version = model[u].version /\ model'[u].made = model[u].made
       /\ \A l \in Kinds, w \in Nat : Writing(l, w)' <=> Writing(l, w)
  <2>1. \A u \in Trainers : model'[u].version = model[u].version /\ model'[u].made = model[u].made
    BY <1>1, <1>2, <1>11, <1>12 DEF OneRun
  <2>2. ASSUME NEW l \in Kinds, NEW w \in Nat PROVE Writing(l, w)' <=> Writing(l, w)
    BY <1>2, <1>12, <1>15, WritingFrom DEF Writes
  <2> QED
    BY <2>1, <2>2
<1>18. \A l \in Kinds, w \in Nat, x \in Nat : HasFile(l, w, x)' <=> HasFile(l, w, x) /\ (l # k \/ w # v)
  BY <1>9 DEF HasFile, File
<1>19. NothingTold
  <2> SUFFICES ASSUME NEW l \in Kinds, NEW w \in Nat, NEW x \in Made, Tells(l, w, x)' PROVE Tells(l, w, x)
    BY DEF NothingTold
  <2>1. Tells(l, w, x) \/ HasFile(l, w, x)' \/ OnRow(l, w, x)' \/ RunTells(m, l, w, x)
    BY <1>1, <1>12, <1>13, TellsFrom
  <2>2. ~ RunTells(m, l, w, x)
    BY <1>11, Absent DEF RunTells, None
  <2>3. OnRow(l, w, x)' => OnRow(l, w, x)
    BY <1>13 DEF OnRow
  <2> QED
    BY <1>18, <2>1, <2>2, <2>3, Absent DEF Tells
<1>20. NothingNamed /\ RowsOfOthers
  BY <1>13, <1>17 DEF NothingNamed, Bears, RowsOfOthers
<1>21. NothingBegun
  BY <1>17, <1>18, Absent DEF NothingBegun, Unfinished
<1>22. NamesHold' /\ TalesHold'
  BY <1>1, <1>13, <1>14, <1>19, <1>20, <1>21, NamesKept, TalesKept
<1>23. FilesHold'
  <2>1. ASSUME NEW l \in Kinds, NEW w \in Nat, HasFile(l, w, Broken)'
        PROVE  Writing(l, w)' \/ <<l, w>> \in abandoned' \/ w \in shared'
    <3>1. Writing(l, w) \/ <<l, w>> \in abandoned \/ w \in shared
      BY <1>1, <1>18, <2>1, Absent DEF FilesHold
    <3> QED
      BY <1>13, <1>17, <3>1
  <2> QED
    BY <1>9, <2>1 DEF FilesHold
<1>24. ChampionsHold'
  <2>1. ASSUME NEW l \in Kinds, champion'[l] # NoArtifact, <<l, champion'[l]>> \notin passedOver'
        PROVE  /\ (\E x \in Nat : HasFile(l, champion[l], x))'
               /\ \A u \in Trainers : model'[u].step \in PruningSteps => model'[u].champions[l] = champion'[l]
    <3>1. champion'[l] = champion[l] /\ champion[l] \in Nat
      BY <1>1, <1>13, <2>1 DEF LifeTypeOK, VersionsByKind
    <3>2. PICK x \in Nat : HasFile(l, champion[l], x)
      BY <1>1, <1>13, <2>1 DEF ChampionsHold
    <3>3. \A u \in Trainers : model[u].step \in PruningSteps => model[u].champions[l] = champion[l]
      BY <1>1, <1>13, <2>1 DEF ChampionsHold
    <3>4. l = k => v # champion[l]
      BY <1>1, <1>2, <1>6, <1>7, <3>3 DEF ChampionsHold, PruningSteps
    <3>5. HasFile(l, champion[l], x)'
      <4>1. HasFile(l, champion[l], x)' <=> HasFile(l, champion[l], x) /\ (l # k \/ champion[l] # v)
        BY <1>9, <3>1, <1>13 DEF HasFile, File
      <4> QED
        BY <3>2, <3>4, <4>1
    <3>6. \A u \in Trainers : model'[u].step \in PruningSteps => model'[u].champions[l] = champion[l]
      BY <1>1, <1>2, <1>11, <1>12, <3>3, BlankIdle DEF OneRun, PruningSteps
    <3> QED
      BY <3>1, <3>5, <3>6
  <2>2. ASSUME NEW u \in Trainers, NEW l \in Kinds, NEW f \in Files, Pruning(u, l)', Picked(model'[u], f)
        PROVE  f.version # model'[u].champions[l]
    <3>1. Pruning(u, l) /\ Picked(model[u], f) /\ model'[u].champions = model[u].champions
      BY <1>1, <1>2, <1>3, <1>4, <1>5, <1>11, <1>12, <2>2, BlankIdle DEF OneRun, Pruning, Picked, AtStep
    <3> QED
      BY <1>1, <2>2, <3>1 DEF ChampionsHold
  <2> QED
    BY <2>1, <2>2 DEF ChampionsHold, Picked
<1>25. ForecastsFull'
  BY <1>1, <1>13 DEF ForecastsFull
<1>26. ASSUME NEW l \in Kinds, Clean(l)' PROVE CleanHolds(l)'
  <2>1. CleanHolds(l) /\ (l = k => ~ Writing(k, v))
    <3>1. Clean(l)
      BY <1>13, <1>26 DEF Clean
    <3>2. Writing(k, v) => v \in 1 .. LastSecond
      BY <1>1, <1>7 DEF NamesHold, Unfinished, LifeTypeOK
    <3> QED
      BY <1>13, <1>26, <3>1, <3>2 DEF Clean, LifeInvariant
  <2>2. files[l] # << >> => l # k \/ Last(files[l]).version # v
    BY <1>6, <1>7, <2>1 DEF CleanHolds
  <2>3. files[l] # << >> => files'[l] # << >> /\ Last(files'[l]) = Last(files[l])
    BY <1>9, <2>2
  <2>4. files'[l] # << >> => files[l] # << >>
    <3>1. ASSUME files'[l] # << >> PROVE files[l] # << >>
      <4>1. Holds(files'[l], files'[l][1])
        BY <1>9, <3>1 DEF Holds
      <4>2. Holds(files[l], files'[l][1])
        BY <1>9, <4>1
      <4> QED
        BY <4>2 DEF Holds
    <3> QED
      BY <3>1
  <2>5. ASSUME NEW u \in Trainers, NEW f \in Files, Pruning(u, l)', Picked(model'[u], f)
        PROVE  /\ f.version \in named' /\ ~ Writing(l, f.version)'
               /\ files'[l] # << >> => Last(files'[l]).version # f.version
    <3>1. Pruning(u, l) /\ Picked(model[u], f)
      BY <1>1, <1>2, <1>3, <1>4, <1>5, <1>11, <1>12, <2>5, BlankIdle DEF OneRun, Pruning, Picked, AtStep
    <3>2. f.version \in Nat
      BY DEF Files
    <3> QED
      BY <1>13, <1>17, <2>1, <2>3, <2>4, <3>1, <3>2 DEF CleanHolds
  <2>6. Trained(l)' => files'[l] # << >>
    <3>1. Trained(l)' => Trained(l)
      BY <1>13, <1>17 DEF Trained
    <3> QED
      BY <2>1, <2>3, <3>1 DEF CleanHolds
  <2>7. ASSUME NEW w \in Nat, Writing(l, w)' PROVE HasFile(l, w, Broken)'
    BY <1>17, <1>18, <2>1, <2>7, Absent DEF CleanHolds
  <2>8. ASSUME files'[l] # << >>, Last(files'[l]).made # Broken, NEW w \in Nat, NEW x \in Made, Tells(l, w, x)'
        PROVE  x =< Last(files'[l]).made
    BY <1>19, <2>1, <2>3, <2>4, <2>8 DEF CleanHolds, NothingTold
  <2>9. ASSUME unannounced' = {}, NEW w \in Nat, NEW x \in Made, HasFile(l, w, x)'
        PROVE  OnRow(l, w, x)' \/ \E u \in Trainers : Bears(u, l, w)' /\ model'[u].made[l] = x
    <3>1. OnRow(l, w, x) \/ \E u \in Trainers : Bears(u, l, w) /\ model[u].made[l] = x
      BY <1>13, <1>18, <2>1, <2>9, Absent DEF CleanHolds
    <3> QED
      BY <1>13, <1>17, <3>1 DEF OnRow, Bears
  <2> QED
    BY <2>5, <2>6, <2>7, <2>8, <2>9 DEF CleanHolds, Picked
<1> QED
  BY <1>14, <1>16, <1>22, <1>23, <1>24, <1>25, <1>26 DEF LifeInvariant

-----------------------------------------------------------------------------
(* A training stores its rows.                                             *)

(* A run that is not pruning lets the champions be.                        *)
LEMMA ChampionsKept ==
  ASSUME LifeTypeOK, ChampionsHold, NEW t \in Trainers, NEW m, OneRun(t, m), m.step \notin PruningSteps,
         champion' = champion, passedOver' = passedOver,
         \A k \in Kinds : \A v \in Nat : (\E x \in Nat : HasFile(k, v, x)) => (\E x \in Nat : HasFile(k, v, x)')
  PROVE  ChampionsHold'
<1>1. Trainers \subseteq Processes /\ model'[t] = m /\ \A u \in Trainers : u # t => model'[u] = model[u]
  BY DEF Processes, OneRun
<1>2. ASSUME NEW k \in Kinds, champion'[k] # NoArtifact, <<k, champion'[k]>> \notin passedOver'
      PROVE  /\ (\E x \in Nat : HasFile(k, champion[k], x))'
             /\ \A u \in Trainers : model'[u].step \in PruningSteps => model'[u].champions[k] = champion'[k]
  <2>1. champion[k] \in Nat /\ champion[k] # NoArtifact /\ <<k, champion[k]>> \notin passedOver
    BY <1>2 DEF LifeTypeOK, VersionsByKind
  <2>2. PICK v \in Nat : v = champion[k]
    BY <2>1
  <2>3. \E x \in Nat : HasFile(k, v, x)'
    BY <2>1, <2>2 DEF ChampionsHold
  <2>4. (\E x \in Nat : HasFile(k, champion[k], x))'
    BY <2>2, <2>3
  <2>5. \A u \in Trainers : model'[u].step \in PruningSteps => model'[u].champions[k] = champion'[k]
    BY <1>1, <2>1 DEF ChampionsHold
  <2> QED
    BY <2>4, <2>5
<1>3. ASSUME NEW u \in Trainers, NEW k \in Kinds, NEW f \in Files, Pruning(u, k)', Picked(model'[u], f)
      PROVE  f.version # model'[u].champions[k]
  <2>1. u # t
    BY <1>1, <1>3 DEF Pruning, AtStep, PruningSteps
  <2> QED
    BY <1>1, <1>3, <2>1 DEF ChampionsHold, Pruning, AtStep
<1> QED
  BY <1>2, <1>3 DEF ChampionsHold, Picked

LEMMA RowsStored ==
  ASSUME LifeInvariant, NEW t \in Trainers, StoreTraining(t)
  PROVE  /\ modelRow' \in SUBSET ModelRows
         /\ \A k \in Kinds : model[t].made[k] # NoArtifact => RowOf(t, k) \in ModelRows
         /\ \A r \in modelRow' : r \in modelRow \/ \E k \in Kinds : model[t].made[k] # NoArtifact /\ r = RowOf(t, k)
         /\ \A r \in modelRow : r \in modelRow' \/ \E k \in Kinds : Bears(t, k, r.version)
         /\ \A k \in Kinds : model[t].made[k] # NoArtifact =>
              RowOf(t, k) \in modelRow' \/ model[t].version["regressor"] = model[t].version["classifier"]
<1> DEFINE rr == RowOf(t, "regressor")
           rc == RowOf(t, "classifier")
<1>1. t \in Processes /\ LifeTypeOK
  BY DEF Processes, LifeInvariant
<1>2. StepHolds(t, model[t]) /\ model[t].step = "store" /\ model[t] \in Models
  BY <1>1, StepOf DEF StoreTraining, AtStep
<1>3. ASSUME NEW k \in Kinds, model[t].made[k] # NoArtifact PROVE RowOf(t, k) \in ModelRows
  <2>1. model[t].version[k] \in Nat /\ model[t].made[k] \in Made
    BY <1>2, <1>3, ModelFields DEF StepHolds, TrainingSteps
  <2> QED
    BY <2>1 DEF RowOf, ModelRows
<1>4. /\ rr.version = model[t].version["regressor"] /\ rc.version = model[t].version["classifier"]
      /\ model[t].made["regressor"] # NoArtifact
  BY <1>2 DEF RowOf, StepHolds
<1>5. \/ /\ model[t].made["classifier"] = NoArtifact
         /\ modelRow' = {r \in modelRow : r.version # rr.version} \cup {rr}
      \/ /\ model[t].made["classifier"] # NoArtifact
         /\ modelRow' = {r \in {q \in modelRow : q.version # rr.version} \cup {rr} : r.version # rc.version} \cup {rc}
  BY DEF StoreTraining, Upserted
<1> HIDE DEF rr, rc
<1>6. ASSUME NEW r \in modelRow'
      PROVE  r \in modelRow \/ \E k \in Kinds : model[t].made[k] # NoArtifact /\ r = RowOf(t, k)
  BY <1>4, <1>5, BothKinds DEF rr, rc
<1>7. modelRow' \in SUBSET ModelRows
  BY <1>1, <1>3, <1>6 DEF LifeTypeOK
<1>8. ASSUME NEW r \in modelRow PROVE r \in modelRow' \/ \E k \in Kinds : Bears(t, k, r.version)
  BY <1>4, <1>5, BothKinds DEF Bears
<1>9. ASSUME NEW k \in Kinds, model[t].made[k] # NoArtifact
      PROVE  RowOf(t, k) \in modelRow' \/ model[t].version["regressor"] = model[t].version["classifier"]
  <2>1. CASE k = "regressor"
    BY <1>4, <1>5, <2>1 DEF rr
  <2>2. CASE k = "classifier"
    BY <1>5, <1>9, <2>2 DEF rc
  <2> QED
    BY <2>1, <2>2, TheKinds
<1> QED
  BY <1>3, <1>6, <1>7, <1>8, <1>9

LEMMA StoreTrainingKeeps ==
  ASSUME LifeInvariant, NEW t \in Trainers, StoreTraining(t)
  PROVE  LifeInvariant'
<1>1. /\ t \in Processes /\ Trainers \subseteq Processes /\ LifeTypeOK /\ FilesHold
      /\ NamesHold /\ TalesHold /\ ChampionsHold /\ ForecastsFull
      /\ \A q \in Processes : StepHolds(q, model[q])
  BY DEF Processes, LifeInvariant
<1>2. StepHolds(t, model[t]) /\ model[t].step = "store" /\ model[t] \in Models /\ model[t].path = None
  BY <1>1, StepOf DEF StoreTraining, AtStep, StepHolds, TrainingSteps
<1>3. PICK m \in Models : /\ model' = [model EXCEPT ![t] = m]
                          /\ m = [model[t] EXCEPT !.step = "choose", !.version = None, !.made = None]
  <2>1. [model[t] EXCEPT !.step = "choose", !.version = None, !.made = None] \in Models
    BY <1>2, Absent DEF Models, ModelSteps
  <2> QED
    BY <1>1, <2>1 DEF StoreTraining, LifeTypeOK
<1>4. m.version = None /\ m.made = None /\ m.path = None /\ m.step = "choose"
  BY <1>2, <1>3 DEF Models
<1>5. /\ OneRun(t, m) /\ model' \in [Processes -> Models]
      /\ model'[t] = m /\ \A u \in Trainers : u # t => model'[u] = model[u]
  BY <1>1, <1>3, RunChanges DEF OneRun
<1>6. /\ modelRow' \in SUBSET ModelRows
      /\ \A k \in Kinds : model[t].made[k] # NoArtifact => RowOf(t, k) \in ModelRows
      /\ \A r \in modelRow' : r \in modelRow \/ \E k \in Kinds : model[t].made[k] # NoArtifact /\ r = RowOf(t, k)
      /\ \A r \in modelRow : r \in modelRow' \/ \E k \in Kinds : Bears(t, k, r.version)
      /\ \A k \in Kinds : model[t].made[k] # NoArtifact =>
           RowOf(t, k) \in modelRow' \/ model[t].version["regressor"] = model[t].version["classifier"]
  BY RowsStored
<1>7. /\ second' = second /\ files' = files /\ named' = named /\ shared' = shared /\ finished' = finished
      /\ champion' = champion /\ passedOver' = passedOver
      /\ loaded' = loaded /\ forecast' = forecast /\ unannounced' = unannounced /\ abandoned' = abandoned
  BY DEF StoreTraining, OnlyTraining
<1>8. LifeTypeOK'
  BY <1>1, <1>5, <1>6, <1>7 DEF LifeTypeOK
<1>9. (\A q \in Processes : StepHolds(q, model[q]))'
  <2>1. StepHolds(t, m)
    BY <1>4 DEF StepHolds, TrainingSteps, None, Kinds
  <2> QED
    BY <1>1, <1>5, <2>1, StepsKept
<1>10. \A k \in Kinds, v \in Nat : Writing(k, v)' <=> Writing(k, v)
  BY <1>2, <1>4, <1>5, WritingFrom DEF Writes
<1>11. \A k \in Kinds, v \in Nat, x \in Nat : HasFile(k, v, x)' <=> HasFile(k, v, x)
  BY <1>7 DEF HasFile, File
<1>12. \A k \in Kinds : m.version[k] = NoArtifact /\ m.made[k] = NoArtifact
  BY <1>4 DEF None
<1>13. NothingTold
  <2> SUFFICES ASSUME NEW k \in Kinds, NEW v \in Nat, NEW x \in Made, Tells(k, v, x)' PROVE Tells(k, v, x)
    BY DEF NothingTold
  <2>1. Tells(k, v, x) \/ HasFile(k, v, x)' \/ OnRow(k, v, x)' \/ RunTells(m, k, v, x)
    BY <1>1, <1>5, <1>7, TellsFrom
  <2>2. ~ RunTells(m, k, v, x)
    BY <1>12, Absent DEF RunTells
  <2>3. ASSUME OnRow(k, v, x)' PROVE Tells(k, v, x)
    <3> DEFINE r == [version |-> v, kind |-> k, made |-> x]
    <3>1. CASE r \in modelRow
      BY <3>1 DEF OnRow, Tells
    <3>2. ASSUME NEW l \in Kinds, r = RowOf(t, l) PROVE Tells(k, v, x)
      <4>1. k = l /\ v = model[t].version[l] /\ x = model[t].made[l]
        BY <3>2 DEF RowOf
      <4> QED
        BY <1>1, <4>1 DEF Tells, OnRun, RunTells
    <3> QED
      BY <1>6, <2>3, <3>1, <3>2 DEF OnRow
  <2> QED
    BY <1>11, <2>1, <2>2, <2>3, Absent DEF Tells
<1>14. NothingNamed
  BY <1>5, <1>12, Absent DEF NothingNamed, Bears
<1>15. RowsOfOthers
  <2> SUFFICES ASSUME NEW r \in modelRow', NEW u \in Trainers, NEW k \in Kinds, Bears(u, k, r.version)'
               PROVE  r \in modelRow \/ r.version \in shared
    BY DEF RowsOfOthers
  <2>1. r.version \in Nat
    BY <1>6 DEF ModelRows
  <2>2. u # t /\ Bears(u, k, r.version)
    <3>1. u # t
      BY <1>5, <1>7, <1>12, <2>1, Absent DEF Bears
    <3> QED
      BY <1>5, <3>1 DEF Bears
  <2>3. ASSUME NEW l \in Kinds, r = RowOf(t, l) PROVE r.version \in shared
    <3>1. Bears(t, l, r.version)
      BY <2>3 DEF RowOf, Bears
    <3> QED
      BY <1>1, <2>1, <2>2, <3>1 DEF NamesHold
  <2> QED
    BY <1>6, <2>3
<1>16. NothingBegun
  BY <1>10, <1>11, Absent DEF NothingBegun, Unfinished
<1>17. NamesHold' /\ TalesHold'
  BY <1>1, <1>7, <1>8, <1>13, <1>14, <1>15, <1>16, NamesKept, TalesKept
<1>18. FilesHold'
  <2>1. (\A k \in Kinds : OneEach(files[k]))'
    BY <1>1, <1>7 DEF FilesHold, OneEach
  <2> QED
    BY <1>1, <1>7, <1>10, <1>11, <2>1, Absent DEF FilesHold
<1>19. ChampionsHold'
  BY <1>1, <1>4, <1>5, <1>7, <1>11, ChampionsKept DEF PruningSteps
<1>20. ForecastsFull'
  BY <1>1, <1>7 DEF ForecastsFull
<1>21. ASSUME NEW k \in Kinds, Clean(k)' PROVE CleanHolds(k)'
  <2>1. CleanHolds(k) /\ shared = {}
    BY <1>7, <1>21 DEF Clean, LifeInvariant
  <2>2. ASSUME NEW u \in Trainers, NEW f \in Files, Pruning(u, k)', Picked(model'[u], f)
        PROVE  /\ f.version \in named' /\ ~ Writing(k, f.version)'
               /\ files'[k] # << >> => Last(files'[k]).version # f.version
    <3>1. u # t
      BY <1>4, <1>5, <2>2 DEF Pruning, AtStep
    <3>2. Pruning(u, k) /\ Picked(model[u], f) /\ f.version \in Nat
      BY <1>5, <2>2, <3>1 DEF Pruning, AtStep, Files
    <3> QED
      BY <1>7, <1>10, <2>1, <3>2 DEF CleanHolds
  <2>3. ASSUME Trained(k)' PROVE files'[k] # << >>
    <3>1. CASE \E r \in modelRow' : r.kind = k
      <4>1. PICK r \in modelRow' : r.kind = k
        BY <3>1
      <4>2. ASSUME NEW l \in Kinds, model[t].made[l] # NoArtifact, r = RowOf(t, l)
            PROVE  model[t].version[k] # NoArtifact
        BY <1>2, <4>1, <4>2 DEF RowOf, StepHolds, TrainingSteps
      <4> QED
        BY <1>6, <1>7, <2>1, <4>1, <4>2 DEF CleanHolds, Trained
    <3>2. CASE \E u \in Trainers : model'[u].version[k] # NoArtifact
      BY <1>5, <1>7, <1>12, <2>1, <3>2 DEF CleanHolds, Trained
    <3> QED
      BY <2>3, <3>1, <3>2 DEF Trained
  <2>4. ASSUME NEW v \in Nat, Writing(k, v)' PROVE HasFile(k, v, Broken)'
    BY <1>10, <1>11, <2>1, <2>4, Absent DEF CleanHolds
  <2>5. ASSUME files'[k] # << >>, Last(files'[k]).made # Broken, NEW v \in Nat, NEW x \in Made, Tells(k, v, x)'
        PROVE  x =< Last(files'[k]).made
    BY <1>7, <1>13, <2>1, <2>5 DEF CleanHolds, NothingTold
  <2>6. ASSUME unannounced' = {}, NEW v \in Nat, NEW x \in Made, HasFile(k, v, x)'
        PROVE  OnRow(k, v, x)' \/ \E u \in Trainers : Bears(u, k, v)' /\ model'[u].made[k] = x
    <3>1. OnRow(k, v, x) \/ \E u \in Trainers : Bears(u, k, v) /\ model[u].made[k] = x
      BY <1>7, <1>11, <2>1, <2>6, Absent DEF CleanHolds
    <3>2. CASE OnRow(k, v, x)
      <4>1. PICK r \in modelRow : r = [version |-> v, kind |-> k, made |-> x]
        BY <3>2 DEF OnRow
      <4>2. \A l \in Kinds : ~ Bears(t, l, r.version)
        BY <1>1, <2>1, <4>1 DEF NamesHold
      <4> QED
        BY <1>6, <4>1, <4>2 DEF OnRow
    <3>3. ASSUME NEW u \in Trainers, Bears(u, k, v), model[u].made[k] = x, u # t
          PROVE  Bears(u, k, v)' /\ model'[u].made[k] = x
      BY <1>5, <3>3 DEF Bears
    <3>4. CASE Bears(t, k, v) /\ model[t].made[k] = x
      <4>1. RowOf(t, k) = [version |-> v, kind |-> k, made |-> x] /\ model[t].made[k] # NoArtifact
        BY <3>4, Absent DEF RowOf, Bears
      <4>2. model[t].version["regressor"] # model[t].version["classifier"]
        <5>1. ASSUME model[t].version["regressor"] = model[t].version["classifier"] PROVE FALSE
          <6>1. Bears(t, "regressor", v) /\ Bears(t, "classifier", v)
            BY <3>4, <5>1, TheKinds DEF Bears
          <6> QED
            BY <1>1, <2>1, <6>1, BothKinds DEF NamesHold
        <5> QED
          BY <5>1
      <4> QED
        BY <1>6, <4>1, <4>2 DEF OnRow
    <3> QED
      BY <3>1, <3>2, <3>3, <3>4
  <2> QED
    BY <2>2, <2>3, <2>4, <2>5, <2>6 DEF CleanHolds, Picked
<1> QED
  BY <1>8, <1>9, <1>17, <1>18, <1>19, <1>20, <1>21 DEF LifeInvariant

-----------------------------------------------------------------------------
(* A training opens its file.                                              *)

LEMMA OpenArtifactKeeps ==
  ASSUME LifeInvariant, NEW t \in Trainers, OpenArtifact(t)
  PROVE  LifeInvariant'
<1>1. /\ t \in Processes /\ Trainers \subseteq Processes /\ LifeTypeOK /\ FilesHold
      /\ NamesHold /\ TalesHold /\ ChampionsHold /\ ForecastsFull
      /\ \A q \in Processes : StepHolds(q, model[q])
  BY DEF Processes, LifeInvariant
<1>2. StepHolds(t, model[t]) /\ model[t].step = "fit" /\ model[t] \in Models
  BY <1>1, StepOf DEF OpenArtifact, AtStep
<1>3. PICK kind \in Kinds : kind = model[t].kind
  BY <1>2 DEF Models
<1>4. PICK new \in Nat : new = second /\ new \in 1 .. LastSecond
  BY <1>1 DEF LifeTypeOK
<1>5. PICK m \in Models : /\ model' = [model EXCEPT ![t] = m]
                          /\ m = [model[t] EXCEPT !.step = "write", !.version[kind] = new]
  <2>1. [model[t] EXCEPT !.step = "write", !.version[kind] = new] \in Models
    BY <1>2 DEF Models, ModelSteps, TrainingSteps, VersionsByKind
  <2>2. model' = [model EXCEPT ![t] = [model[t] EXCEPT !.step = "write", !.version[kind] = new]]
    BY <1>1, <1>2, <1>3, <1>4 DEF OpenArtifact, LifeTypeOK, Models
  <2> QED
    BY <2>1, <2>2
<1>6. /\ m.step = "write" /\ m.kind = kind /\ m.made = model[t].made /\ m.path = model[t].path
      /\ m.version[kind] = new /\ \A k \in Kinds : k # kind => m.version[k] = model[t].version[k]
  BY <1>2, <1>3, <1>5 DEF Models, VersionsByKind
<1>7. /\ OneRun(t, m) /\ model' \in [Processes -> Models]
      /\ model'[t] = m /\ \A u \in Trainers : u # t => model'[u] = model[u]
  BY <1>1, <1>5, RunChanges DEF OneRun
<1>8. /\ second' = second /\ finished' = finished /\ modelRow' = modelRow
      /\ champion' = champion /\ passedOver' = passedOver
      /\ loaded' = loaded /\ forecast' = forecast /\ unannounced' = unannounced /\ abandoned' = abandoned
      /\ named' = named \cup {new} /\ shared' = IF new \in named THEN shared \cup {new} ELSE shared
      /\ files' = FilesAfter(kind, new, Broken)
  BY <1>3, <1>4 DEF OpenArtifact, OnlyTraining
<1>9. /\ files' \in [Kinds -> Seq(Files)]
      /\ \A l \in Kinds : OneEach(files'[l])
      /\ \A l \in Kinds : \A f : Holds(files'[l], f) <=>
           \/ Holds(files[l], f) /\ (l # kind \/ f.version # new)
           \/ l = kind /\ f = File(new, Broken)
      /\ files'[kind] # << >> /\ Last(files'[kind]) = File(new, Broken)
      /\ \A l \in Kinds : l # kind => files'[l] = files[l]
  BY <1>1, <1>8, Absent, Written
<1>10. \A k \in Kinds, v \in Nat, x \in Nat : HasFile(k, v, x)' <=>
         \/ HasFile(k, v, x) /\ (k # kind \/ v # new)
         \/ k = kind /\ v = new /\ x = Broken
  BY <1>9 DEF HasFile, File
<1>11. LifeTypeOK'
  <2>1. named' \in SUBSET (1 .. LastSecond) /\ shared' \in SUBSET named'
    BY <1>1, <1>4, <1>8 DEF LifeTypeOK
  <2> QED
    BY <1>1, <1>7, <1>8, <1>9, <2>1 DEF LifeTypeOK
<1>12. (\A q \in Processes : StepHolds(q, model[q]))'
  <2>1. new # NoArtifact
    BY Absent
  <2>2. StepHolds(t, m)
    BY <1>2, <1>3, <1>6, <2>1, TheKinds, BothKinds DEF StepHolds, TrainingSteps
  <2> QED
    BY <1>1, <1>7, <2>2, StepsKept
<1>13. \A k \in Kinds, v \in Nat : Writing(k, v)' <=> Writing(k, v) \/ (k = kind /\ v = new)
  <2>1. ASSUME NEW k \in Kinds, NEW v \in Nat PROVE Writing(k, v)' <=> Writing(k, v) \/ (k = kind /\ v = new)
    <3>1. Writes(t, m, k, v) <=> k = kind /\ v = new
      BY <1>6 DEF Writes
    <3>2. ~ Writes(t, model[t], k, v)
      BY <1>2 DEF Writes
    <3> QED
      BY <1>7, <3>1, <3>2, WritingFrom
  <2> QED
    BY <2>1
<1>14. NothingTold
  <2> SUFFICES ASSUME NEW k \in Kinds, NEW v \in Nat, NEW x \in Made, Tells(k, v, x)' PROVE Tells(k, v, x)
    BY DEF NothingTold
  <2>1. Tells(k, v, x) \/ HasFile(k, v, x)' \/ OnRow(k, v, x)' \/ RunTells(m, k, v, x)
    BY <1>1, <1>7, <1>8, TellsFrom
  <2>2. ASSUME RunTells(m, k, v, x) PROVE Tells(k, v, x)
    <3>1. k # kind
      <4>1. model[t].made[kind] = NoArtifact
        BY <1>2, <1>3 DEF StepHolds
      <4> QED
        BY <1>6, <2>2, <4>1, Absent DEF RunTells
    <3> QED
      BY <1>1, <1>6, <2>2, <3>1 DEF RunTells, Tells, OnRun
  <2>3. OnRow(k, v, x)' => OnRow(k, v, x)
    BY <1>8 DEF OnRow
  <2>4. HasFile(k, v, x)' => HasFile(k, v, x)
    BY <1>10, Absent
  <2> QED
    BY <2>1, <2>2, <2>3, <2>4 DEF Tells
<1>15. \A k \in Kinds, v \in Nat, u \in Trainers : Bears(u, k, v)' => Bears(u, k, v) \/ (u = t /\ k = kind /\ v = new)
  BY <1>6, <1>7 DEF Bears
<1>16. \A k \in Kinds, v \in Nat : Unfinished(k, v)' => Unfinished(k, v) \/ (k = kind /\ v = new)
  BY <1>10, <1>13, Absent DEF Unfinished
<1>17. new \in named => new \in shared'
  BY <1>8
<1>18. named \subseteq named' /\ shared \subseteq shared' /\ new \in named'
  BY <1>8
<1>19. NamesHold'
  <2>1. \A k \in Kinds : \A v \in Nat : Unfinished(k, v)' => v \in named'
    BY <1>1, <1>16, <1>18 DEF NamesHold
  <2>2. \A k \in Kinds : \A v \in Nat, x \in Made : Tells(k, v, x)' => v \in named'
    BY <1>1, <1>14, <1>18 DEF NamesHold, NothingTold
  <2>3. \A k \in Kinds : \A v \in Nat, u \in Trainers : Bears(u, k, v)' => v \in named'
    BY <1>1, <1>15, <1>18 DEF NamesHold
  <2>4. ASSUME NEW u \in Trainers, NEW w \in Trainers, NEW k \in Kinds, NEW l \in Kinds, NEW v \in Nat,
               Bears(u, k, v)', Bears(w, l, v)', u # w \/ k # l
        PROVE  v \in shared'
    <3>1. CASE v # new
      BY <1>1, <1>15, <1>18, <2>4, <3>1 DEF NamesHold
    <3>2. CASE v = new
      <4>1. Bears(u, k, v) \/ Bears(w, l, v)
        BY <1>15, <2>4
      <4> QED
        BY <1>1, <1>17, <3>2, <4>1 DEF NamesHold
    <3> QED
      BY <3>1, <3>2
  <2>5. ASSUME NEW r \in modelRow', NEW u \in Trainers, NEW k \in Kinds, Bears(u, k, r.version)'
        PROVE  r.version \in shared'
    <3>1. r \in modelRow /\ r.version \in Nat /\ r.kind \in Kinds /\ r.made \in Made
      BY <1>1, <1>8 DEF LifeTypeOK, ModelRows
    <3>2. CASE Bears(u, k, r.version)
      BY <1>1, <1>18, <3>1, <3>2 DEF NamesHold
    <3>3. CASE r.version = new
      <4>1. r = [version |-> r.version, kind |-> r.kind, made |-> r.made]
        BY <1>1, <3>1 DEF LifeTypeOK, ModelRows
      <4>2. Tells(r.kind, r.version, r.made)
        BY <3>1, <4>1 DEF Tells, OnRow
      <4> QED
        BY <1>1, <1>17, <3>1, <3>3, <4>2 DEF NamesHold
    <3> QED
      BY <1>15, <2>5, <3>1, <3>2, <3>3
  <2> QED
    BY <2>1, <2>2, <2>3, <2>4, <2>5 DEF NamesHold
<1>20. TalesHold'
  <2>1. \A k \in Kinds : \A v \in Nat, x \in Made : Tells(k, v, x)' => x =< finished'
    BY <1>1, <1>8, <1>14 DEF TalesHold, NothingTold
  <2>2. \A k \in Kinds : \A v, w \in Nat, x \in Made : Tells(k, v, x)' /\ Tells(k, w, x)' => v = w
    BY <1>1, <1>14 DEF TalesHold, NothingTold
  <2>3. \A k \in Kinds : \A v \in Nat : \A x, y \in Made :
          Tells(k, v, x)' /\ Tells(k, v, y)' => x = y \/ v \in shared'
    BY <1>1, <1>14, <1>18 DEF TalesHold, NothingTold
  <2>4. ASSUME NEW k \in Kinds, NEW v \in Nat, NEW x \in Made, Tells(k, v, x)', Unfinished(k, v)'
        PROVE  v \in shared'
    <3>1. Tells(k, v, x)
      BY <1>14, <2>4 DEF NothingTold
    <3>2. v \in named
      BY <1>1, <3>1 DEF NamesHold
    <3> QED
      BY <1>1, <1>16, <1>17, <1>18, <2>4, <3>1, <3>2 DEF TalesHold
  <2> QED
    BY <2>1, <2>2, <2>3, <2>4 DEF TalesHold
<1>21. FilesHold'
  <2>1. ASSUME NEW k \in Kinds, NEW v \in Nat, HasFile(k, v, Broken)'
        PROVE  Writing(k, v)' \/ <<k, v>> \in abandoned' \/ v \in shared'
    BY <1>1, <1>8, <1>10, <1>13, <1>18, <2>1, Absent DEF FilesHold
  <2> QED
    BY <1>9, <2>1 DEF FilesHold
<1>22. ChampionsHold'
  <2>1. ASSUME NEW k \in Kinds, NEW v \in Nat, NEW x \in Nat, HasFile(k, v, x)
        PROVE  \E y \in Nat : HasFile(k, v, y)'
    BY <1>10, <2>1, Absent
  <2> QED
    BY <1>1, <1>6, <1>7, <1>8, <2>1, ChampionsKept DEF PruningSteps
<1>23. ForecastsFull'
  BY <1>1, <1>8 DEF ForecastsFull
<1>24. ASSUME NEW k \in Kinds, Clean(k)' PROVE CleanHolds(k)'
  <2>1. new \notin named /\ Clean(k) /\ CleanHolds(k)
    BY <1>8, <1>17, <1>24 DEF Clean, LifeInvariant
  <2>2. ASSUME NEW u \in Trainers, NEW f \in Files, Pruning(u, k)', Picked(model'[u], f)
        PROVE  /\ f.version \in named' /\ ~ Writing(k, f.version)'
               /\ files'[k] # << >> => Last(files'[k]).version # f.version
    <3>1. u # t
      BY <1>6, <1>7, <2>2 DEF Pruning, AtStep
    <3>2. Pruning(u, k) /\ Picked(model[u], f) /\ f.version \in Nat
      BY <1>7, <2>2, <3>1 DEF Pruning, AtStep, Files
    <3>3. f.version \in named /\ ~ Writing(k, f.version) /\ (files[k] # << >> => Last(files[k]).version # f.version)
      BY <2>1, <3>2 DEF CleanHolds
    <3>4. f.version # new
      BY <2>1, <3>3
    <3>5. files'[k] # << >> => Last(files'[k]).version # f.version
      BY <1>9, <3>3, <3>4 DEF File
    <3> QED
      BY <1>13, <1>18, <3>2, <3>3, <3>4, <3>5
  <2>3. ASSUME Trained(k)' PROVE files'[k] # << >>
    <3>1. CASE k = kind
      BY <1>9, <3>1
    <3>2. CASE k # kind
      <4>1. Trained(k)
        BY <1>6, <1>7, <1>8, <2>3, <3>2 DEF Trained
      <4> QED
        BY <1>9, <2>1, <3>2, <4>1 DEF CleanHolds
    <3> QED
      BY <3>1, <3>2
  <2>4. ASSUME NEW v \in Nat, Writing(k, v)' PROVE HasFile(k, v, Broken)'
    <3>1. HasFile(k, v, Broken) \/ (k = kind /\ v = new)
      BY <1>13, <2>1, <2>4 DEF CleanHolds
    <3> QED
      BY <1>10, <3>1, Absent
  <2>5. ASSUME files'[k] # << >>, Last(files'[k]).made # Broken, NEW v \in Nat, NEW x \in Made, Tells(k, v, x)'
        PROVE  x =< Last(files'[k]).made
    <3>1. k # kind
      BY <1>9, <2>5 DEF File
    <3> QED
      BY <1>9, <1>14, <2>1, <2>5, <3>1 DEF CleanHolds, NothingTold
  <2>6. ASSUME unannounced' = {}, NEW v \in Nat, NEW x \in Made, HasFile(k, v, x)'
        PROVE  OnRow(k, v, x)' \/ \E u \in Trainers : Bears(u, k, v)' /\ model'[u].made[k] = x
    <3>1. OnRow(k, v, x) \/ \E u \in Trainers : Bears(u, k, v) /\ model[u].made[k] = x
      BY <1>8, <1>10, <2>1, <2>6, Absent DEF CleanHolds
    <3>2. OnRow(k, v, x) => OnRow(k, v, x)'
      BY <1>8 DEF OnRow
    <3>3. ASSUME NEW u \in Trainers, Bears(u, k, v), model[u].made[k] = x
          PROVE  Bears(u, k, v)' /\ model'[u].made[k] = x
      <4>1. u = t => k # kind
        BY <1>2, <1>3, <3>3, Absent DEF StepHolds
      <4> QED
        BY <1>6, <1>7, <3>3, <4>1 DEF Bears
    <3> QED
      BY <3>1, <3>2, <3>3
  <2> QED
    BY <2>2, <2>3, <2>4, <2>5, <2>6 DEF CleanHolds, Picked
<1> QED
  BY <1>11, <1>12, <1>19, <1>20, <1>21, <1>22, <1>23, <1>24 DEF LifeInvariant

-----------------------------------------------------------------------------
(* A training closes its file.                                             *)

(* Another process writes the file that t writes.                          *)
Rival(t) ==
  LET kind == model[t].kind
  IN \E u \in Trainers \ {t} :
       AtStep(u, "write") /\ model[u].kind = kind /\ model[u].version[kind] = model[t].version[kind]

LEMMA CloseArtifactKeeps ==
  ASSUME LifeInvariant, NEW t \in Trainers, CloseArtifact(t)
  PROVE  LifeInvariant'
<1>1. /\ t \in Processes /\ Trainers \subseteq Processes /\ LifeTypeOK /\ FilesHold
      /\ NamesHold /\ TalesHold /\ ChampionsHold /\ ForecastsFull
      /\ \A q \in Processes : StepHolds(q, model[q])
  BY DEF Processes, LifeInvariant
<1>2. StepHolds(t, model[t]) /\ model[t].step = "write" /\ model[t] \in Models
  BY <1>1, StepOf DEF CloseArtifact, AtStep
<1>3. PICK kind \in Kinds : kind = model[t].kind
  BY <1>2 DEF Models
<1>4. PICK v \in Nat : v = model[t].version[kind]
  BY <1>2, <1>3, ModelFields DEF StepHolds
<1>5. PICK new \in Made : new = finished + 1 /\ new # NoArtifact
  BY <1>1 DEF LifeTypeOK, Made, Broken, NoArtifact
<1>6. PICK m \in Models : /\ model' = [model EXCEPT ![t] = m]
                          /\ m = [model[t] EXCEPT !.step = IF kind = "regressor" THEN "fit" ELSE "store",
                                                  !.kind = "classifier", !.made[kind] = new]
  <2> DEFINE n == [model[t] EXCEPT !.step = IF kind = "regressor" THEN "fit" ELSE "store",
                                   !.kind = "classifier", !.made[kind] = new]
  <2>1. n \in Models
    BY <1>2, BothKinds DEF Models, ModelSteps, TrainingSteps, MadeByKind
  <2>2. model' = [model EXCEPT ![t] = n]
    BY <1>1, <1>3, <1>5 DEF CloseArtifact, LifeTypeOK
  <2> QED
    BY <2>1, <2>2
<1>7. /\ m.step = (IF kind = "regressor" THEN "fit" ELSE "store") /\ m.kind = "classifier"
      /\ m.version = model[t].version /\ m.path = model[t].path
      /\ m.made[kind] = new /\ \A k \in Kinds : k # kind => m.made[k] = model[t].made[k]
  BY <1>2, <1>3, <1>6 DEF Models, MadeByKind
<1>8. m.step \in {"fit", "store"} /\ model[t].made[kind] = NoArtifact
  BY <1>2, <1>3, <1>7 DEF StepHolds
<1>9. /\ OneRun(t, m) /\ model' \in [Processes -> Models]
      /\ model'[t] = m /\ \A u \in Trainers : u # t => model'[u] = model[u]
  BY <1>1, <1>6, RunChanges DEF OneRun
<1>10. /\ second' = second /\ modelRow' = modelRow /\ champion' = champion /\ passedOver' = passedOver
       /\ loaded' = loaded /\ forecast' = forecast /\ unannounced' = unannounced /\ abandoned' = abandoned
       /\ named' = named /\ shared' = shared /\ finished' = new
  BY <1>5 DEF CloseArtifact, OnlyTraining
<1>11. PICK made \in Nat :
         /\ made = new \/ (made = Broken /\ Rival(t))
         /\ files' = IF FilesOf(kind, v) = {} THEN files ELSE FilesAfter(kind, v, made)
  BY <1>3, <1>4, <1>5, Absent DEF CloseArtifact, Rival
<1>12. Writing(kind, v) /\ v \in named /\ (Rival(t) => v \in shared)
  <2>1. Writing(kind, v)
    BY <1>2, <1>3, <1>4 DEF Writing, AtStep
  <2>2. Rival(t) => v \in shared
    BY <1>1, <1>3, <1>4 DEF Rival, NamesHold, Bears
  <2> QED
    BY <1>1, <2>1, <2>2 DEF NamesHold, Unfinished
<1>13. /\ files' \in [Kinds -> Seq(Files)]
       /\ \A l \in Kinds : OneEach(files'[l])
       /\ \A l \in Kinds : l # kind => files'[l] = files[l]
       /\ \/ files' = files /\ \A x \in Nat : ~ HasFile(kind, v, x)
          \/ /\ files'[kind] # << >> /\ Last(files'[kind]) = File(v, made)
             /\ \A l \in Kinds : \A f : Holds(files'[l], f) <=>
                  \/ Holds(files[l], f) /\ (l # kind \/ f.version # v)
                  \/ l = kind /\ f = File(v, made)
  <2>1. CASE FilesOf(kind, v) = {}
    <3>1. ASSUME NEW x \in Nat PROVE ~ HasFile(kind, v, x)
      BY <1>1, <2>1, FilesOfHolds DEF HasFile, File, Files
    <3> QED
      BY <1>1, <1>11, <2>1, <3>1 DEF FilesHold, LifeTypeOK
  <2>2. CASE FilesOf(kind, v) # {}
    <3>1. files' = FilesAfter(kind, v, made)
      BY <1>11, <2>2
    <3> QED
      BY <1>1, <3>1, Written
  <2> QED
    BY <2>1, <2>2
<1>14. /\ \A k \in Kinds, w \in Nat, x \in Nat : k # kind \/ w # v => (HasFile(k, w, x)' <=> HasFile(k, w, x))
       /\ \A x \in Nat : HasFile(kind, v, x)' => x = made
       /\ (\E x \in Nat : HasFile(kind, v, x)) =>
            files'[kind] # << >> /\ Last(files'[kind]) = File(v, made) /\ HasFile(kind, v, made)'
  <2>1. CASE files' = files /\ \A x \in Nat : ~ HasFile(kind, v, x)
    <3>1. \A k \in Kinds, w \in Nat, x \in Nat : HasFile(k, w, x)' <=> HasFile(k, w, x)
      BY <2>1 DEF HasFile, File
    <3> QED
      BY <2>1, <3>1
  <2>2. CASE /\ files'[kind] # << >> /\ Last(files'[kind]) = File(v, made)
             /\ \A l \in Kinds : \A f : Holds(files'[l], f) <=>
                  \/ Holds(files[l], f) /\ (l # kind \/ f.version # v)
                  \/ l = kind /\ f = File(v, made)
    <3>1. ASSUME NEW k \in Kinds, NEW w \in Nat, NEW x \in Nat
          PROVE  HasFile(k, w, x)' <=> \/ HasFile(k, w, x) /\ (k # kind \/ w # v)
                                       \/ k = kind /\ w = v /\ x = made
      BY <2>2 DEF HasFile, File
    <3>2. \A k \in Kinds, w \in Nat, x \in Nat : k # kind \/ w # v => (HasFile(k, w, x)' <=> HasFile(k, w, x))
      BY <3>1
    <3>3. \A x \in Nat : HasFile(kind, v, x)' => x = made
      BY <3>1
    <3>4. HasFile(kind, v, made)'
      BY <3>1
    <3> QED
      BY <2>2, <3>2, <3>3, <3>4
  <2> QED
    BY <1>13, <2>1, <2>2
<1>15. LifeTypeOK'
  BY <1>1, <1>5, <1>9, <1>10, <1>13 DEF LifeTypeOK, Made
<1>16. (\A q \in Processes : StepHolds(q, model[q]))'
  <2>1. CASE kind = "regressor"
    <3>1. StepHolds(t, m)
      BY <1>2, <1>3, <1>5, <1>7, <2>1, TheKinds, BothKinds DEF StepHolds, TrainingSteps
    <3> QED
      BY <1>1, <1>9, <3>1, StepsKept
  <2>2. CASE kind = "classifier"
    <3>1. StepHolds(t, m)
      BY <1>2, <1>3, <1>5, <1>7, <2>2, TheKinds, BothKinds DEF StepHolds, TrainingSteps
    <3> QED
      BY <1>1, <1>9, <3>1, StepsKept
  <2> QED
    BY <2>1, <2>2, TheKinds
<1>17. \A k \in Kinds, w \in Nat : /\ Writing(k, w)' => Writing(k, w)
                                   /\ Writing(k, w) => Writing(k, w)' \/ (k = kind /\ w = v)
                                   /\ Writing(kind, v)' => v \in shared
  <2>1. ASSUME NEW k \in Kinds, NEW w \in Nat PROVE Writing(k, w)' => Writing(k, w)
    BY <1>8, <1>9, WritingFrom DEF Writes
  <2>2. ASSUME NEW k \in Kinds, NEW w \in Nat PROVE Writing(k, w) => Writing(k, w)' \/ (k = kind /\ w = v)
    <3>1. Writes(t, model[t], k, w) => k = kind /\ w = v
      BY <1>3, <1>4 DEF Writes
    <3> QED
      BY <1>9, <3>1, WritingFrom
  <2>3. Writing(kind, v)' => v \in shared
    <3>1. ASSUME Writing(kind, v)' PROVE v \in shared
      <4>1. PICK u \in Trainers : model'[u].step = "write" /\ model'[u].kind = kind /\ model'[u].version[kind] = v
        BY <3>1 DEF Writing, AtStep
      <4>2. u # t
        BY <1>8, <1>9, <4>1
      <4>3. Bears(u, kind, v) /\ Bears(t, kind, v)
        BY <1>4, <1>9, <4>1, <4>2 DEF Bears
      <4> QED
        BY <1>1, <4>2, <4>3 DEF NamesHold
    <3> QED
      BY <3>1
  <2> QED
    BY <2>1, <2>2, <2>3
<1>18. \A k \in Kinds, w \in Nat, x \in Made : Tells(k, w, x)' => Tells(k, w, x) \/ (k = kind /\ w = v /\ x = new)
  <2> SUFFICES ASSUME NEW k \in Kinds, NEW w \in Nat, NEW x \in Made, Tells(k, w, x)'
               PROVE  Tells(k, w, x) \/ (k = kind /\ w = v /\ x = new)
    OBVIOUS
  <2>1. Tells(k, w, x) \/ HasFile(k, w, x)' \/ OnRow(k, w, x)' \/ RunTells(m, k, w, x)
    BY <1>1, <1>9, <1>10, TellsFrom
  <2>2. OnRow(k, w, x)' => OnRow(k, w, x)
    BY <1>10 DEF OnRow
  <2>3. HasFile(k, w, x)' => HasFile(k, w, x) \/ (k = kind /\ w = v /\ x = new)
    BY <1>11, <1>14, Absent
  <2>4. ASSUME RunTells(m, k, w, x) PROVE Tells(k, w, x) \/ (k = kind /\ w = v /\ x = new)
    <3>1. CASE k = kind
      <4>1. x = new
        BY <1>7, <2>4, <3>1 DEF RunTells
      <4>2. model[t].path[k] # w
        BY <1>2, Absent DEF StepHolds, TrainingSteps, None
      <4> QED
        BY <1>4, <1>7, <2>4, <3>1, <4>1, <4>2 DEF RunTells
    <3>2. CASE k # kind
      BY <1>1, <1>7, <2>4, <3>2 DEF RunTells, Tells, OnRun
    <3> QED
      BY <3>1, <3>2
  <2> QED
    BY <2>1, <2>2, <2>3, <2>4 DEF Tells
<1>19. \A u \in Trainers : model'[u].version = model[u].version
  BY <1>7, <1>9
<1>20. NothingNamed /\ RowsOfOthers
  BY <1>10, <1>19 DEF NothingNamed, RowsOfOthers, Bears
<1>21. \A k \in Kinds, w \in Nat : Unfinished(k, w)' => Unfinished(k, w) /\ (k = kind /\ w = v => v \in shared)
  <2> SUFFICES ASSUME NEW k \in Kinds, NEW w \in Nat, Unfinished(k, w)'
               PROVE  Unfinished(k, w) /\ (k = kind /\ w = v => v \in shared)
    OBVIOUS
  <2>1. CASE Writing(k, w)'
    BY <1>17, <2>1 DEF Unfinished
  <2>2. CASE HasFile(k, w, Broken)'
    <3>1. CASE k = kind /\ w = v
      <4>1. made = Broken
        BY <1>14, <2>2, <3>1, Absent
      <4> QED
        BY <1>11, <1>12, <3>1, <4>1, Absent DEF Unfinished
    <3>2. CASE ~ (k = kind /\ w = v)
      BY <1>14, <2>2, <3>2, Absent DEF Unfinished
    <3> QED
      BY <3>1, <3>2
  <2> QED
    BY <2>1, <2>2 DEF Unfinished
<1>22. NamesHold'
  <2>1. \A k \in Kinds : \A w \in Nat : Unfinished(k, w)' => w \in named'
    BY <1>1, <1>10, <1>21 DEF NamesHold
  <2>2. \A k \in Kinds : \A w \in Nat, x \in Made : Tells(k, w, x)' => w \in named'
    BY <1>1, <1>10, <1>12, <1>18 DEF NamesHold
  <2>3. \A k \in Kinds : \A w \in Nat, u \in Trainers : Bears(u, k, w)' => w \in named'
    BY <1>1, <1>10, <1>20 DEF NamesHold, NothingNamed
  <2>4. \A u, w \in Trainers, k, l \in Kinds : \A z \in Nat :
          Bears(u, k, z)' /\ Bears(w, l, z)' /\ (u # w \/ k # l) => z \in shared'
    BY <1>1, <1>10, <1>20 DEF NamesHold, NothingNamed
  <2>5. \A r \in modelRow' : \A u \in Trainers, k \in Kinds : Bears(u, k, r.version)' => r.version \in shared'
    BY <1>1, <1>10, <1>19 DEF NamesHold, Bears
  <2> QED
    BY <2>1, <2>2, <2>3, <2>4, <2>5 DEF NamesHold
<1>23. \A k \in Kinds, w \in Nat, x \in Made : Tells(k, w, x) => x < new /\ x # new
  <2>1. ASSUME NEW k \in Kinds, NEW w \in Nat, NEW x \in Made, Tells(k, w, x) PROVE x < new /\ x # new
    <3>1. x =< finished /\ x \in Nat /\ finished \in Nat
      BY <1>1, <2>1, Absent DEF TalesHold, LifeTypeOK
    <3> QED
      BY <1>5, <3>1
  <2> QED
    BY <2>1
<1>24. TalesHold'
  <2>1. ASSUME NEW k \in Kinds, NEW w \in Nat, NEW x \in Made, Tells(k, w, x)' PROVE x =< finished'
    <3>1. x \in Nat /\ new \in Nat
      BY Absent
    <3> QED
      BY <1>10, <1>18, <1>23, <2>1, <3>1
  <2>2. ASSUME NEW k \in Kinds, NEW w \in Nat, NEW z \in Nat, NEW x \in Made, Tells(k, w, x)', Tells(k, z, x)'
        PROVE  w = z
    BY <1>1, <1>18, <1>23, <2>2 DEF TalesHold
  <2>3. v \notin shared => \A x \in Made : ~ Tells(kind, v, x)
    BY <1>1, <1>12 DEF TalesHold, Unfinished
  <2>4. ASSUME NEW k \in Kinds, NEW w \in Nat, NEW x \in Made, NEW y \in Made, Tells(k, w, x)', Tells(k, w, y)'
        PROVE  x = y \/ w \in shared'
    BY <1>1, <1>10, <1>18, <2>3, <2>4 DEF TalesHold
  <2>5. ASSUME NEW k \in Kinds, NEW w \in Nat, NEW x \in Made, Tells(k, w, x)', Unfinished(k, w)'
        PROVE  w \in shared'
    BY <1>1, <1>10, <1>18, <1>21, <2>5 DEF TalesHold
  <2> QED
    BY <2>1, <2>2, <2>4, <2>5 DEF TalesHold
<1>25. FilesHold'
  <2>1. ASSUME NEW k \in Kinds, NEW w \in Nat, HasFile(k, w, Broken)'
        PROVE  Writing(k, w)' \/ <<k, w>> \in abandoned' \/ w \in shared'
    <3>1. CASE k = kind /\ w = v
      BY <1>10, <1>21, <2>1, <3>1 DEF Unfinished
    <3>2. CASE ~ (k = kind /\ w = v)
      <4>1. HasFile(k, w, Broken)
        BY <1>14, <2>1, <3>2, Absent
      <4>2. Writing(k, w) \/ <<k, w>> \in abandoned \/ w \in shared
        BY <1>1, <4>1 DEF FilesHold
      <4> QED
        BY <1>10, <1>17, <3>2, <4>2
    <3> QED
      BY <3>1, <3>2
  <2> QED
    BY <1>13, <2>1 DEF FilesHold
<1>26. ChampionsHold'
  <2>1. ASSUME NEW k \in Kinds, NEW w \in Nat, NEW x \in Nat, HasFile(k, w, x)
        PROVE  \E y \in Nat : HasFile(k, w, y)'
    BY <1>14, <2>1
  <2> QED
    BY <1>1, <1>8, <1>9, <1>10, <2>1, ChampionsKept DEF PruningSteps
<1>27. ForecastsFull'
  BY <1>1, <1>10 DEF ForecastsFull
<1>28. ASSUME NEW k \in Kinds, Clean(k)' PROVE CleanHolds(k)'
  <2>1. shared = {} /\ CleanHolds(k)
    BY <1>10, <1>28 DEF Clean, LifeInvariant
  <2>2. k = kind => made = new /\ files'[k] # << >> /\ Last(files'[k]) = File(v, new) /\ HasFile(k, v, new)'
    BY <1>11, <1>12, <1>14, <2>1, Absent DEF CleanHolds
  <2>3. ASSUME NEW u \in Trainers, NEW f \in Files, Pruning(u, k)', Picked(model'[u], f)
        PROVE  /\ f.version \in named' /\ ~ Writing(k, f.version)'
               /\ files'[k] # << >> => Last(files'[k]).version # f.version
    <3>1. u # t
      BY <1>8, <1>9, <2>3 DEF Pruning, AtStep
    <3>2. Pruning(u, k) /\ Picked(model[u], f) /\ f.version \in Nat
      BY <1>9, <2>3, <3>1 DEF Pruning, AtStep, Files
    <3>3. f.version \in named /\ ~ Writing(k, f.version) /\ (files[k] # << >> => Last(files[k]).version # f.version)
      BY <2>1, <3>2 DEF CleanHolds
    <3>4. files'[k] # << >> => Last(files'[k]).version # f.version
      <4>1. CASE k = kind
        BY <1>12, <2>2, <3>3, <4>1 DEF File
      <4>2. CASE k # kind
        BY <1>13, <3>3, <4>2
      <4> QED
        BY <4>1, <4>2
    <3> QED
      BY <1>10, <1>17, <3>2, <3>3, <3>4
  <2>4. ASSUME Trained(k)' PROVE files'[k] # << >>
    <3>1. Trained(k)
      BY <1>10, <1>19, <2>4 DEF Trained
    <3> QED
      BY <1>13, <2>1, <2>2, <3>1 DEF CleanHolds
  <2>5. ASSUME NEW w \in Nat, Writing(k, w)' PROVE HasFile(k, w, Broken)'
    <3>1. Writing(k, w) /\ ~ (k = kind /\ w = v)
      BY <1>17, <2>1, <2>5
    <3> QED
      BY <1>14, <2>1, <3>1, Absent DEF CleanHolds
  <2>6. ASSUME files'[k] # << >>, Last(files'[k]).made # Broken, NEW w \in Nat, NEW x \in Made, Tells(k, w, x)'
        PROVE  x =< Last(files'[k]).made
    <3>1. CASE k = kind
      <4>1. Last(files'[k]).made = new
        BY <2>2, <3>1 DEF File
      <4>2. x \in Nat /\ new \in Nat
        BY Absent
      <4>3. x < new \/ x = new
        BY <1>18, <1>23, <2>6
      <4> QED
        BY <4>1, <4>2, <4>3
    <3>2. CASE k # kind
      BY <1>13, <1>18, <2>1, <2>6, <3>2 DEF CleanHolds
    <3> QED
      BY <3>1, <3>2
  <2>7. ASSUME unannounced' = {}, NEW w \in Nat, NEW x \in Made, HasFile(k, w, x)'
        PROVE  OnRow(k, w, x)' \/ \E u \in Trainers : Bears(u, k, w)' /\ model'[u].made[k] = x
    <3>1. CASE k = kind /\ w = v
      <4>1. x = new
        BY <1>14, <2>2, <2>7, <3>1, Absent
      <4>2. Bears(t, k, w)' /\ model'[t].made[k] = x
        BY <1>4, <1>7, <1>9, <3>1, <4>1 DEF Bears
      <4> QED
        BY <4>2
    <3>2. CASE ~ (k = kind /\ w = v)
      <4>1. HasFile(k, w, x)
        BY <1>14, <2>7, <3>2, Absent
      <4>2. OnRow(k, w, x) \/ \E u \in Trainers : Bears(u, k, w) /\ model[u].made[k] = x
        BY <1>10, <2>1, <2>7, <4>1 DEF CleanHolds
      <4>3. OnRow(k, w, x) => OnRow(k, w, x)'
        BY <1>10 DEF OnRow
      <4>4. ASSUME NEW u \in Trainers, Bears(u, k, w), model[u].made[k] = x
            PROVE  Bears(u, k, w)' /\ model'[u].made[k] = x
        <5>1. u = t => k # kind
          BY <1>8, <4>4, Absent
        <5> QED
          BY <1>7, <1>9, <1>19, <4>4, <5>1 DEF Bears
      <4> QED
        BY <4>2, <4>3, <4>4
    <3> QED
      BY <3>1, <3>2
  <2> QED
    BY <2>3, <2>4, <2>5, <2>6, <2>7 DEF CleanHolds, Picked
<1> QED
  BY <1>15, <1>16, <1>22, <1>24, <1>25, <1>26, <1>27, <1>28 DEF LifeInvariant

-----------------------------------------------------------------------------
(* A champion is chosen; and all steps together.                           *)

LEMMA PromoteKeeps ==
  ASSUME LifeInvariant, NEW kind \in Kinds, NEW v \in 1 .. LastSecond, Promote(kind, v)
  PROVE  LifeInvariant'
<1>1. /\ LifeTypeOK /\ FilesHold /\ NamesHold /\ TalesHold /\ ChampionsHold /\ ForecastsFull
      /\ \A q \in Processes : StepHolds(q, model[q])
  BY DEF LifeInvariant
<1>2. /\ second' = second /\ files' = files /\ modelRow' = modelRow /\ forecast' = forecast /\ loaded' = loaded
      /\ model' = model /\ finished' = finished /\ named' = named /\ shared' = shared /\ abandoned' = abandoned
      /\ unannounced' = unannounced
      /\ champion' = [champion EXCEPT ![kind] = v]
      /\ passedOver' = IF \E t \in Trainers : model[t].step \in {"list", "unlink"}
                       THEN passedOver \cup {<<kind, v>>} ELSE passedOver
  BY DEF Promote
<1>3. PICK f \in FilesOf(kind, v) : TRUE
  BY DEF Promote
<1>4. v \in Nat /\ f \in Files /\ HasFile(kind, v, f.made)
  <2>1. f \in Files /\ Holds(files[kind], f) /\ f.version = v
    BY <1>1, <1>3, FilesOfHolds
  <2>2. f = File(v, f.made)
    BY <2>1 DEF Files, File
  <2> QED
    BY <2>1, <2>2 DEF HasFile, Files
<1>5. LifeTypeOK'
  <2>1. champion' \in VersionsByKind
    BY <1>1, <1>2, <1>4 DEF LifeTypeOK, VersionsByKind
  <2> QED
    BY <1>1, <1>2, <2>1 DEF LifeTypeOK
<1>6. (\A q \in Processes : StepHolds(q, model[q]))'
  BY <1>1, <1>2 DEF StepHolds
<1>7. \A k \in Kinds, w \in Nat, x \in Nat : HasFile(k, w, x)' <=> HasFile(k, w, x)
  BY <1>2 DEF HasFile, File
<1>8. \A k \in Kinds, w \in Nat : Writing(k, w)' <=> Writing(k, w)
  BY <1>2 DEF Writing, AtStep
<1>9. \A k \in Kinds, w \in Nat, x \in Made : Tells(k, w, x)' <=> Tells(k, w, x)
  <2> SUFFICES ASSUME NEW k \in Kinds, NEW w \in Nat, NEW x \in Made PROVE Tells(k, w, x)' <=> Tells(k, w, x)
    OBVIOUS
  <2>1. OnRow(k, w, x)' <=> OnRow(k, w, x)
    BY <1>2 DEF OnRow
  <2>2. Cached(k, w, x)' <=> Cached(k, w, x)
    BY <1>2 DEF Cached
  <2>3. Forecast(k, w, x)' <=> Forecast(k, w, x)
    BY <1>2 DEF Forecast
  <2>4. OnRun(k, w, x)' <=> OnRun(k, w, x)
    BY <1>2 DEF OnRun, RunTells
  <2> QED
    BY <1>7, <2>1, <2>2, <2>3, <2>4, Absent DEF Tells
<1>10. NothingTold /\ NothingNamed /\ NothingBegun /\ RowsOfOthers
  BY <1>2, <1>7, <1>8, <1>9, Absent DEF NothingTold, NothingNamed, NothingBegun, RowsOfOthers, Bears, Unfinished
<1>11. NamesHold' /\ TalesHold'
  BY <1>1, <1>2, <1>5, <1>10, NamesKept, TalesKept
<1>12. FilesHold'
  BY <1>1, <1>2, <1>7, <1>8, Absent DEF FilesHold, OneEach
<1>13. ChampionsHold'
  <2>1. ASSUME NEW k \in Kinds, champion'[k] # NoArtifact, <<k, champion'[k]>> \notin passedOver'
        PROVE  /\ (\E x \in Nat : HasFile(k, champion[k], x))'
               /\ \A t \in Trainers : model'[t].step \in PruningSteps => model'[t].champions[k] = champion'[k]
    <3>1. CASE k = kind
      <4>1. champion'[k] = v
        BY <1>1, <1>2, <3>1 DEF LifeTypeOK, VersionsByKind
      <4>2. \A t \in Trainers : model[t].step \notin PruningSteps
        BY <1>2, <2>1, <3>1, <4>1 DEF PruningSteps
      <4>3. HasFile(k, champion[k], f.made)'
        BY <1>2, <1>4, <3>1, <4>1 DEF HasFile, File
      <4> QED
        BY <1>2, <1>4, <4>2, <4>3 DEF Files
    <3>2. CASE k # kind
      <4>1. champion'[k] = champion[k] /\ <<k, champion[k]>> \notin passedOver
        BY <1>1, <1>2, <2>1, <3>2 DEF LifeTypeOK, VersionsByKind
      <4>2. PICK x \in Nat : HasFile(k, champion[k], x)
        BY <1>1, <2>1, <4>1 DEF ChampionsHold
      <4>3. HasFile(k, champion[k], x)'
        BY <1>2, <4>1, <4>2 DEF HasFile, File
      <4>4. \A t \in Trainers : model'[t].step \in PruningSteps => model'[t].champions[k] = champion'[k]
        BY <1>1, <1>2, <2>1, <4>1 DEF ChampionsHold
      <4> QED
        BY <4>3, <4>4
    <3> QED
      BY <3>1, <3>2
  <2>2. ASSUME NEW t \in Trainers, NEW k \in Kinds, NEW g \in Files, Pruning(t, k)', Picked(model'[t], g)
        PROVE  g.version # model'[t].champions[k]
    BY <1>1, <1>2, <2>2 DEF ChampionsHold, Pruning, AtStep
  <2> QED
    BY <2>1, <2>2 DEF ChampionsHold, Picked
<1>14. ForecastsFull'
  BY <1>1, <1>2 DEF ForecastsFull
<1>15. ASSUME NEW k \in Kinds, Clean(k)' PROVE CleanHolds(k)'
  <2>1. CleanHolds(k)
    BY <1>2, <1>15 DEF Clean, LifeInvariant
  <2>2. ASSUME NEW t \in Trainers, NEW g \in Files, Pruning(t, k)', Picked(model'[t], g)
        PROVE  /\ g.version \in named' /\ ~ Writing(k, g.version)'
               /\ files'[k] # << >> => Last(files'[k]).version # g.version
    <3>1. Pruning(t, k) /\ Picked(model[t], g) /\ g.version \in Nat
      BY <1>2, <2>2 DEF Pruning, AtStep, Files
    <3> QED
      BY <1>2, <1>8, <2>1, <3>1 DEF CleanHolds
  <2>3. Trained(k)' => files'[k] # << >>
    BY <1>2, <2>1 DEF CleanHolds, Trained
  <2>4. \A w \in Nat : Writing(k, w)' => HasFile(k, w, Broken)'
    BY <1>7, <1>8, <2>1, Absent DEF CleanHolds
  <2>5. ASSUME files'[k] # << >>, Last(files'[k]).made # Broken, NEW w \in Nat, NEW x \in Made, Tells(k, w, x)'
        PROVE  x =< Last(files'[k]).made
    BY <1>2, <1>9, <2>1, <2>5 DEF CleanHolds
  <2>6. ASSUME unannounced' = {}, NEW w \in Nat, NEW x \in Made, HasFile(k, w, x)'
        PROVE  OnRow(k, w, x)' \/ \E t \in Trainers : Bears(t, k, w)' /\ model'[t].made[k] = x
    <3>1. OnRow(k, w, x) \/ \E t \in Trainers : Bears(t, k, w) /\ model[t].made[k] = x
      BY <1>2, <1>7, <2>1, <2>6, Absent DEF CleanHolds
    <3> QED
      BY <1>2, <3>1 DEF OnRow, Bears
  <2> QED
    BY <2>2, <2>3, <2>4, <2>5, <2>6 DEF CleanHolds, Picked
<1> QED
  BY <1>5, <1>6, <1>11, <1>12, <1>13, <1>14, <1>15 DEF LifeInvariant

LEMMA StillKeeps ==
  ASSUME LifeInvariant, UNCHANGED modelVars
  PROVE  LifeInvariant'
<1>1. /\ second' = second /\ files' = files /\ modelRow' = modelRow /\ forecast' = forecast /\ loaded' = loaded
      /\ model' = model /\ finished' = finished /\ named' = named /\ shared' = shared /\ abandoned' = abandoned
      /\ unannounced' = unannounced /\ champion' = champion /\ passedOver' = passedOver
  BY DEF modelVars
<1>2. LifeTypeOK' /\ (\A q \in Processes : StepHolds(q, model[q]))'
  BY <1>1 DEF LifeInvariant, LifeTypeOK, StepHolds
<1>3. \A k, v, x : HasFile(k, v, x)' <=> HasFile(k, v, x)
  BY <1>1 DEF HasFile, File
<1>4. \A k, v : Writing(k, v)' <=> Writing(k, v)
  BY <1>1 DEF Writing, AtStep
<1>5. \A k, v, x : OnRow(k, v, x)' <=> OnRow(k, v, x)
  BY <1>1 DEF OnRow
<1>6. \A k, v, x : Tells(k, v, x)' <=> Tells(k, v, x)
  BY <1>1, <1>3, <1>5 DEF Tells, Cached, Forecast, OnRun, RunTells
<1>7. NamesHold'
  BY <1>1, <1>3, <1>4, <1>6 DEF LifeInvariant, NamesHold, Unfinished, Bears
<1>8. TalesHold'
  BY <1>1, <1>3, <1>4, <1>6 DEF LifeInvariant, TalesHold, Unfinished
<1>9. FilesHold' /\ ForecastsFull'
  BY <1>1, <1>3, <1>4 DEF LifeInvariant, FilesHold, OneEach, ForecastsFull
<1>10. ChampionsHold'
  BY <1>1, <1>3 DEF LifeInvariant, ChampionsHold, Pruning, Picked, AtStep, HasFile, File
<1>11. ASSUME NEW k \in Kinds, Clean(k)' PROVE CleanHolds(k)'
  <2>1. CleanHolds(k)
    BY <1>1, <1>11 DEF LifeInvariant, Clean
  <2> QED
    BY <1>1, <1>3, <1>4, <1>5, <1>6, <2>1 DEF CleanHolds, Pruning, Picked, AtStep, Trained, Bears
<1> QED
  BY <1>2, <1>7, <1>8, <1>9, <1>10, <1>11 DEF LifeInvariant

LEMMA LifeStep == LifeInvariant /\ [LifecycleNext]_modelVars => LifeInvariant'
<1> SUFFICES ASSUME LifeInvariant, [LifecycleNext]_modelVars PROVE LifeInvariant'
  OBVIOUS
<1>1. CASE NextSecond
  BY <1>1, NextSecondKeeps
<1>2. ASSUME NEW t \in Trainers, TrainerStep(t) PROVE LifeInvariant'
  <2>1. CASE StartTraining(t)
    BY <2>1, StartTrainingKeeps
  <2>2. CASE OpenArtifact(t)
    BY <2>2, OpenArtifactKeeps
  <2>3. CASE CloseArtifact(t)
    BY <2>3, CloseArtifactKeeps
  <2>4. CASE SingleClass(t)
    BY <2>4, SingleClassKeeps
  <2>5. CASE StoreTraining(t)
    BY <2>5, StoreTrainingKeeps
  <2>6. CASE StorePredictions(t)
    BY <2>6, StorePredictionsKeeps
  <2>7. CASE ReadChampions(t)
    BY <2>7, ReadChampionsKeeps
  <2>8. CASE ListDoomed(t)
    BY <2>8, ListDoomedKeeps
  <2>9. CASE Unlink(t)
    BY <2>9, UnlinkKeeps
  <2>10. CASE KindPruned(t)
    BY <2>10, KindPrunedKeeps
  <2>11. CASE TrainingStops(t)
    BY <2>11, TrainingStopsKeeps
  <2> QED
    BY <1>2, <2>1, <2>2, <2>3, <2>4, <2>5, <2>6, <2>7, <2>8, <2>9, <2>10, <2>11 DEF TrainerStep
<1>3. ASSUME NEW r \in Readers, Recommend(r) \/ Recommended(r) PROVE LifeInvariant'
  BY <1>3, RecommendKeeps, RecommendedKeeps
<1>4. ASSUME NEW p \in Processes, ChoosePaths(p) \/ LoadModel(p) PROVE LifeInvariant'
  BY <1>4, ChoosePathsKeeps, LoadModelKeeps
<1>5. ASSUME NEW kind \in Kinds, NEW v \in 1 .. LastSecond, Promote(kind, v) PROVE LifeInvariant'
  BY <1>5, PromoteKeeps
<1>6. CASE UNCHANGED modelVars
  BY <1>6, StillKeeps
<1> QED
  BY <1>1, <1>2, <1>3, <1>4, <1>5, <1>6 DEF LifecycleNext

LEMMA LifeBegins == LifecycleInit => LifeInvariant
<1> SUFFICES ASSUME LifecycleInit PROVE LifeInvariant
  OBVIOUS
<1>1. /\ second = 1 /\ champion = None /\ forecast = {} /\ modelRow = {} /\ finished = 0
      /\ loaded = [p \in Processes |-> << >>] /\ model = [p \in Processes |-> Idle]
      /\ named = {} /\ shared = {} /\ abandoned = {} /\ unannounced = {} /\ passedOver = {}
      /\ files = [k \in Kinds |-> << >>]
  BY DEF LifecycleInit, LifecycleInitWith
<1>2. LifeTypeOK
  <2>1. second \in 1 .. LastSecond
    BY <1>1, LifecycleAssumption
  <2> QED
    BY <1>1, <2>1, Absent, IdleIsModel DEF LifeTypeOK
<1>3. \A p \in Processes : model[p] = Idle /\ StepHolds(p, model[p])
  BY <1>1, IdleHolds
<1>4. Trainers \subseteq Processes
  BY DEF Processes
<1>5. \A k \in Kinds, v \in Nat, x \in Nat : ~ HasFile(k, v, x)
  BY <1>1 DEF HasFile, Holds
<1>6. \A k \in Kinds, v \in Nat : ~ Writing(k, v)
  BY <1>3, <1>4, BlankIdle DEF Writing, AtStep
<1>7. \A k \in Kinds, v \in Nat, t \in Trainers : ~ Bears(t, k, v)
  BY <1>3, <1>4, BlankIdle, Absent DEF Bears, None
<1>8. \A k \in Kinds, v \in Nat, x \in Made : ~ Tells(k, v, x)
  <2> SUFFICES ASSUME NEW k \in Kinds, NEW v \in Nat, NEW x \in Made PROVE ~ Tells(k, v, x)
    OBVIOUS
  <2>1. ~ OnRow(k, v, x) /\ ~ Forecast(k, v, x)
    BY <1>1 DEF OnRow, Forecast
  <2>2. ~ Cached(k, v, x)
    BY <1>1 DEF Cached, Holds
  <2>3. ~ OnRun(k, v, x)
    BY <1>3, BlankIdle, Absent DEF OnRun, RunTells, None
  <2> QED
    BY <1>5, <2>1, <2>2, <2>3, Absent DEF Tells
<1>9. NamesHold /\ TalesHold
  BY <1>1, <1>5, <1>6, <1>7, <1>8, Absent DEF NamesHold, TalesHold, Unfinished
<1>10. FilesHold
  BY <1>1, <1>5, Absent DEF FilesHold, OneEach
<1>11. ChampionsHold
  BY <1>1, <1>3, <1>4, BlankIdle DEF ChampionsHold, None, Pruning, AtStep
<1>12. ForecastsFull
  BY <1>1 DEF ForecastsFull
<1>13. ASSUME NEW k \in Kinds PROVE CleanHolds(k)
  <2>1. \A t \in Trainers : ~ Pruning(t, k) /\ model[t].version[k] = NoArtifact
    BY <1>3, <1>4, BlankIdle DEF Pruning, AtStep, None
  <2>2. ~ Trained(k)
    BY <1>1, <2>1 DEF Trained
  <2> QED
    BY <1>5, <1>6, <1>8, <2>1, <2>2, Absent DEF CleanHolds
<1> QED
  BY <1>2, <1>3, <1>9, <1>10, <1>11, <1>12, <1>13 DEF LifeInvariant

LEMMA LifeSound == LifeInvariant => ModelsSound
<1> SUFFICES ASSUME LifeInvariant PROVE ModelsSound
  OBVIOUS
<1>1. /\ LifeTypeOK /\ FilesHold /\ NamesHold /\ TalesHold /\ ChampionsHold /\ ForecastsFull
      /\ \A q \in Processes : StepHolds(q, model[q])
  BY DEF LifeInvariant
<1>2. ASSUME NEW k \in Kinds, NEW f \in Range(files[k])
      PROVE  f \in Files /\ Holds(files[k], f) /\ HasFile(k, f.version, f.made) /\ f = File(f.version, f.made)
  <2>1. files[k] \in Seq(Files)
    BY <1>1 DEF LifeTypeOK
  <2>2. f \in Files /\ Holds(files[k], f)
    BY <1>2, <2>1 DEF Range, Holds
  <2>3. f = File(f.version, f.made)
    BY <2>2 DEF Files, File
  <2> QED
    BY <2>2, <2>3 DEF HasFile
<1>3. HalfModelsExplained
  <2>1. ASSUME NEW k \in Kinds, NEW f \in Range(files[k]), f.made = Broken
        PROVE  Writing(k, f.version) \/ <<k, f.version>> \in abandoned \/ f.version \in shared
    <3>1. HasFile(k, f.version, Broken) /\ f.version \in Nat
      BY <1>2, <2>1 DEF Files
    <3> QED
      BY <1>1, <3>1 DEF FilesHold
  <2> QED
    BY <2>1 DEF HalfModelsExplained
<1>4. PruningSpares
  <2>1. ASSUME NEW row \in modelRow, files[row.kind] = << >>
        PROVE  shared # {} \/ \E v \in 1 .. LastSecond : <<row.kind, v>> \in abandoned
    <3>1. row.kind \in Kinds
      BY <1>1 DEF LifeTypeOK, ModelRows
    <3>2. Trained(row.kind)
      BY DEF Trained
    <3> QED
      BY <2>1, <3>1, <3>2 DEF LifeInvariant, Clean, CleanHolds
  <2>2. ASSUME NEW k \in Kinds, champion[k] # NoArtifact
        PROVE  FilesOf(k, champion[k]) # {} \/ <<k, champion[k]>> \in passedOver
    <3>1. SUFFICES ASSUME <<k, champion[k]>> \notin passedOver PROVE FilesOf(k, champion[k]) # {}
      OBVIOUS
    <3>2. PICK x \in Nat : HasFile(k, champion[k], x)
      BY <1>1, <2>2, <3>1 DEF ChampionsHold
    <3>3. champion[k] \in Nat
      BY <1>1, <2>2 DEF LifeTypeOK, VersionsByKind
    <3>4. File(champion[k], x) \in FilesOf(k, champion[k])
      BY <1>1, <3>2, <3>3, FilesOfHolds DEF HasFile, File, Files
    <3> QED
      BY <3>4
  <2> QED
    BY <2>1, <2>2 DEF PruningSpares
<1>5. CacheIsTrue
  <2> SUFFICES ASSUME NEW p \in Processes, NEW e \in Range(loaded[p]), e.version \notin shared,
                      NEW f \in FilesOf(e.kind, e.version)
               PROVE  f.made = e.made
    BY DEF CacheIsTrue
  <2>1. e \in Entries /\ Holds(loaded[p], e)
    <3>1. loaded[p] \in Seq(Entries)
      BY <1>1 DEF LifeTypeOK
    <3> QED
      BY <3>1 DEF Range, Holds
  <2>2. e.kind \in Kinds /\ e.version \in Nat /\ e.made \in Made
        /\ e = [kind |-> e.kind, version |-> e.version, made |-> e.made]
    BY <2>1 DEF Entries
  <2>3. Tells(e.kind, e.version, e.made)
    <3>1. Cached(e.kind, e.version, e.made)
      BY <2>1, <2>2 DEF Cached
    <3> QED
      BY <3>1 DEF Tells
  <2>4. f \in Files /\ Holds(files[e.kind], f) /\ f.version = e.version
    BY <1>1, <2>2, FilesOfHolds
  <2>5. f = File(e.version, f.made) /\ f.made \in Nat
    BY <2>4 DEF Files, File
  <2>6. HasFile(e.kind, e.version, f.made)
    BY <2>4, <2>5 DEF HasFile
  <2>7. f.made # Broken
    BY <1>1, <2>2, <2>3, <2>6 DEF TalesHold, Unfinished
  <2>8. f.made \in Made /\ Tells(e.kind, e.version, f.made)
    BY <2>5, <2>6, <2>7 DEF Made, Tells
  <2> QED
    BY <1>1, <2>2, <2>3, <2>8 DEF TalesHold
<1>6. ForecastsNamed
  <2> SUFFICES ASSUME NEW f \in forecast, NEW k \in Kinds, f.version[k] # NoArtifact, f.version[k] \notin shared,
                      NEW row \in modelRow, row.version = f.version[k], row.kind = k
               PROVE  row.made = f.made[k]
    BY DEF ForecastsNamed
  <2>1. f.version[k] \in Nat /\ f.made[k] \in Made
    BY <1>1 DEF LifeTypeOK, Forecasts, VersionsByKind, MadeByKind, ForecastsFull
  <2>2. Tells(k, f.version[k], f.made[k])
    BY DEF Tells, Forecast
  <2>3. row.made \in Made /\ row = [version |-> f.version[k], kind |-> k, made |-> row.made]
    BY <1>1 DEF LifeTypeOK, ModelRows
  <2>4. Tells(k, f.version[k], row.made)
    BY <2>3 DEF Tells, OnRow
  <2> QED
    BY <1>1, <2>1, <2>2, <2>3, <2>4 DEF TalesHold
<1>7. StatusTellsServed
  <2> SUFFICES ASSUME \A t \in Trainers : model[t].version = None,
                      shared = {}, abandoned = {}, unannounced = {},
                      NEW k \in Kinds, champion[k] = NoArtifact
               PROVE  LET kindRows == {r \in modelRow : r.kind = k}
                      IN IF kindRows = {} THEN Latest(k) = NoArtifact
                         ELSE \A r \in kindRows : (\A s \in kindRows : s.made <= r.made) => r.version = Latest(k)
    BY DEF StatusTellsServed
  <2> DEFINE rowsOf == {r \in modelRow : r.kind = k}
  <2>1. CleanHolds(k)
    BY DEF Clean, LifeInvariant
  <2>2. FilesOf(k, champion[k]) = {}
    BY <1>1, Absent, FilesOfHolds DEF Files
  <2>3. \A t \in Trainers : model[t].version[k] = NoArtifact
    BY DEF None
  <2>4. ASSUME files[k] # << >>
        PROVE  /\ Latest(k) = Last(files[k]).version /\ Last(files[k]).version \in Nat
               /\ Last(files[k]).made \in Made
               /\ OnRow(k, Last(files[k]).version, Last(files[k]).made)
    <3>1. Last(files[k]) \in Files /\ HasFile(k, Last(files[k]).version, Last(files[k]).made)
      BY <1>1, <2>4, LastFile
    <3>2. PICK v \in Nat, x \in Nat : v = Last(files[k]).version /\ x = Last(files[k]).made
      BY <3>1 DEF Files
    <3>3. ~ Writing(k, v)
      BY <2>3, Absent DEF Writing
    <3>4. x \in Made
      BY <1>1, <3>1, <3>2, <3>3 DEF FilesHold, Made
    <3>5. OnRow(k, v, x)
      BY <2>1, <2>3, <3>1, <3>2, <3>4, Absent DEF CleanHolds, Bears
    <3> QED
      BY <2>2, <2>4, <3>2, <3>4, <3>5 DEF Latest
  <2>5. CASE rowsOf = {}
    <3>1. files[k] = << >>
      BY <2>4, <2>5 DEF OnRow
    <3> QED
      BY <2>2, <2>5, <3>1 DEF Latest
  <2>6. CASE rowsOf # {}
    <3>1. files[k] # << >>
      BY <2>1, <2>6 DEF CleanHolds, Trained
    <3> SUFFICES ASSUME NEW r \in rowsOf, \A s \in rowsOf : s.made <= r.made PROVE r.version = Latest(k)
      BY <2>6
    <3>2. PICK v \in Nat, x \in Made : /\ v = Last(files[k]).version /\ x = Last(files[k]).made
                                       /\ Latest(k) = v /\ OnRow(k, v, x)
      BY <2>4, <3>1
    <3>3. x =< r.made
      <4>1. PICK q \in modelRow : q = [version |-> v, kind |-> k, made |-> x]
        BY <3>2 DEF OnRow
      <4>2. q \in rowsOf /\ q.made = x
        BY <4>1
      <4> QED
        BY <4>2
    <3>4. r.version \in Nat /\ r.made \in Made /\ r = [version |-> r.version, kind |-> k, made |-> r.made]
      BY <1>1 DEF LifeTypeOK, ModelRows
    <3>5. Tells(k, r.version, r.made) /\ Tells(k, v, x)
      BY <3>2, <3>4 DEF Tells, OnRow
    <3>6. r.made =< x
      BY <2>1, <3>1, <3>2, <3>4, <3>5 DEF CleanHolds, Made
    <3>7. r.made = x
      BY <3>3, <3>4, <3>6, Absent
    <3> QED
      BY <1>1, <3>2, <3>4, <3>5, <3>7 DEF TalesHold
  <2> QED
    BY <2>5, <2>6
<1> QED
  BY <1>3, <1>4, <1>5, <1>6, <1>7 DEF ModelsSound

(* Training, promotion, pruning and serving agree on one directory,        *)
(* whatever runs meet in it.                                               *)
THEOREM ModelsHold == LifecycleSpec => []ModelsSound
<1>1. LifecycleInit => LifeInvariant
  BY LifeBegins
<1>2. LifeInvariant /\ [LifecycleNext]_modelVars => LifeInvariant'
  BY LifeStep
<1>3. LifeInvariant => ModelsSound
  BY LifeSound
<1> QED
  BY <1>1, <1>2, <1>3, PTL DEF LifecycleSpec
=============================================================================

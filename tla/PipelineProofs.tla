-------------------------- MODULE PipelineProofs --------------------------
(***************************************************************************)
(* A failing source, a refused call or a stopped run does not corrupt what *)
(* is stored, for any number of bonds, currencies, runs, retries, permits  *)
(* and days.                                                               *)
(***************************************************************************)
EXTENDS Pipeline, TLAPS

USE ClientAssumption, PipelineAssumption DEF ClientAssumption, PipelineAssumption

-----------------------------------------------------------------------------
(* The client: its breaker and its calls.                                  *)

\* A breaker that has half-opened has cooled down.
Probing == breaker.state = "half-open" => breaker.cooled

ClientInv == ClientTypeOK /\ BreakerTracksFailures /\ Probing

(* What each step of a call keeps of the client's invariant.               *)
LEMMA EnterKeeps ==
    ASSUME ClientInv, NEW c \in Calls, Enter(c)
    PROVE  ClientInv'
<1> DEFINE b == StateRead(breaker)
           d == IF b.state = "open" THEN Ended("refused")
                ELSE [pc |-> "sent", tries |-> call[c].tries + 1, result |-> "none"]
<1>1. breaker \in Breaker /\ call[c] \in Call /\ call[c].pc = "entering"
  BY DEF ClientInv, ClientTypeOK, Enter
<1>2. b \in Breaker /\ breaker' = b
  BY <1>1 DEF StateRead, Breaker, Enter
<1>3. BreakerTracksFailures' /\ Probing'
  BY <1>1, <1>2 DEF ClientInv, BreakerTracksFailures, Probing, StateRead, Breaker
<1>4. call[c].tries \in 0 .. (MaxRetries - 1)
  BY <1>1 DEF Call
<1>5. d \in Call
  BY <1>4 DEF Ended, Call, Results
<1>6. call' = [call EXCEPT ![c] = d]
  BY DEF Enter
<1> QED
  BY <1>2, <1>3, <1>5, <1>6 DEF ClientInv, ClientTypeOK

LEMMA AnsweredKeeps ==
    ASSUME ClientInv, NEW c \in Calls, NEW result \in Results, Answered(c, result)
    PROVE  ClientInv'
<1>1. Ended(result) \in Call
  BY DEF Ended, Call
<1>2. call' \in [Calls -> Call]
  BY <1>1 DEF ClientInv, ClientTypeOK, Answered
<1>3. /\ breaker \in Breaker
      /\ breaker' = [breaker EXCEPT !.failures = 0, !.state = "closed"]
  BY DEF ClientInv, ClientTypeOK, Answered, RecordSuccess
<1>4. 0 \in 0 .. FailureThreshold
  OBVIOUS
<1>5. breaker' = [failures |-> 0, state |-> "closed", cooled |-> breaker.cooled]
  BY <1>3 DEF Breaker
<1>6. breaker' \in Breaker
  BY <1>3, <1>4, <1>5 DEF Breaker
<1> QED
  BY <1>2, <1>5, <1>6 DEF ClientInv, ClientTypeOK, BreakerTracksFailures, Probing

LEMMA UnansweredKeeps ==
    ASSUME ClientInv, NEW c \in Calls, Unanswered(c)
    PROVE  ClientInv'
<1> DEFINE d == IF call[c].tries < MaxRetries
                THEN [call[c] EXCEPT !.pc = "entering"] ELSE Ended("transient")
<1>1. breaker \in Breaker /\ call[c] \in Call /\ call[c].pc = "sent"
  BY DEF ClientInv, ClientTypeOK, Unanswered
<1>2. d \in Call
  BY <1>1 DEF Ended, Call, Results
<1>3. call' = [call EXCEPT ![c] = d]
  BY DEF Unanswered
<1>4. /\ breaker' \in Breaker
      /\ BreakerTracksFailures'
      /\ Probing'
  BY <1>1 DEF ClientInv, Unanswered, RecordFailure, Breaker, BreakerTracksFailures, Probing
<1> QED
  BY <1>2, <1>3, <1>4 DEF ClientInv, ClientTypeOK

LEMMA CoolDownKeeps ==
    ASSUME ClientInv, CoolDown
    PROVE  ClientInv'
BY DEF ClientInv, ClientTypeOK, CoolDown, Breaker, BreakerTracksFailures, Probing

(* A run that starts or ends has a client of its own, with a fresh breaker.*)
LEMMA FreshClient ==
    ASSUME breaker' = Untripped, call' \in [Calls -> {NoCall, Placed}]
    PROVE  ClientInv'
<1>1. NoCall \in Call /\ Placed \in Call
  BY DEF NoCall, Placed, Call
<1>2. Untripped \in Breaker
  BY DEF Untripped, Breaker
<1> QED
  BY <1>1, <1>2 DEF ClientInv, ClientTypeOK, BreakerTracksFailures, Probing, Untripped

(* The pipeline only places calls and takes their results.                 *)
LEMMA CallsOnly ==
    ASSUME ClientInv, UNCHANGED breaker, NEW c \in Calls, NEW d \in {NoCall, Placed},
           call' = [call EXCEPT ![c] = d]
    PROVE  ClientInv'
<1>1. d \in Call
  BY DEF NoCall, Placed, Call
<1> QED
  BY <1>1 DEF ClientInv, ClientTypeOK, BreakerTracksFailures, Probing

-----------------------------------------------------------------------------
(* Types.                                                                  *)

WorldType == onSale \in SUBSET Bonds /\ today \in Days

TablesType ==
    /\ bonds \in [Bonds -> BondRow]
    /\ history \in [Bonds -> SUBSET Days]
    /\ scored \in [Bonds -> {NotScored} \cup Coupons]
    /\ lineage \in {NoLineage} \cup [number: RunNumbers, quality: {"ok", "warning"}]

RunType == run \in Run

LEMMA TypeParts == TypeOK <=> ClientTypeOK /\ WorldType /\ TablesType /\ RunType
BY DEF TypeOK, WorldType, TablesType, RunType

LEMMA NewRunType ==
    ASSUME WorldType, NEW n \in RunNumbers, NEW kind \in {"full", "history"},
           NEW phase \in Phases, NEW ids \in SUBSET Bonds
    PROVE  NewRun(n, kind, phase, ids) \in Run
<1>1. AllTodo \in [Bonds -> {"todo", "calling", "done"}]
  BY DEF AllTodo
<1> QED
  BY <1>1 DEF NewRun, Run, WorldType

LEMMA NoRunType ==
    ASSUME WorldType, NEW n \in RunNumbers
    PROVE  NoRun(n) \in Run
<1>1. NewRun(n, "full", "idle", {}) \in Run
  BY NewRunType DEF Phases
<1>2. 1 \in Days
  BY DEF Days
<1> QED
  BY <1>1, <1>2 DEF NoRun, Run

LEMMA ClosesType ==
    ASSUME WorldType, RunType, Closes
    PROVE  RunType' /\ ClientInv'
<1>1. run.number \in RunNumbers
  BY DEF RunType, Run
<1>2. RunType'
  BY <1>1, NoRunType DEF RunType, Closes
<1>3. ClientInv'
  BY FreshClient DEF Closes
<1> QED
  BY <1>2, <1>3

LEMMA MergeType ==
    ASSUME RunType, NEW row \in BondRow, NEW status \in {"active", "delisted"},
           NEW coupon \in Coupons
    PROVE  Merge(row, status, coupon) \in BondRow
<1>1. run.number \in RunNumbers
  BY DEF RunType, Run
<1>2. row.coupon \in Coupons
  BY DEF BondRow, NoBond, Coupons
<1> QED
  BY <1>1, <1>2 DEF Merge, BondRow

-----------------------------------------------------------------------------
(* The history of a bond is an interval of days, so its last day exists    *)
(* and what is asked for next starts right after it.                       *)

HistoryIsInterval ==
    \A b \in Bonds : history[b] = {} \/ \E d, e \in Days : d <= e /\ history[b] = d .. e

LEMMA LastOfInterval ==
    ASSUME NEW d \in Int, NEW e \in Int, d <= e
    PROVE  Last(d .. e) = e
<1>1. \A x \in d .. e : x <= e
  OBVIOUS
<1>2. \A x \in d .. e : (\A y \in d .. e : y <= x) => x = e
  OBVIOUS
<1>3. e \in d .. e
  OBVIOUS
<1> QED
  BY <1>1, <1>2, <1>3 DEF Last

LEMMA SinceFollows ==
    ASSUME TypeOK, HistoryIsInterval, NEW b \in Bonds
    PROVE  /\ Since(b) \in Nat \ {0}
           /\ \A d, e \in Days : d <= e /\ history[b] = d .. e => Since(b) = e + 1
<1>1. run.asof \in Days /\ BackfillDays \in Nat
  BY DEF TypeOK, Run
<1>2. CASE history[b] = {}
  <2>1. Since(b) \in Nat \ {0}
    BY <1>1, <1>2 DEF Since, Days
  <2>2. \A d, e \in Days : d <= e => d .. e # {}
    BY DEF Days
  <2> QED
    BY <1>2, <2>1, <2>2
<1>3. CASE history[b] # {}
  <2>1. \A d, e \in Days : d <= e /\ history[b] = d .. e => Since(b) = e + 1
    BY <1>3, LastOfInterval DEF Since, Days
  <2> QED
    BY <1>3, <2>1 DEF HistoryIsInterval, Days
<1> QED
  BY <1>2, <1>3

(* What is stored extends the interval.                                    *)
LEMMA IntervalGrows ==
    ASSUME TypeOK, HistoryIsInterval, NEW b \in Bonds,
           NEW latest \in (Since(b) - 1) .. run.asof,
           history' = [history EXCEPT ![b] = @ \cup Since(b) .. latest]
    PROVE  history' \in [Bonds -> SUBSET Days] /\ HistoryIsInterval'
<1> DEFINE s == Since(b)
           h == history[b] \cup s .. latest
<1>1. run.asof \in Days /\ s \in Nat \ {0} /\ latest \in Int
  BY SinceFollows DEF TypeOK, Run, Days
<1>2. s .. latest \in SUBSET Days
  BY <1>1 DEF Days
<1>3. h = {} \/ \E d, e \in Days : d <= e /\ h = d .. e
  <2>1. CASE history[b] = {}
    <3>1. h = s .. latest
      BY <2>1
    <3>2. CASE s <= latest
      BY <1>1, <1>2, <3>1, <3>2 DEF Days
    <3>3. CASE ~ (s <= latest)
      BY <1>1, <3>1, <3>3
    <3> QED
      BY <3>2, <3>3
  <2>2. CASE \E d, e \in Days : d <= e /\ history[b] = d .. e
    <3>1. PICK d \in Days, e \in Days : d <= e /\ history[b] = d .. e
      BY <2>2
    <3>2. s = e + 1
      BY <3>1, SinceFollows
    <3>3. latest \in e .. run.asof
      <4>1. e \in Int /\ run.asof \in Int
        BY <1>1 DEF Days
      <4>2. (Since(b) - 1) = e
        BY <3>2, <4>1
      <4> QED
        BY <4>2
    <3>4. h = d .. latest /\ latest \in Days /\ d <= latest
      BY <1>1, <3>1, <3>2, <3>3 DEF Days
    <3> QED
      BY <3>1, <3>4
  <2> QED
    BY <2>1, <2>2 DEF HistoryIsInterval
<1>4. history \in [Bonds -> SUBSET Days] /\ history[b] \in SUBSET Days
  BY DEF TypeOK
<1>5. history' = [history EXCEPT ![b] = h]
  OBVIOUS
<1>6. history' \in [Bonds -> SUBSET Days]
  BY <1>2, <1>4, <1>5
<1>7. HistoryIsInterval'
  <2> SUFFICES ASSUME NEW x \in Bonds
               PROVE  history'[x] = {} \/ \E d, e \in Days : d <= e /\ history'[x] = d .. e
    BY DEF HistoryIsInterval, Days
  <2>1. CASE x = b
    <3>1. history'[x] = h
      BY <1>4, <1>5, <2>1
    <3> HIDE DEF h
    <3> QED
      BY <1>3, <3>1
  <2>2. CASE x # b
    BY <1>4, <1>5, <2>2 DEF HistoryIsInterval
  <2> QED
    BY <2>1, <2>2
<1> QED
  BY <1>6, <1>7

LEMMA IntervalHasNoHoles ==
    ASSUME HistoryIsInterval
    PROVE  HistoryHasNoHoles
<1> SUFFICES ASSUME NEW b \in Bonds, NEW d \in history[b], NEW e \in history[b]
             PROVE  d .. e \subseteq history[b]
  BY DEF HistoryHasNoHoles
<1>1. PICK m \in Days, n \in Days : m <= n /\ history[b] = m .. n
  BY DEF HistoryIsInterval
<1> QED
  BY <1>1 DEF Days

-----------------------------------------------------------------------------
(* The inductive invariant: why nothing is delisted that is on sale, and   *)
(* what a run has established when it is recorded.                         *)

\* A call that ended with NotFoundError is about a bond that is gone.
MissingIsGone == \A b \in Bonds : call[b].result = "missing" => b \notin onSale

\* What a listing has collected is in the map, so no detail is looked up in
\* vain; and no bond is touched before the listings are over.
ListedIsMapped ==
    /\ \A c \in Currencies : run.page[c] \subseteq run.idMap
    /\ run.phase = "details" => run.ids \subseteq run.idMap
    /\ run.phase = "listing" => run.task = AllTodo

FullRun == run.phase \notin {"idle", "history"} => run.kind = "full"

RefreshedOrFailed ==
    /\ run.phase = "details" =>
         \A b \in run.ids : run.task[b] = "done" =>
            b \in run.failed \/ bonds[b].fetched = run.number
    /\ run.phase \in {"history", "enrich", "score", "record"} /\ run.kind = "full" =>
         \A b \in run.ids : b \in run.failed \/ bonds[b].fetched = run.number

ScoredInRecord ==
    run.phase = "record" =>
        \A b \in Bonds : bonds[b] # NoBond => scored[b] = bonds[b].coupon

RunInv == ListedIsMapped /\ FullRun /\ RefreshedOrFailed /\ ScoredInRecord

IInv ==
    /\ TypeOK
    /\ BreakerTracksFailures /\ Probing
    /\ MissingIsGone /\ DelistedOnlyWhenGone
    /\ HistoryIsInterval
    /\ RunInv

LEMMA InitInv == Init => IInv
<1> SUFFICES ASSUME Init PROVE IInv
  OBVIOUS
<1>1. ClientInv
  <2>1. Untripped \in Breaker /\ NoCall \in Call
    BY DEF Untripped, Breaker, NoCall, Call
  <2> QED
    BY <2>1 DEF Init, ClientInv, ClientTypeOK, BreakerTracksFailures, Probing, Untripped
<1>2. WorldType
  BY DEF Init, WorldType, Days
<1>3. TablesType
  BY DEF Init, TablesType, BondRow
<1>4. 0 \in RunNumbers
  BY DEF RunNumbers
<1>5. RunType
  BY <1>2, <1>4, NoRunType DEF Init, RunType
<1>6. MissingIsGone
  BY DEF Init, MissingIsGone, NoCall
<1>7. DelistedOnlyWhenGone
  BY DEF Init, DelistedOnlyWhenGone, NoBond
<1>8. HistoryIsInterval
  BY DEF Init, HistoryIsInterval
<1>9. RunInv
  BY DEF Init, RunInv, ListedIsMapped, FullRun, RefreshedOrFailed, ScoredInRecord,
         NoRun, NewRun
<1> QED
  BY <1>1, <1>2, <1>3, <1>5, <1>6, <1>7, <1>8, <1>9, TypeParts DEF IInv, ClientInv

-----------------------------------------------------------------------------
(* Steps that leave the tables and the source alone.                       *)

LEMMA TablesKept ==
    ASSUME IInv, UNCHANGED <<onSale, today, tables>>,
           ClientInv', RunType', MissingIsGone', RunInv'
    PROVE  IInv'
<1>1. WorldType' /\ TablesType'
  BY TypeParts DEF IInv, WorldType, TablesType, tables
<1>2. TypeOK'
  BY <1>1 DEF ClientInv, TypeOK, WorldType, TablesType, RunType
<1>3. DelistedOnlyWhenGone' /\ HistoryIsInterval'
  BY DEF IInv, DelistedOnlyWhenGone, HistoryIsInterval, tables
<1> QED
  BY <1>2, <1>3 DEF IInv, ClientInv

LEMMA RunKept ==
    ASSUME IInv, UNCHANGED <<tables, run>>
    PROVE  RunInv' /\ RunType'
BY TypeParts DEF IInv, RunInv, RunType, ListedIsMapped, FullRun, RefreshedOrFailed,
                 ScoredInRecord, tables

LEMMA ClientKeeps ==
    ASSUME IInv, NEW c \in Calls, ClientStep(c)
    PROVE  IInv'
<1>1. ClientInv /\ call \in [Calls -> Call]
  BY DEF IInv, ClientInv, TypeOK, ClientTypeOK
<1>2. CASE Enter(c)
  <2>1. ClientInv'
    BY <1>1, <1>2, EnterKeeps
  <2>2. MissingIsGone'
    BY <1>1, <1>2 DEF IInv, MissingIsGone, Enter, Ended, ClientStep
  <2> QED
    BY <2>1, <2>2, RunKept, TablesKept DEF ClientStep
<1>3. CASE Unanswered(c)
  <2>1. ClientInv'
    BY <1>1, <1>3, UnansweredKeeps
  <2>2. MissingIsGone'
    <3>1. call[c] \in Call /\ call[c].pc = "sent"
      BY <1>1, <1>3 DEF Unanswered
    <3>2. call'[c].result # "missing"
      BY <1>1, <1>3, <3>1 DEF Unanswered, Ended, Call
    <3>3. \A d \in Calls : d # c => call'[d] = call[d]
      BY <1>1, <1>3 DEF Unanswered
    <3> QED
      BY <3>2, <3>3 DEF IInv, MissingIsGone, ClientStep
  <2> QED
    BY <2>1, <2>2, RunKept, TablesKept DEF ClientStep
<1>4. CASE \E result \in {"ok", "fatal"} : Answered(c, result)
  <2>1. ClientInv'
    BY <1>1, <1>4, AnsweredKeeps DEF Results
  <2>2. MissingIsGone'
    BY <1>1, <1>4 DEF IInv, MissingIsGone, Answered, Ended, ClientStep
  <2> QED
    BY <2>1, <2>2, RunKept, TablesKept DEF ClientStep
<1>5. CASE c \in Bonds \ onSale /\ Answered(c, "missing")
  <2>1. ClientInv'
    BY <1>1, <1>5, AnsweredKeeps DEF Results
  <2>2. MissingIsGone'
    BY <1>1, <1>5 DEF IInv, MissingIsGone, Answered, Ended, ClientStep
  <2> QED
    BY <2>1, <2>2, RunKept, TablesKept DEF ClientStep
<1> QED
  BY <1>2, <1>3, <1>4, <1>5 DEF ClientStep

LEMMA CoolDownInv ==
    ASSUME IInv, CoolDown, UNCHANGED <<onSale, today, tables, run>>
    PROVE  IInv'
<1>1. ClientInv'
  BY CoolDownKeeps DEF IInv, ClientInv, TypeOK
<1>2. MissingIsGone'
  BY DEF IInv, MissingIsGone, CoolDown
<1> QED
  BY <1>1, <1>2, RunKept, TablesKept

(* A run starts.                                                           *)
LEMMA StartKeeps ==
    ASSUME IInv, StartFull \/ StartHistory
    PROVE  IInv'
<1>1. call' \in [Calls -> {NoCall, Placed}] /\ breaker' = Untripped
  BY DEF StartFull, StartHistory
<1>2. ClientInv'
  BY <1>1, FreshClient
<1>3. MissingIsGone'
  BY <1>1 DEF MissingIsGone, NoCall, Placed
<1>4. WorldType /\ run.number + 1 \in RunNumbers
  BY TypeParts DEF IInv, RunType, Run, RunNumbers, StartFull, StartHistory
<1>5. RunType'
  <2>1. CASE StartFull
    BY <1>4, <2>1, NewRunType DEF StartFull, RunType, Phases
  <2>2. CASE StartHistory
    BY <1>4, <2>2, NewRunType DEF StartHistory, RunType, Phases
  <2> QED
    BY <2>1, <2>2
<1>6. RunInv'
  BY DEF StartFull, StartHistory, NewRun, RunInv, ListedIsMapped, FullRun,
         RefreshedOrFailed, ScoredInRecord
<1> QED
  BY <1>2, <1>3, <1>5, <1>6, TablesKept DEF StartFull, StartHistory

(* A run ends: its client and its locals are gone.                         *)
LEMMA ClosesKeeps ==
    ASSUME IInv, Closes
    PROVE  RunType' /\ ClientInv' /\ MissingIsGone' /\ RunInv'
<1>1. RunType' /\ ClientInv'
  BY TypeParts, ClosesType DEF IInv
<1>2. MissingIsGone'
  BY DEF Closes, MissingIsGone, NoCall
<1>3. RunInv'
  BY DEF Closes, NoRun, NewRun, RunInv, ListedIsMapped, FullRun, RefreshedOrFailed,
         ScoredInRecord
<1> QED
  BY <1>1, <1>2, <1>3

LEMMA AbortKeeps == IInv /\ Abort => IInv'
BY ClosesKeeps, TablesKept DEF Abort

-----------------------------------------------------------------------------
(* Listing.                                                                *)

LEMMA PlacesCall ==
    ASSUME IInv, UNCHANGED <<breaker, onSale>>, NEW c \in Calls, NEW d \in {NoCall, Placed},
           call' = [call EXCEPT ![c] = d]
    PROVE  ClientInv' /\ MissingIsGone'
<1>1. ClientInv /\ call \in [Calls -> Call]
  BY DEF IInv, ClientInv, TypeOK, ClientTypeOK
<1>2. ClientInv'
  BY <1>1, CallsOnly
<1>3. d.result = "none"
  BY DEF NoCall, Placed
<1>4. MissingIsGone'
  BY <1>1, <1>3 DEF IInv, MissingIsGone
<1> QED
  BY <1>2, <1>4

LEMMA ListPageKeeps ==
    ASSUME IInv, NEW c \in Currencies, ListPage(c)
    PROVE  IInv'
<1>1. RunType /\ run \in Run
  BY TypeParts DEF IInv, RunType
<1>2. PICK found \in SUBSET (Selling(c) \ run.page[c]), last \in BOOLEAN :
        /\ run' = [run EXCEPT !.idMap = @ \cup found, !.page[c] = @ \cup found,
                              !.listing[c] = IF last THEN "ok" ELSE @]
        /\ call' = [call EXCEPT ![c] = IF last THEN NoCall ELSE Placed]
  BY DEF ListPage
<1>3. found \in SUBSET Bonds
  BY DEF Selling, IInv, TypeOK
<1>4. RunType'
  BY <1>1, <1>2, <1>3 DEF RunType, Run
<1>5. /\ run'.phase = "listing" /\ run'.kind = run.kind
      /\ run'.idMap = run.idMap \cup found /\ run'.task = run.task
      /\ run'.page = [run.page EXCEPT ![c] = @ \cup found]
  BY <1>1, <1>2 DEF Run, ListPage
<1>6. run.page \in [Currencies -> SUBSET Bonds]
  BY <1>1 DEF Run
<1>7. RunInv'
  BY <1>5, <1>6 DEF IInv, RunInv, ListedIsMapped, FullRun, RefreshedOrFailed,
                    ScoredInRecord, ListPage
<1>8. ClientInv' /\ MissingIsGone'
  BY <1>2, PlacesCall DEF ListPage
<1> QED
  BY <1>4, <1>7, <1>8, TablesKept DEF ListPage

LEMMA ListFailsKeeps ==
    ASSUME IInv, NEW c \in Currencies, ListFails(c)
    PROVE  IInv'
<1>1. run \in Run
  BY DEF IInv, TypeOK
<1>2. RunType'
  BY <1>1 DEF ListFails, RunType, Run
<1>3. /\ run'.phase = "listing" /\ run'.kind = run.kind /\ run'.idMap = run.idMap
      /\ run'.page = run.page /\ run'.task = run.task
  BY <1>1 DEF ListFails, Run
<1>4. RunInv'
  BY <1>3 DEF IInv, RunInv, ListedIsMapped, FullRun, RefreshedOrFailed, ScoredInRecord,
              ListFails
<1>5. ClientInv' /\ MissingIsGone'
  BY PlacesCall DEF ListFails
<1> QED
  BY <1>2, <1>4, <1>5, TablesKept DEF ListFails

LEMMA ListingDoneKeeps ==
    ASSUME IInv, ListingDone
    PROVE  IInv'
<1> DEFINE ids == UNION {run.page[c] : c \in Listed(run)}
<1>1. run \in Run /\ run.page \in [Currencies -> SUBSET Bonds]
  BY DEF IInv, TypeOK, Run
<1>2. ids \subseteq run.idMap /\ ids \in SUBSET Bonds
  BY <1>1 DEF IInv, RunInv, ListedIsMapped, Listed
<1>3. RunType'
  BY <1>1, <1>2 DEF ListingDone, RunType, Run, Phases
<1>4. /\ run'.phase = "details" /\ run'.ids = ids /\ run'.kind = run.kind
      /\ run'.idMap = run.idMap /\ run'.page = [c \in Currencies |-> {}]
      /\ run'.task = AllTodo
  BY <1>1 DEF ListingDone, Run, IInv, RunInv, ListedIsMapped
<1>5. \A b \in ids : AllTodo[b] # "done"
  BY <1>2 DEF AllTodo
<1>6. RunInv'
  BY <1>2, <1>4, <1>5 DEF IInv, RunInv, ListedIsMapped, FullRun, RefreshedOrFailed,
                          ScoredInRecord, ListingDone
<1>7. ClientInv' /\ MissingIsGone'
  BY DEF ListingDone, clientVars, IInv, ClientInv, ClientTypeOK, TypeOK,
         BreakerTracksFailures, Probing, MissingIsGone
<1> QED
  BY <1>3, <1>6, <1>7, TablesKept DEF ListingDone

-----------------------------------------------------------------------------
(* The coroutines per bond.                                                *)

LEMMA CallingKeeps ==
    ASSUME IInv, NEW b \in Bonds, run.phase \in {"details", "history"}, Calling(b)
    PROVE  IInv'
<1>1. run \in Run /\ run.task \in [Bonds -> {"todo", "calling", "done"}]
  BY DEF IInv, TypeOK, Run
<1>2. RunType'
  BY <1>1 DEF Calling, RunType, Run
<1>3. /\ run'.phase = run.phase /\ run'.kind = run.kind /\ run'.idMap = run.idMap
      /\ run'.page = run.page /\ run'.ids = run.ids /\ run'.failed = run.failed
      /\ run'.number = run.number /\ run'.task = [run.task EXCEPT ![b] = "calling"]
  BY <1>1 DEF Calling, Run
<1>4. bonds' = bonds
  BY DEF Calling, tables
<1>5. run.ids \subseteq Bonds
  BY <1>1 DEF Run
<1>6. RunInv'
  BY <1>1, <1>3, <1>4, <1>5 DEF IInv, RunInv, ListedIsMapped, FullRun,
                                RefreshedOrFailed, ScoredInRecord
<1>7. ClientInv' /\ MissingIsGone'
  BY PlacesCall DEF Calling
<1> QED
  BY <1>2, <1>6, <1>7, TablesKept DEF Calling

(* A coroutine that returns: what it has written keeps the invariant if it *)
(* delists only a bond that is gone, keeps the history an interval, and    *)
(* either refreshed the bond or says that it failed.                       *)
LEMMA TaskEndsKeeps ==
    ASSUME IInv, NEW b \in Bonds, NEW failed \in SUBSET {b}, TaskEnds(b, failed),
           run.phase \in {"details", "history"},
           NEW row \in BondRow, bonds' = [bonds EXCEPT ![b] = row],
           row.status = "delisted" => b \notin onSale,
           run.phase = "details" => b \in failed \/ row.fetched = run.number,
           run.phase = "history" => row = bonds[b],
           history' \in [Bonds -> SUBSET Days], HistoryIsInterval'
    PROVE  IInv'
<1>1. /\ run \in Run /\ run.task \in [Bonds -> {"todo", "calling", "done"}]
      /\ run.ids \subseteq Bonds /\ run.failed \in SUBSET Bonds
      /\ bonds \in [Bonds -> BondRow]
  BY DEF IInv, TypeOK, Run
<1>2. RunType'
  BY <1>1 DEF TaskEnds, RunType, Run
<1>3. /\ run'.phase = run.phase /\ run'.kind = run.kind /\ run'.idMap = run.idMap
      /\ run'.page = run.page /\ run'.ids = run.ids
      /\ run'.failed = run.failed \cup failed
      /\ run'.number = run.number /\ run'.task = [run.task EXCEPT ![b] = "done"]
  BY <1>1 DEF TaskEnds, Run
<1>4. ClientInv' /\ MissingIsGone'
  BY PlacesCall DEF TaskEnds
<1>5. WorldType' /\ TablesType'
  BY <1>1, TypeParts DEF IInv, WorldType, TablesType, TaskEnds
<1>6. TypeOK'
  BY <1>2, <1>4, <1>5 DEF ClientInv, TypeOK, WorldType, TablesType, RunType
<1>7. DelistedOnlyWhenGone'
  BY <1>1 DEF IInv, DelistedOnlyWhenGone, TaskEnds
<1>8. ListedIsMapped' /\ FullRun' /\ ScoredInRecord'
  BY <1>3 DEF IInv, RunInv, ListedIsMapped, FullRun, ScoredInRecord
<1>9. RefreshedOrFailed'
  <2>1. CASE run.phase = "details"
    BY <1>1, <1>3, <2>1 DEF IInv, RunInv, RefreshedOrFailed
  <2>2. CASE run.phase = "history"
    <3>1. bonds' = bonds
      BY <1>1, <2>2
    <3> QED
      BY <1>3, <2>2, <3>1 DEF IInv, RunInv, RefreshedOrFailed
  <2> QED
    BY <2>1, <2>2
<1> QED
  BY <1>4, <1>6, <1>7, <1>8, <1>9 DEF IInv, RunInv, ClientInv

LEMMA NumberType == IInv => run.number \in RunNumbers
BY DEF IInv, TypeOK, Run

LEMMA DetailKeeps ==
    ASSUME IInv, NEW b \in Bonds,
           DetailStarts(b) \/ DetailSaved(b) \/ DetailMissing(b) \/ DetailFails(b)
    PROVE  IInv'
<1>1. RunType /\ bonds \in [Bonds -> BondRow] /\ bonds[b] \in BondRow
  BY TypeParts DEF IInv, TablesType
<1>2. ASSUME UNCHANGED history
      PROVE  history' \in [Bonds -> SUBSET Days] /\ HistoryIsInterval'
  BY <1>2 DEF IInv, TypeOK, HistoryIsInterval
<1>3. CASE DetailStarts(b)
  <2>1. b \in run.idMap
    BY <1>3 DEF DetailStarts, TaskStarts, IInv, RunInv, ListedIsMapped
  <2> QED
    BY <1>3, <2>1, CallingKeeps DEF DetailStarts, TaskStarts
<1>4. CASE DetailSaved(b)
  <2>1. PICK coupon \in Coupons :
          bonds' = [bonds EXCEPT ![b] = Merge(bonds[b], "active", coupon)]
    BY <1>4 DEF DetailSaved
  <2> DEFINE row == Merge(bonds[b], "active", coupon)
  <2>2. row \in BondRow
    BY <1>1, MergeType
  <2>3. row.status = "active" /\ row.fetched = run.number
    BY DEF Merge
  <2>4. TaskEnds(b, {}) /\ run.phase = "details" /\ UNCHANGED history
    BY <1>4 DEF DetailSaved, TaskResult
  <2>5. bonds' = [bonds EXCEPT ![b] = row]
    BY <2>1
  <2> HIDE DEF row
  <2> QED
    BY <1>2, <2>2, <2>3, <2>4, <2>5, TaskEndsKeeps
<1>5. CASE DetailMissing(b)
  <2> DEFINE row == Merge(bonds[b], "delisted", NoCoupon)
  <2>1. bonds' = [bonds EXCEPT ![b] = row]
    BY <1>5 DEF DetailMissing
  <2>2. row \in BondRow
    BY <1>1, MergeType DEF Coupons
  <2>3. row.fetched = run.number
    BY DEF Merge
  <2>4. TaskEnds(b, {}) /\ run.phase = "details" /\ UNCHANGED history
    BY <1>5 DEF DetailMissing, TaskResult
  <2>5. b \notin onSale
    BY <1>5 DEF DetailMissing, TaskResult, IInv, MissingIsGone
  <2> HIDE DEF row
  <2> QED
    BY <1>2, <2>1, <2>2, <2>3, <2>4, <2>5, TaskEndsKeeps
<1>6. CASE DetailFails(b)
  <2>1. bonds' = [bonds EXCEPT ![b] = bonds[b]] /\ UNCHANGED history
    BY <1>1, <1>6 DEF DetailFails
  <2>2. TaskEnds(b, {b}) /\ run.phase = "details"
    BY <1>6 DEF DetailFails, TaskResult
  <2>3. bonds[b].status = "delisted" => b \notin onSale
    BY DEF IInv, DelistedOnlyWhenGone
  <2> QED
    BY <1>1, <1>2, <2>1, <2>2, <2>3, TaskEndsKeeps
<1> QED
  BY <1>3, <1>4, <1>5, <1>6

LEMMA HistoryKeeps ==
    ASSUME IInv, NEW b \in Bonds,
           HistorySkips(b) \/ HistoryCalls(b) \/ HistorySaved(b) \/ HistoryFails(b)
    PROVE  IInv'
<1>1. CASE HistoryCalls(b)
  BY <1>1, CallingKeeps DEF HistoryCalls, TaskStarts
<1>2. CASE HistorySkips(b) \/ HistorySaved(b) \/ HistoryFails(b)
  <2>1. TaskEnds(b, {}) /\ run.phase = "history" /\ bonds' = bonds
    BY <1>2 DEF HistorySkips, HistorySaved, HistoryFails, TaskStarts, TaskResult
  <2>2. bonds[b] \in BondRow /\ bonds' = [bonds EXCEPT ![b] = bonds[b]]
    BY <2>1 DEF IInv, TypeOK
  <2>3. bonds[b].status = "delisted" => b \notin onSale
    BY DEF IInv, DelistedOnlyWhenGone
  <2>4. history' \in [Bonds -> SUBSET Days] /\ HistoryIsInterval'
    <3>1. CASE HistorySaved(b)
      BY <3>1, IntervalGrows DEF HistorySaved, IInv
    <3>2. CASE HistorySkips(b) \/ HistoryFails(b)
      BY <3>2 DEF HistorySkips, HistoryFails, IInv, TypeOK, HistoryIsInterval
    <3> QED
      BY <1>2, <3>1, <3>2
  <2> QED
    BY <2>1, <2>2, <2>3, <2>4, TaskEndsKeeps
<1> QED
  BY <1>1, <1>2

-----------------------------------------------------------------------------
(* The phases after the details.                                           *)

LEMMA DetailsDoneKeeps ==
    ASSUME IInv, DetailsDone
    PROVE  IInv'
<1>1. run \in Run /\ today \in Days
  BY DEF IInv, TypeOK
<1>2. AllTodo \in [Bonds -> {"todo", "calling", "done"}]
  BY DEF AllTodo
<1>3. RunType'
  BY <1>1, <1>2 DEF DetailsDone, RunType, Run, Phases
<1>4. /\ run'.phase = "history" /\ run'.kind = run.kind /\ run'.idMap = run.idMap
      /\ run'.page = run.page /\ run'.ids = run.ids /\ run'.failed = run.failed
      /\ run'.number = run.number
  BY <1>1 DEF DetailsDone, Run
<1>5. RunInv'
  BY <1>4 DEF DetailsDone, AllDone, tables, IInv, RunInv, ListedIsMapped, FullRun,
              RefreshedOrFailed, ScoredInRecord
<1>6. ClientInv' /\ MissingIsGone'
  BY DEF DetailsDone, clientVars, IInv, ClientInv, ClientTypeOK, TypeOK,
         BreakerTracksFailures, Probing, MissingIsGone
<1> QED
  BY <1>3, <1>5, <1>6, TablesKept DEF DetailsDone

LEMMA HistoryDoneKeeps ==
    ASSUME IInv, HistoryDone
    PROVE  IInv'
<1>1. CASE run.kind = "full"
  <2>1. run \in Run
    BY DEF IInv, TypeOK
  <2>2. RunType'
    BY <1>1, <2>1 DEF HistoryDone, RunType, Run, Phases
  <2>3. /\ run'.phase = "enrich" /\ run'.kind = run.kind /\ run'.idMap = run.idMap
        /\ run'.page = run.page /\ run'.ids = run.ids /\ run'.failed = run.failed
        /\ run'.number = run.number
    BY <1>1, <2>1 DEF HistoryDone, Run
  <2>4. RunInv'
    BY <1>1, <2>3 DEF HistoryDone, tables, IInv, RunInv, ListedIsMapped, FullRun,
                      RefreshedOrFailed, ScoredInRecord
  <2>5. ClientInv' /\ MissingIsGone'
    BY <1>1 DEF HistoryDone, clientVars, IInv, ClientInv, ClientTypeOK, TypeOK,
           BreakerTracksFailures, Probing, MissingIsGone
  <2> QED
    BY <2>2, <2>4, <2>5, TablesKept DEF HistoryDone
<1>2. CASE run.kind # "full"
  BY <1>2, ClosesKeeps, TablesKept DEF HistoryDone
<1> QED
  BY <1>1, <1>2

(* Steps that rewrite a table but not the client.                          *)
LEMMA ClientKept ==
    ASSUME IInv, UNCHANGED <<clientVars, onSale>>
    PROVE  ClientInv' /\ MissingIsGone'
BY DEF clientVars, IInv, ClientInv, ClientTypeOK, TypeOK, BreakerTracksFailures, Probing,
       MissingIsGone

LEMMA EnrichKeeps ==
    ASSUME IInv, Enrich
    PROVE  IInv'
<1>1. run \in Run /\ bonds \in [Bonds -> BondRow]
  BY DEF IInv, TypeOK
<1>2. RunType'
  BY <1>1 DEF Enrich, RunType, Run, Phases
<1>3. /\ run'.phase = "score" /\ run'.kind = run.kind /\ run'.idMap = run.idMap
      /\ run'.page = run.page /\ run'.ids = run.ids /\ run'.failed = run.failed
      /\ run'.number = run.number
  BY <1>1 DEF Enrich, Run
<1>4. /\ bonds' \in [Bonds -> BondRow]
      /\ \A b \in Bonds : /\ bonds'[b].status = bonds[b].status
                          /\ bonds'[b].fetched = bonds[b].fetched
  <2>1. PICK known \in SUBSET Bonds :
          bonds' = [b \in Bonds |->
            IF b \in known /\ bonds[b] # NoBond /\ bonds[b].coupon = NoCoupon
            THEN [bonds[b] EXCEPT !.coupon = "known"] ELSE bonds[b]]
    BY DEF Enrich
  <2>2. \A row \in BondRow : row # NoBond =>
          /\ [row EXCEPT !.coupon = "known"] \in BondRow
          /\ [row EXCEPT !.coupon = "known"].status = row.status
          /\ [row EXCEPT !.coupon = "known"].fetched = row.fetched
    BY DEF BondRow, Coupons
  <2> QED
    BY <1>1, <2>1, <2>2
<1>5. ClientInv' /\ MissingIsGone'
  BY ClientKept DEF Enrich
<1>6. WorldType' /\ TablesType'
  BY <1>4, TypeParts DEF IInv, WorldType, TablesType, Enrich
<1>7. TypeOK'
  BY <1>2, <1>5, <1>6 DEF ClientInv, TypeOK, WorldType, TablesType, RunType
<1>8. DelistedOnlyWhenGone' /\ HistoryIsInterval'
  BY <1>4 DEF IInv, DelistedOnlyWhenGone, HistoryIsInterval, Enrich
<1>9. run.ids \subseteq Bonds
  BY <1>1 DEF Run
<1>10. RunInv'
  BY <1>3, <1>4, <1>9 DEF Enrich, IInv, RunInv, ListedIsMapped, FullRun,
                          RefreshedOrFailed, ScoredInRecord
<1> QED
  BY <1>5, <1>7, <1>8, <1>10 DEF IInv, ClientInv

LEMMA RecomputeKeeps ==
    ASSUME IInv, RecomputeAll
    PROVE  IInv'
<1>1. run \in Run /\ bonds \in [Bonds -> BondRow]
  BY DEF IInv, TypeOK
<1>2. RunType'
  BY <1>1 DEF RecomputeAll, RunType, Run, Phases
<1>3. /\ run'.phase = "record" /\ run'.kind = run.kind /\ run'.idMap = run.idMap
      /\ run'.page = run.page /\ run'.ids = run.ids /\ run'.failed = run.failed
      /\ run'.number = run.number
  BY <1>1 DEF RecomputeAll, Run
<1>4. scored' \in [Bonds -> {NotScored} \cup Coupons]
  <2>1. \A row \in BondRow : row.coupon \in Coupons
    BY DEF BondRow, NoBond, Coupons
  <2> QED
    BY <1>1, <2>1 DEF IInv, TypeOK, RecomputeAll
<1>5. ClientInv' /\ MissingIsGone'
  BY ClientKept DEF RecomputeAll
<1>6. WorldType' /\ TablesType'
  BY <1>4, TypeParts DEF IInv, WorldType, TablesType, RecomputeAll
<1>7. TypeOK'
  BY <1>2, <1>5, <1>6 DEF ClientInv, TypeOK, WorldType, TablesType, RunType
<1>8. DelistedOnlyWhenGone' /\ HistoryIsInterval'
  BY DEF IInv, DelistedOnlyWhenGone, HistoryIsInterval, RecomputeAll
<1>9. RunInv'
  BY <1>3 DEF RecomputeAll, IInv, RunInv, ListedIsMapped, FullRun,
              RefreshedOrFailed, ScoredInRecord
<1> QED
  BY <1>5, <1>7, <1>8, <1>9 DEF IInv, ClientInv

LEMMA RecordKeeps ==
    ASSUME IInv, Record
    PROVE  IInv'
<1>1. RunType' /\ ClientInv' /\ MissingIsGone' /\ RunInv'
  BY ClosesKeeps DEF Record
<1>2. lineage' \in [number: RunNumbers, quality: {"ok", "warning"}]
  BY NumberType DEF Record, Quality
<1>3. WorldType' /\ TablesType'
  BY <1>2, TypeParts DEF IInv, WorldType, TablesType, Record
<1>4. TypeOK'
  BY <1>1, <1>3 DEF ClientInv, TypeOK, WorldType, TablesType, RunType
<1>5. DelistedOnlyWhenGone' /\ HistoryIsInterval'
  BY DEF IInv, DelistedOnlyWhenGone, HistoryIsInterval, Record
<1> QED
  BY <1>1, <1>4, <1>5 DEF IInv, ClientInv

(* The world.                                                              *)
LEMMA WorldKeeps ==
    ASSUME IInv, DaysEnd \/ \E b \in Bonds : LeavesSale(b)
    PROVE  IInv'
<1>1. UNCHANGED <<clientVars, tables, run>> /\ onSale' \subseteq onSale
  BY DEF DaysEnd, LeavesSale
<1>2. WorldType'
  BY DEF DaysEnd, LeavesSale, IInv, TypeOK, WorldType, Days
<1>3. TypeOK'
  BY <1>1, <1>2 DEF clientVars, tables, IInv, TypeOK, ClientTypeOK, WorldType
<1>4. RunInv'
  BY <1>1, RunKept
<1> QED
  BY <1>1, <1>3, <1>4 DEF clientVars, tables, IInv, BreakerTracksFailures, Probing,
     MissingIsGone, DelistedOnlyWhenGone, HistoryIsInterval

-----------------------------------------------------------------------------
(* Every step of the pipeline keeps the invariant.                         *)
LEMMA StepInv == IInv /\ [Next]_vars => IInv'
<1> SUFFICES ASSUME IInv, [Next]_vars PROVE IInv'
  OBVIOUS
<1>1. CASE UNCHANGED vars
  <2>1. UNCHANGED <<breaker, call, onSale, today, bonds, history, scored, lineage, run>>
    BY <1>1 DEF vars, clientVars, tables
  <2> QED
    BY <2>1 DEF IInv, TypeOK, ClientTypeOK, BreakerTracksFailures, Probing,
       MissingIsGone, DelistedOnlyWhenGone, HistoryIsInterval, RunInv, ListedIsMapped,
       FullRun, RefreshedOrFailed, ScoredInRecord
<1>2. CASE \E c \in Calls : ClientStep(c)
  BY <1>2, ClientKeeps
<1>3. CASE \E c \in Currencies : ListPage(c) \/ ListFails(c)
  BY <1>3, ListPageKeeps, ListFailsKeeps
<1>4. CASE \E b \in Bonds : BondStep(b)
  BY <1>4, DetailKeeps, HistoryKeeps DEF BondStep
<1>5. CASE ListingDone \/ DetailsDone \/ HistoryDone
  BY <1>5, ListingDoneKeeps, DetailsDoneKeeps, HistoryDoneKeeps
<1>6. CASE Enrich \/ RecomputeAll \/ Record
  BY <1>6, EnrichKeeps, RecomputeKeeps, RecordKeeps
<1>7. CASE StartFull \/ StartHistory \/ Abort
  BY <1>7, StartKeeps, AbortKeeps
<1>8. CASE DaysEnd \/ \E b \in Bonds : LeavesSale(b)
  BY <1>8, WorldKeeps
<1>9. CASE CoolDown /\ UNCHANGED <<onSale, today, tables, run>>
  BY <1>9, CoolDownInv
<1> QED
  BY <1>1, <1>2, <1>3, <1>4, <1>5, <1>6, <1>7, <1>8, <1>9 DEF Next, RunStep

THEOREM Invariance == Spec => []IInv
<1>1. Init => IInv
  BY InitInv
<1>2. IInv /\ [Next]_vars => IInv'
  BY StepInv
<1> QED
  BY <1>1, <1>2, PTL DEF Spec

-----------------------------------------------------------------------------
(* What follows from the invariant in every state.                         *)

(* Every reachable state of the pipeline and its client is well typed.     *)
THEOREM TypeCorrect == Spec => []TypeOK
<1>1. IInv => TypeOK
  BY DEF IInv
<1> QED
  BY <1>1, Invariance, PTL

(* No failure delists a bond that the source still offers.                 *)
THEOREM DelistsOnlyGone == Spec => []DelistedOnlyWhenGone
<1>1. IInv => DelistedOnlyWhenGone
  BY DEF IInv
<1> QED
  BY <1>1, Invariance, PTL

(* The breaker is tripped exactly when the threshold has been reached.     *)
THEOREM TracksFailures == Spec => []BreakerTracksFailures
<1>1. IInv => BreakerTracksFailures
  BY DEF IInv
<1> QED
  BY <1>1, Invariance, PTL

(* However runs fail, stop and resume, a history has no holes.             *)
THEOREM HistoryWhole == Spec => []HistoryHasNoHoles
<1>1. IInv => HistoryHasNoHoles
  BY IntervalHasNoHoles DEF IInv
<1> QED
  BY <1>1, Invariance, PTL

-----------------------------------------------------------------------------
(* What follows for every step.                                            *)

(* Nothing is sent to a source that keeps failing before it cooled down.   *)
THEOREM LeavesAlone == Spec => SourceLeftAlone
<1> DEFINE Sends(c) == call[c].pc = "entering" /\ call'[c].pc = "sent"
           Allowed == breaker.failures < FailureThreshold \/ breaker.cooled
<1>1. IInv /\ [Next]_vars => [\A c \in Calls : Sends(c) => Allowed]_clientVars
  <2> SUFFICES ASSUME IInv, [Next]_vars, NEW c \in Calls, Sends(c)
               PROVE  Allowed
    OBVIOUS
  <2>1. call \in [Calls -> Call] /\ breaker \in Breaker
    BY DEF IInv, TypeOK, ClientTypeOK
  <2>2. Enter(c)
    <3>1. \A d \in {NoCall, Placed} : d.pc # "sent"
      BY DEF NoCall, Placed
    <3>2. CASE \E d \in Calls : ClientStep(d)
      BY <2>1, <3>2 DEF ClientStep, Enter, Answered, Unanswered, Ended
    <3>3. CASE ~ \E d \in Calls : ClientStep(d)
      <4>1. CASE UNCHANGED call
        BY <4>1
      <4>2. CASE \E d \in Calls, v \in {NoCall, Placed} : call' = [call EXCEPT ![d] = v]
        BY <2>1, <3>1, <4>2
      <4>3. CASE call' \in [Calls -> {NoCall, Placed}]
        BY <3>1, <4>3
      <4> QED
        BY <3>3, <4>1, <4>2, <4>3
           DEF Next, RunStep, BondStep, vars, clientVars, StartFull, StartHistory, Abort, Closes,
               DaysEnd, LeavesSale, CoolDown, ListPage, ListFails, ListingDone, DetailsDone,
               HistoryDone, Enrich, RecomputeAll, Record, DetailStarts, DetailSaved,
               DetailMissing, DetailFails, HistorySkips, HistoryCalls, HistorySaved,
               HistoryFails, Calling, TaskEnds
    <3> QED
      BY <3>2, <3>3
  <2>3. StateRead(breaker).state # "open"
    BY <2>1, <2>2 DEF Enter, Ended
  <2> QED
    BY <2>1, <2>3 DEF StateRead, Breaker, IInv, BreakerTracksFailures, Probing
<1> QED
  BY <1>1, Invariance, PTL DEF Spec, SourceLeftAlone
(* A lineage row is written by Record alone.                               *)
LEMMA OnlyRecordRecords == [Next]_vars /\ RunRecorded => Record
<1> SUFFICES ASSUME [Next]_vars, RunRecorded, ~ Record PROVE FALSE
  OBVIOUS
<1>1. ~ \E c \in Calls : ClientStep(c)
  BY DEF RunRecorded, ClientStep, tables
<1>2. ~ \E b \in Bonds : BondStep(b)
  <2>1. \A b \in Bonds : ~ Calling(b) /\ \A f : ~ TaskEnds(b, f)
    BY DEF RunRecorded, Calling, TaskEnds, tables
  <2> QED
    BY <2>1 DEF BondStep, DetailStarts, DetailSaved, DetailMissing, DetailFails,
       HistorySkips, HistoryCalls, HistorySaved, HistoryFails
<1>3. ~ (\E c \in Currencies : ListPage(c) \/ ListFails(c))
  BY DEF RunRecorded, ListPage, ListFails, tables
<1> QED
  BY <1>1, <1>2, <1>3 DEF RunRecorded, Next, RunStep, vars, tables, StartFull, StartHistory,
     Abort, DaysEnd, LeavesSale, ListingDone, DetailsDone, HistoryDone, Enrich, RecomputeAll

(* A run that is recorded as ok has refreshed every bond it listed.        *)
THEOREM OkIsRefreshed == Spec => OkMeansRefreshed
<1> DEFINE Good == RunRecorded /\ lineage'.quality = "ok" =>
                     \A b \in run.ids : bonds[b].fetched = run.number
<1>1. IInv /\ [Next]_vars => [Good]_vars
  <2> SUFFICES ASSUME IInv, [Next]_vars, RunRecorded, lineage'.quality = "ok",
                      NEW b \in run.ids
               PROVE  bonds[b].fetched = run.number
    OBVIOUS
  <2>1. Record
    BY OnlyRecordRecords
  <2>2. run.phase = "record" /\ run.failed = {}
    BY <2>1 DEF Record, Quality
  <2> QED
    BY <2>2 DEF IInv, RunInv, FullRun, RefreshedOrFailed
<1> QED
  BY <1>1, Invariance, PTL DEF Spec, OkMeansRefreshed

(* When a run is recorded, the scores are those of the enriched rows.      *)
THEOREM ScoresFollow == Spec => ScoresReflectRows
<1> DEFINE Good == RunRecorded => \A b \in Bonds :
                     bonds[b] # NoBond => scored[b] = bonds[b].coupon
<1>1. IInv /\ [Next]_vars => [Good]_vars
  <2> SUFFICES ASSUME IInv, [Next]_vars, RunRecorded
               PROVE  \A b \in Bonds : bonds[b] # NoBond => scored[b] = bonds[b].coupon
    OBVIOUS
  <2>1. run.phase = "record"
    BY OnlyRecordRecords DEF Record
  <2> QED
    BY <2>1 DEF IInv, RunInv, ScoredInRecord
<1> QED
  BY <1>1, Invariance, PTL DEF Spec, ScoresReflectRows

(* No step of any run forgets a coupon rate.                               *)
LEMMA MergeKeepsCoupon ==
    ASSUME IInv, NEW b \in Bonds, NEW status, NEW coupon \in Coupons,
           bonds' = [bonds EXCEPT ![b] = Merge(@, status, coupon)],
           NEW x \in Bonds, bonds[x].coupon # NoCoupon
    PROVE  bonds'[x].coupon # NoCoupon
<1>1. bonds \in [Bonds -> BondRow]
  BY DEF IInv, TypeOK
<1> QED
  BY <1>1 DEF Merge

THEOREM KeepsCoupons == Spec => KnownCouponKept
<1> DEFINE Kept == \A b \in Bonds :
                     bonds[b].coupon # NoCoupon => bonds'[b].coupon # NoCoupon
<1>1. IInv /\ [Next]_vars => [Kept]_vars
  <2> SUFFICES ASSUME IInv, [Next]_vars, NEW x \in Bonds, bonds[x].coupon # NoCoupon
               PROVE  bonds'[x].coupon # NoCoupon
    OBVIOUS
  <2>1. CASE UNCHANGED bonds
    BY <2>1
  <2>2. CASE \E b \in Bonds : BondStep(b)
    <3>1. PICK b \in Bonds : BondStep(b)
      BY <2>2
    <3>2. CASE DetailSaved(b)
      BY <3>2, MergeKeepsCoupon DEF DetailSaved
    <3>3. CASE DetailStarts(b) \/ DetailMissing(b)
      BY <3>3, MergeKeepsCoupon DEF DetailStarts, DetailMissing, Calling, tables, Coupons
    <3>4. CASE DetailFails(b) \/ HistorySkips(b) \/ HistoryCalls(b) \/ HistorySaved(b)
               \/ HistoryFails(b)
      BY <3>4 DEF DetailFails, HistorySkips, HistoryCalls, HistorySaved, HistoryFails,
                  Calling, tables
    <3> QED
      BY <3>1, <3>2, <3>3, <3>4 DEF BondStep
  <2>3. CASE Enrich
    BY <2>3 DEF Enrich, IInv, TypeOK
  <2> QED
    BY <2>1, <2>2, <2>3 DEF Next, RunStep, vars, tables, ClientStep, StartFull, StartHistory,
       Abort, DaysEnd, LeavesSale, ListPage, ListFails, ListingDone, DetailsDone, HistoryDone,
       RecomputeAll, Record
<1> QED
  BY <1>1, Invariance, PTL DEF Spec, KnownCouponKept
===========================================================================

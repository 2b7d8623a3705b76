------------------------------ MODULE Monitoring ------------------------------
(***************************************************************************)
(* The detectors of changes (monitoring/engine.py) over one session, as    *)
(* the `monitor` command runs them (scraper/commands.py) or run_all, and   *)
(* the alerts they add (notifications/repository.py).                      *)
(*                                                                         *)
(* An alert has a key, and none is added while one with that key is not    *)
(* older than a day.  The key of a change has the day in it, the key of a  *)
(* status has not, and the key of a quality issue has the wording of the   *)
(* issue, with its numbers.                                                *)
(***************************************************************************)
EXTENDS Integers, Sequences, FiniteSets

CONSTANTS
  Papers,         \* bonds
  Pairs,          \* currency pairs and metals
  Monitors,       \* processes that may run the detectors
  Levels,         \* yields, in units of the thresholds
  NoLevel,        \* null
  DayHours,       \* length of a day, which is also the dedup window
  StaleHours,     \* THRESHOLDS["stale_hours"]
  LastHour,       \* bound on the clock
  MaxMonitorRuns, \* bound on the runs
  MaxRefreshes,   \* bound on the scrapes
  MaxDetectorErrors

ASSUME MonitoringAssumption ==
  /\ Levels \subseteq Nat /\ NoLevel \notin Int
  /\ DayHours \in Nat \ {0} /\ StaleHours \in Nat
  /\ LastHour \in Nat /\ MaxMonitorRuns \in Nat /\ MaxRefreshes \in Nat /\ MaxDetectorErrors \in Nat

VARIABLES
  hour,
  paper,        \* the bonds rows: status, yield, fetched_at
  snapshot,     \* bond_history: today's level of each bond and the last before today
  rate,         \* fx_rates and metal_prices: the last two values and the day of the last
  alerts,       \* the committed rows of alerts
  monitor,      \* the runs in progress
  monitorRuns,  \* how many were started
  detectorErrors,
  refreshes,
  published,    \* history: <<key, run>> sent to the partners
  together,     \* history: pairs of runs that overlapped
  undone,       \* history: runs of which nothing was committed
  reported      \* history: [run, key, at] of what a committed run had detected

monitoringVars == <<hour, paper, snapshot, rate, alerts, monitor, monitorRuns,
                    detectorErrors, refreshes, published, together, undone, reported>>

Today == hour \div DayHours
MonitorRests == [pc |-> "idle", number |-> 0, all |-> FALSE, next |-> << >>, todo |-> {},
            found |-> {}, checking |-> {}, added |-> {}, poisoned |-> FALSE]
Detects(m) == monitor[m].pc # "idle"

MonitoringInitWith(refreshesDone, errorsDone) ==
  /\ hour = 0
  /\ paper = [b \in Papers |-> [status |-> "active", level |-> NoLevel, fetched |-> 0]]
  /\ snapshot \in [Papers -> [today : {NoLevel}, before : Levels]]
  /\ rate = [p \in Pairs |-> [was |-> 1, now |-> 2, day |-> 0]]
  /\ alerts = {}
  /\ monitor = [m \in Monitors |-> MonitorRests]
  /\ monitorRuns = 0
  /\ detectorErrors = errorsDone
  /\ refreshes = refreshesDone
  /\ published = {}
  /\ together = {}
  /\ undone = {}
  /\ reported = {}

MonitoringInit == MonitoringInitWith(0, 0)

-----------------------------------------------------------------------------
(* The world: the scraper and the clock, while no run is in progress.      *)

OnlyWorld == UNCHANGED <<alerts, monitor, monitorRuns, detectorErrors,
                         published, together, undone, reported>>

\* A scrape stores the row and today's snapshot.
Refresh(b) ==
  /\ refreshes < MaxRefreshes
  /\ refreshes' = refreshes + 1
  /\ \E v \in Levels \cup {NoLevel} :
       /\ paper' = [paper EXCEPT ![b].level = v, ![b].fetched = hour]
       /\ snapshot' = [snapshot EXCEPT ![b].today = v]
  /\ UNCHANGED <<hour, rate>> /\ OnlyWorld

Delist(b) ==
  /\ paper[b].status = "active"
  /\ UNCHANGED refreshes
  /\ paper' = [paper EXCEPT ![b].status = "delisted"]
  /\ UNCHANGED <<hour, snapshot, rate>> /\ OnlyWorld

\* A later hour; with a new day the snapshots of the last become "before".
HourPasses(n) ==
  /\ UNCHANGED refreshes
  /\ hour + n =< LastHour
  /\ \A m \in Monitors : ~Detects(m)
  /\ hour' = hour + n
  /\ snapshot' = IF (hour + n) \div DayHours = Today THEN snapshot
                 ELSE [b \in Papers |->
                        [today |-> NoLevel,
                         before |-> IF snapshot[b].today = NoLevel THEN snapshot[b].before
                                    ELSE snapshot[b].today]]
  /\ UNCHANGED <<paper, rate>> /\ OnlyWorld

-----------------------------------------------------------------------------
(* What the detectors look for.                                            *)

\* detect_bond_changes.  A status is reported for as long as it
\* lasts; new offers and high scores are reported the same way.
StatusKeys == {<<"status", b, paper[b].status>> : b \in {p \in Papers : paper[p].status # "active"}}

Known(b) == paper[b].level # NoLevel /\ snapshot[b].before # NoLevel

Moved(b) == IF paper[b].level > snapshot[b].before THEN "yield_rise" ELSE "yield_drop"

ChangeKeys ==
  {<<Moved(b), b, Today>> : b \in {p \in Papers : /\ paper[p].status = "active"
                                                  /\ Known(p)
                                                  /\ paper[p].level # snapshot[p].before}}

\* detect_fx_changes and detect_metal_changes; _pct_change of a baseline that
\* is not positive is 0.
RateKeys == {<<"rate", p, rate[p].day>> : p \in {q \in Pairs : rate[q].was > 0 /\ rate[q].now # rate[q].was}}

\* assess_data_quality: its two issues, worded with their numbers.
ActivePapers == {b \in Papers : paper[b].status = "active"}
WithoutYield == {b \in ActivePapers : paper[b].level = NoLevel}
Age == LET latest == CHOOSE t \in {paper[b].fetched : b \in Papers} :
                       \A b \in Papers : paper[b].fetched =< t
       IN hour - latest

EmptyIssue ==
  IF ActivePapers # {} /\ 5 * Cardinality(WithoutYield) >= Cardinality(ActivePapers)
  THEN {<<"empty", Cardinality(WithoutYield), Cardinality(ActivePapers)>>} ELSE {}
StaleIssue == IF Papers # {} /\ Age >= StaleHours THEN {<<"stale", Age>>} ELSE {}

QualityKeys == {<<"quality", issue, Today>> : issue \in EmptyIssue \cup StaleIssue}

KeysOf(detector) ==
  CASE detector = "bonds" -> StatusKeys \cup ChangeKeys
    [] detector = "rates" -> RateKeys
    [] detector = "quality" -> QualityKeys

-----------------------------------------------------------------------------
(* A run.                                                                  *)

World == <<hour, paper, snapshot, rate, refreshes>>
Becomes(m, to) == monitor' = [monitor EXCEPT ![m] = to]

\* cmd_monitor leaves the quality out and stops at the first error; run_all
\* goes on.
StartMonitor(m, all) ==
  /\ ~Detects(m)
  /\ monitorRuns < MaxMonitorRuns
  /\ monitorRuns' = monitorRuns + 1
  /\ Becomes(m, [MonitorRests EXCEPT
       !.pc = "detector", !.number = monitorRuns', !.all = all,
       !.next = IF all THEN <<"bonds", "rates", "quality">> ELSE <<"bonds", "rates">>])
  /\ together' = together \cup {<<monitor[n].number, monitorRuns'>> : n \in {o \in Monitors : Detects(o)}}
  /\ UNCHANGED World /\ UNCHANGED <<alerts, detectorErrors, published, undone, reported>>

RunDetector(m) ==
  LET r == monitor[m]
      keys == KeysOf(Head(r.next))
  IN /\ r.pc = "detector"
     /\ r.next # << >>
     /\ ~r.poisoned
     /\ Becomes(m, [r EXCEPT !.pc = "alerts", !.todo = keys, !.found = @ \cup keys, !.next = Tail(@)])
     /\ UNCHANGED World
     /\ UNCHANGED <<alerts, monitorRuns, detectorErrors, published, together, undone, reported>>

\* A mistake: the calendar day instead of the last 24 hours.
MutRecentToday(key, rows) == \E a \in rows : a.key = key /\ a.at \div DayHours = Today

Recent(key, rows) == \E a \in rows : a.key = key /\ a.at + DayHours >= hour

\* add_alert looks for a recent alert with the key ...
LookUp(m, key) ==
  LET r == monitor[m]
  IN /\ r.pc = "alerts"
     /\ key \in r.todo
     /\ Becomes(m, IF Recent(key, alerts \cup r.added)
                   THEN [r EXCEPT !.todo = @ \ {key}]
                   ELSE [r EXCEPT !.pc = "insert", !.checking = {key}])
     /\ UNCHANGED World
     /\ UNCHANGED <<alerts, monitorRuns, detectorErrors, published, together, undone, reported>>

\* ... and adds one; the event is sent to the partners before the commit.
InsertAlert(m, key) ==
  LET r == monitor[m]
  IN /\ r.pc = "insert"
     /\ key \in r.checking
     /\ Becomes(m, [r EXCEPT !.pc = "alerts", !.todo = @ \ {key}, !.checking = {},
                             !.added = @ \cup {[key |-> key, at |-> hour, run |-> r.number]}])
     /\ published' = published \cup {<<key, r.number>>}
     /\ UNCHANGED World
     /\ UNCHANGED <<alerts, monitorRuns, detectorErrors, together, undone, reported>>

DetectorDone(m) ==
  /\ monitor[m].pc = "alerts"
  /\ monitor[m].todo = {}
  /\ Becomes(m, [monitor[m] EXCEPT !.pc = "detector"])
  /\ UNCHANGED World
  /\ UNCHANGED <<alerts, monitorRuns, detectorErrors, published, together, undone, reported>>

Undo(m) ==
  /\ Becomes(m, MonitorRests)
  /\ undone' = undone \cup {monitor[m].number}

\* A detector raises.  run_all swallows it; after a database error the session
\* refuses everything that follows, and the other detectors fail too.
DetectorFails(m, database) ==
  LET r == monitor[m]
  IN /\ r.pc \in {"alerts", "insert"}
     /\ detectorErrors < MaxDetectorErrors
     /\ detectorErrors' = detectorErrors + 1
     /\ IF r.all
        THEN /\ Becomes(m, [r EXCEPT !.pc = "detector", !.found = @ \ (r.todo \cup r.checking),
                                     !.todo = {}, !.checking = {}, !.poisoned = @ \/ database])
             /\ UNCHANGED undone
        ELSE Undo(m)
     /\ UNCHANGED World /\ UNCHANGED <<alerts, monitorRuns, published, together, reported>>

\* The session commits; a poisoned one has nothing to commit.
EndMonitor(m) ==
  LET r == monitor[m]
  IN /\ r.pc = "detector"
     /\ r.next = << >> \/ r.poisoned
     /\ IF r.poisoned
        THEN Undo(m) /\ UNCHANGED <<alerts, reported>>
        ELSE /\ Becomes(m, MonitorRests)
             /\ alerts' = alerts \cup r.added
             /\ reported' = reported \cup {[run |-> r.number, key |-> k, at |-> hour] : k \in r.found}
             /\ UNCHANGED undone
     /\ UNCHANGED World /\ UNCHANGED <<monitorRuns, detectorErrors, published, together>>

MonitoringNext ==
  \/ \E b \in Papers : Refresh(b) \/ Delist(b)
  \/ \E n \in 1 .. DayHours : HourPasses(n)
  \/ \E m \in Monitors :
       \/ \E all \in BOOLEAN : StartMonitor(m, all)
       \/ RunDetector(m) \/ DetectorDone(m) \/ EndMonitor(m)
       \/ \E key \in monitor[m].todo : LookUp(m, key) \/ InsertAlert(m, key)
       \/ \E database \in BOOLEAN : DetectorFails(m, database)

MonitoringSpec == MonitoringInit /\ [][MonitoringNext]_monitoringVars

-----------------------------------------------------------------------------
(* Properties.                                                             *)

RanTogether(i, j) == <<i, j>> \in together \/ <<j, i>> \in together

Pending == UNION {monitor[m].added : m \in Monitors}

\* A change is reported once a day and what was published is on record: two
\* alerts with one key within a day come from runs that overlapped, a partner
\* heard of no alert that a completed run did not store, and a run that
\* committed left an alert for everything its detectors had found, whichever
\* of them had failed.
MonitoringOnRecord ==
  /\ \A a, b \in alerts : \/ a.key # b.key \/ a.run = b.run
                          \/ a.at > b.at + DayHours \/ b.at > a.at + DayHours
                          \/ RanTogether(a.run, b.run)
  /\ \A p \in published : \/ p[2] \in undone
                          \/ \E a \in alerts \cup Pending : a.key = p[1] /\ a.run = p[2]
  /\ \A f \in reported : \E a \in alerts : a.key = f.key /\ a.at =< f.at /\ a.at + DayHours >= f.at
=============================================================================

---------------------------- MODULE SnapshotCache ----------------------------
(***************************************************************************)
(* The answers of the public market pages, kept for five minutes: of the   *)
(* requests for one page that come at once, one builds it and the others   *)
(* wait for the same future (api/demo.py: _get_market_snapshot,            *)
(* _get_search_snapshot).                                                  *)
(***************************************************************************)
EXTENDS Integers, Sequences, FiniteSets

CONSTANTS
  Visitors,     \* requests at once
  Questions,    \* keys of the cache: market, currency and limit, or a search
  Ttl,          \* _MARKET_CACHE_TTL
  MaxBuilds, MaxBuildFailures, LastMinute

ASSUME SnapshotAssumption == Ttl \in Nat \ {0}

VARIABLES
  minute,
  kept,         \* _market_cache
  inflight,     \* _market_inflight: the flight of a key, or 0
  flights,      \* futures, in the order of the builds
  visit,        \* what every request is at
  failedWhile,  \* history: requests during which a build of their page failed
  crowded       \* history: pages that were built twice at once

snapshotVars == <<minute, kept, inflight, flights, visit, failedWhile, crowded>>

NotKept == [read |-> 0, stored |-> -1]
Away == [step |-> "away"]

Asking(q) == {v \in Visitors : visit[v].step \in {"read", "build", "wait"} /\ visit[v].key = q}
Building(q) == {v \in Visitors : visit[v].step \in {"read", "build"} /\ visit[v].key = q}

SnapshotInit ==
  /\ minute = 0 /\ kept = [q \in Questions |-> NotKept] /\ inflight = [q \in Questions |-> 0] /\ flights = << >>
  /\ visit = [v \in Visitors |-> Away] /\ failedWhile = {} /\ crowded = {}

Fresh(q) == kept[q] # NotKept /\ minute - kept[q].stored < Ttl

Flying(q) == inflight[q] # 0 /\ flights[inflight[q]].state = "open"

\* Up to its first wait the request runs alone.
Ask(v, q) ==
  /\ visit[v].step = "away"
  /\ \/ /\ Fresh(q)
        /\ visit' = [visit EXCEPT ![v] = [step |-> "answered", key |-> q, asked |-> minute, body |-> kept[q]]]
        /\ UNCHANGED <<inflight, flights, crowded>>
     \/ /\ ~Fresh(q) /\ Flying(q)
        /\ visit' = [visit EXCEPT ![v] = [step |-> "wait", key |-> q, asked |-> minute, flight |-> inflight[q]]]
        /\ UNCHANGED <<inflight, flights, crowded>>
     \/ /\ ~Fresh(q) /\ ~Flying(q) /\ Len(flights) < MaxBuilds
        /\ flights' = Append(flights, [state |-> "open", body |-> NotKept])
        /\ inflight' = [inflight EXCEPT ![q] = Len(flights')]
        /\ visit' = [visit EXCEPT ![v] = [step |-> "read", key |-> q, asked |-> minute, flight |-> Len(flights')]]
        /\ crowded' = crowded \cup (IF Building(q) # {} THEN {q} ELSE {})
  /\ failedWhile' = failedWhile \ {v}
  /\ UNCHANGED <<minute, kept>>

\* The rows are read at once, what they show is computed one by one after.
ReadRows(v) ==
  /\ visit[v].step = "read"
  /\ visit' = [visit EXCEPT ![v] = [step |-> "build", key |-> @.key, asked |-> @.asked, flight |-> @.flight,
                                    read |-> minute]]
  /\ UNCHANGED <<minute, kept, inflight, flights, failedWhile, crowded>>

Lands(v, state, body) ==
  /\ flights' = [flights EXCEPT ![visit[v].flight] = [state |-> state, body |-> body]]
  /\ inflight' = [inflight EXCEPT ![visit[v].key] = 0]
  /\ UNCHANGED <<minute, crowded>>

Build(v) ==
  LET body == [read |-> visit[v].read, stored |-> minute]
  IN /\ visit[v].step = "build"
     /\ kept' = [kept EXCEPT ![visit[v].key] = body]
     /\ visit' = [visit EXCEPT ![v] = [step |-> "answered", key |-> @.key, asked |-> @.asked, body |-> body]]
     /\ Lands(v, "set", body)
     /\ UNCHANGED failedWhile

BuildFails(v) ==
  /\ visit[v].step = "read"
  /\ Cardinality({i \in DOMAIN flights : flights[i].state = "failed"}) < MaxBuildFailures
  /\ failedWhile' = failedWhile \cup Asking(visit[v].key)
  /\ visit' = [visit EXCEPT ![v] = [step |-> "failed", key |-> @.key]]
  /\ Lands(v, "failed", NotKept)
  /\ UNCHANGED kept

Wakes(v) ==
  /\ visit[v].step = "wait" /\ flights[visit[v].flight].state # "open"
  /\ visit' = [visit EXCEPT ![v] =
       IF flights[@.flight].state = "failed" THEN [step |-> "failed", key |-> @.key]
       ELSE [step |-> "answered", key |-> @.key, asked |-> @.asked, body |-> flights[@.flight].body]]
  /\ UNCHANGED <<minute, kept, inflight, flights, failedWhile, crowded>>

Leaves(v) ==
  /\ visit[v].step \in {"answered", "failed"}
  /\ visit' = [visit EXCEPT ![v] = Away]
  /\ UNCHANGED <<minute, kept, inflight, flights, failedWhile, crowded>>

\* A worker that restarts starts with nothing kept.
WorkerRestarts ==
  /\ \E v \in Visitors : visit[v].step = "build"
  /\ kept' = [q \in Questions |-> NotKept] /\ inflight' = [q \in Questions |-> 0]
  /\ visit' = [v \in Visitors |-> Away] /\ failedWhile' = {}
  /\ flights' = [i \in DOMAIN flights |-> [flights[i] EXCEPT !.state = IF @ = "open" THEN "gone" ELSE @]]
  /\ UNCHANGED <<minute, crowded>>

MinutePasses ==
  /\ minute < LastMinute /\ minute' = minute + 1
  /\ UNCHANGED <<kept, inflight, flights, visit, failedWhile, crowded>>

SnapshotNext ==
  \/ \E v \in Visitors :
       \/ ReadRows(v) \/ Build(v) \/ BuildFails(v) \/ Wakes(v) \/ Leaves(v)
       \/ \E q \in Questions : Ask(v, q)
  \/ WorkerRestarts \/ MinutePasses

-----------------------------------------------------------------------------
\* However many ask at once, a page is built once at a time.
BuiltOnce == crowded = {}

\* An answer was kept for less than its time when it was asked for, and its
\* rows were read no later than it was kept.
AnswersFresh ==
  \A v \in Visitors :
    visit[v].step = "answered" =>
      visit[v].asked - visit[v].body.stored < Ttl /\ visit[v].body.read <= visit[v].body.stored

\* Who fails has asked before the build failed: a failure is not kept.
FailuresForgotten == \A v \in Visitors : visit[v].step = "failed" => v \in failedWhile

\* Who waits waits for a build that is under way, or is about to be woken.
NobodyStranded ==
  \A v \in Visitors :
    visit[v].step = "wait" /\ flights[visit[v].flight].state = "open" => Building(visit[v].key) # {}

\* What the one who builds a page, who waits for it and who finds it kept may
\* rely on (demo._get_market_snapshot, _get_search_snapshot).
SnapshotsHold == BuiltOnce /\ AnswersFresh /\ FailuresForgotten /\ NobodyStranded
=============================================================================

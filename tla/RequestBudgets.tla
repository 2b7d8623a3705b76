--------------------------- MODULE RequestBudgets ---------------------------
(***************************************************************************)
(* The request limiters of one API process: the limiter of every request   *)
(* (api/main.py, in memory or in Redis), the one of log-ins, registrations *)
(* and password resets (api/auth/router.py) and the one of partner keys    *)
(* (api/partner/security.py).                                              *)
(*                                                                         *)
(* Three of them keep the times of the accepted requests per key and slide *)
(* a window over them; they differ in what they do when they track too     *)
(* many keys.  The fourth counts requests per fixed window.  Each decides  *)
(* under a lock or in one Redis command, so a decision is one step.  A     *)
(* behaviour is about one of them, since they share nothing.               *)
(***************************************************************************)
EXTENDS Naturals, Sequences, FiniteSets

CONSTANTS
  Callers,        \* user ids, addresses, e-mails with an address, partner keys
  CallerTiers,          \* effective tiers
  LimitOf,        \* [CallerTiers -> Nat]: tier_limits with its default; rate_limit of a key
  LoginLimit,     \* _LOGIN_RATE_LIMIT
  RateWindow,     \* _RATE_WINDOW, _LOGIN_RATE_WINDOW, _WINDOW_SECONDS
  MaxTracked,     \* the number of keys above which a table is cleaned
  LastTick,       \* bound on the clock
  MaxRequests     \* bound on the requests made

ASSUME BudgetAssumption ==
  /\ LimitOf \in [CallerTiers -> Nat \ {0}]
  /\ LoginLimit \in Nat \ {0}
  /\ RateWindow \in Nat \ {0}
  /\ MaxTracked \in Nat /\ LastTick \in Nat /\ MaxRequests \in Nat

VARIABLES
  limiter,    \* which limiter this behaviour is about
  tick,
  hits,       \* key -> the requests counted, each a time; a key is tracked when in the domain
  counter,    \* Redis: [Callers -> [window number -> count]]
  requests,   \* history: what was asked when, under which limit, and the answer
  forgotten   \* history: the times at which a table was cleared

budgetVars == <<limiter, tick, hits, counter, requests, forgotten>>

Limiters == {"memory", "redis", "login", "partner"}
Windows == 0 .. (LastTick \div RateWindow)

BudgetInit ==
  /\ limiter \in Limiters
  /\ tick = 0
  /\ hits = << >>
  /\ counter = [c \in Callers |-> [w \in Windows |-> 0]]
  /\ requests = << >>
  /\ forgotten = {}

TickOn ==
  /\ tick < LastTick
  /\ tick' = tick + 1
  /\ UNCHANGED <<limiter, hits, counter, requests, forgotten>>

-----------------------------------------------------------------------------

Tracked == DOMAIN hits
Times(h, c) == IF c \in DOMAIN h THEN h[c] ELSE {}
InWindow(ts) == {t \in ts : t.at + RateWindow > tick}
With(h, c, ts) == [d \in DOMAIN h \cup {c} |-> IF d = c THEN ts ELSE h[d]]

Overfull == Cardinality(Tracked) > MaxTracked

\* A mistake: eviction by the oldest hit instead of the latest.
MutFreshByOldest ==
  [d \in {e \in Tracked : hits[e] # {} /\ InWindow(hits[e]) = hits[e]} |-> hits[d]]

\* _memory_allow drops the keys without a hit in the window, and only those.
FreshOnly == [d \in {e \in Tracked : InWindow(hits[e]) # {}} |-> hits[d]]

\* An entry of a list is a time; the number tells two of one moment apart.
ThisRequest == [at |-> tick, number |-> Len(requests) + 1]

\* The table the limiter looks into: the other two start afresh.
Cleaned ==
  CASE ~Overfull -> hits
    [] Overfull /\ limiter = "memory" -> FreshOnly
    [] Overfull /\ limiter # "memory" -> << >>

\* The limit of the tier that was read for this request (purchases and lapses
\* change it from one request to the next); log-ins all have the same.
LimitsNow == IF limiter = "login" THEN {LoginLimit} ELSE {LimitOf[t] : t \in CallerTiers}

Answer(c, limit, ok) ==
  /\ Len(requests) < MaxRequests
  /\ requests' = Append(requests, [caller |-> c, at |-> tick, limit |-> limit, ok |-> ok])

\* _memory_allow and partner_rate_limit store the pruned list also when they
\* refuse; _check_rate_limit stores it only when it accepts.
Sliding(c, limit) ==
  LET used == InWindow(Times(Cleaned, c))
      ok == Cardinality(used) < limit
  IN /\ limiter # "redis"
     /\ hits' = IF ok THEN With(Cleaned, c, used \cup {ThisRequest})
                ELSE IF limiter = "login" THEN Cleaned
                ELSE With(Cleaned, c, used)
     /\ Answer(c, limit, ok)
     /\ forgotten' = IF Overfull /\ limiter # "memory" THEN forgotten \cup {tick} ELSE forgotten
     /\ UNCHANGED <<limiter, tick, counter>>

\* _redis_allow: INCR, and a refusal when Redis cannot be reached.
Fixed(c, limit) ==
  LET w == tick \div RateWindow
      n == counter[c][w] + 1
  IN /\ limiter = "redis"
     /\ \/ /\ counter' = [counter EXCEPT ![c][w] = n]
           /\ Answer(c, limit, n =< limit)
        \/ /\ Answer(c, limit, FALSE)
           /\ UNCHANGED counter
     /\ UNCHANGED <<limiter, tick, hits, forgotten>>

BudgetNext ==
  \/ TickOn
  \/ \E c \in Callers : \E limit \in LimitsNow : Sliding(c, limit) \/ Fixed(c, limit)

BudgetSpec == BudgetInit /\ [][BudgetNext]_budgetVars

-----------------------------------------------------------------------------
(* Properties, stated over the requests and not over the tables.           *)

\* The requests of r's caller accepted before r within the window of r.
Spent(i) ==
  {j \in 1 .. i - 1 :
     /\ requests[j].caller = requests[i].caller
     /\ requests[j].ok
     /\ IF limiter = "redis"
        THEN requests[j].at \div RateWindow = requests[i].at \div RateWindow
        ELSE requests[j].at + RateWindow > requests[i].at}

Forgot(i) == \E t \in forgotten : t =< requests[i].at /\ t + RateWindow > requests[i].at

\* Nobody is served beyond the budget of the tier he has at that moment,
\* except after a table was cleared, which only the log-in and the partner
\* limiter do; and nobody is refused who has not spent his budget, whatever
\* tier he had before (Redis also counts what it refuses, so an upgrade there
\* takes effect only in the next window).
BudgetsHold ==
  \A i \in DOMAIN requests :
    /\ requests[i].ok => Cardinality(Spent(i)) < requests[i].limit \/ Forgot(i)
    /\ ~requests[i].ok /\ limiter # "redis" => Cardinality(Spent(i)) >= requests[i].limit
    /\ limiter = "memory" => ~Forgot(i)

=============================================================================

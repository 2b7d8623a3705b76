------------------------------- MODULE Holdings -------------------------------
(***************************************************************************)
(* The positions of one user: what the site and the bot write to them      *)
(* (portfolio/positions_repository.py, api/analytics/portfolio.py,         *)
(* telegram_bot/positions.py), the rebalance that reads them, makes a plan *)
(* and writes it back (portfolio/rebalance.py), and the daily snapshot of  *)
(* their value (api/portfolio_api.py).                                     *)
(*                                                                         *)
(* Every request is a transaction at READ COMMITTED.  The rebalance and    *)
(* the snapshot work on what they read when they began; rows they write    *)
(* are locked until they commit, so that a commit writes all at once.      *)
(***************************************************************************)
EXTENDS Integers, FiniteSets, FiniteSetsExt, Functions

CONSTANTS
  HeldPapers,     \* bonds
  EditAmounts,    \* amounts a user enters
  Targets,        \* allocations of the optimizer: [HeldPapers -> Nat]
  Capital,        \* prefs.initial_capital
  MinTrade,       \* MIN_TRADE_AMOUNT
  DriftPercent,   \* the drift threshold
  HoldingCalls,   \* requests that may be in progress
  MaxHoldingCalls,\* bound on the requests that span several steps
  LastHoldingDay

ASSUME HoldingsAssumption ==
  /\ EditAmounts \subseteq Nat \ {0}
  /\ Targets \subseteq [HeldPapers -> Nat]
  /\ Capital \in Nat \ {0} /\ MinTrade \in Nat \ {0} /\ DriftPercent \in Nat
  /\ MaxHoldingCalls \in Nat /\ LastHoldingDay \in Nat

VARIABLES
  amount,       \* portfolio_positions: [HeldPapers -> Nat], 0 without a row
  booked,       \* portfolio_transactions: whether there are any
  holdingCall,  \* the requests in progress
  holdingCalls, \* how many there were; each has a number
  holdingDay,
  dayValue,     \* pnl_snapshots: [days -> row]
  plans,        \* rebalance_history: the committed plans
  touched,      \* history: [call, paper]: positions written under a plan in progress
  shared,       \* history: pairs of requests that overlapped
  asked         \* history: [call, day] of the snapshot requests that ended

holdingVars == <<amount, booked, holdingCall, holdingCalls, holdingDay, dayValue, plans,
                 touched, shared, asked>>

HoldingDays == 0 .. LastHoldingDay
NoSnapshot == [value |-> 0, call |-> 0]
Free == [pc |-> "free", call |-> 0]

HoldingsInit ==
  /\ amount = [p \in HeldPapers |-> 0]
  /\ holdingCall = [c \in HoldingCalls |-> Free]
  /\ holdingCalls = 0
  /\ holdingDay = 0
  /\ dayValue = [d \in HoldingDays |-> NoSnapshot]
  /\ plans = {}
  /\ booked = FALSE
  /\ touched = {}
  /\ shared = {}
  /\ asked = {}

Busy == {c \in HoldingCalls : holdingCall[c].pc # "free"}
Planning == {c \in HoldingCalls : holdingCall[c].pc = "plan"}
CallMoves(c, to) == holdingCall' = [holdingCall EXCEPT ![c] = to] /\ UNCHANGED <<holdingCalls, shared>>
CallOver(c) == CallMoves(c, Free)

CallBegins(c, to) ==
  /\ c \notin Busy
  /\ holdingCalls < MaxHoldingCalls
  /\ holdingCalls' = holdingCalls + 1
  /\ holdingCall' = [holdingCall EXCEPT ![c] = [to EXCEPT !.call = holdingCalls']]
  /\ shared' = shared \cup {<<holdingCall[b].call, holdingCalls'>> : b \in Busy}

-----------------------------------------------------------------------------
(* The user's own changes, each a transaction of one statement.            *)

Writes(p, a) ==
  /\ amount' = [amount EXCEPT ![p] = a]
  /\ touched' = touched \cup {<<holdingCall[b].call, p>> : b \in Planning}
  /\ UNCHANGED <<booked, holdingCall, holdingCalls, holdingDay, dayValue, plans, shared, asked>>

othersStay == UNCHANGED <<amount, holdingCall, holdingCalls, holdingDay, dayValue, plans,
                          touched, shared, asked>>

\* api_add_position: the amount replaces what is there.
AddPosition(p, a) == Writes(p, a)

\* api_remove_position; a row that is not there is no error.
DropPosition(p) == Writes(p, 0)

\* api_record_transaction, and api_delete_transaction of the last one: deals
\* are a record of their own and leave the positions alone.
RecordTransaction == ~booked /\ booked' = TRUE /\ othersStay
DeleteTransaction == booked /\ booked' = FALSE /\ othersStay

-----------------------------------------------------------------------------
(* The rebalance.                                                          *)

Total(seen) == LET sum == FoldFunction(+, 0, seen) IN IF sum = 0 THEN Capital ELSE sum

Abs(n) == IF n < 0 THEN -n ELSE n

\* _drift: the weight of a bond in what is held against its weight in the
\* capital the user named.
Drifts(seen, target) ==
  \E p \in HeldPapers : 100 * Abs(target[p] * Total(seen) - seen[p] * Capital)
                          >= DriftPercent * Capital * Total(seen)

\* build_plan leaves small differences alone.
Trades(seen, target) == {p \in HeldPapers : Abs(target[p] - seen[p]) >= MinTrade}

\* api_rebalance reads the positions; bonds and preferences were read before.
ReadPositions(c, target) ==
  /\ CallBegins(c, [pc |-> IF Drifts(amount, target) THEN "plan" ELSE "still", call |-> 0,
                    seen |-> amount, target |-> target])
  /\ UNCHANGED <<amount, booked, holdingDay, dayValue, plans, touched, asked>>

\* Below the threshold, or with nothing to value, nothing is saved.
NothingToDo(c) ==
  /\ holdingCall[c].pc \in {"still", "nothing"}
  /\ CallOver(c)
  /\ UNCHANGED <<amount, booked, holdingDay, dayValue, plans, touched, asked>>

\* A mistake: what is bought replaces the position.
MutAfterTrade(seen, target) ==
  IF target > seen THEN target - seen ELSE target

\* "merge it into any existing position instead of replacing it"; a position
\* that is sold to the end is removed.
AfterTrade(seen, target) ==
  IF target > seen THEN seen + (target - seen) ELSE seen - (seen - target)

CommitPlan(c) ==
  LET t == holdingCall[c]
      traded == Trades(t.seen, t.target)
  IN /\ t.pc = "plan"
     /\ CallOver(c)
     /\ amount' = [p \in HeldPapers |->
                     IF p \in traded THEN AfterTrade(t.seen[p], t.target[p]) ELSE amount[p]]
     /\ touched' = touched \cup {<<holdingCall[b].call, p>> : b \in Planning \ {c}, p \in traded}
     /\ plans' = plans \cup {[call |-> t.call, before |-> t.seen, found |-> amount, after |-> amount',
                              traded |-> traded, target |-> t.target]}
     /\ UNCHANGED <<booked, holdingDay, dayValue, asked>>

\* An error, or two rebalances that lock each other's rows.
PlanFails(c) ==
  /\ holdingCall[c].pc = "plan"
  /\ CallOver(c)
  /\ UNCHANGED <<amount, booked, holdingDay, dayValue, plans, touched, asked>>

-----------------------------------------------------------------------------
(* The profit and loss of today.                                           *)

\* api_pnl reads positions and transactions; without any the answer is zeros
\* and the snapshot of the day stays as it is.
NothingHeld == ~booked /\ \A p \in HeldPapers : amount[p] = 0

ReadNothing(c) ==
  /\ NothingHeld
  /\ CallBegins(c, [pc |-> "nothing", call |-> 0])
  /\ UNCHANGED <<amount, booked, holdingDay, dayValue, plans, touched, asked>>

\* Else it computes, and asks for the date.
ReadValue(c) ==
  /\ ~NothingHeld
  /\ CallBegins(c, [pc |-> "value", call |-> 0, value |-> FoldFunction(+, 0, amount)])
  /\ UNCHANGED <<amount, booked, holdingDay, dayValue, plans, touched, asked>>

AskDate(c) ==
  /\ holdingCall[c].pc = "value"
  /\ CallMoves(c, [pc |-> "look", call |-> holdingCall[c].call,
                   value |-> holdingCall[c].value, day |-> holdingDay])
  /\ UNCHANGED <<amount, booked, holdingDay, dayValue, plans, touched, asked>>

Existing(day) == dayValue[day] # NoSnapshot

LookForRow(c) ==
  LET t == holdingCall[c]
  IN /\ t.pc = "look"
     /\ CallMoves(c, [pc |-> IF Existing(t.day) THEN "update" ELSE "insert", call |-> t.call,
                      value |-> t.value, day |-> t.day])
     /\ UNCHANGED <<amount, booked, holdingDay, dayValue, plans, touched, asked>>

\* A row that came meanwhile makes the INSERT fail on UNIQUE(user, date).
SaveSnapshot(c) ==
  LET t == holdingCall[c]
  IN /\ t.pc \in {"insert", "update"}
     /\ CallOver(c)
     /\ dayValue' = IF t.pc = "insert" /\ dayValue[t.day] # NoSnapshot THEN dayValue
                    ELSE [dayValue EXCEPT ![t.day] = [value |-> t.value, call |-> t.call]]
     /\ asked' = asked \cup {[call |-> t.call, day |-> t.day]}
     /\ UNCHANGED <<amount, booked, holdingDay, plans, touched>>

NextHoldingDay ==
  /\ holdingDay < LastHoldingDay
  /\ holdingDay' = holdingDay + 1
  /\ UNCHANGED <<amount, booked, holdingCall, holdingCalls, dayValue, plans, touched, shared, asked>>

HoldingsNext ==
  \/ \E p \in HeldPapers : DropPosition(p) \/ \E a \in EditAmounts : AddPosition(p, a)
  \/ \E c \in HoldingCalls :
       \/ \E target \in Targets : ReadPositions(c, target)
       \/ NothingToDo(c) \/ CommitPlan(c) \/ PlanFails(c)
       \/ ReadNothing(c) \/ ReadValue(c) \/ AskDate(c) \/ LookForRow(c) \/ SaveSnapshot(c)
  \/ RecordTransaction \/ DeleteTransaction
  \/ NextHoldingDay

HoldingsSpec == HoldingsInit /\ [][HoldingsNext]_holdingVars

-----------------------------------------------------------------------------
(* Properties.                                                             *)

SharedTime(i, j) == i = j \/ <<i, j>> \in shared \/ <<j, i>> \in shared

Near(a, b) == Abs(a - b) < MinTrade

\* Rebalances that overlap each other and the user's own changes.  A plan is
\* made only for holdings off target, and its commit brings every position
\* within a negligible amount of the target, also where two rebalances to
\* one target trade at once, but for one it does not trade and that was
\* written while the plan was in progress.  It puts back what it had read
\* over what it finds (the lost change of a user, or of another rebalance)
\* only where that came while the plan was in progress, never over an older
\* change.  And the snapshot of a day is that of the last request of the day
\* that found a position or a deal, unless another one was in progress.
HoldingsSound ==
  /\ \A plan \in plans :
       /\ Drifts(plan.before, plan.target)
       /\ \A p \in HeldPapers :
            /\ \/ Near(plan.after[p], plan.target[p])
               \/ p \notin plan.traded /\ <<plan.call, p>> \in touched
            /\ plan.found[p] = plan.before[p] \/ <<plan.call, p>> \in touched
  /\ \A a \in asked : dayValue[a.day].call >= a.call \/ SharedTime(dayValue[a.day].call, a.call)
=============================================================================

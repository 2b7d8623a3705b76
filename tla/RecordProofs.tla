----------------------------- MODULE RecordProofs -----------------------------
(***************************************************************************)
(* What is kept on record for a user, for any number of requests at once:  *)
(* the positions, plans and snapshots of Holdings, the dialogs and         *)
(* preferences of BotFront, and the alerts of Monitoring; and what the     *)
(* rows of the bonds are made of: the browser of BrowserClient that is     *)
(* restarted while others use it, and the figures of FeedQuotes.           *)
(***************************************************************************)
EXTENDS Holdings, BotFront, Monitoring, BrowserClient, FeedQuotes, FiniteSetTheorems, TLAPS

-----------------------------------------------------------------------------
(* Holdings: the inductive invariant.                                      *)

(* What a request in progress carries.                                     *)
CallOK(t) ==
  /\ t.pc \in {"free", "plan", "still", "nothing", "value", "look", "insert", "update"}
  /\ t.call \in Nat
  /\ t.pc \in {"plan", "still"} => t.seen \in [HeldPapers -> Nat] /\ t.target \in Targets
  /\ t.pc \in {"look", "insert", "update"} => t.day \in HoldingDays

HoldingsTypeOK ==
  /\ amount \in [HeldPapers -> Nat]
  /\ holdingCalls \in Nat /\ holdingDay \in HoldingDays
  /\ DOMAIN holdingCall = HoldingCalls
  /\ \A c \in HoldingCalls : CallOK(holdingCall[c])
  /\ DOMAIN dayValue = HoldingDays
  /\ \A d \in HoldingDays : dayValue[d].call \in 0 .. holdingCalls
  /\ \A a \in asked : a.day \in HoldingDays /\ a.call \in 0 .. holdingCalls

(* A request shares time with every one that begins before it ends.        *)
BusyShares ==
  \A c \in HoldingCalls : holdingCall[c].pc # "free" =>
    /\ holdingCall[c].call \in 1 .. holdingCalls
    /\ \A j \in 1 .. holdingCalls :
         j > holdingCall[c].call => <<holdingCall[c].call, j>> \in shared

PlansDrift ==
  /\ \A c \in HoldingCalls :
       holdingCall[c].pc = "plan" => Drifts(holdingCall[c].seen, holdingCall[c].target)
  /\ \A plan \in plans :
       /\ Drifts(plan.before, plan.target)
       /\ \A p \in HeldPapers :
            /\ \/ Near(plan.after[p], plan.target[p])
               \/ p \notin plan.traded /\ <<plan.call, p>> \in touched
            /\ plan.found[p] = plan.before[p] \/ <<plan.call, p>> \in touched

(* A plan in the making has the positions as they are, but for those       *)
(* written since it read them.                                             *)
SeenUnlessTouched ==
  \A c \in HoldingCalls : holdingCall[c].pc = "plan" =>
    \A p \in HeldPapers :
      amount[p] = holdingCall[c].seen[p] \/ <<holdingCall[c].call, p>> \in touched

(* A request that found no row for its day, and is overtaken by one that   *)
(* writes it, shared time with that one.                                   *)
OvertakenShared ==
  \A c \in HoldingCalls :
    holdingCall[c].pc = "insert" /\ dayValue[holdingCall[c].day] # NoSnapshot =>
      \/ dayValue[holdingCall[c].day].call >= holdingCall[c].call
      \/ <<dayValue[holdingCall[c].day].call, holdingCall[c].call>> \in shared

LastAsked ==
  \A a \in asked : dayValue[a.day].call >= a.call \/ SharedTime(dayValue[a.day].call, a.call)

HoldingsInv ==
  /\ HoldingsTypeOK /\ SeenUnlessTouched
  /\ BusyShares /\ PlansDrift /\ OvertakenShared /\ LastAsked

LEMMA HoldingsInitInv == HoldingsInit => HoldingsInv
<1> SUFFICES ASSUME HoldingsInit PROVE HoldingsInv
  OBVIOUS
<1>1. HoldingsTypeOK
  BY HoldingsAssumption DEF HoldingsInit, HoldingsTypeOK, CallOK, Free, NoSnapshot, HoldingDays
<1>2. BusyShares /\ PlansDrift /\ SeenUnlessTouched /\ OvertakenShared /\ LastAsked
  BY DEF HoldingsInit, BusyShares, PlansDrift, SeenUnlessTouched, OvertakenShared, LastAsked, Free
<1>3. QED
  BY <1>1, <1>2 DEF HoldingsInit, HoldingsInv

(* What is bought and sold takes the position from what was read to the    *)
(* target.                                                                 *)
LEMMA AfterTradeIsTarget ==
  ASSUME NEW seen \in Nat, NEW target \in Nat PROVE AfterTrade(seen, target) = target
BY DEF AfterTrade

LEMMA UntradedIsNegligible ==
  ASSUME NEW seen \in [HeldPapers -> Nat], NEW target \in [HeldPapers -> Nat],
         NEW p \in HeldPapers \ Trades(seen, target)
  PROVE  Abs(seen[p] - target[p]) < MinTrade
<1>1. seen[p] \in Nat /\ target[p] \in Nat /\ ~(Abs(target[p] - seen[p]) >= MinTrade)
  BY DEF Trades
<1>2. QED
  BY <1>1, HoldingsAssumption DEF Abs

(* A request begins: it shares time with all that are in progress.         *)
LEMMA CallBeginsInv ==
  ASSUME HoldingsInv, NEW c \in HoldingCalls, NEW to, CallBegins(c, to),
         CallOK(holdingCall'[c]), to.pc \in {"plan", "still", "nothing", "value"},
         to.pc = "plan" => /\ Drifts(holdingCall'[c].seen, holdingCall'[c].target)
                           /\ holdingCall'[c].seen = amount,
         holdingCall'[c].pc = to.pc, holdingCall'[c].call = holdingCalls',
         UNCHANGED <<amount, booked, holdingDay, dayValue, plans, touched, asked>>
  PROVE  HoldingsInv'
<1>1. /\ holdingCalls \in Nat /\ holdingCalls' = holdingCalls + 1
      /\ \A b \in HoldingCalls : holdingCall[b].pc # "free" => <<holdingCall[b].call, holdingCalls'>> \in shared'
      /\ shared \subseteq shared'
  BY DEF CallBegins, Busy, HoldingsInv, HoldingsTypeOK
<1>2. DOMAIN holdingCall' = HoldingCalls /\ \A b \in HoldingCalls \ {c} : holdingCall'[b] = holdingCall[b]
  BY DEF CallBegins, HoldingsInv, HoldingsTypeOK
<1>3. HoldingsTypeOK'
  <2>1. \A b \in HoldingCalls : CallOK(holdingCall[b])'
    BY <1>2 DEF HoldingsInv, HoldingsTypeOK, CallOK
  <2>2. \A n \in 0 .. holdingCalls : n \in 0 .. holdingCalls'
    BY <1>1
  <2>3. QED
    BY <1>1, <1>2, <2>1, <2>2 DEF HoldingsInv, HoldingsTypeOK
<1>4. BusyShares'
  BY <1>1, <1>2 DEF HoldingsInv, BusyShares
<1>5. PlansDrift' /\ SeenUnlessTouched'
  BY <1>2 DEF HoldingsInv, PlansDrift, SeenUnlessTouched
<1>6. OvertakenShared'
  BY <1>1, <1>2 DEF HoldingsInv, OvertakenShared
<1>7. LastAsked'
  BY <1>1 DEF HoldingsInv, LastAsked, SharedTime
<1>8. QED
  BY <1>3, <1>4, <1>5, <1>6, <1>7 DEF HoldingsInv

(* A request goes on or ends without a commit.                             *)
LEMMA CallMovesInv ==
  ASSUME HoldingsInv, NEW c \in HoldingCalls, NEW to, CallMoves(c, to), CallOK(to),
         to.pc # "plan",
         to.pc # "free" => to.call = holdingCall[c].call /\ holdingCall[c].pc # "free",
         to.pc = "insert" => dayValue[to.day] = NoSnapshot,
         UNCHANGED <<amount, booked, holdingDay, dayValue, plans, touched, asked>>
  PROVE  HoldingsInv'
<1>1. holdingCalls' = holdingCalls /\ shared' = shared
  BY DEF CallMoves
<1>2. /\ DOMAIN holdingCall' = HoldingCalls /\ holdingCall'[c] = to
      /\ \A b \in HoldingCalls \ {c} : holdingCall'[b] = holdingCall[b]
  BY DEF CallMoves, HoldingsInv, HoldingsTypeOK
<1>3. HoldingsTypeOK'
  <2>1. \A b \in HoldingCalls : CallOK(holdingCall[b])'
    BY <1>2 DEF HoldingsInv, HoldingsTypeOK, CallOK
  <2>2. QED
    BY <1>1, <1>2, <2>1 DEF HoldingsInv, HoldingsTypeOK
<1>4. BusyShares'
  BY <1>1, <1>2 DEF HoldingsInv, BusyShares
<1>5. PlansDrift' /\ SeenUnlessTouched'
  BY <1>2 DEF HoldingsInv, PlansDrift, SeenUnlessTouched
<1>6. OvertakenShared'
  BY <1>1, <1>2 DEF HoldingsInv, OvertakenShared
<1>7. LastAsked'
  BY <1>1 DEF HoldingsInv, LastAsked, SharedTime
<1>8. QED
  BY <1>3, <1>4, <1>5, <1>6, <1>7 DEF HoldingsInv

(* A step that leaves requests and snapshots alone.                        *)
LEMMA CallsUnchangedInv ==
  ASSUME HoldingsInv, UNCHANGED <<holdingCall, holdingCalls, dayValue, plans, shared, asked>>,
         amount' \in [HeldPapers -> Nat], holdingDay' \in HoldingDays,
         touched \subseteq touched', SeenUnlessTouched'
  PROVE  HoldingsInv'
<1>1. HoldingsTypeOK'
  BY DEF HoldingsInv, HoldingsTypeOK, CallOK
<1>2. BusyShares' /\ PlansDrift' /\ OvertakenShared' /\ LastAsked'
  BY DEF HoldingsInv, BusyShares, PlansDrift, OvertakenShared, LastAsked, SharedTime
<1>3. QED
  BY <1>1, <1>2 DEF HoldingsInv

LEMMA WritesInv ==
  ASSUME HoldingsInv, NEW p \in HeldPapers, NEW a \in Nat, Writes(p, a)
  PROVE  HoldingsInv'
<1>1. amount' \in [HeldPapers -> Nat] /\ holdingDay' \in HoldingDays
  BY DEF Writes, HoldingsInv, HoldingsTypeOK
<1>2. /\ touched \subseteq touched' /\ holdingCall' = holdingCall
      /\ \A b \in HoldingCalls : holdingCall[b].pc = "plan" => <<holdingCall[b].call, p>> \in touched'
      /\ \A q \in HeldPapers \ {p} : amount'[q] = amount[q]
  BY DEF Writes, Planning, HoldingsInv, HoldingsTypeOK
<1>3. SeenUnlessTouched'
  BY <1>2 DEF HoldingsInv, SeenUnlessTouched
<1>4. QED
  BY <1>1, <1>2, <1>3, CallsUnchangedInv DEF Writes

LEMMA ReadPositionsInv ==
  ASSUME HoldingsInv, NEW c \in HoldingCalls, NEW target \in Targets, ReadPositions(c, target)
  PROVE  HoldingsInv'
<1> DEFINE to == [pc |-> IF Drifts(amount, target) THEN "plan" ELSE "still", call |-> 0,
                  seen |-> amount, target |-> target]
<1>1. CallBegins(c, to)
  BY DEF ReadPositions
<1>2. holdingCall'[c] = [to EXCEPT !.call = holdingCalls']
  BY <1>1 DEF CallBegins, HoldingsInv, HoldingsTypeOK
<1>3. holdingCalls' \in Nat
  BY <1>1 DEF CallBegins, HoldingsInv, HoldingsTypeOK
<1>4. /\ holdingCall'[c].pc = to.pc /\ holdingCall'[c].call = holdingCalls'
      /\ holdingCall'[c].seen = amount /\ holdingCall'[c].target = target
  BY <1>2
<1>5. to.pc \in {"plan", "still"} /\ (to.pc = "plan" => Drifts(amount, target))
  OBVIOUS
<1>6. CallOK(holdingCall'[c])
  BY <1>3, <1>4, <1>5 DEF CallOK, HoldingsInv, HoldingsTypeOK
<1> HIDE DEF to
<1>7. QED
  BY <1>1, <1>4, <1>5, <1>6, CallBeginsInv DEF ReadPositions

LEMMA ReadNothingInv ==
  ASSUME HoldingsInv, NEW c \in HoldingCalls, ReadNothing(c)
  PROVE  HoldingsInv'
<1> DEFINE to == [pc |-> "nothing", call |-> 0]
<1>1. CallBegins(c, to)
  BY DEF ReadNothing
<1>2. holdingCall'[c] = [to EXCEPT !.call = holdingCalls']
  BY <1>1 DEF CallBegins, HoldingsInv, HoldingsTypeOK
<1>3. holdingCalls' \in Nat
  BY <1>1 DEF CallBegins, HoldingsInv, HoldingsTypeOK
<1>4. holdingCall'[c].pc = to.pc /\ to.pc = "nothing" /\ holdingCall'[c].call = holdingCalls'
  BY <1>2
<1>5. CallOK(holdingCall'[c])
  BY <1>3, <1>4 DEF CallOK
<1> HIDE DEF to
<1>6. QED
  BY <1>1, <1>4, <1>5, CallBeginsInv DEF ReadNothing

LEMMA ReadValueInv ==
  ASSUME HoldingsInv, NEW c \in HoldingCalls, ReadValue(c)
  PROVE  HoldingsInv'
<1>1. PICK v : /\ CallBegins(c, [pc |-> "value", call |-> 0, value |-> v])
               /\ UNCHANGED <<amount, booked, holdingDay, dayValue, plans, touched, asked>>
  BY DEF ReadValue
<1> DEFINE to == [pc |-> "value", call |-> 0, value |-> v]
<1>2. holdingCall'[c] = [to EXCEPT !.call = holdingCalls']
  BY <1>1 DEF CallBegins, HoldingsInv, HoldingsTypeOK
<1>3. holdingCalls' \in Nat
  BY <1>1 DEF CallBegins, HoldingsInv, HoldingsTypeOK
<1>4. holdingCall'[c].pc = to.pc /\ to.pc = "value" /\ holdingCall'[c].call = holdingCalls'
  BY <1>2
<1>5. CallOK(holdingCall'[c])
  BY <1>3, <1>4 DEF CallOK
<1>6. CallBegins(c, to)
  BY <1>1
<1> HIDE DEF to
<1>7. QED
  BY <1>1, <1>4, <1>5, <1>6, CallBeginsInv

LEMMA CallGoesOnInv ==
  ASSUME HoldingsInv, NEW c \in HoldingCalls,
         NothingToDo(c) \/ PlanFails(c) \/ AskDate(c) \/ LookForRow(c)
  PROVE  HoldingsInv'
<1>0. CallOK(holdingCall[c]) /\ holdingDay \in HoldingDays
  BY DEF HoldingsInv, HoldingsTypeOK
<1>1. CASE NothingToDo(c) \/ PlanFails(c)
  <2>1. CallMoves(c, Free) /\ UNCHANGED <<amount, booked, holdingDay, dayValue, plans, touched, asked>>
    BY <1>1 DEF NothingToDo, PlanFails, CallOver
  <2>2. CallOK(Free) /\ Free.pc = "free"
    BY DEF Free, CallOK
  <2>3. QED
    BY <2>1, <2>2, CallMovesInv
<1>2. CASE AskDate(c)
  <2> DEFINE to == [pc |-> "look", call |-> holdingCall[c].call,
                    value |-> holdingCall[c].value, day |-> holdingDay]
  <2>1. CallMoves(c, to) /\ UNCHANGED <<amount, booked, holdingDay, dayValue, plans, touched, asked>>
    BY <1>2 DEF AskDate
  <2>2. CallOK(to) /\ to.pc = "look" /\ to.call = holdingCall[c].call
    BY <1>0 DEF CallOK
  <2>3. holdingCall[c].pc # "free"
    BY <1>2 DEF AskDate
  <2> HIDE DEF to
  <2>4. QED
    BY <2>1, <2>2, <2>3, CallMovesInv
<1>3. CASE LookForRow(c)
  <2> DEFINE day == holdingCall[c].day
             to == [pc |-> IF Existing(day) THEN "update" ELSE "insert",
                    call |-> holdingCall[c].call, value |-> holdingCall[c].value, day |-> day]
  <2>1. CallMoves(c, to) /\ UNCHANGED <<amount, booked, holdingDay, dayValue, plans, touched, asked>>
    BY <1>3 DEF LookForRow
  <2>2. holdingCall[c].pc = "look" /\ day \in HoldingDays
    BY <1>0, <1>3 DEF LookForRow, CallOK
  <2>3. /\ CallOK(to) /\ to.pc \in {"update", "insert"} /\ to.call = holdingCall[c].call
        /\ to.day = day
    BY <1>0, <2>2 DEF CallOK
  <2>4. to.pc = "insert" => dayValue[day] = NoSnapshot
    BY DEF Existing
  <2> HIDE DEF to
  <2>5. QED
    BY <2>1, <2>2, <2>3, <2>4, CallMovesInv
<1>4. QED
  BY <1>1, <1>2, <1>3

LEMMA CommitPlanInv ==
  ASSUME HoldingsInv, NEW c \in HoldingCalls, CommitPlan(c)
  PROVE  HoldingsInv'
<1> DEFINE seen == holdingCall[c].seen
           target == holdingCall[c].target
           traded == Trades(seen, target)
<1>1. /\ holdingCall[c].pc = "plan"
      /\ CallMoves(c, Free)
      /\ amount' = [p \in HeldPapers |->
                      IF p \in traded THEN AfterTrade(seen[p], target[p]) ELSE amount[p]]
      /\ touched' = touched \cup {<<holdingCall[b].call, p>> : b \in Planning \ {c}, p \in traded}
      /\ plans' = plans \cup {[call |-> holdingCall[c].call, before |-> seen, found |-> amount,
                               after |-> amount', traded |-> traded, target |-> target]}
      /\ UNCHANGED <<booked, holdingDay, dayValue, asked>>
  BY DEF CommitPlan, CallOver
<1>2. seen \in [HeldPapers -> Nat] /\ target \in [HeldPapers -> Nat]
  <2>1. CallOK(holdingCall[c])
    BY DEF HoldingsInv, HoldingsTypeOK
  <2>2. QED
    BY <1>1, <2>1, HoldingsAssumption DEF CallOK
<1>3. Drifts(seen, target)
  BY <1>1 DEF HoldingsInv, PlansDrift
<1>4. \A p \in HeldPapers \ traded : Abs(seen[p] - target[p]) < MinTrade
  BY <1>2, UntradedIsNegligible
<1>5. \A p \in HeldPapers : AfterTrade(seen[p], target[p]) = target[p]
  BY <1>2, AfterTradeIsTarget
<1>5a. \A p \in HeldPapers : amount[p] = seen[p] \/ <<holdingCall[c].call, p>> \in touched
  BY <1>1 DEF HoldingsInv, SeenUnlessTouched
<1> HIDE DEF seen, target, traded
<1>6. amount' \in [HeldPapers -> Nat]
  BY <1>1, <1>2, <1>5 DEF HoldingsInv, HoldingsTypeOK
<1>7. /\ holdingCalls' = holdingCalls /\ shared' = shared
      /\ DOMAIN holdingCall' = HoldingCalls /\ holdingCall'[c] = Free
      /\ \A b \in HoldingCalls \ {c} : holdingCall'[b] = holdingCall[b]
  BY <1>1 DEF CallMoves, HoldingsInv, HoldingsTypeOK
<1>8. \A b \in HoldingCalls : holdingCall'[b].pc # "free" => holdingCall'[b] = holdingCall[b]
  BY <1>7 DEF Free
<1>9. HoldingsTypeOK'
  <2>1. CallOK(Free)
    BY DEF Free, CallOK
  <2>2. \A b \in HoldingCalls : CallOK(holdingCall[b])'
    BY <1>7, <2>1 DEF HoldingsInv, HoldingsTypeOK, CallOK
  <2>3. QED
    BY <1>1, <1>6, <1>7, <2>2 DEF HoldingsInv, HoldingsTypeOK
<1>10. BusyShares'
  BY <1>7, <1>8 DEF HoldingsInv, BusyShares
<1>10a. touched \subseteq touched'
  BY <1>1
<1>10b. SeenUnlessTouched'
  <2> SUFFICES ASSUME NEW b \in HoldingCalls, holdingCall'[b].pc = "plan", NEW p \in HeldPapers
               PROVE  amount'[p] = holdingCall'[b].seen[p] \/ <<holdingCall'[b].call, p>> \in touched'
    BY DEF SeenUnlessTouched
  <2>1. holdingCall'[b] = holdingCall[b] /\ b \in Planning \ {c}
    BY <1>7, <1>8 DEF Planning, Free
  <2>2. CASE p \in traded
    BY <1>1, <2>1, <2>2
  <2>3. CASE p \notin traded
    <3>1. amount'[p] = amount[p]
      BY <1>1, <2>3
    <3>2. amount[p] = holdingCall[b].seen[p] \/ <<holdingCall[b].call, p>> \in touched
      BY <2>1 DEF HoldingsInv, SeenUnlessTouched
    <3>3. QED
      BY <1>10a, <2>1, <3>1, <3>2
  <2>4. QED
    BY <2>2, <2>3
<1>11. PlansDrift'
  <2>1. ASSUME NEW plan \in plans'
        PROVE  /\ Drifts(plan.before, plan.target)
               /\ \A p \in HeldPapers :
                    /\ \/ Near(plan.after[p], plan.target[p])
                       \/ p \notin plan.traded /\ <<plan.call, p>> \in touched'
                    /\ plan.found[p] = plan.before[p] \/ <<plan.call, p>> \in touched'
    <3>1. CASE plan \in plans
      BY <1>10a, <3>1 DEF HoldingsInv, PlansDrift
    <3>2. CASE plan \notin plans
      <4>1. /\ plan.call = holdingCall[c].call /\ plan.before = seen /\ plan.found = amount
            /\ plan.after = amount' /\ plan.traded = traded /\ plan.target = target
        BY <1>1, <2>1, <3>2
      <4>2. ASSUME NEW p \in HeldPapers
            PROVE  /\ \/ Near(amount'[p], target[p])
                      \/ p \notin traded /\ <<holdingCall[c].call, p>> \in touched'
                   /\ amount[p] = seen[p] \/ <<holdingCall[c].call, p>> \in touched'
        <5>1. amount[p] = seen[p] \/ <<holdingCall[c].call, p>> \in touched'
          BY <1>5a, <1>10a
        <5>2. CASE p \in traded
          <6>1. amount'[p] = target[p] /\ target[p] \in Nat
            BY <1>1, <1>2, <1>5, <5>2
          <6>2. QED
            BY <5>1, <6>1, HoldingsAssumption DEF Near, Abs
        <5>3. CASE p \notin traded
          <6>1. amount'[p] = amount[p] /\ Near(seen[p], target[p])
            BY <1>1, <1>4, <5>3 DEF Near
          <6>2. QED
            BY <5>1, <5>3, <6>1
        <5>4. QED
          BY <5>2, <5>3
      <4>3. QED
        BY <1>3, <4>1, <4>2
    <3>3. QED
      BY <3>1, <3>2
  <2>2. \A b \in HoldingCalls :
          holdingCall'[b].pc = "plan" => Drifts(holdingCall'[b].seen, holdingCall'[b].target)
    BY <1>8 DEF HoldingsInv, PlansDrift
  <2>3. QED
    BY <2>1, <2>2 DEF PlansDrift
<1>12. OvertakenShared'
  BY <1>1, <1>7, <1>8 DEF HoldingsInv, OvertakenShared
<1>13. LastAsked'
  BY <1>1, <1>7 DEF HoldingsInv, LastAsked, SharedTime
<1>14. QED
  BY <1>9, <1>10, <1>11, <1>12, <1>13, <1>10b DEF HoldingsInv

(* Of the requests for one day the one that writes last has the day, and   *)
(* whichever began after it shared time with it.                           *)
LEMMA SaveSnapshotInv ==
  ASSUME HoldingsInv, NEW c \in HoldingCalls, SaveSnapshot(c)
  PROVE  HoldingsInv'
<1> DEFINE n == holdingCall[c].call
           day == holdingCall[c].day
           row == [value |-> holdingCall[c].value, call |-> n]
           fails == holdingCall[c].pc = "insert" /\ dayValue[day] # NoSnapshot
<1>1. /\ holdingCall[c].pc \in {"insert", "update"}
      /\ CallMoves(c, Free)
      /\ dayValue' = IF fails THEN dayValue ELSE [dayValue EXCEPT ![day] = row]
      /\ asked' = asked \cup {[call |-> n, day |-> day]}
      /\ UNCHANGED <<amount, booked, holdingDay, plans, touched>>
  BY DEF SaveSnapshot, CallOver
<1>2. n \in 1 .. holdingCalls /\ holdingCalls \in Nat /\ day \in HoldingDays
  <2>1. CallOK(holdingCall[c])
    BY DEF HoldingsInv, HoldingsTypeOK
  <2>2. QED
    BY <1>1, <2>1 DEF CallOK, HoldingsInv, HoldingsTypeOK, BusyShares
<1>3. \A j \in 1 .. holdingCalls : j > n => <<n, j>> \in shared
  BY <1>1 DEF HoldingsInv, BusyShares
<1>4. fails => dayValue[day].call >= n \/ <<dayValue[day].call, n>> \in shared
  BY DEF HoldingsInv, OvertakenShared
<1>5. row.call = n
  OBVIOUS
<1> HIDE DEF n, day, row
<1>6. /\ holdingCalls' = holdingCalls /\ shared' = shared
      /\ DOMAIN holdingCall' = HoldingCalls /\ holdingCall'[c] = Free
      /\ \A b \in HoldingCalls \ {c} : holdingCall'[b] = holdingCall[b]
  BY <1>1 DEF CallMoves, HoldingsInv, HoldingsTypeOK
<1>7. \A b \in HoldingCalls : holdingCall'[b].pc # "free" => holdingCall'[b] = holdingCall[b]
  BY <1>6 DEF Free
<1>8. /\ DOMAIN dayValue' = HoldingDays
      /\ \A d \in HoldingDays \ {day} : dayValue'[d] = dayValue[d]
      /\ IF fails THEN dayValue'[day] = dayValue[day] ELSE dayValue'[day].call = n
  BY <1>1, <1>2, <1>5 DEF HoldingsInv, HoldingsTypeOK
<1> HIDE DEF fails
<1>9. \A d \in HoldingDays : dayValue'[d].call \in 0 .. holdingCalls
  BY <1>2, <1>8 DEF HoldingsInv, HoldingsTypeOK
<1>10. HoldingsTypeOK'
  <2>1. CallOK(Free)
    BY DEF Free, CallOK
  <2>2. \A b \in HoldingCalls : CallOK(holdingCall[b])'
    BY <1>6, <2>1 DEF HoldingsInv, HoldingsTypeOK, CallOK
  <2>3. \A a \in asked' : a.day \in HoldingDays /\ a.call \in 0 .. holdingCalls
    BY <1>1, <1>2 DEF HoldingsInv, HoldingsTypeOK
  <2>4. QED
    BY <1>1, <1>6, <1>8, <1>9, <2>2, <2>3 DEF HoldingsInv, HoldingsTypeOK
<1>11. BusyShares'
  BY <1>6, <1>7 DEF HoldingsInv, BusyShares
<1>12. PlansDrift' /\ SeenUnlessTouched'
  BY <1>1, <1>7 DEF HoldingsInv, PlansDrift, SeenUnlessTouched
<1>13. OvertakenShared'
  <2> SUFFICES ASSUME NEW b \in HoldingCalls, holdingCall'[b].pc = "insert",
                      dayValue'[holdingCall'[b].day] # NoSnapshot
               PROVE  \/ dayValue'[holdingCall'[b].day].call >= holdingCall'[b].call
                      \/ <<dayValue'[holdingCall'[b].day].call, holdingCall'[b].call>> \in shared
    BY <1>6 DEF OvertakenShared
  <2>1. holdingCall'[b] = holdingCall[b]
    BY <1>7
  <2>2. holdingCall[b].day \in HoldingDays /\ holdingCall[b].call \in 1 .. holdingCalls
    <3>1. CallOK(holdingCall[b])
      BY DEF HoldingsInv, HoldingsTypeOK
    <3>2. QED
      BY <2>1, <3>1 DEF CallOK, HoldingsInv, BusyShares
  <2>3. CASE dayValue'[holdingCall[b].day] = dayValue[holdingCall[b].day]
    BY <2>1, <2>3 DEF HoldingsInv, OvertakenShared
  <2>4. CASE dayValue'[holdingCall[b].day].call = n
    BY <1>2, <1>3, <2>1, <2>2, <2>4
  <2>5. QED
    BY <1>8, <2>2, <2>3, <2>4
<1>14. LastAsked'
  <2> SUFFICES ASSUME NEW a \in asked'
               PROVE  \/ dayValue'[a.day].call >= a.call
                      \/ <<dayValue'[a.day].call, a.call>> \in shared'
                      \/ <<a.call, dayValue'[a.day].call>> \in shared'
    BY DEF LastAsked, SharedTime
  <2>1. a.day \in HoldingDays /\ a.call \in 0 .. holdingCalls
    BY <1>1, <1>2 DEF HoldingsInv, HoldingsTypeOK
  <2>2. CASE a \in asked /\ dayValue'[a.day] = dayValue[a.day]
    BY <1>6, <1>9, <2>1, <2>2 DEF HoldingsInv, LastAsked, SharedTime
  <2>3. CASE dayValue'[a.day].call = n
    BY <1>2, <1>3, <1>6, <2>1, <2>3
  <2>4. CASE a.call = n /\ a.day = day
    BY <1>2, <1>4, <1>6, <1>8, <1>9, <2>4
  <2>5. QED
    BY <1>1, <1>8, <2>1, <2>2, <2>3, <2>4
<1>15. QED
  BY <1>1, <1>10, <1>11, <1>12, <1>13, <1>14 DEF HoldingsInv

LEMMA HoldingsStepInv == HoldingsInv /\ [HoldingsNext]_holdingVars => HoldingsInv'
<1> SUFFICES ASSUME HoldingsInv, [HoldingsNext]_holdingVars PROVE HoldingsInv'
  OBVIOUS
<1>1. ASSUME NEW p \in HeldPapers, DropPosition(p) \/ \E a \in EditAmounts : AddPosition(p, a)
      PROVE  HoldingsInv'
  BY <1>1, HoldingsAssumption, WritesInv DEF DropPosition, AddPosition
<1>2. CASE NextHoldingDay
  <2>1. holdingDay' \in HoldingDays
    BY <1>2, HoldingsAssumption DEF NextHoldingDay, HoldingsInv, HoldingsTypeOK, HoldingDays
  <2>2. SeenUnlessTouched'
    BY <1>2 DEF NextHoldingDay, HoldingsInv, SeenUnlessTouched
  <2>3. QED
    BY <1>2, <2>1, <2>2, CallsUnchangedInv DEF NextHoldingDay, HoldingsInv, HoldingsTypeOK
<1>3. CASE UNCHANGED holdingVars \/ RecordTransaction \/ DeleteTransaction
  <2>1. UNCHANGED <<amount, holdingCall, holdingCalls, holdingDay, dayValue, plans, touched, shared, asked>>
    BY <1>3 DEF holdingVars, RecordTransaction, DeleteTransaction, othersStay
  <2>2. SeenUnlessTouched'
    BY <2>1 DEF HoldingsInv, SeenUnlessTouched
  <2>3. QED
    BY <2>1, <2>2, CallsUnchangedInv DEF HoldingsInv, HoldingsTypeOK
<1>4. QED
  BY <1>1, <1>2, <1>3, ReadPositionsInv, ReadNothingInv, ReadValueInv, CallGoesOnInv, CommitPlanInv,
     SaveSnapshotInv DEF HoldingsNext

(* Rebalances that overlap each other and the user's own changes bring the *)
(* positions to their target, but for one they do not trade and that was   *)
(* written meanwhile, and overwrite only what came while they were in      *)
(* progress; a day's snapshot is that of its last request that found       *)
(* anything, unless another was in progress: for any bonds, amounts and    *)
(* targets, and any number of requests.                                    *)
THEOREM HoldingsAreSound == HoldingsSpec => []HoldingsSound
<1>1. HoldingsInv => HoldingsSound
  BY DEF HoldingsInv, PlansDrift, LastAsked, HoldingsSound
<1>2. QED
  BY <1>1, HoldingsInitInv, HoldingsStepInv, PTL DEF HoldingsSpec

-----------------------------------------------------------------------------
(* BotFront: the inductive invariant.                                      *)
PrefsRow == [capital : Nat, strategy : Strategies, watch : SUBSET WatchPapers, version : Nat]

ChangeOK(c) ==
  \/ c.field = "capital" /\ c.value \in Nat
  \/ c.field = "strategy" /\ c.value \in Strategies
  \/ c.field \in {"watch", "unwatch"} /\ c.value \in WatchPapers

TaskOK(t) ==
  /\ t.pc \in {"rest", "parse", "gate", "reply", "read", "write", "amount"}
  /\ t.pc \in {"gate", "reply"} => t.user \in TgUsers
  /\ t.pc \in {"read", "write"} =>
       t.id \in TgUsers /\ t.prompt \in {NoPrompt} \cup DOMAIN prompts /\ ChangeOK(t.change)
  /\ t.pc = "write" => t.row \in PrefsRow
  /\ t.pc = "amount" => t.id \in TgUsers /\ t.prompt \in DOMAIN prompts

FrontTypeOK ==
  /\ \E k \in Nat : DOMAIN prompts = 1 .. k
  /\ writes \in [DOMAIN prompts -> 0 .. 1]
  /\ pendingEdit \in [TgUsers -> {NoPrompt} \cup DOMAIN prompts]
  /\ pendingPosition \in [TgUsers -> {NoPrompt} \cup DOMAIN prompts]
  /\ DOMAIN botTask = BotTasks
  /\ \A t \in BotTasks : TaskOK(botTask[t])
  /\ prefsRow \in [ChatIds -> PrefsRow]
  /\ expectedRow \in [ChatIds -> PrefsRow]
  /\ DOMAIN positionRow = ChatIds

(* A prompt is open in one dialog, or answered by one task, or neither;    *)
(* and while it is, no reply to it has written anything.                   *)
Carries(t, n) == botTask[t].pc \in {"read", "write", "amount"} /\ botTask[t].prompt = n

HeldOnce(n) ==
  /\ \A u, v \in TgUsers :
       /\ pendingEdit[u] = n /\ pendingEdit[v] = n => u = v
       /\ pendingPosition[u] = n /\ pendingPosition[v] = n => u = v
       /\ ~(pendingEdit[u] = n /\ pendingPosition[v] = n)
  /\ \A s, t \in BotTasks : Carries(s, n) /\ Carries(t, n) => s = t
  /\ \A t \in BotTasks, u \in TgUsers :
       ~(Carries(t, n) /\ (pendingEdit[u] = n \/ pendingPosition[u] = n))
  /\ \A t \in BotTasks : Carries(t, n) => writes[n] = 0
  /\ \A u \in TgUsers : pendingEdit[u] = n \/ pendingPosition[u] = n => writes[n] = 0

AskedAsPro == \A n \in DOMAIN prompts : prompts[n].dialog = "position" => prompts[n].asPro

ParseHoldsLock ==
  /\ parseLock \in BotTasks \cup {"free"}
  /\ \A t \in BotTasks : botTask[t].pc = "parse" <=> parseLock = t

(* What a task is about to write over is no newer than the row it read,    *)
(* and of one version there is one row.                                    *)
ReadIsNotNewer ==
  \A t \in BotTasks : botTask[t].pc = "write" =>
    LET now == prefsRow[botTask[t].id]
    IN /\ botTask[t].row.version =< now.version
       /\ botTask[t].row.version = now.version => botTask[t].row = now

RowsAddUp ==
  /\ prefsRow[BotId] = DefaultPrefs /\ positionRow[BotId] = {}
  /\ \A i \in ChatIds \ rowOverlapped : WithoutVersion(prefsRow[i]) = expectedRow[i]

FrontInv ==
  /\ FrontTypeOK
  /\ \A n \in DOMAIN prompts : HeldOnce(n)
  /\ AskedAsPro /\ ParseHoldsLock /\ ReadIsNotNewer /\ RowsAddUp

LEMMA FrontInitInv == BotFrontInit => FrontInv
<1> SUFFICES ASSUME BotFrontInit PROVE FrontInv
  OBVIOUS
<1>1. DOMAIN prompts = 1 .. 0 /\ DOMAIN prompts = {}
  BY DEF BotFrontInit, BotFrontInitWith
<1>2. FrontTypeOK
  <2>1. DefaultPrefs \in PrefsRow
    BY DEF DefaultPrefs, PrefsRow, Strategies
  <2>2. prefsRow \in [ChatIds -> PrefsRow] /\ expectedRow \in [ChatIds -> PrefsRow]
    BY <2>1 DEF BotFrontInit, BotFrontInitWith
  <2>3. DOMAIN botTask = BotTasks /\ \A t \in BotTasks : TaskOK(botTask[t])
    BY DEF BotFrontInit, BotFrontInitWith, TaskOK, BotRests
  <2>4. writes \in [DOMAIN prompts -> 0 .. 1]
    BY <1>1 DEF BotFrontInit, BotFrontInitWith
  <2>5. /\ pendingEdit \in [TgUsers -> {NoPrompt} \cup DOMAIN prompts]
        /\ pendingPosition \in [TgUsers -> {NoPrompt} \cup DOMAIN prompts]
        /\ DOMAIN positionRow = ChatIds
    BY DEF BotFrontInit, BotFrontInitWith
  <2>6. QED
    BY <1>1, <2>2, <2>3, <2>4, <2>5 DEF FrontTypeOK
<1>3. AskedAsPro /\ ParseHoldsLock /\ ReadIsNotNewer
  BY <1>1, BotFrontAssumption
     DEF BotFrontInit, BotFrontInitWith, AskedAsPro, ParseHoldsLock, ReadIsNotNewer, BotRests
<1>4. RowsAddUp
  BY DEF BotFrontInit, BotFrontInitWith, RowsAddUp, ChatIds, WithoutVersion, DefaultPrefs
<1>5. QED
  BY <1>1, <1>2, <1>3, <1>4 DEF FrontInv

LEMMA NoPromptIsNone == FrontTypeOK => NoPrompt \notin DOMAIN prompts
BY DEF FrontTypeOK, NoPrompt

(* A task goes on: it may have taken a prompt out of its dialog.           *)
LEMMA FrontTaskMoves ==
  ASSUME FrontInv, NEW t \in BotTasks, NEW to, BotGoes(t, to), TaskOK(to),
         UNCHANGED <<prompts, writes, prefsRow, expectedRow, rowOverlapped, positionRow, parseLock>>,
         pendingEdit' \in [TgUsers -> {NoPrompt} \cup DOMAIN prompts],
         pendingPosition' \in [TgUsers -> {NoPrompt} \cup DOMAIN prompts],
         \A u \in TgUsers : pendingEdit'[u] \in {pendingEdit[u], NoPrompt},
         \A u \in TgUsers : pendingPosition'[u] \in {pendingPosition[u], NoPrompt},
         botTask[t].pc # "parse", to.pc # "parse",
         to.pc = "write" => to.row = prefsRow[to.id],
         to.pc \in {"read", "write", "amount"} =>
           \/ to.prompt = NoPrompt
           \/ Carries(t, to.prompt)
           \/ /\ \E u \in TgUsers : pendingEdit[u] = to.prompt \/ pendingPosition[u] = to.prompt
              /\ \A u \in TgUsers : pendingEdit'[u] # to.prompt /\ pendingPosition'[u] # to.prompt
  PROVE  FrontInv'
<1>1. /\ DOMAIN botTask' = BotTasks /\ botTask'[t] = to
      /\ \A s \in BotTasks \ {t} : botTask'[s] = botTask[s]
  BY DEF BotGoes, FrontInv, FrontTypeOK
<1>2. FrontTypeOK'
  <2>1. \A s \in BotTasks : TaskOK(botTask[s])'
    BY <1>1 DEF FrontInv, FrontTypeOK, TaskOK
  <2>2. QED
    BY <1>1, <2>1 DEF FrontInv, FrontTypeOK
<1>3. ASSUME NEW n \in DOMAIN prompts
      PROVE  HeldOnce(n)'
  <2>1. HeldOnce(n) /\ n # NoPrompt
    BY NoPromptIsNone DEF FrontInv
  <2>2. \A s \in BotTasks \ {t} : Carries(s, n)' <=> Carries(s, n)
    BY <1>1 DEF Carries
  <2>3. \A u \in TgUsers : /\ pendingEdit'[u] = n => pendingEdit[u] = n
                           /\ pendingPosition'[u] = n => pendingPosition[u] = n
    BY <2>1
  <2>4. CASE ~Carries(t, n)'
    BY <2>1, <2>2, <2>3, <2>4 DEF HeldOnce
  <2>5. CASE Carries(t, n)' /\ Carries(t, n)
    BY <2>1, <2>2, <2>3, <2>5 DEF HeldOnce
  <2>6. CASE Carries(t, n)' /\ ~Carries(t, n)
    <3>1. /\ \E u \in TgUsers : pendingEdit[u] = n \/ pendingPosition[u] = n
          /\ \A u \in TgUsers : pendingEdit'[u] # n /\ pendingPosition'[u] # n
      BY <1>1, <2>1, <2>6 DEF Carries
    <3>2. \A s \in BotTasks : ~Carries(s, n)
      BY <2>1, <3>1 DEF HeldOnce
    <3>3. writes[n] = 0
      BY <2>1, <3>1 DEF HeldOnce
    <3>4. QED
      BY <2>2, <2>6, <3>1, <3>2, <3>3 DEF HeldOnce
  <2>7. QED
    BY <2>4, <2>5, <2>6
<1>4. ParseHoldsLock'
  BY <1>1 DEF FrontInv, ParseHoldsLock
<1>5. ReadIsNotNewer'
  <2>1. to.pc = "write" => prefsRow[to.id].version =< prefsRow[to.id].version
    BY DEF TaskOK, FrontInv, FrontTypeOK, ChatIds, PrefsRow
  <2>2. QED
    BY <1>1, <2>1 DEF FrontInv, ReadIsNotNewer
<1>6. AskedAsPro' /\ RowsAddUp'
  BY DEF FrontInv, AskedAsPro, RowsAddUp
<1>7. QED
  BY <1>2, <1>3, <1>4, <1>5, <1>6 DEF FrontInv

(* A step of no task: dialogs may be closed, positions of users change.    *)
LEMMA FrontNoTask ==
  ASSUME FrontInv,
         UNCHANGED <<prompts, writes, prefsRow, expectedRow, rowOverlapped, botTask, parseLock>>,
         pendingEdit' \in [TgUsers -> {NoPrompt} \cup DOMAIN prompts],
         pendingPosition' \in [TgUsers -> {NoPrompt} \cup DOMAIN prompts],
         \A u \in TgUsers : pendingEdit'[u] \in {pendingEdit[u], NoPrompt},
         \A u \in TgUsers : pendingPosition'[u] \in {pendingPosition[u], NoPrompt},
         DOMAIN positionRow' = ChatIds, positionRow'[BotId] = {}
  PROVE  FrontInv'
<1>1. FrontTypeOK'
  BY DEF FrontInv, FrontTypeOK, TaskOK
<1>2. ASSUME NEW n \in DOMAIN prompts
      PROVE  HeldOnce(n)'
  <2>1. HeldOnce(n) /\ n # NoPrompt
    BY NoPromptIsNone DEF FrontInv
  <2>2. \A u \in TgUsers : /\ pendingEdit'[u] = n => pendingEdit[u] = n
                           /\ pendingPosition'[u] = n => pendingPosition[u] = n
    BY <2>1
  <2>3. \A s \in BotTasks : Carries(s, n)' <=> Carries(s, n)
    BY DEF Carries
  <2>4. QED
    BY <2>1, <2>2, <2>3 DEF HeldOnce
<1>3. AskedAsPro' /\ ParseHoldsLock' /\ ReadIsNotNewer' /\ RowsAddUp'
  BY DEF FrontInv, AskedAsPro, ParseHoldsLock, ReadIsNotNewer, RowsAddUp
<1>4. QED
  BY <1>1, <1>2, <1>3 DEF FrontInv

LEMMA ClosedDialogs ==
  ASSUME NEW pending \in [TgUsers -> {NoPrompt} \cup DOMAIN prompts], NEW u \in TgUsers
  PROVE  /\ [pending EXCEPT ![u] = NoPrompt] \in [TgUsers -> {NoPrompt} \cup DOMAIN prompts]
         /\ \A v \in TgUsers : [pending EXCEPT ![u] = NoPrompt][v] \in {pending[v], NoPrompt}
  OBVIOUS

(* A prompt is new, and it is the user's.                                  *)
LEMMA DialogOpens ==
  ASSUME FrontInv, NEW u \in TgUsers, NEW prompt,
         prompt.dialog = "position" => prompt.asPro,
         \/ Opens(u, pendingEdit, prompt) /\ UNCHANGED pendingPosition
         \/ Opens(u, pendingPosition, prompt) /\ UNCHANGED pendingEdit,
         DOMAIN botTask' = BotTasks,
         \A t \in BotTasks : \/ botTask'[t] = botTask[t]
                             \/ botTask[t].pc = "gate" /\ botTask'[t] = BotRests,
         UNCHANGED <<prefsRow, expectedRow, rowOverlapped, positionRow, parseLock>>
  PROVE  FrontInv'
<1>1. PICK k \in Nat : DOMAIN prompts = 1 .. k
  BY DEF FrontInv, FrontTypeOK
<1>2. Cardinality(DOMAIN prompts) = k
  BY <1>1, FS_Interval
<1>0. PICK n \in Nat : n = k + 1
  OBVIOUS
<1>3. /\ prompts' = [i \in DOMAIN prompts \cup {n} |-> IF i = n THEN prompt ELSE prompts[i]]
      /\ writes' = [i \in DOMAIN writes \cup {n} |-> IF i = n THEN 0 ELSE writes[i]]
      /\ \/ pendingEdit' = [pendingEdit EXCEPT ![u] = n] /\ pendingPosition' = pendingPosition
         \/ pendingPosition' = [pendingPosition EXCEPT ![u] = n] /\ pendingEdit' = pendingEdit
  BY <1>0, <1>2 DEF Opens
<1>4. /\ DOMAIN writes = DOMAIN prompts /\ writes \in [DOMAIN prompts -> 0 .. 1]
      /\ pendingEdit \in [TgUsers -> {NoPrompt} \cup DOMAIN prompts]
      /\ pendingPosition \in [TgUsers -> {NoPrompt} \cup DOMAIN prompts]
  BY DEF FrontInv, FrontTypeOK
<1>5. DOMAIN prompts' = 1 .. n /\ DOMAIN prompts' = DOMAIN prompts \cup {n} /\ n \notin DOMAIN prompts
  BY <1>0, <1>1, <1>3
<1>6. /\ writes' \in [DOMAIN prompts' -> 0 .. 1] /\ writes'[n] = 0
      /\ \A i \in DOMAIN prompts : writes'[i] = writes[i] /\ prompts'[i] = prompts[i]
  BY <1>3, <1>4, <1>5
<1>7. /\ pendingEdit' \in [TgUsers -> {NoPrompt} \cup DOMAIN prompts']
      /\ pendingPosition' \in [TgUsers -> {NoPrompt} \cup DOMAIN prompts']
  BY <1>3, <1>4, <1>5
<1>8. n # NoPrompt /\ NoPrompt \notin DOMAIN prompts
  BY <1>0, <1>1 DEF NoPrompt
<1>9. ASSUME NEW v \in TgUsers
      PROVE  /\ pendingEdit[v] # n /\ pendingPosition[v] # n
             /\ pendingEdit'[v] = pendingEdit[v] \/ pendingEdit'[v] = n
             /\ pendingPosition'[v] = pendingPosition[v] \/ pendingPosition'[v] = n
  <2>1. /\ pendingEdit[v] \in {NoPrompt} \cup DOMAIN prompts
        /\ pendingPosition[v] \in {NoPrompt} \cup DOMAIN prompts
    BY <1>4
  <2>2. pendingEdit[v] # n /\ pendingPosition[v] # n
    BY <1>5, <1>8, <2>1
  <2>3. \/ pendingEdit'[v] = pendingEdit[v] /\ pendingPosition'[v] = pendingPosition[v]
        \/ v = u /\ pendingEdit'[v] = n /\ pendingPosition' = pendingPosition
        \/ v = u /\ pendingPosition'[v] = n /\ pendingEdit' = pendingEdit
    BY <1>3, <1>4
  <2>4. QED
    BY <2>2, <2>3
<1>10. \A v \in TgUsers : /\ pendingEdit'[v] = n => v = u /\ pendingPosition' = pendingPosition
                          /\ pendingPosition'[v] = n => v = u /\ pendingEdit' = pendingEdit
  BY <1>3, <1>4, <1>9
<1>11. prompts'[n] = prompt
  BY <1>3, <1>5
<1>12. ASSUME NEW t \in BotTasks
       PROVE  TaskOK(botTask[t])'
  <2>1. TaskOK(botTask[t])
    BY DEF FrontInv, FrontTypeOK
  <2>2. CASE botTask'[t] = botTask[t]
    BY <1>5, <2>1, <2>2 DEF TaskOK
  <2>3. CASE botTask'[t] = BotRests
    BY <2>3 DEF TaskOK, BotRests
  <2>4. QED
    BY <2>2, <2>3
<1>13. FrontTypeOK'
  BY <1>5, <1>6, <1>7, <1>12 DEF FrontInv, FrontTypeOK
<1>14. ASSUME NEW m \in DOMAIN prompts', NEW t \in BotTasks
       PROVE  Carries(t, m)' => m \in DOMAIN prompts /\ Carries(t, m)
  <2>1. CASE botTask'[t] = BotRests
    BY <2>1 DEF Carries, BotRests
  <2>2. CASE botTask'[t] = botTask[t]
    <3>1. TaskOK(botTask[t])
      BY DEF FrontInv, FrontTypeOK
    <3>2. m # NoPrompt
      BY <1>5, <1>8
    <3>3. QED
      BY <2>2, <3>1, <3>2 DEF TaskOK, Carries
  <2>3. QED
    BY <2>1, <2>2
<1>15. HeldOnce(n)'
  <2>1. \A t \in BotTasks : ~Carries(t, n)'
    BY <1>5, <1>14
  <2>2. \A v, w \in TgUsers :
          /\ pendingEdit'[v] = n /\ pendingEdit'[w] = n => v = w
          /\ pendingPosition'[v] = n /\ pendingPosition'[w] = n => v = w
          /\ ~(pendingEdit'[v] = n /\ pendingPosition'[w] = n)
    BY <1>9, <1>10
  <2>3. QED
    BY <1>6, <2>1, <2>2 DEF HeldOnce, Carries
<1>16. ASSUME NEW m \in DOMAIN prompts
       PROVE  HeldOnce(m)'
  <2>1. HeldOnce(m) /\ m # n
    BY <1>5 DEF FrontInv
  <2>2. \A v \in TgUsers : /\ pendingEdit'[v] = m => pendingEdit[v] = m
                           /\ pendingPosition'[v] = m => pendingPosition[v] = m
    BY <1>9, <2>1
  <2>3. \A t \in BotTasks : Carries(t, m)' => Carries(t, m)
    BY <1>5, <1>14
  <2>4. writes'[m] = writes[m]
    BY <1>6
  <2>5. \A v, w \in TgUsers :
          /\ pendingEdit'[v] = m /\ pendingEdit'[w] = m => v = w
          /\ pendingPosition'[v] = m /\ pendingPosition'[w] = m => v = w
          /\ ~(pendingEdit'[v] = m /\ pendingPosition'[w] = m)
    BY <2>1, <2>2 DEF HeldOnce, Carries
  <2>6. \A s, t \in BotTasks : Carries(s, m)' /\ Carries(t, m)' => s = t
    BY <2>1, <2>3 DEF HeldOnce, Carries
  <2>7. \A t \in BotTasks, v \in TgUsers :
          ~(Carries(t, m)' /\ (pendingEdit'[v] = m \/ pendingPosition'[v] = m))
    BY <2>1, <2>2, <2>3 DEF HeldOnce, Carries
  <2>8. \A t \in BotTasks : Carries(t, m)' => writes'[m] = 0
    BY <2>1, <2>3, <2>4 DEF HeldOnce, Carries
  <2>9. \A v \in TgUsers : pendingEdit'[v] = m \/ pendingPosition'[v] = m => writes'[m] = 0
    BY <2>1, <2>2, <2>4 DEF HeldOnce, Carries
  <2>10. QED
    BY <2>5, <2>6, <2>7, <2>8, <2>9 DEF HeldOnce, Carries
<1>17. AskedAsPro'
  BY <1>5, <1>6, <1>11 DEF FrontInv, AskedAsPro
<1>18. ParseHoldsLock'
  BY DEF FrontInv, ParseHoldsLock, BotRests
<1>19. ReadIsNotNewer' /\ RowsAddUp'
  BY DEF FrontInv, ReadIsNotNewer, RowsAddUp, BotRests
<1>20. QED
  BY <1>5, <1>13, <1>15, <1>16, <1>17, <1>18, <1>19 DEF FrontInv

LEMMA PressEditInv ==
  ASSUME FrontInv, NEW u \in TgUsers, PressEdit(u)
  PROVE  FrontInv'
<1> DEFINE prompt == [dialog |-> "edit", user |-> u]
<1>1. /\ Opens(u, pendingEdit, prompt) /\ UNCHANGED pendingPosition
      /\ UNCHANGED <<prefsRow, expectedRow, rowOverlapped, positionRow, parseLock, botTask>>
  BY DEF PressEdit, rowVars, marketVars
<1>2. prompt.dialog = "position" => prompt.asPro
  OBVIOUS
<1>3. DOMAIN botTask' = BotTasks
  BY <1>1 DEF FrontInv, FrontTypeOK
<1> HIDE DEF prompt
<1>4. QED
  BY <1>1, <1>2, <1>3, DialogOpens

LEMMA CheckTierInv ==
  ASSUME FrontInv, NEW t \in BotTasks, CheckTier(t)
  PROVE  FrontInv'
<1> DEFINE u == botTask[t].user
           prompt == [dialog |-> "position", user |-> u, paper |-> botTask[t].paper,
                      asPro |-> isPro[u]]
<1>1. /\ botTask[t].pc = "gate" /\ BotGoes(t, BotRests)
      /\ UNCHANGED <<pendingEdit, prefsRow, expectedRow, rowOverlapped, positionRow, parseLock>>
  BY DEF CheckTier, BotDone, rowVars, marketVars
<1>2. u \in TgUsers
  <2>1. TaskOK(botTask[t])
    BY DEF FrontInv, FrontTypeOK
  <2>2. QED
    BY <1>1, <2>1 DEF TaskOK
<1>3. CASE isPro[u]
  <2>1. Opens(u, pendingPosition, prompt)
    BY <1>3 DEF CheckTier, GateOpen
  <2>2. prompt.dialog = "position" => prompt.asPro
    BY <1>3
  <2>3. /\ DOMAIN botTask' = BotTasks
        /\ \A s \in BotTasks : \/ botTask'[s] = botTask[s]
                               \/ botTask[s].pc = "gate" /\ botTask'[s] = BotRests
    BY <1>1 DEF BotGoes, FrontInv, FrontTypeOK
  <2> HIDE DEF prompt, u
  <2>4. QED
    BY <1>1, <1>2, <2>1, <2>2, <2>3, DialogOpens
<1>4. CASE ~isPro[u]
  <2>1. UNCHANGED <<pendingPosition, prompts, writes>>
    BY <1>4 DEF CheckTier, GateOpen
  <2>2. TaskOK(BotRests) /\ BotRests.pc = "rest"
    BY DEF TaskOK, BotRests
  <2>3. /\ pendingEdit \in [TgUsers -> {NoPrompt} \cup DOMAIN prompts]
        /\ pendingPosition \in [TgUsers -> {NoPrompt} \cup DOMAIN prompts]
    BY DEF FrontInv, FrontTypeOK
  <2>4. QED
    BY <1>1, <2>1, <2>2, <2>3, FrontTaskMoves
<1>5. QED
  BY <1>3, <1>4

(* A task that takes no prompt, and changes nothing else.                  *)
LEMMA FrontTaskOnly ==
  ASSUME FrontInv, NEW t \in BotTasks, NEW to, BotGoes(t, to), TaskOK(to),
         UNCHANGED <<dialogVars, prefsRow, expectedRow, rowOverlapped, positionRow, parseLock>>,
         botTask[t].pc # "parse", to.pc # "parse",
         to.pc = "write" => to.row = prefsRow[to.id],
         to.pc \in {"read", "write", "amount"} => to.prompt = NoPrompt \/ Carries(t, to.prompt)
  PROVE  FrontInv'
<1>1. /\ pendingEdit \in [TgUsers -> {NoPrompt} \cup DOMAIN prompts]
      /\ pendingPosition \in [TgUsers -> {NoPrompt} \cup DOMAIN prompts]
  BY DEF FrontInv, FrontTypeOK
<1>2. QED
  BY <1>1, FrontTaskMoves DEF dialogVars

LEMMA TaskGoesOnInv ==
  ASSUME FrontInv, NEW t \in BotTasks,
         \/ \E u \in TgUsers, p \in WatchPapers : PressAdd(t, u, p)
         \/ \E u \in TgUsers, text \in {"number", "other"} : TextReply(t, u, text)
         \/ \E u \in TgUsers, c \in PrefChanges : StartChange(t, u, c)
         \/ Throttled(t)
  PROVE  FrontInv'
<1>1. ASSUME NEW u \in TgUsers, NEW p \in WatchPapers, PressAdd(t, u, p)
      PROVE  FrontInv'
  <2> DEFINE to == [pc |-> "gate", user |-> u, paper |-> p]
  <2>1. /\ BotGoes(t, to) /\ botTask[t].pc = "rest"
        /\ UNCHANGED <<dialogVars, prefsRow, expectedRow, rowOverlapped, positionRow, parseLock>>
    BY <1>1 DEF PressAdd, Unoccupied, rowVars, marketVars
  <2>2. TaskOK(to) /\ to.pc = "gate"
    BY DEF TaskOK
  <2> HIDE DEF to
  <2>3. QED
    BY <2>1, <2>2, FrontTaskOnly
<1>2. ASSUME NEW u \in TgUsers, NEW text, NEW dialog, botTask[t].pc = "rest",
             BotGoes(t, [pc |-> "reply", dialog |-> dialog, user |-> u, text |-> text]),
             UNCHANGED <<dialogVars, prefsRow, expectedRow, rowOverlapped, positionRow, parseLock>>
      PROVE  FrontInv'
  <2> DEFINE to == [pc |-> "reply", dialog |-> dialog, user |-> u, text |-> text]
  <2>1. TaskOK(to) /\ to.pc = "reply" /\ BotGoes(t, to)
    BY <1>2 DEF TaskOK
  <2> HIDE DEF to
  <2>2. QED
    BY <1>2, <2>1, FrontTaskOnly
<1>3. ASSUME NEW u \in TgUsers, NEW text \in {"number", "other"}, TextReply(t, u, text)
      PROVE  FrontInv'
  BY <1>2, <1>3 DEF TextReply, Unoccupied, rowVars, marketVars
<1>4. ASSUME NEW u \in TgUsers, NEW c \in PrefChanges, StartChange(t, u, c)
      PROVE  FrontInv'
  <2> DEFINE to == [pc |-> "read", id |-> u, prompt |-> NoPrompt, change |-> c]
  <2>1. /\ BotGoes(t, to) /\ botTask[t].pc = "rest"
        /\ UNCHANGED <<dialogVars, prefsRow, expectedRow, rowOverlapped, positionRow, parseLock>>
    BY <1>4 DEF StartChange, Unoccupied, Changer, marketVars
  <2>2. ChangeOK(c)
    BY DEF PrefChanges, ChangeOK
  <2>3. TaskOK(to) /\ to.pc = "read" /\ to.prompt = NoPrompt
    BY <2>2 DEF TaskOK
  <2> HIDE DEF to
  <2>4. QED
    BY <2>1, <2>3, FrontTaskOnly
<1>5. CASE Throttled(t)
  <2>1. /\ BotGoes(t, BotRests) /\ botTask[t].pc = "reply"
        /\ UNCHANGED <<dialogVars, prefsRow, expectedRow, rowOverlapped, positionRow, parseLock>>
    BY <1>5 DEF Throttled, BotDone, rowVars, marketVars
  <2>2. TaskOK(BotRests) /\ BotRests.pc = "rest"
    BY DEF TaskOK, BotRests
  <2>3. QED
    BY <2>1, <2>2, FrontTaskOnly
<1>6. QED
  BY <1>1, <1>3, <1>4, <1>5

LEMMA ReadPrefsInv ==
  ASSUME FrontInv, NEW t \in BotTasks, ReadPrefs(t)
  PROVE  FrontInv'
<1> DEFINE task == botTask[t]
           to == [pc |-> "write", id |-> task.id, prompt |-> task.prompt,
                  change |-> task.change, row |-> prefsRow[task.id]]
<1>1. /\ task.pc = "read"
      /\ BotGoes(t, to) \/ BotGoes(t, BotRests)
      /\ UNCHANGED <<dialogVars, prefsRow, expectedRow, rowOverlapped, positionRow, parseLock>>
  BY DEF ReadPrefs, BotDone, rowVars, marketVars
<1>2. TaskOK(task)
  BY DEF FrontInv, FrontTypeOK
<1>3. prefsRow[task.id] \in PrefsRow
  BY <1>1, <1>2 DEF TaskOK, FrontInv, FrontTypeOK, ChatIds
<1>4. /\ TaskOK(to) /\ to.pc = "write" /\ to.row = prefsRow[to.id]
      /\ to.prompt = task.prompt
  BY <1>1, <1>2, <1>3 DEF TaskOK
<1>5. Carries(t, task.prompt)
  BY <1>1 DEF Carries
<1>6. TaskOK(BotRests) /\ BotRests.pc = "rest"
  BY DEF TaskOK, BotRests
<1> HIDE DEF to
<1>7. CASE BotGoes(t, to)
  BY <1>1, <1>4, <1>5, <1>7, FrontTaskOnly
<1>8. CASE BotGoes(t, BotRests)
  BY <1>1, <1>6, <1>8, FrontTaskOnly
<1>9. QED
  BY <1>1, <1>7, <1>8

(* pop: the dialog is closed and the reply has its prompt, or another      *)
(* reply took it before.                                                   *)
LEMMA TakeEditInv ==
  ASSUME FrontInv, NEW t \in BotTasks, TakeEdit(t)
  PROVE  FrontInv'
<1> DEFINE u == botTask[t].user
           n == pendingEdit[u]
           to == [pc |-> "read", id |-> u, prompt |-> n,
                  change |-> [field |-> "capital", value |-> n]]
<1>1. /\ botTask[t].pc = "reply"
      /\ pendingEdit' = [pendingEdit EXCEPT ![u] = NoPrompt]
      /\ (n # NoPrompt /\ BotGoes(t, to)) \/ BotGoes(t, BotRests)
      /\ UNCHANGED <<pendingPosition, prompts, writes, prefsRow, expectedRow, rowOverlapped,
                     positionRow, parseLock>>
  BY DEF TakeEdit, Popped, BotDone, rowVars, marketVars
<1>2. u \in TgUsers
  <2>1. TaskOK(botTask[t])
    BY DEF FrontInv, FrontTypeOK
  <2>2. QED
    BY <1>1, <2>1 DEF TaskOK
<1>3. /\ pendingEdit \in [TgUsers -> {NoPrompt} \cup DOMAIN prompts]
      /\ pendingPosition \in [TgUsers -> {NoPrompt} \cup DOMAIN prompts]
  BY DEF FrontInv, FrontTypeOK
<1>4. /\ pendingEdit' \in [TgUsers -> {NoPrompt} \cup DOMAIN prompts]
      /\ \A v \in TgUsers : pendingEdit'[v] \in {pendingEdit[v], NoPrompt}
  BY <1>1, <1>2, <1>3, ClosedDialogs
<1>5. CASE n # NoPrompt /\ BotGoes(t, to)
  <2>1. n \in DOMAIN prompts /\ n \in Nat
    BY <1>2, <1>3, <1>5 DEF FrontInv, FrontTypeOK
  <2>2. ChangeOK([field |-> "capital", value |-> n])
    BY <2>1 DEF ChangeOK
  <2>3. TaskOK(to) /\ to.pc = "read" /\ to.prompt = n
    BY <1>2, <2>1, <2>2 DEF TaskOK
  <2>4. HeldOnce(n)
    BY <2>1 DEF FrontInv
  <2>5. \A v \in TgUsers : pendingEdit'[v] # n /\ pendingPosition'[v] # n
    BY <1>1, <1>2, <1>3, <1>5, <2>4 DEF HeldOnce
  <2>6. \E v \in TgUsers : pendingEdit[v] = n \/ pendingPosition[v] = n
    BY <1>2
  <2> HIDE DEF to, n
  <2>7. QED
    BY <1>1, <1>3, <1>4, <1>5, <2>3, <2>5, <2>6, FrontTaskMoves
<1>6. CASE BotGoes(t, BotRests)
  <2>1. TaskOK(BotRests) /\ BotRests.pc = "rest"
    BY DEF TaskOK, BotRests
  <2>2. QED
    BY <1>1, <1>3, <1>4, <1>6, <2>1, FrontTaskMoves
<1>7. QED
  BY <1>1, <1>5, <1>6

LEMMA TakeAmountInv ==
  ASSUME FrontInv, NEW t \in BotTasks, TakeAmount(t)
  PROVE  FrontInv'
<1> DEFINE u == botTask[t].user
           n == pendingPosition[u]
           to == [pc |-> "amount", id |-> u, prompt |-> n]
<1>1. /\ botTask[t].pc = "reply"
      /\ pendingPosition' = [pendingPosition EXCEPT ![u] = NoPrompt]
      /\ (n # NoPrompt /\ BotGoes(t, to)) \/ BotGoes(t, BotRests)
      /\ UNCHANGED <<pendingEdit, prompts, writes, prefsRow, expectedRow, rowOverlapped,
                     positionRow, parseLock>>
  BY DEF TakeAmount, Popped, BotDone, rowVars, marketVars
<1>2. u \in TgUsers
  <2>1. TaskOK(botTask[t])
    BY DEF FrontInv, FrontTypeOK
  <2>2. QED
    BY <1>1, <2>1 DEF TaskOK
<1>3. /\ pendingEdit \in [TgUsers -> {NoPrompt} \cup DOMAIN prompts]
      /\ pendingPosition \in [TgUsers -> {NoPrompt} \cup DOMAIN prompts]
  BY DEF FrontInv, FrontTypeOK
<1>4. /\ pendingPosition' \in [TgUsers -> {NoPrompt} \cup DOMAIN prompts]
      /\ \A v \in TgUsers : pendingPosition'[v] \in {pendingPosition[v], NoPrompt}
  BY <1>1, <1>2, <1>3, ClosedDialogs
<1>5. CASE n # NoPrompt /\ BotGoes(t, to)
  <2>1. n \in DOMAIN prompts
    BY <1>2, <1>3, <1>5
  <2>2. TaskOK(to) /\ to.pc = "amount" /\ to.prompt = n
    BY <1>2, <2>1 DEF TaskOK
  <2>3. HeldOnce(n)
    BY <2>1 DEF FrontInv
  <2>4. \A v \in TgUsers : pendingEdit'[v] # n /\ pendingPosition'[v] # n
    BY <1>1, <1>2, <1>3, <1>5, <2>3 DEF HeldOnce
  <2>5. \E v \in TgUsers : pendingEdit[v] = n \/ pendingPosition[v] = n
    BY <1>2
  <2> HIDE DEF to, n
  <2>6. QED
    BY <1>1, <1>3, <1>4, <1>5, <2>2, <2>4, <2>5, FrontTaskMoves
<1>6. CASE BotGoes(t, BotRests)
  <2>1. TaskOK(BotRests) /\ BotRests.pc = "rest"
    BY DEF TaskOK, BotRests
  <2>2. QED
    BY <1>1, <1>3, <1>4, <1>6, <2>1, FrontTaskMoves
<1>7. QED
  BY <1>1, <1>5, <1>6

(* A reply has written: its prompt was held by this task alone, and now by *)
(* nothing.                                                                *)
LEMMA AnswerWritten ==
  ASSUME FrontInv, NEW t \in BotTasks, BotGoes(t, BotRests),
         UNCHANGED <<pendingEdit, pendingPosition, prompts>>,
         NEW n \in {NoPrompt} \cup DOMAIN prompts, Carries(t, n),
         writes' = IF n = NoPrompt THEN writes ELSE [writes EXCEPT ![n] = @ + 1]
  PROVE  /\ writes' \in [DOMAIN prompts -> 0 .. 1]
         /\ \A m \in DOMAIN prompts : HeldOnce(m)'
         /\ DOMAIN botTask' = BotTasks
         /\ \A s \in BotTasks : TaskOK(botTask[s])'
         /\ \A s \in BotTasks : botTask'[s].pc # "rest" => s # t /\ botTask'[s] = botTask[s]
         /\ \A s \in BotTasks \ {t} : botTask'[s] = botTask[s]
<1>1. /\ DOMAIN botTask' = BotTasks /\ botTask'[t] = BotRests
      /\ \A s \in BotTasks \ {t} : botTask'[s] = botTask[s]
  BY DEF BotGoes, FrontInv, FrontTypeOK
<1>2. writes \in [DOMAIN prompts -> 0 .. 1] /\ NoPrompt \notin DOMAIN prompts
  BY NoPromptIsNone DEF FrontInv, FrontTypeOK
<1>3. n \in DOMAIN prompts => HeldOnce(n)
  BY DEF FrontInv
<1>4. n \in DOMAIN prompts => writes[n] = 0
  BY <1>3 DEF HeldOnce
<1>5. /\ writes' \in [DOMAIN prompts -> 0 .. 1]
      /\ \A m \in DOMAIN prompts : m # n => writes'[m] = writes[m]
  BY <1>2, <1>4
<1>6. \A s, m : s \in BotTasks /\ Carries(s, m)' => s # t /\ Carries(s, m)
  BY <1>1 DEF Carries, BotRests
<1>7. ASSUME NEW m \in DOMAIN prompts
      PROVE  HeldOnce(m)'
  <2>1. HeldOnce(m)
    BY DEF FrontInv
  <2>2. CASE m = n
    <3>1. \A s \in BotTasks : ~Carries(s, m)'
      BY <1>6, <2>1, <2>2 DEF HeldOnce
    <3>2. \A u \in TgUsers : pendingEdit[u] # m /\ pendingPosition[u] # m
      BY <2>1, <2>2 DEF HeldOnce
    <3>3. QED
      BY <3>1, <3>2 DEF HeldOnce
  <2>3. CASE m # n
    <3>1. writes'[m] = writes[m]
      BY <1>5, <2>3
    <3>2. \A s \in BotTasks : Carries(s, m)' => Carries(s, m)
      BY <1>6
    <3>3. QED
      BY <2>1, <3>1, <3>2 DEF HeldOnce
  <2>4. QED
    BY <2>2, <2>3
<1>8. ASSUME NEW s \in BotTasks
      PROVE  TaskOK(botTask[s])'
  <2>1. CASE s = t
    BY <1>1, <2>1 DEF TaskOK, BotRests
  <2>2. CASE s # t
    BY <1>1, <2>2 DEF FrontInv, FrontTypeOK, TaskOK
  <2>3. QED
    BY <2>1, <2>2
<1>9. BotRests.pc = "rest"
  BY DEF BotRests
<1>10. QED
  BY <1>1, <1>5, <1>7, <1>8, <1>9

LEMMA StoreAmountInv ==
  ASSUME FrontInv, NEW t \in BotTasks, StoreAmount(t)
  PROVE  FrontInv'
<1> DEFINE n == botTask[t].prompt
           id == botTask[t].id
<1>1. /\ botTask[t].pc = "amount" /\ BotGoes(t, BotRests)
      /\ positionRow' = [positionRow EXCEPT ![id] = @ \cup {prompts[n].paper}]
      /\ writes' = [writes EXCEPT ![n] = @ + 1]
      /\ UNCHANGED <<pendingEdit, pendingPosition, prompts, prefsRow, expectedRow, rowOverlapped,
                     parseLock>>
  BY DEF StoreAmount, BotDone, rowVars, marketVars
<1>2. id \in TgUsers /\ n \in DOMAIN prompts
  <2>1. TaskOK(botTask[t])
    BY DEF FrontInv, FrontTypeOK
  <2>2. QED
    BY <1>1, <2>1 DEF TaskOK
<1>3. n # NoPrompt /\ Carries(t, n)
  BY <1>1, <1>2, NoPromptIsNone DEF FrontInv, Carries
<1> HIDE DEF n
<1>4. /\ writes' \in [DOMAIN prompts -> 0 .. 1]
      /\ \A m \in DOMAIN prompts : HeldOnce(m)'
      /\ DOMAIN botTask' = BotTasks
      /\ \A s \in BotTasks : TaskOK(botTask[s])'
      /\ \A s \in BotTasks : botTask'[s].pc # "rest" => s # t /\ botTask'[s] = botTask[s]
      /\ \A s \in BotTasks \ {t} : botTask'[s] = botTask[s]
  BY <1>1, <1>2, <1>3, AnswerWritten
<1>5. DOMAIN positionRow' = ChatIds /\ positionRow'[BotId] = positionRow[BotId]
  BY <1>1, <1>2, BotFrontAssumption DEF FrontInv, FrontTypeOK, ChatIds
<1>6. FrontTypeOK'
  BY <1>1, <1>4, <1>5 DEF FrontInv, FrontTypeOK
<1>7. ParseHoldsLock'
  <2>1. botTask'[t].pc = "rest"
    BY <1>1 DEF BotGoes, BotRests, FrontInv, FrontTypeOK
  <2>2. QED
    BY <1>1, <1>4, <2>1 DEF FrontInv, ParseHoldsLock
<1>8. ReadIsNotNewer'
  BY <1>1, <1>4 DEF FrontInv, ReadIsNotNewer
<1>9. AskedAsPro' /\ RowsAddUp'
  BY <1>1, <1>5 DEF FrontInv, AskedAsPro, RowsAddUp
<1>10. QED
  BY <1>1, <1>4, <1>6, <1>7, <1>8, <1>9 DEF FrontInv

(* What a change does to a row does not depend on its version.             *)
LEMMA ChangeIsTyped ==
  ASSUME NEW row \in PrefsRow, NEW c, ChangeOK(c)
  PROVE  /\ Changed(row, c) \in PrefsRow
         /\ WithoutVersion(Changed(row, c)) = Changed(WithoutVersion(row), c)
<1>1. CASE c.field = "capital" /\ c.value \in Nat
  BY <1>1 DEF Changed, WithoutVersion, PrefsRow
<1>2. CASE c.field = "strategy" /\ c.value \in Strategies
  BY <1>2 DEF Changed, WithoutVersion, PrefsRow
<1>3. CASE c.field = "watch" /\ c.value \in WatchPapers
  BY <1>3 DEF Changed, WithoutVersion, PrefsRow
<1>4. CASE c.field = "unwatch" /\ c.value \in WatchPapers
  BY <1>4 DEF Changed, WithoutVersion, PrefsRow
<1>5. QED
  BY <1>1, <1>2, <1>3, <1>4 DEF ChangeOK

LEMMA VersionIsApart ==
  ASSUME NEW row \in PrefsRow, NEW k \in Nat
  PROVE  /\ [row EXCEPT !.version = k] \in PrefsRow
         /\ [row EXCEPT !.version = k].version = k
         /\ WithoutVersion([row EXCEPT !.version = k]) = WithoutVersion(row)
         /\ WithoutVersion(row) \in PrefsRow
BY DEF PrefsRow, WithoutVersion

(* A write over the version that was read adds its change to the row; one  *)
(* over a newer version is known to overlap.                               *)
LEMMA WritePrefsInv ==
  ASSUME FrontInv, NEW t \in BotTasks, WritePrefs(t)
  PROVE  FrontInv'
<1> DEFINE id == botTask[t].id
           n == botTask[t].prompt
           c == botTask[t].change
           row == botTask[t].row
           was == prefsRow[id]
           new == Changed(row, c)
           now == [new EXCEPT !.version = was.version + 1]
           skipped == c.field \in {"watch", "unwatch"} /\ new = row
<1>1. /\ botTask[t].pc = "write" /\ BotGoes(t, BotRests)
      /\ prefsRow' = IF skipped THEN prefsRow ELSE [prefsRow EXCEPT ![id] = now]
      /\ expectedRow' = [expectedRow EXCEPT ![id] = Changed(expectedRow[id], c)]
      /\ rowOverlapped' = IF row.version = was.version THEN rowOverlapped
                          ELSE rowOverlapped \cup {id}
      /\ writes' = IF n = NoPrompt THEN writes ELSE [writes EXCEPT ![n] = @ + 1]
      /\ UNCHANGED <<pendingEdit, pendingPosition, prompts, positionRow, parseLock>>
  BY DEF WritePrefs, BotDone, marketVars
<1>2. /\ id \in TgUsers /\ id \in ChatIds /\ id # BotId /\ BotId \in ChatIds
      /\ n \in {NoPrompt} \cup DOMAIN prompts /\ ChangeOK(c) /\ row \in PrefsRow
  <2>1. TaskOK(botTask[t])
    BY DEF FrontInv, FrontTypeOK
  <2>2. QED
    BY <1>1, <2>1, BotFrontAssumption DEF TaskOK, ChatIds
<1>3. /\ was \in PrefsRow /\ expectedRow[id] \in PrefsRow
      /\ prefsRow \in [ChatIds -> PrefsRow] /\ expectedRow \in [ChatIds -> PrefsRow]
  BY <1>2 DEF FrontInv, FrontTypeOK
<1>4. was.version \in Nat /\ was.version + 1 \in Nat /\ row.version \in Nat
  BY <1>2, <1>3 DEF PrefsRow
<1>5. row.version =< was.version /\ (row.version = was.version => row = was)
  BY <1>1 DEF FrontInv, ReadIsNotNewer
<1>6. Carries(t, n)
  BY <1>1 DEF Carries
<1>7. new \in PrefsRow /\ WithoutVersion(new) = Changed(WithoutVersion(row), c)
  BY <1>2, ChangeIsTyped
<1>8. Changed(expectedRow[id], c) \in PrefsRow
  BY <1>2, <1>3, ChangeIsTyped
<1> HIDE DEF new
<1>9. now \in PrefsRow /\ now.version = was.version + 1 /\ WithoutVersion(now) = WithoutVersion(new)
  BY <1>4, <1>7, VersionIsApart
<1> HIDE DEF now, was, row, c, n, id
<1>10. /\ writes' \in [DOMAIN prompts -> 0 .. 1]
       /\ \A m \in DOMAIN prompts : HeldOnce(m)'
       /\ DOMAIN botTask' = BotTasks
       /\ \A s \in BotTasks : TaskOK(botTask[s])'
       /\ \A s \in BotTasks : botTask'[s].pc # "rest" => s # t /\ botTask'[s] = botTask[s]
       /\ \A s \in BotTasks \ {t} : botTask'[s] = botTask[s]
  BY <1>1, <1>2, <1>6, AnswerWritten
<1>11. /\ prefsRow' \in [ChatIds -> PrefsRow]
       /\ \A i \in ChatIds \ {id} : prefsRow'[i] = prefsRow[i]
       /\ IF skipped THEN prefsRow'[id] = prefsRow[id] ELSE prefsRow'[id] = now
  BY <1>1, <1>2, <1>3, <1>9
<1>12. /\ expectedRow' \in [ChatIds -> PrefsRow]
       /\ \A i \in ChatIds \ {id} : expectedRow'[i] = expectedRow[i]
       /\ expectedRow'[id] = Changed(expectedRow[id], c)
  BY <1>1, <1>2, <1>3, <1>8
<1>13. FrontTypeOK'
  BY <1>1, <1>10, <1>11, <1>12 DEF FrontInv, FrontTypeOK
<1>14. ParseHoldsLock'
  <2>1. botTask'[t].pc = "rest"
    BY <1>1 DEF BotGoes, BotRests, FrontInv, FrontTypeOK
  <2>2. QED
    BY <1>1, <1>10, <2>1 DEF FrontInv, ParseHoldsLock
<1>15. ReadIsNotNewer'
  <2> SUFFICES ASSUME NEW s \in BotTasks, botTask'[s].pc = "write"
               PROVE  /\ botTask'[s].row.version =< prefsRow'[botTask'[s].id].version
                      /\ botTask'[s].row.version = prefsRow'[botTask'[s].id].version =>
                           botTask'[s].row = prefsRow'[botTask'[s].id]
    BY DEF ReadIsNotNewer
  <2>1. botTask'[s] = botTask[s] /\ botTask[s].pc = "write"
    BY <1>10
  <2>2. TaskOK(botTask[s])
    BY DEF FrontInv, FrontTypeOK
  <2>3. botTask[s].id \in ChatIds /\ botTask[s].row.version \in Nat
    BY <2>1, <2>2 DEF TaskOK, ChatIds, PrefsRow
  <2>4. /\ botTask[s].row.version =< prefsRow[botTask[s].id].version
        /\ botTask[s].row.version = prefsRow[botTask[s].id].version =>
             botTask[s].row = prefsRow[botTask[s].id]
    BY <2>1 DEF FrontInv, ReadIsNotNewer
  <2>5. CASE prefsRow'[botTask[s].id] = prefsRow[botTask[s].id]
    BY <2>1, <2>4, <2>5
  <2>6. CASE botTask[s].id = id /\ prefsRow'[id] = now
    <3>1. botTask[s].row.version =< was.version
      BY <2>4, <2>6 DEF was
    <3>2. botTask[s].row.version < prefsRow'[id].version
      BY <1>4, <1>9, <2>3, <2>6, <3>1
    <3>3. QED
      BY <1>4, <1>9, <2>1, <2>3, <2>6, <3>2
  <2>7. QED
    BY <1>11, <2>3, <2>5, <2>6
<1>16. ASSUME id \notin rowOverlapped'
       PROVE  WithoutVersion(prefsRow'[id]) = expectedRow'[id]
  <2>1. row = was /\ id \notin rowOverlapped
    BY <1>1, <1>5, <1>16
  <2>2. WithoutVersion(row) = expectedRow[id]
    BY <1>2, <2>1 DEF was, FrontInv, RowsAddUp
  <2>3. WithoutVersion(new) = expectedRow'[id]
    BY <1>7, <1>12, <2>2
  <2>4. WithoutVersion(prefsRow'[id]) = WithoutVersion(new)
    BY <1>9, <1>11, <2>1 DEF was
  <2>5. QED
    BY <2>3, <2>4
<1>17. RowsAddUp'
  <2>1. rowOverlapped \subseteq rowOverlapped'
    BY <1>1
  <2>2. prefsRow'[BotId] = DefaultPrefs /\ positionRow'[BotId] = {}
    BY <1>1, <1>2, <1>11 DEF FrontInv, RowsAddUp
  <2>3. \A i \in ChatIds \ rowOverlapped' : WithoutVersion(prefsRow'[i]) = expectedRow'[i]
    BY <1>11, <1>12, <1>16, <2>1 DEF FrontInv, RowsAddUp
  <2>4. QED
    BY <2>2, <2>3 DEF RowsAddUp
<1>18. AskedAsPro'
  BY <1>1 DEF FrontInv, AskedAsPro
<1>19. QED
  BY <1>1, <1>10, <1>13, <1>14, <1>15, <1>17, <1>18 DEF FrontInv

(* /parse begins and ends.                                                 *)
LEMMA ParseInv ==
  ASSUME FrontInv, NEW t \in BotTasks,
         StartParse(t) \/ \E stored \in BOOLEAN : EndParse(t, stored)
  PROVE  FrontInv'
<1> DEFINE parsing == [pc |-> "parse"]
<1>1. UNCHANGED <<pendingEdit, pendingPosition, prompts, writes, prefsRow, expectedRow,
                  rowOverlapped, positionRow>>
  BY DEF StartParse, EndParse, dialogVars, rowVars
<1>2. \/ /\ BotGoes(t, parsing) /\ botTask[t].pc = "rest"
         /\ parseLock = "free" /\ parseLock' = t
      \/ BotGoes(t, BotRests) /\ botTask[t].pc = "parse" /\ parseLock' = "free"
  BY DEF StartParse, EndParse, Unoccupied, BotDone
<1>3. /\ DOMAIN botTask' = BotTasks
      /\ \A s \in BotTasks \ {t} : botTask'[s] = botTask[s]
      /\ \/ botTask'[t] = parsing /\ parseLock = "free" /\ parseLock' = t
         \/ botTask'[t] = BotRests /\ botTask[t].pc = "parse" /\ parseLock' = "free"
  BY <1>2 DEF BotGoes, FrontInv, FrontTypeOK
<1>4. botTask'[t].pc \in {"parse", "rest"} /\ parsing.pc = "parse" /\ BotRests.pc = "rest"
  BY <1>3 DEF BotRests
<1>5. \A s \in BotTasks : TaskOK(botTask[s])'
  <2>1. TaskOK(botTask[t])'
    BY <1>4 DEF TaskOK
  <2>2. \A s \in BotTasks \ {t} : TaskOK(botTask[s])'
    BY <1>1, <1>3 DEF TaskOK, FrontInv, FrontTypeOK
  <2>3. QED
    BY <2>1, <2>2
<1>6. FrontTypeOK'
  BY <1>1, <1>3, <1>5 DEF FrontInv, FrontTypeOK
<1>7. ASSUME NEW n \in DOMAIN prompts
      PROVE  HeldOnce(n)'
  <2>1. HeldOnce(n)
    BY DEF FrontInv
  <2>2. \A s \in BotTasks : Carries(s, n)' => Carries(s, n)
    BY <1>3, <1>4 DEF Carries
  <2>3. QED
    BY <1>1, <2>1, <2>2 DEF HeldOnce
<1>8. ParseHoldsLock'
  BY <1>3, <1>4, BotFrontAssumption DEF FrontInv, ParseHoldsLock
<1>9. ReadIsNotNewer'
  BY <1>1, <1>3, <1>4 DEF FrontInv, ReadIsNotNewer
<1>10. AskedAsPro' /\ RowsAddUp'
  BY <1>1 DEF FrontInv, AskedAsPro, RowsAddUp
<1>11. QED
  BY <1>1, <1>6, <1>7, <1>8, <1>9, <1>10 DEF FrontInv

LEMMA BotRestartsInv ==
  ASSUME FrontInv, BotRestarts
  PROVE  FrontInv'
<1>1. /\ pendingEdit' = [u \in TgUsers |-> NoPrompt]
      /\ pendingPosition' = [u \in TgUsers |-> NoPrompt]
      /\ botTask' = [t \in BotTasks |-> BotRests]
      /\ parseLock' = "free"
      /\ UNCHANGED <<prompts, writes, prefsRow, expectedRow, rowOverlapped, positionRow>>
  BY DEF BotRestarts, rowVars
<1>2. \A t \in BotTasks : botTask'[t].pc = "rest"
  BY <1>1 DEF BotRests
<1>3. FrontTypeOK'
  BY <1>1, <1>2 DEF FrontInv, FrontTypeOK, TaskOK
<1>4. ASSUME NEW n \in DOMAIN prompts
      PROVE  HeldOnce(n)'
  <2>1. n # NoPrompt
    BY NoPromptIsNone DEF FrontInv
  <2>2. \A s \in BotTasks : ~Carries(s, n)'
    BY <1>2 DEF Carries
  <2>3. \A u \in TgUsers : pendingEdit'[u] # n /\ pendingPosition'[u] # n
    BY <1>1, <2>1
  <2>4. QED
    BY <2>2, <2>3 DEF HeldOnce
<1>5. ParseHoldsLock' /\ ReadIsNotNewer'
  BY <1>1, <1>2, BotFrontAssumption DEF ParseHoldsLock, ReadIsNotNewer
<1>6. AskedAsPro' /\ RowsAddUp'
  BY <1>1 DEF FrontInv, AskedAsPro, RowsAddUp
<1>7. QED
  BY <1>1, <1>3, <1>4, <1>5, <1>6 DEF FrontInv

LEMMA FrontStepInv == FrontInv /\ [BotFrontNext]_frontVars => FrontInv'
<1> SUFFICES ASSUME FrontInv, [BotFrontNext]_frontVars PROVE FrontInv'
  OBVIOUS
<1>0. /\ pendingEdit \in [TgUsers -> {NoPrompt} \cup DOMAIN prompts]
      /\ pendingPosition \in [TgUsers -> {NoPrompt} \cup DOMAIN prompts]
      /\ DOMAIN positionRow = ChatIds /\ positionRow[BotId] = {}
  BY DEF FrontInv, FrontTypeOK, RowsAddUp
<1>1. ASSUME NEW u \in TgUsers, CancelEdit(u)
      PROVE  FrontInv'
  <2>1. pendingEdit' = [pendingEdit EXCEPT ![u] = NoPrompt]
    BY <1>1 DEF CancelEdit
  <2>2. /\ pendingEdit' \in [TgUsers -> {NoPrompt} \cup DOMAIN prompts]
        /\ \A v \in TgUsers : pendingEdit'[v] \in {pendingEdit[v], NoPrompt}
    BY <1>0, <2>1, ClosedDialogs
  <2>3. QED
    BY <1>0, <1>1, <2>2, FrontNoTask DEF CancelEdit, rowVars, marketVars
<1>2. ASSUME NEW u \in TgUsers, CancelAdd(u)
      PROVE  FrontInv'
  <2>1. pendingPosition' = [pendingPosition EXCEPT ![u] = NoPrompt]
    BY <1>2 DEF CancelAdd
  <2>2. /\ pendingPosition' \in [TgUsers -> {NoPrompt} \cup DOMAIN prompts]
        /\ \A v \in TgUsers : pendingPosition'[v] \in {pendingPosition[v], NoPrompt}
    BY <1>0, <2>1, ClosedDialogs
  <2>3. QED
    BY <1>0, <1>2, <2>2, FrontNoTask DEF CancelAdd, rowVars, marketVars
<1>3. ASSUME NEW u \in TgUsers,
             \/ TierChanges(u)
             \/ \E p \in WatchPapers : RemovePosition(u, p)
             \/ \E cmd \in Writers, way \in {"typed", "pressed"} : RunCommand(u, cmd, way)
      PROVE  FrontInv'
  <2>1. UNCHANGED <<pendingEdit, pendingPosition, prompts, writes, prefsRow, expectedRow,
                    rowOverlapped, botTask, parseLock>>
    BY <1>3 DEF TierChanges, RemovePosition, RunCommand, dialogVars, rowVars, marketVars
  <2>2. \/ positionRow' = positionRow
        \/ \E p \in WatchPapers : positionRow' = [positionRow EXCEPT ![u] = @ \ {p}]
    BY <1>3 DEF TierChanges, RemovePosition, RunCommand
  <2>3. DOMAIN positionRow' = ChatIds /\ positionRow'[BotId] = {}
    BY <1>0, <2>2, BotFrontAssumption DEF ChatIds
  <2>4. QED
    BY <1>0, <2>1, <2>3, FrontNoTask
<1>4. CASE UNCHANGED frontVars
  BY <1>0, <1>4, FrontNoTask DEF frontVars
<1>5. QED
  BY <1>1, <1>2, <1>3, <1>4, PressEditInv, CheckTierInv, TaskGoesOnInv, ReadPrefsInv, TakeEditInv,
     TakeAmountInv, StoreAmountInv, WritePrefsInv, ParseInv, BotRestartsInv DEF BotFrontNext

(* Who waits for an amount, carries one or holds a position was asked for  *)
(* it himself.                                                             *)
AskedOf(prompt, u) == prompt.dialog = "position" /\ prompt.user = u

AskedInv ==
  /\ \A u \in TgUsers : pendingPosition[u] # NoPrompt => AskedOf(prompts[pendingPosition[u]], u)
  /\ \A t \in BotTasks : botTask[t].pc = "amount" => AskedOf(prompts[botTask[t].prompt], botTask[t].id)
  /\ \A u \in TgUsers : \A p \in positionRow[u] :
       \E n \in DOMAIN prompts : AskedOf(prompts[n], u) /\ prompts[n].paper = p /\ writes[n] = 1

LEMMA AskedKept ==
  ASSUME FrontInv, AskedInv,
         \A n \in DOMAIN prompts : /\ n \in DOMAIN prompts' /\ prompts'[n] = prompts[n]
                                   /\ writes[n] = 1 => writes'[n] = 1,
         \A u \in TgUsers : \/ pendingPosition'[u] \in {pendingPosition[u], NoPrompt}
                            \/ AskedOf(prompts'[pendingPosition'[u]], u),
         \A t \in BotTasks : botTask'[t].pc = "amount" =>
           botTask'[t] = botTask[t] \/ AskedOf(prompts'[botTask'[t].prompt], botTask'[t].id),
         \A u \in TgUsers : \A p \in positionRow'[u] : p \in positionRow[u] \/
           \E n \in DOMAIN prompts' : AskedOf(prompts'[n], u) /\ prompts'[n].paper = p /\ writes'[n] = 1
  PROVE  AskedInv'
<1>1. \A n \in DOMAIN prompts, u \in TgUsers : AskedOf(prompts[n], u) => AskedOf(prompts'[n], u)
  OBVIOUS
<1>2. ASSUME NEW u \in TgUsers, pendingPosition'[u] # NoPrompt
      PROVE  AskedOf(prompts'[pendingPosition'[u]], u)
  <2>1. CASE pendingPosition'[u] = pendingPosition[u]
    <3>1. pendingPosition[u] \in DOMAIN prompts /\ AskedOf(prompts[pendingPosition[u]], u)
      BY <1>2, <2>1 DEF FrontInv, FrontTypeOK, AskedInv
    <3>2. QED
      BY <2>1, <3>1 DEF AskedOf
  <2>2. QED
    BY <1>2, <2>1
<1>3. ASSUME NEW t \in BotTasks, botTask'[t].pc = "amount"
      PROVE  AskedOf(prompts'[botTask'[t].prompt], botTask'[t].id)
  <2>1. CASE botTask'[t] = botTask[t]
    <3>1. TaskOK(botTask[t]) /\ botTask[t].pc = "amount"
      BY <1>3, <2>1 DEF FrontInv, FrontTypeOK
    <3>2. botTask[t].prompt \in DOMAIN prompts /\ AskedOf(prompts[botTask[t].prompt], botTask[t].id)
      BY <3>1 DEF TaskOK, AskedInv
    <3>3. QED
      BY <2>1, <3>2 DEF AskedOf
  <2>2. QED
    BY <1>3, <2>1
<1>4. ASSUME NEW u \in TgUsers, NEW p \in positionRow'[u]
      PROVE  \E n \in DOMAIN prompts' : AskedOf(prompts'[n], u) /\ prompts'[n].paper = p /\ writes'[n] = 1
  <2>1. CASE p \in positionRow[u]
    <3>1. PICK n \in DOMAIN prompts : AskedOf(prompts[n], u) /\ prompts[n].paper = p /\ writes[n] = 1
      BY <2>1 DEF AskedInv
    <3>2. n \in DOMAIN prompts' /\ AskedOf(prompts'[n], u) /\ prompts'[n].paper = p /\ writes'[n] = 1
      BY <1>1, <3>1
    <3>3. QED
      BY <3>2
  <2>2. QED
    BY <1>4, <2>1
<1>5. QED
  BY <1>2, <1>3, <1>4 DEF AskedInv

(* A step that opens, answers and stores nothing.                          *)
LEMMA AskedQuiet ==
  ASSUME FrontInv, AskedInv, prompts' = prompts, writes' = writes,
         \A u \in TgUsers : pendingPosition'[u] \in {pendingPosition[u], NoPrompt},
         \A t \in BotTasks : botTask'[t] = botTask[t] \/ botTask'[t].pc # "amount",
         \A u \in TgUsers : positionRow'[u] \subseteq positionRow[u]
  PROVE  AskedInv'
<1>1. \A n \in DOMAIN prompts : /\ n \in DOMAIN prompts' /\ prompts'[n] = prompts[n]
                                /\ writes[n] = 1 => writes'[n] = 1
  OBVIOUS
<1>2. QED
  BY <1>1, AskedKept

(* A new prompt takes no other's place.                                    *)
NewPrompt == Cardinality(DOMAIN prompts) + 1

LEMMA OpenedIsNew ==
  ASSUME FrontInv, NEW prompt,
         prompts' = [i \in DOMAIN prompts \cup {NewPrompt} |->
                       IF i = NewPrompt THEN prompt ELSE prompts[i]],
         writes' = [i \in DOMAIN writes \cup {NewPrompt} |->
                      IF i = NewPrompt THEN 0 ELSE writes[i]]
  PROVE  /\ prompts'[NewPrompt] = prompt
         /\ \A i \in DOMAIN prompts : /\ i \in DOMAIN prompts' /\ prompts'[i] = prompts[i]
                                       /\ writes'[i] = writes[i]
<1>1. PICK k \in Nat : DOMAIN prompts = 1 .. k
  BY DEF FrontInv, FrontTypeOK
<1>2. Cardinality(DOMAIN prompts) = k
  BY <1>1, FS_Interval
<1>3. NewPrompt = k + 1
  BY <1>2 DEF NewPrompt
<1>4. NewPrompt \notin DOMAIN prompts
  BY <1>1, <1>3
<1>5. DOMAIN writes = DOMAIN prompts
  BY DEF FrontInv, FrontTypeOK
<1> HIDE DEF NewPrompt
<1>6. QED
  BY <1>4, <1>5

LEMMA AskedStep ==
  ASSUME FrontInv, AskedInv, [BotFrontNext]_frontVars
  PROVE  AskedInv'
<1>0. /\ DOMAIN botTask = BotTasks /\ \A t \in BotTasks : TaskOK(botTask[t])
      /\ pendingPosition \in [TgUsers -> {NoPrompt} \cup DOMAIN prompts]
      /\ DOMAIN positionRow = ChatIds /\ TgUsers \subseteq ChatIds
      /\ writes \in [DOMAIN prompts -> 0 .. 1] /\ BotRests.pc = "rest"
      /\ \A n \in DOMAIN prompts : HeldOnce(n)
  BY DEF FrontInv, FrontTypeOK, ChatIds, BotRests
<1>1. ASSUME UNCHANGED <<prompts, writes, pendingPosition, positionRow>>,
             \/ botTask' = botTask
             \/ \E t \in BotTasks : \E to : to.pc # "amount" /\ BotGoes(t, to)
      PROVE  AskedInv'
  <2>1. \A t \in BotTasks : botTask'[t] = botTask[t] \/ botTask'[t].pc # "amount"
    BY <1>0, <1>1 DEF BotGoes
  <2>2. QED
    BY <1>1, <2>1, AskedQuiet
<1>2. ASSUME NEW u \in TgUsers, PressEdit(u)
      PROVE  AskedInv'
  <2> DEFINE prompt == [dialog |-> "edit", user |-> u]
  <2>1. /\ prompts' = [i \in DOMAIN prompts \cup {NewPrompt} |->
                         IF i = NewPrompt THEN prompt ELSE prompts[i]]
        /\ writes' = [i \in DOMAIN writes \cup {NewPrompt} |-> IF i = NewPrompt THEN 0 ELSE writes[i]]
        /\ UNCHANGED <<pendingPosition, positionRow, botTask>>
    BY <1>2 DEF PressEdit, Opens, NewPrompt
  <2>2. \A i \in DOMAIN prompts : /\ i \in DOMAIN prompts' /\ prompts'[i] = prompts[i]
                                  /\ writes'[i] = writes[i]
    <3> HIDE DEF prompt
    <3>1. QED
      BY <2>1, OpenedIsNew
  <2>3. QED
    BY <2>1, <2>2, AskedKept
<1>3. ASSUME NEW t \in BotTasks, CheckTier(t)
      PROVE  AskedInv'
  <2> DEFINE u == botTask[t].user
             prompt == [dialog |-> "position", user |-> u, paper |-> botTask[t].paper,
                        asPro |-> isPro[u]]
  <2>1. BotGoes(t, BotRests) /\ positionRow' = positionRow /\ botTask[t].pc = "gate"
    BY <1>3 DEF CheckTier, BotDone
  <2>2. u \in TgUsers /\ \A s \in BotTasks : botTask'[s] = botTask[s] \/ botTask'[s].pc # "amount"
    BY <1>0, <2>1 DEF BotGoes, TaskOK
  <2>3. CASE isPro[u]
    <3>1. /\ prompts' = [i \in DOMAIN prompts \cup {NewPrompt} |->
                           IF i = NewPrompt THEN prompt ELSE prompts[i]]
          /\ writes' = [i \in DOMAIN writes \cup {NewPrompt} |->
                          IF i = NewPrompt THEN 0 ELSE writes[i]]
          /\ pendingPosition' = [pendingPosition EXCEPT ![u] = NewPrompt]
      BY <1>3, <2>3 DEF CheckTier, GateOpen, Opens, NewPrompt
    <3>2. prompt.dialog = "position" /\ prompt.user = u
      OBVIOUS
    <3> HIDE DEF prompt, u
    <3>3. /\ prompts'[NewPrompt] = prompt
          /\ \A i \in DOMAIN prompts : /\ i \in DOMAIN prompts' /\ prompts'[i] = prompts[i]
                                        /\ writes'[i] = writes[i]
      BY <3>1, OpenedIsNew
    <3>4. \A v \in TgUsers : IF v = u THEN pendingPosition'[v] = NewPrompt
                                      ELSE pendingPosition'[v] = pendingPosition[v]
      BY <1>0, <2>2, <3>1
    <3>5. AskedOf(prompts'[NewPrompt], u)
      BY <3>2, <3>3 DEF AskedOf
    <3>6. \A v \in TgUsers : \/ pendingPosition'[v] \in {pendingPosition[v], NoPrompt}
                             \/ AskedOf(prompts'[pendingPosition'[v]], v)
      BY <3>4, <3>5
    <3>7. QED
      BY <2>1, <2>2, <3>3, <3>6, AskedKept
  <2>4. CASE ~isPro[u]
    BY <1>3, <2>1, <2>2, <2>4, AskedQuiet DEF CheckTier, GateOpen
  <2>5. QED
    BY <2>3, <2>4
<1>4. ASSUME NEW t \in BotTasks, TakeAmount(t)
      PROVE  AskedInv'
  <2> DEFINE u == botTask[t].user
             n == pendingPosition[u]
             to == [pc |-> "amount", id |-> u, prompt |-> n]
  <2>1. /\ botTask[t].pc = "reply"
        /\ pendingPosition' = [pendingPosition EXCEPT ![u] = NoPrompt]
        /\ (n # NoPrompt /\ BotGoes(t, to)) \/ BotGoes(t, BotRests)
        /\ UNCHANGED <<prompts, writes, positionRow>>
    BY <1>4 DEF TakeAmount, Popped, BotDone
  <2>2. u \in TgUsers
    BY <1>0, <2>1 DEF TaskOK
  <2>3. \A v \in TgUsers : pendingPosition'[v] \in {pendingPosition[v], NoPrompt}
    BY <1>0, <2>1, <2>2
  <2>4. CASE n # NoPrompt /\ BotGoes(t, to)
    <3>1. AskedOf(prompts[n], u)
      BY <2>2, <2>4 DEF AskedInv
    <3>2. to.prompt = n /\ to.id = u
      OBVIOUS
    <3>3. AskedOf(prompts'[to.prompt], to.id)
      BY <2>1, <3>1 DEF AskedOf
    <3> HIDE DEF to, n, u
    <3>4. \A s \in BotTasks : IF s = t THEN botTask'[s] = to ELSE botTask'[s] = botTask[s]
      BY <1>0, <2>4 DEF BotGoes
    <3>5. \A s \in BotTasks : botTask'[s] = botTask[s] \/ AskedOf(prompts'[botTask'[s].prompt], botTask'[s].id)
      BY <3>3, <3>4
    <3>6. QED
      BY <2>1, <2>3, <3>5, AskedKept
  <2>5. CASE BotGoes(t, BotRests)
    <3>1. \A s \in BotTasks : botTask'[s] = botTask[s] \/ botTask'[s].pc # "amount"
      BY <1>0, <2>5 DEF BotGoes
    <3>2. QED
      BY <2>1, <2>3, <3>1, AskedQuiet
  <2>6. QED
    BY <2>1, <2>4, <2>5
<1>5. ASSUME NEW t \in BotTasks, StoreAmount(t)
      PROVE  AskedInv'
  <2> DEFINE n == botTask[t].prompt
             id == botTask[t].id
  <2>1. /\ botTask[t].pc = "amount" /\ BotGoes(t, BotRests)
        /\ positionRow' = [positionRow EXCEPT ![id] = @ \cup {prompts[n].paper}]
        /\ writes' = [writes EXCEPT ![n] = @ + 1]
        /\ UNCHANGED <<pendingPosition, prompts>>
    BY <1>5 DEF StoreAmount, BotDone
  <2>2. id \in TgUsers /\ n \in DOMAIN prompts /\ Carries(t, n) /\ AskedOf(prompts[n], id)
    BY <1>0, <2>1 DEF TaskOK, Carries, AskedInv
  <2> HIDE DEF n, id
  <2>3. writes[n] = 0
    BY <1>0, <2>2 DEF HeldOnce
  <2>4. writes'[n] = 1 /\ \A i \in DOMAIN prompts : writes[i] = 1 => writes'[i] = 1
    BY <1>0, <2>1, <2>2, <2>3
  <2>5. AskedOf(prompts'[n], id) /\ n \in DOMAIN prompts'
    BY <2>1, <2>2 DEF AskedOf
  <2>6. \A v \in TgUsers : \A p \in positionRow'[v] :
          p \in positionRow[v] \/ (v = id /\ p = prompts'[n].paper)
    BY <1>0, <2>1, <2>2
  <2>7. \A s \in BotTasks : botTask'[s] = botTask[s] \/ botTask'[s].pc # "amount"
    BY <1>0, <2>1 DEF BotGoes
  <2>8. \A v \in TgUsers : \A p \in positionRow'[v] : p \in positionRow[v] \/
          \E m \in DOMAIN prompts' : AskedOf(prompts'[m], v) /\ prompts'[m].paper = p /\ writes'[m] = 1
    BY <2>4, <2>5, <2>6
  <2>9. QED
    BY <2>1, <2>4, <2>7, <2>8, AskedKept
<1>6. ASSUME NEW t \in BotTasks, WritePrefs(t)
      PROVE  AskedInv'
  <2> DEFINE n == botTask[t].prompt
  <2>1. /\ botTask[t].pc = "write" /\ BotGoes(t, BotRests)
        /\ writes' = IF n = NoPrompt THEN writes ELSE [writes EXCEPT ![n] = @ + 1]
        /\ UNCHANGED <<pendingPosition, prompts, positionRow>>
    BY <1>6 DEF WritePrefs, BotDone
  <2>2. Carries(t, n)
    BY <2>1 DEF Carries
  <2>3. \A i \in DOMAIN prompts : i = n => writes[i] = 0
    BY <1>0, <2>2 DEF HeldOnce
  <2>4. \A i \in DOMAIN prompts : writes[i] = 1 => writes'[i] = 1
    <3> HIDE DEF n
    <3>1. QED
      BY <1>0, <2>1, <2>3
  <2>5. \A s \in BotTasks : botTask'[s] = botTask[s] \/ botTask'[s].pc # "amount"
    BY <1>0, <2>1 DEF BotGoes
  <2>6. QED
    BY <2>1, <2>4, <2>5, AskedKept
<1>7. ASSUME NEW u \in TgUsers, CancelAdd(u)
      PROVE  AskedInv'
  <2>1. /\ pendingPosition' = [pendingPosition EXCEPT ![u] = NoPrompt]
        /\ UNCHANGED <<prompts, writes, botTask, positionRow>>
    BY <1>7 DEF CancelAdd
  <2>2. \A v \in TgUsers : pendingPosition'[v] \in {pendingPosition[v], NoPrompt}
    BY <1>0, <2>1
  <2>3. QED
    BY <2>1, <2>2, AskedQuiet
<1>8. ASSUME NEW u \in TgUsers, NEW p \in WatchPapers, RemovePosition(u, p)
      PROVE  AskedInv'
  <2>1. /\ positionRow' = [positionRow EXCEPT ![u] = @ \ {p}]
        /\ UNCHANGED <<prompts, writes, botTask, pendingPosition>>
    BY <1>8 DEF RemovePosition, dialogVars
  <2>2. \A v \in TgUsers : positionRow'[v] \subseteq positionRow[v]
    BY <1>0, <2>1
  <2>3. QED
    BY <2>1, <2>2, AskedQuiet
<1>9. CASE BotRestarts
  <2>1. /\ \A u \in TgUsers : pendingPosition'[u] = NoPrompt
        /\ \A t \in BotTasks : botTask'[t].pc # "amount"
        /\ UNCHANGED <<prompts, writes, positionRow>>
    BY <1>0, <1>9 DEF BotRestarts
  <2>2. QED
    BY <2>1, AskedQuiet
<1>10. ASSUME NEW u \in TgUsers,
              \/ CancelEdit(u) \/ TierChanges(u)
              \/ \E cmd \in Writers, way \in {"typed", "pressed"} : RunCommand(u, cmd, way)
       PROVE  AskedInv'
  BY <1>1, <1>10 DEF CancelEdit, TierChanges, RunCommand, dialogVars
<1>11. ASSUME NEW t \in BotTasks, NEW u \in TgUsers,
              \/ \E p \in WatchPapers : PressAdd(t, u, p)
              \/ \E text \in {"number", "other"} : TextReply(t, u, text)
              \/ \E c \in PrefChanges : StartChange(t, u, c)
       PROVE  AskedInv'
  <2>1. /\ UNCHANGED <<prompts, writes, pendingPosition, positionRow>>
        /\ \E to : to.pc # "amount" /\ BotGoes(t, to)
    BY <1>11 DEF PressAdd, TextReply, StartChange, dialogVars
  <2>2. QED
    BY <1>1, <2>1
<1>12. ASSUME NEW t \in BotTasks,
              \/ StartParse(t) \/ Throttled(t) \/ TakeEdit(t) \/ ReadPrefs(t)
              \/ \E stored \in BOOLEAN : EndParse(t, stored)
       PROVE  AskedInv'
  <2>1. /\ UNCHANGED <<prompts, writes, pendingPosition, positionRow>>
        /\ \E to : to.pc # "amount" /\ BotGoes(t, to)
    BY <1>0, <1>12 DEF StartParse, Throttled, TakeEdit, ReadPrefs, EndParse, BotDone, dialogVars
  <2>2. QED
    BY <1>1, <2>1
<1>13. CASE UNCHANGED frontVars
  BY <1>1, <1>13 DEF frontVars
<1>14. QED
  BY <1>2, <1>3, <1>4, <1>5, <1>6, <1>7, <1>8, <1>9, <1>10, <1>11, <1>12, <1>13 DEF BotFrontNext

(* One prompt is answered at most once; a position the bot stored answers  *)
(* a prompt opened for the same user as Pro; nothing is stored under the   *)
(* bot's own id; one parse runs at a time, and changes that do not overlap *)
(* add up: for any users, papers, updates at once, prompts and restarts.   *)
THEOREM BotFrontIsSound == BotFrontSpec => []BotFrontSound
<1>1. FrontInv /\ AskedInv => BotFrontSound
  <2> SUFFICES ASSUME FrontInv, AskedInv PROVE BotFrontSound
    OBVIOUS
  <2>1. \A n \in DOMAIN writes : writes[n] =< 1
    BY DEF FrontInv, FrontTypeOK
  <2>2. {t \in BotTasks : botTask[t].pc = "parse"} = {parseLock} \ {"free"}
    BY BotFrontAssumption DEF FrontInv, ParseHoldsLock
  <2>3. \A u \in TgUsers : \A p \in positionRow[u] : \E n \in DOMAIN prompts : AnsweredAsPro(n, u, p)
    BY DEF AskedInv, AskedOf, AnsweredAsPro, FrontInv, AskedAsPro
  <2>4. QED
    BY <2>1, <2>2, <2>3 DEF FrontInv, RowsAddUp, BotFrontSound
<1>2. BotFrontInit => AskedInv
  BY DEF BotFrontInit, BotFrontInitWith, AskedInv, ChatIds, BotRests
<1>3. FrontInv /\ AskedInv /\ [BotFrontNext]_frontVars => (FrontInv /\ AskedInv)'
  BY FrontStepInv, AskedStep
<1>4. QED
  BY <1>1, <1>2, <1>3, FrontInitInv, PTL DEF BotFrontSpec

-----------------------------------------------------------------------------
(* Monitoring: the inductive invariant.                                    *)
RunFields == {"pc", "number", "all", "next", "todo", "found", "checking", "added", "poisoned"}

RunOK(r) ==
  /\ DOMAIN r = RunFields
  /\ r.pc \in {"idle", "detector", "alerts", "insert"}

MonitoringTypeOK ==
  /\ hour \in Nat
  /\ DOMAIN monitor = Monitors
  /\ \A m \in Monitors : RunOK(monitor[m])
  /\ \A a \in alerts : a.at \in Nat /\ a.at =< hour

(* Nobody has stored an alert with the key within the day, except runs     *)
(* that overlap this one.                                                  *)
Unseen(key, number) ==
  \A b \in alerts : b.key # key \/ b.at + DayHours < hour \/ RanTogether(b.run, number)

(* What a run adds is its own and of this hour, and was not on record; and *)
(* what it has found and dealt with is on record, or will be if it commits.*)
RunInOrder(r) ==
  /\ r.pc = "idle" => r = MonitorRests
  /\ r.pc = "detector" => r.todo = {}
  /\ \A a \in r.added : a.run = r.number /\ a.at = hour /\ Unseen(a.key, r.number)
  /\ \A key \in r.checking : Unseen(key, r.number)
  /\ \A key \in r.found \ r.todo : Recent(key, alerts \cup r.added)

RunsMeet ==
  \A m, n \in Monitors :
    m # n /\ Detects(m) /\ Detects(n) => RanTogether(monitor[m].number, monitor[n].number)

OncePerDay ==
  \A a, b \in alerts : \/ a.key # b.key \/ a.run = b.run
                       \/ a.at > b.at + DayHours \/ b.at > a.at + DayHours
                       \/ RanTogether(a.run, b.run)

PublishedOnRecord ==
  \A p \in published : \/ p[2] \in undone
                       \/ \E a \in alerts \cup Pending : a.key = p[1] /\ a.run = p[2]

ReportedOnRecord ==
  \A f \in reported : \E a \in alerts : a.key = f.key /\ a.at =< f.at /\ a.at + DayHours >= f.at

MonitoringInv ==
  /\ MonitoringTypeOK
  /\ \A m \in Monitors : RunInOrder(monitor[m])
  /\ RunsMeet /\ OncePerDay /\ PublishedOnRecord /\ ReportedOnRecord

LEMMA MonitorRestsIsARun == RunOK(MonitorRests) /\ MonitorRests.pc = "idle"
BY DEF RunOK, RunFields, MonitorRests

LEMMA MonitoringInitInv == MonitoringInit => MonitoringInv
<1> SUFFICES ASSUME MonitoringInit PROVE MonitoringInv
  OBVIOUS
<1>1. MonitoringTypeOK
  BY MonitorRestsIsARun DEF MonitoringInit, MonitoringInitWith, MonitoringTypeOK
<1>2. ASSUME NEW m \in Monitors
      PROVE  RunInOrder(monitor[m])
  <2>1. monitor[m] = MonitorRests
    BY DEF MonitoringInit, MonitoringInitWith
  <2>2. QED
    BY <2>1 DEF RunInOrder, MonitorRests
<1>3. RunsMeet /\ OncePerDay /\ PublishedOnRecord /\ ReportedOnRecord
  BY MonitorRestsIsARun DEF MonitoringInit, MonitoringInitWith, RunsMeet, OncePerDay,
     PublishedOnRecord, ReportedOnRecord, Detects
<1>4. QED
  BY <1>1, <1>2, <1>3 DEF MonitoringInv

LEMMA RecentGrows ==
  ASSUME NEW key, NEW S, NEW T, S \subseteq T, Recent(key, S), hour' = hour
  PROVE  Recent(key, T)'
BY DEF Recent

(* What other runs commit does not disturb a run that meets them.          *)
LEMMA OtherRunStands ==
  ASSUME NEW n \in Monitors, RunInOrder(monitor[n]), monitor'[n] = monitor[n],
         hour' = hour, alerts \subseteq alerts', together \subseteq together',
         \A b \in alerts' \ alerts :
           <<b.run, monitor[n].number>> \in together' \/ <<monitor[n].number, b.run>> \in together'
  PROVE  RunInOrder(monitor[n])'
<1>1. ASSUME NEW key, Unseen(key, monitor[n].number)
      PROVE  Unseen(key, monitor[n].number)'
  BY <1>1 DEF Unseen, RanTogether
<1>2. \A a \in monitor[n].added : Unseen(a.key, monitor[n].number)'
  BY <1>1 DEF RunInOrder
<1>3. \A key \in monitor[n].checking : Unseen(key, monitor[n].number)'
  BY <1>1 DEF RunInOrder
<1>4. \A key \in monitor[n].found \ monitor[n].todo : Recent(key, alerts \cup monitor[n].added)
  BY DEF RunInOrder
<1>5. \A key \in monitor[n].found \ monitor[n].todo : Recent(key, alerts \cup monitor[n].added)'
  BY <1>4 DEF Recent
<1>6. QED
  BY <1>2, <1>3, <1>5 DEF RunInOrder

(* A run goes on: what it is to check and what it has dealt with is        *)
(* already unseen, or recent.                                              *)
LEMMA RunGoesOn ==
  ASSUME MonitoringInv, NEW m \in Monitors, NEW to, Becomes(m, to), RunOK(to), Detects(m),
         to.pc # "idle", to.number = monitor[m].number, to.added = monitor[m].added,
         to.pc = "detector" => to.todo = {},
         \A key \in to.checking : Unseen(key, to.number),
         \A key \in to.found \ to.todo : Recent(key, alerts \cup to.added),
         UNCHANGED <<hour, alerts, published, together, undone, reported>>
  PROVE  MonitoringInv'
<1>1. /\ DOMAIN monitor' = Monitors /\ monitor'[m] = to
      /\ \A n \in Monitors \ {m} : monitor'[n] = monitor[n]
  BY DEF Becomes, MonitoringInv, MonitoringTypeOK
<1>2. MonitoringTypeOK'
  BY <1>1 DEF MonitoringInv, MonitoringTypeOK, RunOK
<1>3. ASSUME NEW n \in Monitors
      PROVE  RunInOrder(monitor[n])'
  <2>1. CASE n # m
    BY <1>1, <2>1, OtherRunStands DEF MonitoringInv
  <2>2. CASE n = m
    <3>1. \A a \in to.added : a.run = to.number /\ a.at = hour /\ Unseen(a.key, to.number)
      BY DEF MonitoringInv, RunInOrder
    <3>2. \A key \in to.found \ to.todo : Recent(key, alerts \cup to.added)'
      BY DEF Recent
    <3>3. \A key : Unseen(key, to.number) => Unseen(key, to.number)'
      BY DEF Unseen, RanTogether
    <3>4. \A key \in to.found \ to.todo : Recent(key, alerts \cup monitor[m].added)'
      BY <1>1, <3>2 DEF Recent
    <3>5. /\ \A a \in to.added : a.run = to.number /\ a.at = hour' /\ Unseen(a.key, to.number)'
          /\ \A key \in to.checking : Unseen(key, to.number)'
      BY <3>1, <3>3
    <3>6. /\ \A a \in monitor'[m].added :
                a.run = monitor'[m].number /\ a.at = hour' /\ Unseen(a.key, monitor[m].number)'
          /\ \A key \in monitor'[m].checking : Unseen(key, monitor[m].number)'
      BY <1>1, <3>5 DEF Unseen
    <3>7. QED
      BY <1>1, <2>2, <3>4, <3>6 DEF RunInOrder
  <2>3. QED
    BY <2>1, <2>2
<1>4. RunsMeet'
  BY <1>1 DEF MonitoringInv, RunsMeet, Detects, RanTogether
<1>5. Pending' = Pending
  <2>1. \A n \in Monitors : monitor'[n].added = monitor[n].added
    BY <1>1
  <2>2. QED
    BY <2>1 DEF Pending
<1>6. OncePerDay' /\ PublishedOnRecord' /\ ReportedOnRecord'
  BY <1>5 DEF MonitoringInv, OncePerDay, PublishedOnRecord, ReportedOnRecord, RanTogether
<1>7. QED
  BY <1>2, <1>3, <1>4, <1>6 DEF MonitoringInv

LEMMA RestIsInOrder ==
  ASSUME NEW n \in Monitors, monitor'[n] = MonitorRests
  PROVE  RunInOrder(monitor[n])'
BY DEF RunInOrder, MonitorRests

LEMMA WorldStepInv ==
  ASSUME MonitoringInv,
         \/ \E b \in Papers : Refresh(b) \/ Delist(b)
         \/ \E n \in 1 .. DayHours : HourPasses(n)
         \/ UNCHANGED monitoringVars
  PROVE  MonitoringInv'
<1>1. UNCHANGED <<alerts, monitor, published, together, undone, reported>>
  BY DEF Refresh, Delist, HourPasses, OnlyWorld, monitoringVars
<1>2. \/ UNCHANGED hour
      \/ hour' \in Nat /\ hour' >= hour /\ \A m \in Monitors : ~Detects(m)
  <2>1. CASE \E b \in Papers : Refresh(b) \/ Delist(b)
    BY <2>1 DEF Refresh, Delist
  <2>2. CASE \E n \in 1 .. DayHours : HourPasses(n)
    BY <2>2, MonitoringAssumption DEF HourPasses, MonitoringInv, MonitoringTypeOK
  <2>3. QED
    BY <2>1, <2>2 DEF monitoringVars
<1>3. MonitoringTypeOK'
  <2>1. hour' \in Nat /\ hour' >= hour
    BY <1>2 DEF MonitoringInv, MonitoringTypeOK
  <2>2. \A a \in alerts : a.at \in Nat /\ a.at =< hour'
    BY <2>1 DEF MonitoringInv, MonitoringTypeOK
  <2>3. QED
    BY <1>1, <2>1, <2>2 DEF MonitoringInv, MonitoringTypeOK
<1>4. ASSUME NEW n \in Monitors
      PROVE  RunInOrder(monitor[n])'
  <2>1. CASE UNCHANGED hour
    BY <1>1, <2>1, OtherRunStands DEF MonitoringInv
  <2>2. CASE \A m \in Monitors : ~Detects(m)
    <3>1. monitor'[n] = MonitorRests
      BY <1>1, <2>2 DEF Detects, MonitoringInv, RunInOrder
    <3>2. QED
      BY <3>1, RestIsInOrder
  <2>3. QED
    BY <1>2, <2>1, <2>2
<1>5. RunsMeet'
  BY <1>1 DEF MonitoringInv, RunsMeet, Detects, RanTogether
<1>6. Pending' = Pending
  BY <1>1 DEF Pending
<1>7. OncePerDay' /\ PublishedOnRecord' /\ ReportedOnRecord'
  BY <1>1, <1>6 DEF MonitoringInv, OncePerDay, PublishedOnRecord, ReportedOnRecord, RanTogether
<1>8. QED
  BY <1>3, <1>4, <1>5, <1>7 DEF MonitoringInv

LEMMA RunDetectorInv ==
  ASSUME MonitoringInv, NEW m \in Monitors, RunDetector(m)
  PROVE  MonitoringInv'
<1> DEFINE r == monitor[m]
           keys == KeysOf(Head(r.next))
           to == [r EXCEPT !.pc = "alerts", !.todo = keys, !.found = @ \cup keys, !.next = Tail(@)]
<1>1. DOMAIN r = RunFields /\ r.pc = "detector" /\ RunInOrder(r)
  BY DEF RunDetector, MonitoringInv, MonitoringTypeOK, RunOK
<1>2. Becomes(m, to) /\ Detects(m)
  BY <1>1 DEF RunDetector, Detects
<1>3. /\ RunOK(to) /\ to.pc = "alerts" /\ to.number = r.number /\ to.added = r.added
      /\ to.checking = r.checking /\ to.todo = keys /\ to.found = r.found \cup keys
  BY <1>1 DEF RunOK, RunFields
<1> HIDE DEF to, keys
<1>4. \A key \in to.checking : Unseen(key, to.number)
  BY <1>1, <1>3 DEF RunInOrder
<1>5. \A key \in to.found \ to.todo : Recent(key, alerts \cup to.added)
  BY <1>1, <1>3 DEF RunInOrder
<1>6. UNCHANGED <<hour, alerts, published, together, undone, reported>>
  BY DEF RunDetector, World
<1>7. QED
  BY <1>2, <1>3, <1>4, <1>5, <1>6, RunGoesOn

LEMMA LookUpInv ==
  ASSUME MonitoringInv, NEW m \in Monitors, NEW key \in monitor[m].todo, LookUp(m, key)
  PROVE  MonitoringInv'
<1> DEFINE r == monitor[m]
           passed == [r EXCEPT !.todo = @ \ {key}]
           missed == [r EXCEPT !.pc = "insert", !.checking = {key}]
<1>1. DOMAIN r = RunFields /\ r.pc = "alerts" /\ RunInOrder(r) /\ Detects(m)
  BY DEF LookUp, Detects, MonitoringInv, MonitoringTypeOK, RunOK
<1>2. UNCHANGED <<hour, alerts, published, together, undone, reported>>
  BY DEF LookUp, World
<1>3. CASE Recent(key, alerts \cup r.added)
  <2>1. Becomes(m, passed)
    BY <1>3 DEF LookUp
  <2>2. /\ RunOK(passed) /\ passed.pc = "alerts" /\ passed.number = r.number
        /\ passed.added = r.added /\ passed.checking = r.checking
        /\ passed.todo = r.todo \ {key} /\ passed.found = r.found
    BY <1>1 DEF RunOK, RunFields
  <2> HIDE DEF passed
  <2>3. \A k \in passed.checking : Unseen(k, passed.number)
    BY <1>1, <2>2 DEF RunInOrder
  <2>4. \A k \in passed.found \ passed.todo : Recent(k, alerts \cup passed.added)
    BY <1>1, <1>3, <2>2 DEF RunInOrder
  <2>5. QED
    BY <1>1, <1>2, <2>1, <2>2, <2>3, <2>4, RunGoesOn
<1>4. CASE ~Recent(key, alerts \cup r.added)
  <2>1. Becomes(m, missed)
    BY <1>4 DEF LookUp
  <2>2. /\ RunOK(missed) /\ missed.pc = "insert" /\ missed.number = r.number
        /\ missed.added = r.added /\ missed.checking = {key}
        /\ missed.todo = r.todo /\ missed.found = r.found
    BY <1>1 DEF RunOK, RunFields
  <2> HIDE DEF missed
  <2>3. \A b \in alerts : b.key # key \/ b.at + DayHours < hour
    BY <1>4, MonitoringAssumption DEF Recent, MonitoringInv, MonitoringTypeOK
  <2>4. \A k \in missed.checking : Unseen(k, missed.number)
    BY <2>2, <2>3 DEF Unseen
  <2>5. \A k \in missed.found \ missed.todo : Recent(k, alerts \cup missed.added)
    BY <1>1, <2>2 DEF RunInOrder
  <2>6. QED
    BY <1>1, <1>2, <2>1, <2>2, <2>4, <2>5, RunGoesOn
<1>5. QED
  BY <1>3, <1>4

LEMMA DetectorDoneInv ==
  ASSUME MonitoringInv, NEW m \in Monitors, DetectorDone(m)
  PROVE  MonitoringInv'
<1> DEFINE r == monitor[m]
           to == [r EXCEPT !.pc = "detector"]
<1>1. DOMAIN r = RunFields /\ r.pc = "alerts" /\ r.todo = {} /\ RunInOrder(r)
  BY DEF DetectorDone, MonitoringInv, MonitoringTypeOK, RunOK
<1>2. Becomes(m, to) /\ Detects(m)
  BY <1>1 DEF DetectorDone, Detects
<1>3. /\ RunOK(to) /\ to.pc = "detector" /\ to.number = r.number /\ to.added = r.added
      /\ to.checking = r.checking /\ to.todo = {} /\ to.found = r.found
  BY <1>1 DEF RunOK, RunFields
<1> HIDE DEF to
<1>4. \A key \in to.checking : Unseen(key, to.number)
  BY <1>1, <1>3 DEF RunInOrder
<1>5. \A key \in to.found \ to.todo : Recent(key, alerts \cup to.added)
  BY <1>1, <1>3 DEF RunInOrder
<1>6. UNCHANGED <<hour, alerts, published, together, undone, reported>>
  BY DEF DetectorDone, World
<1>7. QED
  BY <1>2, <1>3, <1>4, <1>5, <1>6, RunGoesOn

LEMMA StartMonitorInv ==
  ASSUME MonitoringInv, NEW m \in Monitors, NEW all \in BOOLEAN, StartMonitor(m, all)
  PROVE  MonitoringInv'
<1> DEFINE to == [MonitorRests EXCEPT
       !.pc = "detector", !.number = monitorRuns', !.all = all,
       !.next = IF all THEN <<"bonds", "rates", "quality">> ELSE <<"bonds", "rates">>]
<1>1. Becomes(m, to) /\ monitor[m] = MonitorRests
  BY DEF StartMonitor, Detects, MonitoringInv, RunInOrder
<1>2. /\ RunOK(to) /\ to.pc = "detector" /\ to.number = monitorRuns' /\ to.added = {}
      /\ to.checking = {} /\ to.todo = {} /\ to.found = {}
  BY DEF RunOK, RunFields, MonitorRests
<1> HIDE DEF to
<1>3. /\ DOMAIN monitor' = Monitors /\ monitor'[m] = to
      /\ \A n \in Monitors \ {m} : monitor'[n] = monitor[n]
  BY <1>1 DEF Becomes, MonitoringInv, MonitoringTypeOK
<1>4. UNCHANGED <<hour, alerts, published, undone, reported>> /\ together \subseteq together'
  BY DEF StartMonitor, World
<1>5. MonitoringTypeOK'
  BY <1>2, <1>3, <1>4 DEF MonitoringInv, MonitoringTypeOK, RunOK
<1>6. ASSUME NEW n \in Monitors
      PROVE  RunInOrder(monitor[n])'
  <2>1. CASE n # m
    BY <1>3, <1>4, <2>1, OtherRunStands DEF MonitoringInv
  <2>2. CASE n = m
    BY <1>2, <1>3, <2>2 DEF RunInOrder
  <2>3. QED
    BY <2>1, <2>2
<1>7. RunsMeet'
  <2>1. ASSUME NEW n \in Monitors, n # m, Detects(n)
        PROVE  <<monitor[n].number, monitorRuns'>> \in together'
    BY <2>1 DEF StartMonitor
  <2>2. ASSUME NEW i \in Monitors, NEW j \in Monitors, i # j, Detects(i)', Detects(j)'
        PROVE  RanTogether(monitor[i].number, monitor[j].number)'
    <3>1. CASE i # m /\ j # m
      <4>1. RanTogether(monitor[i].number, monitor[j].number)
        BY <1>3, <2>2, <3>1 DEF MonitoringInv, RunsMeet, Detects
      <4>2. QED
        BY <1>3, <1>4, <3>1, <4>1 DEF RanTogether
    <3>2. CASE i = m
      BY <1>2, <1>3, <2>1, <2>2, <3>2 DEF RanTogether, Detects
    <3>3. CASE j = m
      BY <1>2, <1>3, <2>1, <2>2, <3>3 DEF RanTogether, Detects
    <3>4. QED
      BY <3>1, <3>2, <3>3
  <2>3. QED
    BY <2>2 DEF RunsMeet
<1>8. Pending' = Pending
  <2>0. monitor[m].added = {}
    BY <1>1 DEF MonitorRests
  <2>1. \A n \in Monitors : monitor'[n].added = monitor[n].added
    BY <1>2, <1>3, <2>0
  <2>2. QED
    BY <2>1 DEF Pending
<1>9. OncePerDay' /\ PublishedOnRecord' /\ ReportedOnRecord'
  BY <1>4, <1>8 DEF MonitoringInv, OncePerDay, PublishedOnRecord, ReportedOnRecord, RanTogether
<1>10. QED
  BY <1>5, <1>6, <1>7, <1>9 DEF MonitoringInv

(* The event is out before the commit: the alert is pending until then.    *)
LEMMA InsertAlertInv ==
  ASSUME MonitoringInv, NEW m \in Monitors, NEW key, InsertAlert(m, key)
  PROVE  MonitoringInv'
<1> DEFINE r == monitor[m]
           row == [key |-> key, at |-> hour, run |-> r.number]
           to == [r EXCEPT !.pc = "alerts", !.todo = @ \ {key}, !.checking = {},
                           !.added = @ \cup {row}]
<1>1. /\ DOMAIN r = RunFields /\ r.pc = "insert" /\ key \in r.checking /\ RunInOrder(r)
      /\ Detects(m) /\ hour \in Nat
  BY DEF InsertAlert, Detects, MonitoringInv, MonitoringTypeOK, RunOK
<1>2. Becomes(m, to)
  BY DEF InsertAlert
<1>3. /\ RunOK(to) /\ to.pc = "alerts" /\ to.number = r.number /\ to.added = r.added \cup {row}
      /\ to.checking = {} /\ to.todo = r.todo \ {key} /\ to.found = r.found
  BY <1>1 DEF RunOK, RunFields
<1>4. row.key = key /\ row.at = hour /\ row.run = r.number
  OBVIOUS
<1> HIDE DEF to, row
<1>5. /\ DOMAIN monitor' = Monitors /\ monitor'[m] = to
      /\ \A n \in Monitors \ {m} : monitor'[n] = monitor[n]
  BY <1>2 DEF Becomes, MonitoringInv, MonitoringTypeOK
<1>6. UNCHANGED <<hour, alerts, together, undone, reported>>
  BY DEF InsertAlert, World
<1>7. MonitoringTypeOK'
  BY <1>3, <1>5, <1>6 DEF MonitoringInv, MonitoringTypeOK, RunOK
<1>8. ASSUME NEW n \in Monitors
      PROVE  RunInOrder(monitor[n])'
  <2>1. CASE n # m
    BY <1>5, <1>6, <2>1, OtherRunStands DEF MonitoringInv
  <2>2. CASE n = m
    <3>1. \A a \in to.added : a.run = r.number /\ a.at = hour /\ Unseen(a.key, r.number)
      BY <1>1, <1>3, <1>4 DEF RunInOrder
    <3>2. \A k \in to.found \ to.todo : Recent(k, alerts \cup to.added)
      <4>1. Recent(key, alerts \cup to.added)
        BY <1>1, <1>3, <1>4, MonitoringAssumption DEF Recent
      <4>2. \A k \in r.found \ r.todo : Recent(k, alerts \cup to.added)
        BY <1>1, <1>3 DEF RunInOrder, Recent
      <4>3. QED
        BY <1>3, <4>1, <4>2
    <3>3. \A k : Unseen(k, r.number) => Unseen(k, r.number)'
      BY <1>3, <1>5, <1>6 DEF Unseen, RanTogether
    <3>4. \A a \in monitor'[m].added : a.run = monitor'[m].number /\ a.at = hour' /\ Unseen(a.key, monitor[m].number)'
      BY <1>3, <1>5, <1>6, <3>1, <3>3
    <3>5. \A k \in monitor'[m].found \ monitor'[m].todo : Recent(k, alerts \cup monitor[m].added)'
      BY <1>5, <1>6, <3>2 DEF Recent
    <3>6. QED
      BY <1>3, <1>5, <2>2, <3>4, <3>5 DEF RunInOrder
  <2>3. QED
    BY <2>1, <2>2
<1>9. RunsMeet'
  <2>1. \A n \in Monitors : Detects(n)' => Detects(n)
    BY <1>1, <1>5 DEF Detects
  <2>2. \A n \in Monitors : monitor'[n].number = monitor[n].number
    BY <1>3, <1>5
  <2>3. QED
    BY <1>6, <2>1, <2>2 DEF MonitoringInv, RunsMeet, RanTogether
<1>10. PublishedOnRecord'
  <2>1. Pending \subseteq Pending' /\ row \in Pending'
    <3>1. monitor[m].added \subseteq monitor'[m].added /\ row \in monitor'[m].added
      BY <1>3, <1>5
    <3>2. \A n \in Monitors : monitor[n].added \subseteq monitor'[n].added
      BY <1>5, <3>1
    <3>3. QED
      BY <3>1, <3>2 DEF Pending
  <2>2. published' = published \cup {<<key, r.number>>}
    BY DEF InsertAlert
  <2>3. ASSUME NEW p \in published
        PROVE  p[2] \in undone \/ \E a \in alerts \cup Pending' : a.key = p[1] /\ a.run = p[2]
    BY <2>1 DEF MonitoringInv, PublishedOnRecord
  <2>4. \E a \in alerts \cup Pending' : a.key = key /\ a.run = r.number
    BY <1>4, <2>1
  <2>5. \A p \in published' : \/ p[2] \in undone'
                              \/ \E a \in alerts' \cup Pending' : a.key = p[1] /\ a.run = p[2]
    BY <1>6, <2>2, <2>3, <2>4
  <2>6. QED
    BY <2>5 DEF PublishedOnRecord
<1>11. OncePerDay' /\ ReportedOnRecord'
  BY <1>6 DEF MonitoringInv, OncePerDay, ReportedOnRecord, RanTogether
<1>12. QED
  BY <1>7, <1>8, <1>9, <1>10, <1>11 DEF MonitoringInv

(* The session commits what the run has added.                             *)
LEMMA CommitInv ==
  ASSUME MonitoringInv, NEW m \in Monitors, EndMonitor(m), ~monitor[m].poisoned
  PROVE  MonitoringInv'
<1> DEFINE r == monitor[m]
<1>1. RunOK(r) /\ r.pc = "detector" /\ r.todo = {} /\ RunInOrder(r) /\ Detects(m)
  BY DEF EndMonitor, Detects, MonitoringInv, MonitoringTypeOK, RunInOrder
<1>2. /\ Becomes(m, MonitorRests) /\ alerts' = alerts \cup r.added
      /\ reported' = reported \cup {[run |-> r.number, key |-> k, at |-> hour] : k \in r.found}
      /\ UNCHANGED <<hour, published, together, undone>>
  BY DEF EndMonitor, World
<1>3. /\ DOMAIN monitor' = Monitors /\ monitor'[m] = MonitorRests
      /\ \A n \in Monitors \ {m} : monitor'[n] = monitor[n]
  BY <1>2 DEF Becomes, MonitoringInv, MonitoringTypeOK
<1>4. \A a \in r.added : a.run = r.number /\ a.at = hour /\ Unseen(a.key, r.number)
  BY <1>1 DEF RunInOrder
<1>5. MonitoringTypeOK'
  BY <1>2, <1>3, <1>4, MonitorRestsIsARun DEF MonitoringInv, MonitoringTypeOK
<1>6. ASSUME NEW n \in Monitors
      PROVE  RunInOrder(monitor[n])'
  <2>1. CASE n = m
    BY <1>3, <2>1, RestIsInOrder
  <2>2. CASE n # m /\ ~Detects(n)
    <3>1. monitor'[n] = MonitorRests
      BY <1>3, <2>2 DEF Detects, MonitoringInv, RunInOrder
    <3>2. QED
      BY <3>1, RestIsInOrder
  <2>3. CASE n # m /\ Detects(n)
    <3>1. RanTogether(r.number, monitor[n].number)
      BY <1>1, <2>3 DEF MonitoringInv, RunsMeet
    <3>2. \A b \in alerts' \ alerts :
            <<b.run, monitor[n].number>> \in together' \/ <<monitor[n].number, b.run>> \in together'
      BY <1>2, <1>4, <3>1 DEF RanTogether
    <3>3. QED
      BY <1>2, <1>3, <2>3, <3>2, OtherRunStands DEF MonitoringInv
  <2>4. QED
    BY <2>1, <2>2, <2>3
<1>7. RunsMeet'
  BY <1>2, <1>3, MonitorRestsIsARun DEF MonitoringInv, RunsMeet, Detects, RanTogether
<1>8. OncePerDay'
  <2>1. ASSUME NEW a \in r.added, NEW b \in alerts, a.key = b.key
        PROVE  a.at > b.at + DayHours \/ RanTogether(b.run, a.run)
    BY <1>4, <2>1, MonitoringAssumption DEF Unseen, MonitoringInv, MonitoringTypeOK
  <2>2. ASSUME NEW a \in r.added, NEW b \in r.added
        PROVE  a.run = b.run
    BY <1>4
  <2>3. ASSUME NEW a \in alerts', NEW b \in alerts', a.key = b.key, a.run # b.run
        PROVE  a.at > b.at + DayHours \/ b.at > a.at + DayHours \/ RanTogether(a.run, b.run)
    <3>1. CASE a \in alerts /\ b \in alerts
      BY <2>3, <3>1 DEF MonitoringInv, OncePerDay
    <3>2. CASE a \in r.added /\ b \in alerts
      BY <2>1, <2>3, <3>2 DEF RanTogether
    <3>3. CASE a \in alerts /\ b \in r.added
      BY <2>1, <2>3, <3>3 DEF RanTogether
    <3>4. CASE a \in r.added /\ b \in r.added
      BY <2>2, <2>3, <3>4
    <3>5. QED
      BY <1>2, <3>1, <3>2, <3>3, <3>4
  <2>4. \A i, j : RanTogether(i, j) => RanTogether(i, j)'
    BY <1>2 DEF RanTogether
  <2>5. QED
    BY <2>3, <2>4 DEF OncePerDay
<1>9. PublishedOnRecord'
  <2>1. alerts \cup Pending \subseteq alerts' \cup Pending'
    BY <1>2, <1>3 DEF Pending, MonitoringInv, MonitoringTypeOK
  <2>2. QED
    BY <1>2, <2>1 DEF MonitoringInv, PublishedOnRecord
<1>10. ReportedOnRecord'
  <2>1. ASSUME NEW f \in reported
        PROVE  \E a \in alerts' : a.key = f.key /\ a.at =< f.at /\ a.at + DayHours >= f.at
    BY <1>2 DEF MonitoringInv, ReportedOnRecord
  <2>2. ASSUME NEW k \in r.found
        PROVE  \E a \in alerts' : a.key = k /\ a.at =< hour /\ a.at + DayHours >= hour
    <3>1. PICK a \in alerts \cup r.added : a.key = k /\ a.at + DayHours >= hour
      BY <1>1 DEF RunInOrder, Recent
    <3>2. a.at =< hour
      BY <1>4, <3>1 DEF MonitoringInv, MonitoringTypeOK
    <3>3. QED
      BY <1>2, <3>1, <3>2
  <2>3. \A f \in reported' : f \in reported \/ \E k \in r.found : f.key = k /\ f.at = hour
    BY <1>2
  <2>4. \A f \in reported' : \E a \in alerts' : a.key = f.key /\ a.at =< f.at /\ a.at + DayHours >= f.at
    BY <2>1, <2>2, <2>3
  <2>5. QED
    BY <2>4 DEF ReportedOnRecord
<1>11. QED
  BY <1>5, <1>6, <1>7, <1>8, <1>9, <1>10 DEF MonitoringInv

(* A run comes to nothing, and what it published is known to be undone.    *)
LEMMA UndoInv ==
  ASSUME MonitoringInv, NEW m \in Monitors, Undo(m),
         UNCHANGED <<hour, alerts, published, together, reported>>
  PROVE  MonitoringInv'
<1>1. /\ DOMAIN monitor' = Monitors /\ monitor'[m] = MonitorRests
      /\ \A n \in Monitors \ {m} : monitor'[n] = monitor[n]
      /\ undone' = undone \cup {monitor[m].number}
  BY DEF Undo, Becomes, MonitoringInv, MonitoringTypeOK
<1>2. MonitoringTypeOK'
  BY <1>1, MonitorRestsIsARun DEF MonitoringInv, MonitoringTypeOK
<1>3. ASSUME NEW n \in Monitors
      PROVE  RunInOrder(monitor[n])'
  <2>1. CASE n # m
    BY <1>1, <2>1, OtherRunStands DEF MonitoringInv
  <2>2. CASE n = m
    BY <1>1, <2>2, RestIsInOrder
  <2>3. QED
    BY <2>1, <2>2
<1>4. RunsMeet'
  BY <1>1, MonitorRestsIsARun DEF MonitoringInv, RunsMeet, Detects, RanTogether
<1>5. PublishedOnRecord'
  <2>1. ASSUME NEW a \in Pending
        PROVE  a \in Pending' \/ a.run = monitor[m].number
    <3>1. PICK n \in Monitors : a \in monitor[n].added
      BY <2>1 DEF Pending
    <3>2. CASE n = m
      BY <3>1, <3>2 DEF MonitoringInv, RunInOrder
    <3>3. CASE n # m
      BY <1>1, <3>1, <3>3 DEF Pending
    <3>4. QED
      BY <3>2, <3>3
  <2>2. QED
    BY <1>1, <2>1 DEF MonitoringInv, PublishedOnRecord
<1>6. OncePerDay' /\ ReportedOnRecord'
  BY DEF MonitoringInv, OncePerDay, ReportedOnRecord, RanTogether
<1>7. QED
  BY <1>2, <1>3, <1>4, <1>5, <1>6 DEF MonitoringInv

LEMMA DetectorFailsInv ==
  ASSUME MonitoringInv, NEW m \in Monitors, NEW database \in BOOLEAN, DetectorFails(m, database)
  PROVE  MonitoringInv'
<1> DEFINE r == monitor[m]
           to == [r EXCEPT !.pc = "detector", !.found = @ \ (r.todo \cup r.checking),
                           !.todo = {}, !.checking = {}, !.poisoned = @ \/ database]
<1>1. UNCHANGED <<hour, alerts, published, together, reported>>
  BY DEF DetectorFails, World
<1>2. CASE ~r.all
  <2>1. Undo(m)
    BY <1>2 DEF DetectorFails
  <2>2. QED
    BY <1>1, <2>1, UndoInv
<1>3. CASE r.all
  <2>1. DOMAIN r = RunFields /\ RunInOrder(r) /\ Detects(m)
    BY DEF DetectorFails, Detects, MonitoringInv, MonitoringTypeOK, RunOK
  <2>2. Becomes(m, to) /\ UNCHANGED undone
    BY <1>3 DEF DetectorFails
  <2>3. /\ RunOK(to) /\ to.pc = "detector" /\ to.number = r.number /\ to.added = r.added
        /\ to.checking = {} /\ to.todo = {} /\ to.found = r.found \ (r.todo \cup r.checking)
    BY <2>1 DEF RunOK, RunFields
  <2> HIDE DEF to
  <2>4. \A key \in to.found \ to.todo : Recent(key, alerts \cup to.added)
    BY <2>1, <2>3 DEF RunInOrder
  <2>5. QED
    BY <1>1, <2>1, <2>2, <2>3, <2>4, RunGoesOn
<1>4. QED
  BY <1>2, <1>3

LEMMA MonitoringStepInv == MonitoringInv /\ [MonitoringNext]_monitoringVars => MonitoringInv'
<1> SUFFICES ASSUME MonitoringInv, [MonitoringNext]_monitoringVars PROVE MonitoringInv'
  OBVIOUS
<1>1. CASE \/ \E b \in Papers : Refresh(b) \/ Delist(b)
           \/ \E n \in 1 .. DayHours : HourPasses(n)
           \/ UNCHANGED monitoringVars
  BY <1>1, WorldStepInv
<1>2. ASSUME NEW m \in Monitors, NEW all \in BOOLEAN, StartMonitor(m, all)
      PROVE  MonitoringInv'
  BY <1>2, StartMonitorInv
<1>3. ASSUME NEW m \in Monitors, RunDetector(m)
      PROVE  MonitoringInv'
  BY <1>3, RunDetectorInv
<1>4. ASSUME NEW m \in Monitors, DetectorDone(m)
      PROVE  MonitoringInv'
  BY <1>4, DetectorDoneInv
<1>5. ASSUME NEW m \in Monitors, EndMonitor(m)
      PROVE  MonitoringInv'
  <2>1. CASE monitor[m].poisoned
    <3>1. Undo(m) /\ UNCHANGED <<hour, alerts, published, together, reported>>
      BY <1>5, <2>1 DEF EndMonitor, World
    <3>2. QED
      BY <3>1, UndoInv
  <2>2. CASE ~monitor[m].poisoned
    BY <1>5, <2>2, CommitInv
  <2>3. QED
    BY <2>1, <2>2
<1>6. ASSUME NEW m \in Monitors, NEW key \in monitor[m].todo, LookUp(m, key)
      PROVE  MonitoringInv'
  BY <1>6, LookUpInv
<1>7. ASSUME NEW m \in Monitors, NEW key \in monitor[m].todo, InsertAlert(m, key)
      PROVE  MonitoringInv'
  BY <1>7, InsertAlertInv
<1>8. ASSUME NEW m \in Monitors, NEW database \in BOOLEAN, DetectorFails(m, database)
      PROVE  MonitoringInv'
  BY <1>8, DetectorFailsInv
<1>9. QED
  BY <1>1, <1>2, <1>3, <1>4, <1>5, <1>6, <1>7, <1>8 DEF MonitoringNext

(* add_alert, the detectors and the commit at the end of a monitoring run: *)
(* two alerts with one key within a day come from runs that overlapped; a  *)
(* partner heard of no alert that a completed run did not store; and a run *)
(* that committed left an alert for all its detectors had found.  This is  *)
(* so for any number of processes, bonds and pairs and any length of the   *)
(* day, whatever detectors fail and however they do.                       *)
THEOREM MonitoringIsOnRecord == MonitoringSpec => []MonitoringOnRecord
<1>1. MonitoringInv => MonitoringOnRecord
  BY DEF MonitoringInv, OncePerDay, PublishedOnRecord, ReportedOnRecord, MonitoringOnRecord
<1>2. QED
  BY <1>1, MonitoringInitInv, MonitoringStepInv, PTL DEF MonitoringSpec

-----------------------------------------------------------------------------
(* The browser client: the inductive invariant.                            *)
Numbers == Nat \ {0}
Steps == {"ensure", "probe", "request", "reply", "page", "load", "html"} \cup Starting
Shared == {"fetch_html", "load_html", "pop", "await"}
FetchKinds == {"history", "page"}
Resting == [pc : {"resting"}]
Runs == [pc : Steps, kind : FetchKinds, uses : Nat]
Closing == [pc : {"close"}, kind : FetchKinds, field : 1 .. 4, uses : Nat]
Catalogue == [pc : Shared, kind : {"page"}, uses : Nat, future : Numbers]
Fetches == Resting \cup Runs \cup Closing \cup Catalogue

ClientFields == [started : BOOLEAN, driver : Nat, browser : Nat, context : Nat, http : Nat]
Living == [driver : SUBSET Numbers, browser : SUBSET Numbers, context : SUBSET Numbers, http : SUBSET Numbers]

BrowserTypeOK ==
  /\ client \in ClientFields
  /\ launches \in Numbers
  /\ live \in Living
  /\ fetcher \in [Fetchers -> Fetches]
  /\ futures \in Seq({"pending", "done", "failed"}) /\ cached \in 0 .. Len(futures)
  /\ \A f \in Fetchers : fetcher[f].pc \in Shared => fetcher[f].future \in DOMAIN futures
  /\ \A f \in Fetchers : fetcher[f].pc \in Starting => fetcher[f].uses \in Numbers
  /\ crashes \in Nat /\ badLaunches \in Nat /\ failedStarts \in Nat
  /\ restartsMet \in BOOLEAN /\ orphaned \in BOOLEAN

\* What a restart knows of the fields c and of what lives, l, when it is alone.
OwnFields(t, c, l) ==
  /\ t.pc = "close" => /\ \A j \in 1 .. t.field - 1 : c[Fields[j]] = 0
                       /\ t.uses = c[Fields[t.field]]
  /\ t.pc = "start" => \A j \in 1 .. 4 : c[Fields[j]] = 0
  /\ t.pc = "launch" => c.browser = 0 /\ c.context = 0 /\ t.uses \in l.driver
  /\ t.pc = "new_context" => c.browser = t.uses
  /\ t.pc = "stealth" => c.browser = t.uses /\ c.context = t.uses

\* A restart that meets no other finds every field as it left it.
AloneRestarts ==
  ~restartsMet =>
    /\ \A f, g \in Restarting : f = g
    /\ \A f \in Fetchers : OwnFields(fetcher[f], client, live)
    /\ live.browser \subseteq {client.browser}
    /\ Restarting = {} /\ failedStarts = 0 => client.browser = client.context

\* The last to finish a start leaves what it has made.
Recovered ==
  failedStarts = 0 =>
    /\ (\A f \in Restarting : At(f, "stealth")) => client.context \in live.context
    /\ Restarting = {} => client.started /\ client.http \in live.http

\* Without a crash nothing is restarted; with one, only a start that met
\* another, or a browser that does not start, raises.
CrashesCounted ==
  ~restartsMet /\ badLaunches = 0 =>
    /\ crashes = 0 => /\ Restarting = {} /\ failedStarts = 0 /\ Works(client.context)
                      /\ \A f \in Fetchers : At(f, "probe") => Works(fetcher[f].uses)
    /\ crashes <= 1 => /\ failedStarts = 0
                       /\ \A f \in Fetchers : At(f, "new_context") => fetcher[f].uses \in live.browser

\* Who is on record as undisturbed is alone with its restart, and its session
\* lives.
UndisturbedAlone ==
  /\ \A f \in Fetchers : f \notin disturbed /\ ~At(f, "resting") =>
       /\ Restarting \subseteq {f}
       /\ At(f, "reply") /\ failedStarts = 0 => fetcher[f].uses \in live.http
  /\ orphaned => failedStarts > 0

\* A future that is pending has its fetcher; until the first restart there is
\* one at a time, and it is the cached one.
FuturesServed ==
  /\ \A i \in DOMAIN futures : futures[i] = "pending" =>
       \E g \in Fetchers : fetcher[g].pc \in {"fetch_html", "load_html"} /\ fetcher[g].future = i
  /\ launches = 1 =>
       \A f \in Fetchers : fetcher[f].pc \in {"fetch_html", "load_html", "pop"} =>
         /\ fetcher[f].future = cached
         /\ \A g \in Fetchers : fetcher[g].pc \in {"fetch_html", "load_html", "pop"} => f = g

BrowserInv == BrowserTypeOK /\ AloneRestarts /\ Recovered /\ CrashesCounted /\ UndisturbedAlone /\ FuturesServed

-----------------------------------------------------------------------------
(* What its steps keep.                                                    *)

\* A step that neither restarts anything nor changes the client.
QuietStep(f, t) ==
  /\ fetcher' = [fetcher EXCEPT ![f] = t]
  /\ fetcher[f].pc \notin {"close"} \cup Starting /\ t.pc \notin {"close"} \cup Starting
  /\ UNCHANGED <<client, live, launches, crashes, badLaunches, restartsMet, failedStarts>>

\* One operation takes a step: the others are where they were.
LEMMA FetchMoves ==
    ASSUME fetcher \in [Fetchers -> Fetches], NEW f \in Fetchers, NEW t, fetcher' = [fetcher EXCEPT ![f] = t]
    PROVE  fetcher'[f] = t /\ \A g \in Fetchers : g # f => fetcher'[g] = fetcher[g]
  OBVIOUS

\* What a step that neither restarts nor changes the client keeps.
LEMMA QuietKeeps ==
    ASSUME BrowserInv, NEW f \in Fetchers, NEW t, QuietStep(f, t),
           t.pc = "probe" => t.uses = client.context,
           t.pc = "reply" => t.uses = client.http,
           disturbed \ {f} \subseteq disturbed',
           f \in disturbed' \/ t.pc = "resting" \/ (f \notin disturbed /\ ~At(f, "resting")) \/ Restarting = {},
           orphaned' => orphaned \/ failedStarts > 0
    PROVE  AloneRestarts' /\ Recovered' /\ CrashesCounted' /\ UndisturbedAlone'
<1>1. BrowserTypeOK /\ AloneRestarts /\ Recovered /\ CrashesCounted /\ UndisturbedAlone
  BY DEF BrowserInv
<1>2. fetcher'[f] = t /\ \A g \in Fetchers : g # f => fetcher'[g] = fetcher[g]
  BY <1>1, FetchMoves DEF BrowserTypeOK, QuietStep
<1>3. Restarting' = Restarting /\ f \notin Restarting
  BY <1>2 DEF QuietStep, Restarting
<1>4. \A g \in Fetchers : \A pc \in {"close"} \cup Starting : At(g, pc)' <=> At(g, pc)
  BY <1>2 DEF QuietStep, At
<1>5. \A g \in Fetchers : At(g, "close") \/ At(g, "start") \/ At(g, "launch") \/ At(g, "new_context") \/ At(g, "stealth")
                             => fetcher'[g] = fetcher[g]
  BY <1>2 DEF QuietStep, At, Starting
<1>6. AloneRestarts'
  <2> SUFFICES ASSUME ~restartsMet PROVE AloneRestarts'
    BY DEF AloneRestarts, QuietStep
  <2>1. \A g \in Fetchers : OwnFields(fetcher'[g], client, live)
    BY <1>1, <1>2, <1>5 DEF AloneRestarts, OwnFields, QuietStep, Starting, At
  <2> QED
    BY <1>1, <1>3, <2>1 DEF AloneRestarts, QuietStep
<1>7. Recovered'
  BY <1>1, <1>3, <1>4 DEF Recovered, QuietStep, Restarting, Starting
<1>8. CrashesCounted'
  <2>1. CASE ~(~restartsMet /\ badLaunches = 0)
    BY <2>1 DEF CrashesCounted, QuietStep
  <2>2. CASE ~restartsMet /\ badLaunches = 0
    <3>1. crashes = 0 => \A g \in Fetchers : At(g, "probe")' => Works(fetcher'[g].uses)
      BY <1>1, <1>2, <2>2 DEF CrashesCounted, At
    <3>2. crashes <= 1 => \A g \in Fetchers : At(g, "new_context")' => fetcher'[g].uses \in live.browser
      BY <1>1, <1>4, <1>5, <2>2 DEF CrashesCounted, Starting
    <3> QED
      BY <1>1, <1>3, <2>2, <3>1, <3>2 DEF CrashesCounted, QuietStep, Works
  <2> QED
    BY <2>1, <2>2
<1>9. UndisturbedAlone'
  <2>1. ASSUME NEW g \in Fetchers, g \notin disturbed', ~At(g, "resting")'
        PROVE  Restarting' \subseteq {g} /\ (At(g, "reply")' /\ failedStarts' = 0 => fetcher'[g].uses \in live'.http)
    <3>1. CASE g # f
      BY <1>1, <1>2, <1>3, <2>1, <3>1 DEF UndisturbedAlone, At, QuietStep
    <3>2. CASE g = f
      <4>1. Restarting = {}
        BY <1>1, <1>2, <1>3, <2>1, <3>2 DEF UndisturbedAlone, At
      <4>2. failedStarts = 0 => client.http \in live.http
        BY <1>1, <4>1 DEF Recovered
      <4> QED
        BY <1>2, <1>3, <3>2, <4>1, <4>2 DEF At, QuietStep
    <3> QED
      BY <3>1, <3>2
  <2>2. orphaned' => failedStarts' > 0
    BY <1>1 DEF UndisturbedAlone, QuietStep
  <2> QED
    BY <2>1, <2>2 DEF UndisturbedAlone
<1> QED
  BY <1>6, <1>7, <1>8, <1>9

\* What a step keeps of the catalogue when it leaves the futures alone.
LEMMA CatalogueKept ==
    ASSUME BrowserInv, NEW f \in Fetchers, NEW t \in Fetches, fetcher' = [fetcher EXCEPT ![f] = t],
           UNCHANGED futures, launches' # 1 \/ (launches' = launches /\ UNCHANGED cached),
           fetcher[f].pc \in {"fetch_html", "load_html"} => t.pc \in {"fetch_html", "load_html"},
           t.pc \in {"fetch_html", "load_html", "pop"} =>
             fetcher[f].pc \in {"fetch_html", "load_html", "pop"} /\ t.future = fetcher[f].future
    PROVE  FuturesServed'
<1>1. BrowserTypeOK /\ FuturesServed
  BY DEF BrowserInv
<1>2. fetcher'[f] = t /\ \A g \in Fetchers : g # f => fetcher'[g] = fetcher[g]
  BY <1>1, FetchMoves DEF BrowserTypeOK
<1>3. \A i \in DOMAIN futures' : futures'[i] = "pending" =>
       \E g \in Fetchers : fetcher'[g].pc \in {"fetch_html", "load_html"} /\ fetcher'[g].future = i
  BY <1>1, <1>2 DEF FuturesServed
<1>4. launches' = 1 =>
       \A g \in Fetchers : fetcher'[g].pc \in {"fetch_html", "load_html", "pop"} =>
         /\ fetcher'[g].future = cached'
         /\ \A h \in Fetchers : fetcher'[h].pc \in {"fetch_html", "load_html", "pop"} => g = h
  BY <1>1, <1>2 DEF FuturesServed
<1> QED
  BY <1>3, <1>4 DEF FuturesServed

\* Where an operation is tells which fields its record has.
LEMMA WhereAreYou ==
    ASSUME BrowserTypeOK, NEW f \in Fetchers
    PROVE  /\ fetcher[f] \in Fetches
           /\ fetcher[f].pc \in Steps => fetcher[f] \in Runs
           /\ fetcher[f].pc = "close" => fetcher[f] \in Closing
           /\ fetcher[f].pc \in Shared => fetcher[f] \in Catalogue /\ fetcher[f].future \in DOMAIN futures
           /\ fetcher[f].pc \in Steps \cup Shared \cup {"close", "resting"}
<1>1. fetcher[f] \in Fetches
  BY DEF BrowserTypeOK
<1> QED
  BY <1>1 DEF BrowserTypeOK, Fetches, Resting, Runs, Closing, Catalogue, Steps, Shared, Starting

\* An operation that rests, goes on to a request or waits for the catalogue is where it can be.
LEMMA GoesOn ==
    ASSUME BrowserTypeOK, NEW f \in Fetchers, fetcher[f].pc \in Steps, NEW pc \in Steps,
           Continues(f, pc) \/ \E n \in Nat : ContinuesWith(f, pc, n)
    PROVE  \E t \in Runs : /\ fetcher' = [fetcher EXCEPT ![f] = t] /\ t.pc = pc /\ t.kind = fetcher[f].kind
                           /\ Continues(f, pc) => t.uses = fetcher[f].uses
                           /\ \A n \in Nat : ContinuesWith(f, pc, n) => t.uses = n
<1>1. fetcher[f] \in Runs /\ fetcher \in [Fetchers -> Fetches]
  BY WhereAreYou DEF BrowserTypeOK
<1>2. CASE Continues(f, pc)
  <2> DEFINE t == [fetcher[f] EXCEPT !.pc = pc]
  <2>1. t \in Runs /\ t.pc = pc /\ t.kind = fetcher[f].kind /\ t.uses = fetcher[f].uses
    BY <1>1 DEF Runs
  <2>2. fetcher' = [fetcher EXCEPT ![f] = t]
    BY <1>1, <1>2 DEF Continues
  <2>3. \A n \in Nat : ContinuesWith(f, pc, n) => t.uses = n
    <3> SUFFICES ASSUME NEW n \in Nat, ContinuesWith(f, pc, n) PROVE t.uses = n
      OBVIOUS
    <3>1. fetcher'[f].uses = n
      BY <1>1 DEF ContinuesWith, Runs
    <3>2. fetcher'[f] = t
      BY <1>1, <2>2
    <3> QED
      BY <3>1, <3>2
  <2> QED
    BY <2>1, <2>2, <2>3
<1>3. ASSUME NEW n \in Nat, ContinuesWith(f, pc, n)
      PROVE  \E t \in Runs : /\ fetcher' = [fetcher EXCEPT ![f] = t] /\ t.pc = pc /\ t.kind = fetcher[f].kind
                             /\ Continues(f, pc) => t.uses = fetcher[f].uses
                             /\ \A m \in Nat : ContinuesWith(f, pc, m) => t.uses = m
  <2> DEFINE t == [fetcher[f] EXCEPT !.pc = pc, !.uses = n]
  <2>1. t \in Runs /\ t.pc = pc /\ t.kind = fetcher[f].kind /\ t.uses = n
    BY <1>1 DEF Runs
  <2>2. fetcher' = [fetcher EXCEPT ![f] = t]
    BY <1>1, <1>3 DEF ContinuesWith
  <2>3. fetcher'[f] = t
    BY <1>1, <2>2
  <2>4. Continues(f, pc) => t.uses = fetcher[f].uses
    BY <1>1, <2>3 DEF Continues, Runs
  <2>5. \A m \in Nat : ContinuesWith(f, pc, m) => t.uses = m
    BY <1>1, <2>3 DEF ContinuesWith, Runs
  <2> QED
    BY <2>1, <2>2, <2>4, <2>5
<1> QED
  BY <1>2, <1>3

\* A quiet step keeps the types.
LEMMA QuietTyped ==
    ASSUME BrowserTypeOK, NEW f \in Fetchers, NEW t \in Fetches, fetcher' = [fetcher EXCEPT ![f] = t],
           UNCHANGED <<client, live, launches, crashes, badLaunches, restartsMet, failedStarts>>,
           orphaned' \in BOOLEAN, futures' \in Seq({"pending", "done", "failed"}), cached' \in 0 .. Len(futures'),
           DOMAIN futures \subseteq DOMAIN futures', t.pc \in Shared => t.future \in DOMAIN futures',
           t.pc \notin Starting
    PROVE  BrowserTypeOK'
<1>1. fetcher' \in [Fetchers -> Fetches]
  BY DEF BrowserTypeOK
<1>2. \A g \in Fetchers : fetcher'[g].pc \in Shared => fetcher'[g].future \in DOMAIN futures'
  BY DEF BrowserTypeOK
<1>3. \A g \in Fetchers : fetcher'[g].pc \in Starting => fetcher'[g].uses \in Numbers
  BY DEF BrowserTypeOK
<1> QED
  BY <1>1, <1>2, <1>3 DEF BrowserTypeOK

\* A quiet step that leaves the futures alone keeps the invariant.
LEMMA QuietRun ==
    ASSUME BrowserInv, NEW f \in Fetchers, NEW t \in Fetches, QuietStep(f, t), UNCHANGED <<futures, cached>>,
           t.pc = "probe" => t.uses = client.context,
           t.pc = "reply" => t.uses = client.http,
           disturbed \ {f} \subseteq disturbed',
           f \in disturbed' \/ t.pc = "resting" \/ (f \notin disturbed /\ ~At(f, "resting")) \/ Restarting = {},
           orphaned' \in BOOLEAN, orphaned' => orphaned \/ failedStarts > 0,
           fetcher[f].pc \in {"fetch_html", "load_html"} => t.pc \in {"fetch_html", "load_html"},
           t.pc \in Shared => fetcher[f].pc \in {"fetch_html", "load_html", "pop"} /\ t.future = fetcher[f].future
    PROVE  BrowserInv'
<1>1. BrowserTypeOK'
  <2>1. t.pc \in Shared => t.future \in DOMAIN futures
    BY DEF BrowserInv, BrowserTypeOK, Shared
  <2> QED
    BY <2>1, QuietTyped DEF BrowserInv, BrowserTypeOK, QuietStep
<1>2. FuturesServed'
  BY CatalogueKept DEF QuietStep, Shared
<1> QED
  BY <1>1, <1>2, QuietKeeps DEF BrowserInv

-----------------------------------------------------------------------------

\* A restart that an operation does not know of is none of its own.
LEMMA OrphansKnow ==
    ASSUME BrowserInv, NEW f \in Fetchers, f \notin Restarting, ~At(f, "resting"), f \notin disturbed
    PROVE  /\ Restarting = {}
           /\ failedStarts = 0 => client.started /\ client.http \in live.http /\ client.http # 0
           /\ failedStarts \in Nat
<1>1. Restarting = {}
  BY DEF BrowserInv, UndisturbedAlone
<1>2. failedStarts = 0 => client.started /\ client.http \in live.http
  BY <1>1 DEF BrowserInv, Recovered
<1> QED
  BY <1>1, <1>2 DEF BrowserInv, BrowserTypeOK, Living, Numbers

\* An operation begins.
LEMMA BeginKeeps ==
    ASSUME BrowserInv, NEW f \in Fetchers, NEW kind \in FetchKinds, Begin(f, kind)
    PROVE  BrowserInv'
<1> DEFINE t == [pc |-> "ensure", kind |-> kind, uses |-> 0]
<1>1. t \in Fetches /\ t.pc = "ensure"
  BY DEF Fetches, Runs, Steps
<1>2. QuietStep(f, t)
  BY DEF QuietStep, Begin, resources, At, Starting
<1>3. /\ disturbed \ {f} \subseteq disturbed' /\ (f \in disturbed' \/ Restarting = {})
      /\ orphaned' = orphaned /\ UNCHANGED <<futures, cached>> /\ fetcher[f].pc = "resting"
  BY DEF Begin, htmlVars, At
<1>4. orphaned' \in BOOLEAN
  BY <1>3 DEF BrowserInv, BrowserTypeOK
<1> HIDE DEF t
<1> QED
  BY <1>1, <1>2, <1>3, <1>4, QuietRun DEF Shared

\* An operation that rests keeps the invariant.
LEMMA RestsQuietly ==
    ASSUME BrowserInv, NEW f \in Fetchers, Rests(f), f \notin Restarting,
           fetcher[f].pc \notin {"fetch_html", "load_html"},
           UNCHANGED <<client, live, launches, crashes, badLaunches, restartsMet, failedStarts, futures, cached>>,
           disturbed' = disturbed \ {f},
           orphaned' \in BOOLEAN, orphaned' => orphaned \/ failedStarts > 0
    PROVE  BrowserInv'
<1>1. NoFetch \in Fetches /\ NoFetch.pc = "resting"
  BY DEF Fetches, Resting, NoFetch
<1>2. QuietStep(f, NoFetch)
  BY <1>1 DEF QuietStep, Rests, Restarting, Starting
<1> QED
  BY <1>1, <1>2, QuietRun DEF Shared

\* An operation whose browser is gone ends.
LEMMA EndsOrphanedKeeps ==
    ASSUME BrowserInv, NEW f \in Fetchers, EndsOrphaned(f), f \notin Restarting, ~At(f, "resting"),
           fetcher[f].pc \notin {"fetch_html", "load_html"},
           f \notin disturbed => failedStarts > 0,
           UNCHANGED <<client, live, launches, crashes, badLaunches, futures, cached>>
    PROVE  BrowserInv'
<1>1. orphaned' \in BOOLEAN /\ (orphaned' => orphaned \/ failedStarts > 0)
  BY DEF EndsOrphaned, BrowserInv, BrowserTypeOK
<1> QED
  BY <1>1, RestsQuietly DEF EndsOrphaned

\* An operation ends with its answer or its error.
LEMMA EndsKeeps ==
    ASSUME BrowserInv, NEW f \in Fetchers, Ends(f), f \notin Restarting,
           fetcher[f].pc \notin {"fetch_html", "load_html"},
           UNCHANGED <<client, live, launches, crashes, badLaunches, futures, cached>>
    PROVE  BrowserInv'
<1>1. orphaned' \in BOOLEAN /\ (orphaned' => orphaned)
  BY DEF Ends, BrowserInv, BrowserTypeOK
<1> QED
  BY <1>1, RestsQuietly DEF Ends

\* A step from one wait to the next that changes nothing else.
LEMMA GoesQuietly ==
    ASSUME BrowserInv, NEW f \in Fetchers, NEW pc \in Steps, pc \notin Starting,
           fetcher[f].pc \in Steps, f \notin Restarting,
           \/ Continues(f, pc) /\ pc \notin {"probe", "reply"}
           \/ \E n \in Nat : ContinuesWith(f, pc, n) /\ (pc = "probe" => n = client.context)
                                                     /\ (pc = "reply" => n = client.http),
           UNCHANGED <<resources, crashes, badLaunches, histories, futures, cached>>
    PROVE  BrowserInv'
<1>1. PICK t \in Runs : /\ fetcher' = [fetcher EXCEPT ![f] = t] /\ t.pc = pc
                        /\ pc = "probe" => t.uses = client.context
                        /\ pc = "reply" => t.uses = client.http
  BY GoesOn DEF BrowserInv
<1>2. QuietStep(f, t)
  BY <1>1 DEF QuietStep, resources, histories, Restarting, Steps, Starting
<1>3. /\ disturbed' = disturbed /\ orphaned' = orphaned /\ fetcher[f].pc # "resting"
      /\ fetcher[f].pc \notin {"fetch_html", "load_html"} /\ t.pc \notin Shared /\ t.pc # "resting"
      /\ t \in Fetches /\ orphaned' \in BOOLEAN
  BY <1>1 DEF histories, Steps, Starting, Shared, Fetches, BrowserInv, BrowserTypeOK
<1> QED
  BY <1>1, <1>2, <1>3, QuietRun DEF At, histories, BrowserInv, UndisturbedAlone

\* The look at what is started, and the probe of the context.
LEMMA CheckKeeps ==
    ASSUME BrowserInv, NEW f \in Fetchers, Probe(f) \/ Healthy(f)
    PROVE  BrowserInv'
<1>1. fetcher[f].pc \in {"ensure", "probe"} /\ f \notin Restarting /\ ~At(f, "resting")
  BY DEF Probe, Healthy, At, Restarting, Starting
<1>2. CASE Probe(f) /\ client.started
  <2>1. client.context \in Nat
    BY DEF BrowserInv, BrowserTypeOK, ClientFields
  <2> QED
    BY <1>1, <1>2, <2>1, GoesQuietly DEF Probe, counters, htmlVars, Steps, Starting
<1>3. CASE Probe(f) /\ ~client.started
  <2>1. f \notin disturbed => failedStarts > 0
    BY <1>1, <1>3, OrphansKnow
  <2> QED
    BY <1>1, <1>3, <2>1, EndsOrphanedKeeps DEF Probe, counters, htmlVars, resources
<1>4. CASE Healthy(f)
  BY <1>1, <1>4, GoesQuietly DEF Healthy, counters, htmlVars, Steps, Starting
<1> QED
  BY <1>2, <1>3, <1>4

\* A request over the session, and its reply.
LEMMA SessionKeeps ==
    ASSUME BrowserInv, NEW f \in Fetchers, Request(f) \/ Reply(f)
    PROVE  BrowserInv'
<1>1. fetcher[f].pc \in {"request", "reply"} /\ f \notin Restarting /\ ~At(f, "resting")
  BY DEF Request, Reply, At, Restarting, Starting
<1>2. CASE Request(f) /\ client.http # 0
  <2>1. client.http \in Nat
    BY DEF BrowserInv, BrowserTypeOK, ClientFields
  <2> QED
    BY <1>1, <1>2, <2>1, GoesQuietly DEF Request, counters, htmlVars, Steps, Starting
<1>3. CASE Request(f) /\ client.http = 0
  <2>1. f \notin disturbed => failedStarts > 0
    BY <1>1, <1>3, OrphansKnow
  <2> QED
    BY <1>1, <1>3, <2>1, EndsOrphanedKeeps DEF Request, counters, htmlVars, resources
<1>4. CASE Reply(f) /\ fetcher[f].uses \in live.http
  BY <1>1, <1>4, EndsKeeps DEF Reply, counters, htmlVars, resources
<1>5. CASE Reply(f) /\ fetcher[f].uses \notin live.http
  <2>1. f \notin disturbed => failedStarts # 0
    BY <1>1, <1>5 DEF Reply, BrowserInv, UndisturbedAlone
  <2>2. f \notin disturbed => failedStarts > 0
    BY <2>1 DEF BrowserInv, BrowserTypeOK, ClientFields
  <2> QED
    BY <1>1, <1>5, <2>2, EndsOrphanedKeeps DEF Reply, counters, htmlVars, resources
<1> QED
  BY <1>2, <1>3, <1>4, <1>5 DEF Request, Reply

\* A page is opened and loaded.
LEMMA PageKeeps ==
    ASSUME BrowserInv, NEW f \in Fetchers, OpenPage(f) \/ PageLoads(f) \/ PageFails(f) \/ Awaited(f)
    PROVE  BrowserInv'
<1>1. fetcher[f].pc \in {"page", "load", "await"} /\ f \notin Restarting /\ ~At(f, "resting")
  BY DEF OpenPage, PageLoads, PageFails, Awaited, At, Restarting, Starting
<1>2. client.context \in Nat
  BY DEF BrowserInv, BrowserTypeOK, ClientFields
<1>3. CASE OpenPage(f)
  BY <1>1, <1>2, <1>3, GoesQuietly DEF OpenPage, At, counters, htmlVars, Steps, Starting
<1>4. CASE PageFails(f)
  BY <1>1, <1>4, GoesQuietly DEF PageFails, At, counters, htmlVars, Steps, Starting
<1>5. CASE PageLoads(f) \/ Awaited(f)
  BY <1>1, <1>5, EndsKeeps DEF PageLoads, Awaited, counters, htmlVars, resources
<1> QED
  BY <1>3, <1>4, <1>5

-----------------------------------------------------------------------------
(* The catalogue.                                                          *)

\* The page of the catalogue is opened.
LEMMA OpenHtmlKeeps ==
    ASSUME BrowserInv, NEW f \in Fetchers, OpenHtml(f)
    PROVE  BrowserInv'
<1> DEFINE t == [fetcher[f] EXCEPT !.pc = "load_html", !.uses = client.context]
<1>1. BrowserTypeOK /\ At(f, "fetch_html") /\ client.context \in Nat
  BY DEF BrowserInv, BrowserTypeOK, ClientFields, OpenHtml
<1>2. fetcher[f] \in Catalogue /\ fetcher[f].pc = "fetch_html"
  BY <1>1, WhereAreYou DEF At, Shared
<1>3. t \in Catalogue /\ t.pc = "load_html" /\ t.future = fetcher[f].future
  BY <1>1, <1>2 DEF Catalogue, Shared
<1>4. fetcher' = [fetcher EXCEPT ![f] = t]
  BY DEF OpenHtml, ContinuesWith
<1> HIDE DEF t
<1>5. QuietStep(f, t)
  BY <1>2, <1>3, <1>4 DEF QuietStep, OpenHtml, resources, counters, histories, Starting
<1>6. t \in Fetches /\ disturbed' = disturbed /\ orphaned' = orphaned /\ UNCHANGED <<futures, cached>>
  BY <1>3 DEF Fetches, OpenHtml, histories, htmlVars
<1>7. orphaned' \in BOOLEAN /\ (orphaned' => orphaned \/ failedStarts > 0)
  BY <1>1, <1>6 DEF BrowserTypeOK
<1> QED
  BY <1>2, <1>3, <1>5, <1>6, <1>7, QuietRun DEF At

\* What is common to the steps that change the futures.
LEMMA QuietButFutures ==
    ASSUME BrowserInv, NEW f \in Fetchers, NEW t \in Catalogue \cup {NoFetch}, fetcher' = [fetcher EXCEPT ![f] = t],
           fetcher[f].pc \in {"html", "fetch_html", "load_html", "pop"},
           UNCHANGED <<client, live, launches, crashes, badLaunches>>,
           UNCHANGED <<restartsMet, failedStarts, orphaned>>,
           disturbed' = disturbed \/ (t = NoFetch /\ disturbed' = disturbed \ {f}),
           futures' \in Seq({"pending", "done", "failed"}), cached' \in 0 .. Len(futures'),
           DOMAIN futures \subseteq DOMAIN futures', t # NoFetch => t.future \in DOMAIN futures'
    PROVE  BrowserTypeOK' /\ AloneRestarts' /\ Recovered' /\ CrashesCounted' /\ UndisturbedAlone'
<1>1. NoFetch \in Resting /\ NoFetch.pc = "resting"
  BY DEF Resting, NoFetch
<1>2. t \in Fetches /\ t.pc \in Shared \cup {"resting"} /\ (t.pc = "resting" => t = NoFetch)
  BY <1>1 DEF Fetches, Catalogue, Shared
<1>3. QuietStep(f, t)
  BY <1>2 DEF QuietStep, Starting, Shared
<1>4. orphaned' \in BOOLEAN /\ (orphaned' => orphaned \/ failedStarts > 0)
  BY DEF BrowserInv, BrowserTypeOK, ClientFields
<1>5. BrowserTypeOK'
  BY <1>1, <1>2, <1>3, <1>4, QuietTyped DEF QuietStep, BrowserInv, Shared
<1>6. AloneRestarts' /\ Recovered' /\ CrashesCounted' /\ UndisturbedAlone'
  <2>1. t.pc # "probe" /\ t.pc # "reply" /\ disturbed \ {f} \subseteq disturbed'
    BY <1>2 DEF Shared
  <2>2. f \in disturbed' \/ t.pc = "resting" \/ (f \notin disturbed /\ ~At(f, "resting")) \/ Restarting = {}
    BY <1>1 DEF At
  <2> QED
    BY <1>3, <1>4, <2>1, <2>2, QuietKeeps
<1> QED
  BY <1>5, <1>6

\* A fetch of the catalogue takes the cached future or stores its own.
LEMMA LookInCacheKeeps ==
    ASSUME BrowserInv, NEW f \in Fetchers, LookInCache(f)
    PROVE  BrowserInv'
<1>1. BrowserTypeOK /\ FuturesServed /\ At(f, "html") /\ f \notin Restarting
  BY DEF BrowserInv, LookInCache, At, Restarting, Starting
<1>2. futures \in Seq({"pending", "done", "failed"}) /\ Len(futures) \in Nat /\ DOMAIN futures = 1 .. Len(futures)
      /\ cached \in 0 .. Len(futures)
  BY <1>1 DEF BrowserTypeOK
<1>3. CASE cached = 0
  <2> DEFINE t == [pc |-> "fetch_html", kind |-> "page", uses |-> 0, future |-> Len(futures')]
  <2>1. futures' = Append(futures, "pending") /\ cached' = Len(futures') /\ fetcher' = [fetcher EXCEPT ![f] = t]
        /\ UNCHANGED <<client, live, launches, crashes, badLaunches, restartsMet, failedStarts, orphaned, disturbed>>
    BY <1>3 DEF LookInCache, resources, counters, histories
  <2>2. /\ futures' \in Seq({"pending", "done", "failed"}) /\ Len(futures') = Len(futures) + 1
        /\ DOMAIN futures' = 1 .. Len(futures) + 1
        /\ \A i \in DOMAIN futures : futures'[i] = futures[i]
    BY <1>2, <2>1
  <2>3. t \in Catalogue /\ t.pc = "fetch_html" /\ t.future = Len(futures) + 1
    BY <1>2, <2>2 DEF Catalogue, Shared, Numbers
  <2> HIDE DEF t
  <2>4. BrowserTypeOK' /\ AloneRestarts' /\ Recovered' /\ CrashesCounted' /\ UndisturbedAlone'
    <3>1. /\ t \in Catalogue \cup {NoFetch} /\ t.future \in DOMAIN futures' /\ fetcher[f].pc = "html"
          /\ cached' \in 0 .. Len(futures') /\ DOMAIN futures \subseteq DOMAIN futures'
      BY <1>1, <1>2, <2>1, <2>2, <2>3 DEF At
    <3> QED
      BY <2>1, <2>2, <3>1, QuietButFutures
  <2>5. fetcher'[f] = t /\ \A g \in Fetchers : g # f => fetcher'[g] = fetcher[g]
    BY <1>1, <2>1, FetchMoves DEF BrowserTypeOK
  <2>6. \A i \in DOMAIN futures' : futures'[i] = "pending" =>
          \E g \in Fetchers : fetcher'[g].pc \in {"fetch_html", "load_html"} /\ fetcher'[g].future = i
    BY <1>1, <1>2, <2>2, <2>3, <2>5 DEF FuturesServed, At
  <2>7. launches' = 1 =>
       \A g \in Fetchers : fetcher'[g].pc \in {"fetch_html", "load_html", "pop"} =>
         /\ fetcher'[g].future = cached'
         /\ \A h \in Fetchers : fetcher'[h].pc \in {"fetch_html", "load_html", "pop"} => g = h
    <3>1. launches = 1 => \A g \in Fetchers : fetcher[g].pc \notin {"fetch_html", "load_html", "pop"}
      <4> SUFFICES ASSUME launches = 1, NEW g \in Fetchers, fetcher[g].pc \in {"fetch_html", "load_html", "pop"}
                   PROVE FALSE
        OBVIOUS
      <4>1. fetcher[g].future = 0
        BY <1>1, <1>3 DEF FuturesServed
      <4>2. fetcher[g].future \in DOMAIN futures
        BY <1>1 DEF BrowserTypeOK, Shared
      <4> QED
        BY <1>2, <4>1, <4>2
    <3> QED
      BY <2>1, <2>2, <2>3, <2>5, <3>1
  <2> QED
    BY <2>4, <2>6, <2>7 DEF BrowserInv, FuturesServed
<1>4. CASE cached # 0 /\ futures[cached] = "pending"
  <2> DEFINE t == [pc |-> "await", kind |-> "page", uses |-> 0, future |-> cached]
  <2>1. /\ fetcher' = [fetcher EXCEPT ![f] = t] /\ UNCHANGED <<futures, cached>>
        /\ UNCHANGED <<client, live, launches, crashes, badLaunches, restartsMet, failedStarts, orphaned, disturbed>>
    BY <1>4 DEF LookInCache, resources, counters, histories
  <2>2. t \in Catalogue /\ t.pc = "await" /\ t.future \in DOMAIN futures
    BY <1>2, <1>4 DEF Catalogue, Shared, Numbers
  <2> HIDE DEF t
  <2>3. BrowserTypeOK' /\ AloneRestarts' /\ Recovered' /\ CrashesCounted' /\ UndisturbedAlone'
    BY <1>1, <1>2, <2>1, <2>2, QuietButFutures DEF At
  <2>4. FuturesServed'
    BY <1>1, <2>1, <2>2, CatalogueKept DEF At, Fetches
  <2> QED
    BY <2>3, <2>4 DEF BrowserInv
<1>5. CASE cached # 0 /\ futures[cached] # "pending"
  BY <1>1, <1>5, EndsKeeps DEF LookInCache, At, resources, counters
<1> QED
  BY <1>3, <1>4, <1>5

\* The fetcher of a future settles it: it was its own.
LEMMA SettlesKeeps ==
    ASSUME BrowserInv, NEW f \in Fetchers, HtmlLoads(f) \/ HtmlFails(f)
    PROVE  BrowserInv'
<1> DEFINE t == IF HtmlLoads(f) THEN NoFetch ELSE [fetcher[f] EXCEPT !.pc = "pop"]
           n == fetcher[f].future
           result == IF HtmlLoads(f) THEN "done" ELSE "failed"
<1>1. BrowserTypeOK /\ FuturesServed /\ fetcher[f].pc \in {"fetch_html", "load_html"}
  BY DEF BrowserInv, HtmlLoads, HtmlFails, At
<1>2. fetcher[f] \in Catalogue /\ n \in DOMAIN futures
  BY <1>1, WhereAreYou DEF Shared
<1>3. t \in Catalogue \cup {NoFetch} /\ (t # NoFetch => t.future = n /\ t.pc = "pop")
  BY <1>2 DEF Catalogue, Shared
<1>4. NoFetch.pc = "resting" /\ (t = NoFetch \/ t.pc = "pop")
  BY <1>3 DEF NoFetch
<1>5. /\ fetcher' = [fetcher EXCEPT ![f] = t] /\ futures' = [futures EXCEPT ![n] = result]
      /\ cached' = cached /\ UNCHANGED <<client, live, launches, crashes, badLaunches>>
      /\ UNCHANGED <<restartsMet, failedStarts, orphaned>>
      /\ disturbed' = disturbed \/ (t = NoFetch /\ disturbed' = disturbed \ {f})
  BY DEF HtmlLoads, HtmlFails, Ends, Rests, Continues, histories, resources, counters
<1>6. result \in {"done", "failed"}
  OBVIOUS
<1> HIDE DEF t, n, result
<1>7. futures \in Seq({"pending", "done", "failed"}) /\ cached \in 0 .. Len(futures)
  BY <1>1 DEF BrowserTypeOK
<1>8. /\ futures' \in Seq({"pending", "done", "failed"}) /\ Len(futures') = Len(futures)
      /\ DOMAIN futures' = DOMAIN futures
      /\ futures'[n] = result /\ \A i \in DOMAIN futures : i # n => futures'[i] = futures[i]
  BY <1>2, <1>5, <1>6, <1>7
<1>9. BrowserTypeOK' /\ AloneRestarts' /\ Recovered' /\ CrashesCounted' /\ UndisturbedAlone'
  BY <1>1, <1>2, <1>3, <1>5, <1>7, <1>8, QuietButFutures
<1>10. fetcher'[f] = t /\ \A g \in Fetchers : g # f => fetcher'[g] = fetcher[g]
  BY <1>1, <1>5, FetchMoves DEF BrowserTypeOK
<1>11. \A i \in DOMAIN futures' : futures'[i] = "pending" =>
          \E g \in Fetchers : fetcher'[g].pc \in {"fetch_html", "load_html"} /\ fetcher'[g].future = i
  <2> SUFFICES ASSUME NEW i \in DOMAIN futures', futures'[i] = "pending"
               PROVE \E g \in Fetchers : fetcher'[g].pc \in {"fetch_html", "load_html"} /\ fetcher'[g].future = i
    OBVIOUS
  <2>1. i # n /\ i \in DOMAIN futures /\ futures[i] = "pending"
    BY <1>6, <1>8
  <2>2. PICK g \in Fetchers : fetcher[g].pc \in {"fetch_html", "load_html"} /\ fetcher[g].future = i
    BY <1>1, <2>1 DEF FuturesServed
  <2>3. g # f
    BY <2>1, <2>2 DEF n
  <2> QED
    BY <1>10, <2>2, <2>3
<1>12. launches' = 1 =>
       \A g \in Fetchers : fetcher'[g].pc \in {"fetch_html", "load_html", "pop"} =>
         /\ fetcher'[g].future = cached'
         /\ \A h \in Fetchers : fetcher'[h].pc \in {"fetch_html", "load_html", "pop"} => g = h
  BY <1>1, <1>3, <1>4, <1>5, <1>10 DEF FuturesServed, n
<1> QED
  BY <1>9, <1>11, <1>12 DEF BrowserInv, FuturesServed

\* A failed future is taken out of the cache.
LEMMA PopHtmlKeeps ==
    ASSUME BrowserInv, NEW f \in Fetchers, PopHtml(f)
    PROVE  BrowserInv'
<1>1. BrowserTypeOK /\ FuturesServed /\ fetcher[f].pc = "pop"
  BY DEF BrowserInv, PopHtml, At
<1>2. futures \in Seq({"pending", "done", "failed"}) /\ Len(futures) \in Nat
  BY <1>1 DEF BrowserTypeOK
<1>3. BrowserTypeOK' /\ AloneRestarts' /\ Recovered' /\ CrashesCounted' /\ UndisturbedAlone'
  <2>1. /\ fetcher' = [fetcher EXCEPT ![f] = NoFetch] /\ futures' = futures /\ cached' = 0
        /\ UNCHANGED <<client, live, launches, crashes, badLaunches, restartsMet, failedStarts, orphaned>>
        /\ disturbed' = disturbed \ {f}
    BY DEF PopHtml, Ends, Rests, resources, counters
  <2>2. /\ NoFetch \in Catalogue \cup {NoFetch} /\ fetcher[f].pc \in {"html", "fetch_html", "load_html", "pop"}
        /\ cached' \in 0 .. Len(futures') /\ DOMAIN futures \subseteq DOMAIN futures'
        /\ futures' \in Seq({"pending", "done", "failed"})
    BY <1>1, <1>2, <2>1
  <2> QED
    BY <2>1, <2>2, QuietButFutures
<1>4. fetcher'[f] = NoFetch /\ \A g \in Fetchers : g # f => fetcher'[g] = fetcher[g]
  BY <1>1, FetchMoves DEF BrowserTypeOK, PopHtml, Ends, Rests
<1>5. NoFetch.pc = "resting"
  BY DEF NoFetch
<1>6. \A i \in DOMAIN futures' : futures'[i] = "pending" =>
          \E g \in Fetchers : fetcher'[g].pc \in {"fetch_html", "load_html"} /\ fetcher'[g].future = i
  BY <1>1, <1>4 DEF FuturesServed, PopHtml
<1>7. launches' = 1 => \A g \in Fetchers : fetcher'[g].pc \notin {"fetch_html", "load_html", "pop"}
  BY <1>1, <1>4, <1>5 DEF FuturesServed, PopHtml, resources
<1> QED
  BY <1>3, <1>6, <1>7 DEF BrowserInv, FuturesServed

-----------------------------------------------------------------------------
(* The restart.                                                            *)

Undone == {"close", "start", "launch", "new_context"}

\* What a step of a restart keeps, given what it leaves of its own fields.
LEMMA RestartRun ==
    ASSUME BrowserInv, NEW f \in Restarting, NEW t \in Fetches, fetcher' = [fetcher EXCEPT ![f] = t],
           UNCHANGED <<crashes, restartsMet, orphaned, futures>>,
           launches' \in Numbers, cached' \in {0, cached}, launches' # 1 \/ (launches' = launches /\ UNCHANGED cached),
           client' \in ClientFields, live' \in Living, badLaunches' \in Nat, failedStarts' \in Nat,
           badLaunches' = 0 => badLaunches = 0, failedStarts' = 0 => failedStarts = 0,
           t.pc \in Starting => t.uses \in Numbers, t.pc \notin Shared \cup {"probe", "reply"},
           disturbed' = disturbed \/ (t.pc = "resting" /\ disturbed' = disturbed \ {f}),
           failedStarts' = 0 /\ t.pc \notin Undone /\ (\A g \in Restarting : g # f => At(g, "stealth")) =>
             client'.context \in live'.context,
           failedStarts' = 0 /\ t.pc \notin {"close"} \cup Starting => client'.started /\ client'.http \in live'.http,
           ~restartsMet =>
             /\ OwnFields(t, client', live') /\ live'.browser \subseteq {client'.browser}
             /\ failedStarts' = 0 /\ t.pc \notin {"close"} \cup Starting => client'.browser = client'.context,
           ~restartsMet /\ badLaunches' = 0 /\ crashes =< 1 =>
             failedStarts' = 0 /\ (t.pc = "new_context" => t.uses \in live'.browser)
    PROVE  BrowserInv'
<1>1. BrowserTypeOK /\ AloneRestarts /\ Recovered /\ CrashesCounted /\ UndisturbedAlone /\ f \in Fetchers
  BY DEF BrowserInv, Restarting
<1>2. fetcher'[f] = t /\ \A g \in Fetchers : g # f => fetcher'[g] = fetcher[g]
  BY <1>1, FetchMoves DEF BrowserTypeOK
<1>3. Restarting' = IF t.pc \in {"close"} \cup Starting THEN Restarting ELSE Restarting \ {f}
  BY <1>1, <1>2 DEF Restarting
<1>4. fetcher[f].pc \in {"close"} \cup Starting
  BY DEF Restarting
<1>5. BrowserTypeOK'
  <2>1. fetcher' \in [Fetchers -> Fetches]
    BY <1>1 DEF BrowserTypeOK
  <2>2. \A g \in Fetchers : fetcher'[g].pc \in Shared => fetcher'[g].future \in DOMAIN futures'
    BY <1>1, <1>2 DEF BrowserTypeOK
  <2>3. \A g \in Fetchers : fetcher'[g].pc \in Starting => fetcher'[g].uses \in Numbers
    BY <1>1, <1>2 DEF BrowserTypeOK
  <2>4. cached' \in 0 .. Len(futures')
    BY <1>1 DEF BrowserTypeOK
  <2> QED
    BY <1>1, <2>1, <2>2, <2>3, <2>4 DEF BrowserTypeOK
<1>6. AloneRestarts'
  <2> SUFFICES ASSUME ~restartsMet PROVE AloneRestarts'
    BY DEF AloneRestarts
  <2>1. Restarting = {f} /\ Restarting' \subseteq {f}
    BY <1>1, <1>3 DEF AloneRestarts
  <2>2. \A g \in Fetchers : OwnFields(fetcher'[g], client', live')
    <3>1. \A g \in Fetchers : g # f => fetcher'[g].pc \notin {"close"} \cup Starting
      BY <1>2, <2>1 DEF Restarting
    <3> QED
      BY <1>2, <3>1 DEF OwnFields, Starting
  <2>3. Restarting' = {} => t.pc \notin {"close"} \cup Starting
    BY <1>3
  <2> QED
    BY <2>1, <2>2, <2>3 DEF AloneRestarts
<1>7. Recovered'
  <2> SUFFICES ASSUME failedStarts' = 0 PROVE Recovered'
    BY DEF Recovered
  <2>1. (\A g \in Restarting' : At(g, "stealth")') => client'.context \in live'.context
    <3> SUFFICES ASSUME \A g \in Restarting' : At(g, "stealth")' PROVE client'.context \in live'.context
      OBVIOUS
    <3>1. t.pc \notin Undone
      BY <1>2, <1>3 DEF At, Undone, Starting
    <3>2. \A g \in Restarting : g # f => At(g, "stealth")
      BY <1>2, <1>3 DEF At, Restarting
    <3> QED
      BY <3>1, <3>2
  <2>2. Restarting' = {} => client'.started /\ client'.http \in live'.http
    BY <1>3
  <2> QED
    BY <2>1, <2>2 DEF Recovered
<1>8. CrashesCounted'
  <2> SUFFICES ASSUME ~restartsMet, badLaunches' = 0 PROVE CrashesCounted'
    BY DEF CrashesCounted
  <2>1. crashes # 0
    BY <1>1 DEF CrashesCounted
  <2>2. \A g \in Fetchers : At(g, "new_context")' => g = f
    BY <1>1, <1>2 DEF AloneRestarts, Restarting, At, Starting
  <2> QED
    BY <1>2, <2>1, <2>2 DEF CrashesCounted, At
<1>9. UndisturbedAlone'
  <2>1. ASSUME NEW g \in Fetchers, g \notin disturbed', ~At(g, "resting")'
        PROVE  Restarting' \subseteq {g} /\ (At(g, "reply")' /\ failedStarts' = 0 => fetcher'[g].uses \in live'.http)
    <3>1. g = f
      <4> SUFFICES ASSUME g # f PROVE FALSE
        OBVIOUS
      <4>1. g \notin disturbed /\ ~At(g, "resting")
        BY <1>2, <2>1 DEF At
      <4> QED
        BY <1>1, <4>1 DEF UndisturbedAlone
    <3>2. t.pc # "resting" /\ f \notin disturbed /\ ~At(f, "resting")
      BY <1>2, <1>4, <2>1, <3>1 DEF At, Starting
    <3>3. Restarting' \subseteq {f}
      BY <1>1, <1>3, <3>2 DEF UndisturbedAlone
    <3> QED
      BY <1>2, <3>1, <3>3 DEF At
  <2>2. orphaned' => failedStarts' > 0
    BY <1>1 DEF UndisturbedAlone, BrowserTypeOK
  <2> QED
    BY <2>1, <2>2 DEF UndisturbedAlone
<1>10. FuturesServed'
  BY <1>1, <1>4, CatalogueKept DEF Starting, Shared
<1> QED
  BY <1>5, <1>6, <1>7, <1>8, <1>9, <1>10 DEF BrowserInv

\* A start that is alone found its fields as it left them.
LEMMA StarterAt ==
    ASSUME BrowserInv, NEW f \in Fetchers, fetcher[f].pc \in Starting
    PROVE  /\ BrowserTypeOK /\ f \in Restarting /\ fetcher[f] \in Runs /\ fetcher[f].uses \in Numbers
           /\ client \in ClientFields /\ live \in Living /\ launches \in Numbers
           /\ failedStarts \in Nat /\ badLaunches \in Nat /\ crashes \in Nat
           /\ ~restartsMet => OwnFields(fetcher[f], client, live) /\ live.browser \subseteq {client.browser}
<1>1. BrowserTypeOK /\ AloneRestarts
  BY DEF BrowserInv
<1>2. fetcher[f] \in Runs
  BY <1>1, WhereAreYou DEF Steps
<1> QED
  BY <1>1, <1>2 DEF BrowserTypeOK, AloneRestarts, Restarting

\* The driver starts.
LEMMA StartDriverKeeps ==
    ASSUME BrowserInv, NEW f \in Fetchers, StartDriver(f)
    PROVE  BrowserInv'
<1> DEFINE t == [fetcher[f] EXCEPT !.pc = "launch"]
           n == fetcher[f].uses
<1>1. fetcher[f].pc = "start" /\ fetcher[f].pc \in Starting
  BY DEF StartDriver, At, Starting
<1>2. /\ BrowserTypeOK /\ f \in Restarting /\ fetcher[f] \in Runs /\ n \in Numbers
      /\ client \in ClientFields /\ live \in Living /\ launches \in Numbers
      /\ failedStarts \in Nat /\ badLaunches \in Nat /\ crashes \in Nat
      /\ ~restartsMet => OwnFields(fetcher[f], client, live) /\ live.browser \subseteq {client.browser}
  BY <1>1, StarterAt
<1>3. t \in Runs /\ t.pc = "launch" /\ t.uses = n /\ t \in Fetches
  BY <1>2 DEF Runs, Steps, Starting, Fetches
<1>4. /\ fetcher' = [fetcher EXCEPT ![f] = t] /\ UNCHANGED <<launches, cached, futures, crashes, badLaunches>>
      /\ UNCHANGED <<restartsMet, failedStarts, disturbed, orphaned>>
  BY DEF StartDriver, Continues, htmlVars, counters, histories
<1>5. /\ client' \in ClientFields /\ client'.browser = client.browser /\ client'.context = client.context
      /\ live' \in Living /\ live'.browser = live.browser /\ n \in live'.driver
  BY <1>2 DEF StartDriver, Makes, ClientFields, Living, Numbers
<1>6. ~restartsMet => OwnFields(t, client', live')
  <2> SUFFICES ASSUME ~restartsMet PROVE OwnFields(t, client', live')
    OBVIOUS
  <2>1. client[Fields[1]] = 0 /\ client[Fields[2]] = 0
    BY <1>1, <1>2 DEF OwnFields
  <2> QED
    BY <1>3, <1>5, <2>1 DEF OwnFields, Fields
<1>7. ~restartsMet /\ badLaunches = 0 /\ crashes =< 1 => failedStarts = 0
  BY DEF BrowserInv, CrashesCounted
<1> HIDE DEF t, n
<1> QED
  BY <1>2, <1>3, <1>4, <1>5, <1>6, <1>7, RestartRun DEF Undone, Starting, Shared

\* A start that raises leaves the fields as they are.
LEMMA StartRaisesKeeps ==
    ASSUME BrowserInv, NEW f \in Fetchers, fetcher[f].pc \in Starting, StartRaises(f),
           UNCHANGED <<futures, cached, crashes>>, badLaunches' \in Nat, badLaunches' = 0 => badLaunches = 0,
           ~restartsMet /\ badLaunches' = 0 => crashes > 1
    PROVE  BrowserInv'
<1>1. /\ BrowserTypeOK /\ f \in Restarting
      /\ client \in ClientFields /\ live \in Living /\ launches \in Numbers
      /\ failedStarts \in Nat /\ crashes \in Nat
      /\ ~restartsMet => live.browser \subseteq {client.browser}
  BY StarterAt
<1>2. NoFetch \in Fetches /\ NoFetch.pc = "resting"
  BY DEF NoFetch, Fetches, Resting
<1>3. /\ fetcher' = [fetcher EXCEPT ![f] = NoFetch] /\ UNCHANGED <<client, launches, live, restartsMet, orphaned>>
      /\ disturbed' = disturbed \ {f} /\ failedStarts' = failedStarts + 1
  BY DEF StartRaises, Rests, resources
<1>4. failedStarts' \in Nat /\ failedStarts' # 0
  BY <1>1, <1>3
<1>5. OwnFields(NoFetch, client', live')
  BY <1>2 DEF OwnFields
<1>6. /\ client' \in ClientFields /\ live' \in Living /\ launches' \in Numbers /\ cached' \in {0, cached}
      /\ UNCHANGED <<crashes, restartsMet, orphaned, futures, launches, cached>>
      /\ ~restartsMet => live'.browser \subseteq {client'.browser}
  BY <1>1, <1>3
<1>7. NoFetch.pc \notin Shared \cup {"probe", "reply"} \cup Starting
  BY <1>2 DEF Starting, Shared
<1>8. ~(~restartsMet /\ badLaunches' = 0 /\ crashes =< 1)
  BY <1>1
<1> QED
  BY <1>1, <1>2, <1>3, <1>4, <1>5, <1>6, <1>7, <1>8, RestartRun

\* The browser does not launch.
LEMMA LaunchFailsKeeps ==
    ASSUME BrowserInv, NEW f \in Fetchers, LaunchFails(f)
    PROVE  BrowserInv'
<1>1. fetcher[f].pc \in Starting
  BY DEF LaunchFails, At, Starting
<1>2. badLaunches' \in Nat /\ badLaunches' # 0
  <2>1. badLaunches \in Nat /\ badLaunches' = badLaunches + 1
    BY DEF LaunchFails, BrowserInv, BrowserTypeOK
  <2> QED
    BY <2>1
<1> QED
  BY <1>1, <1>2, StartRaisesKeeps DEF LaunchFails, htmlVars

\* The browser launches.
LEMMA LaunchBrowserKeeps ==
    ASSUME BrowserInv, NEW f \in Fetchers, LaunchBrowser(f)
    PROVE  BrowserInv'
<1> DEFINE t == [fetcher[f] EXCEPT !.pc = "new_context"]
           n == fetcher[f].uses
<1>1. fetcher[f].pc = "launch" /\ fetcher[f].pc \in Starting
  BY DEF LaunchBrowser, At, Starting
<1>2. /\ BrowserTypeOK /\ f \in Restarting /\ fetcher[f] \in Runs /\ n \in Numbers
      /\ client \in ClientFields /\ live \in Living /\ launches \in Numbers
      /\ failedStarts \in Nat /\ badLaunches \in Nat /\ crashes \in Nat
      /\ ~restartsMet => OwnFields(fetcher[f], client, live) /\ live.browser \subseteq {client.browser}
  BY <1>1, StarterAt
<1>3. CASE n \in live.driver
  <2>1. t \in Runs /\ t.pc = "new_context" /\ t.uses = n /\ t \in Fetches
    BY <1>2 DEF Runs, Steps, Starting, Fetches
  <2>2. /\ fetcher' = [fetcher EXCEPT ![f] = t] /\ UNCHANGED <<launches, cached, futures, crashes, badLaunches>>
        /\ UNCHANGED <<restartsMet, failedStarts, disturbed, orphaned>>
    BY <1>3 DEF LaunchBrowser, Continues, htmlVars, counters, histories
  <2>3. /\ client' \in ClientFields /\ client'.browser = n
        /\ live' \in Living /\ live'.browser = live.browser \cup {n}
    BY <1>2, <1>3 DEF LaunchBrowser, Makes, ClientFields, Living, Numbers
  <2>4. ~restartsMet => live'.browser \subseteq {client'.browser}
    <3> SUFFICES ASSUME ~restartsMet PROVE live'.browser \subseteq {client'.browser}
      OBVIOUS
    <3>1. client.browser = 0 /\ live.browser \subseteq {0}
      BY <1>1, <1>2 DEF OwnFields
    <3>2. live.browser = {}
      BY <1>2, <3>1 DEF Living, Numbers
    <3> QED
      BY <2>3, <3>2
  <2>5. OwnFields(t, client', live')
    BY <2>1, <2>3 DEF OwnFields
  <2>6. ~restartsMet /\ badLaunches = 0 /\ crashes =< 1 => failedStarts = 0
    BY DEF BrowserInv, CrashesCounted
  <2> HIDE DEF t, n
  <2> QED
    BY <1>2, <2>1, <2>2, <2>3, <2>4, <2>5, <2>6, RestartRun DEF Undone, Starting, Shared
<1>4. CASE n \notin live.driver
  <2>1. restartsMet
    BY <1>1, <1>2, <1>4 DEF OwnFields
  <2> QED
    BY <1>1, <1>2, <1>4, <2>1, StartRaisesKeeps DEF LaunchBrowser, htmlVars, counters
<1> QED
  BY <1>3, <1>4

\* The context is made.
LEMMA NewContextKeeps ==
    ASSUME BrowserInv, NEW f \in Fetchers, NewContext(f)
    PROVE  BrowserInv'
<1> DEFINE t == [fetcher[f] EXCEPT !.pc = "stealth"]
           n == fetcher[f].uses
<1>1. fetcher[f].pc = "new_context" /\ fetcher[f].pc \in Starting
  BY DEF NewContext, At, Starting
<1>2. /\ BrowserTypeOK /\ f \in Restarting /\ fetcher[f] \in Runs /\ n \in Numbers
      /\ client \in ClientFields /\ live \in Living /\ launches \in Numbers
      /\ failedStarts \in Nat /\ badLaunches \in Nat /\ crashes \in Nat
      /\ ~restartsMet => OwnFields(fetcher[f], client, live) /\ live.browser \subseteq {client.browser}
  BY <1>1, StarterAt
<1>3. CASE n \in live.browser
  <2>1. t \in Runs /\ t.pc = "stealth" /\ t.uses = n /\ t \in Fetches
    BY <1>2 DEF Runs, Steps, Starting, Fetches
  <2>2. /\ fetcher' = [fetcher EXCEPT ![f] = t] /\ UNCHANGED <<launches, cached, futures, crashes, badLaunches>>
        /\ UNCHANGED <<restartsMet, failedStarts, disturbed, orphaned>>
    BY <1>3 DEF NewContext, Continues, htmlVars, counters, histories
  <2>3. /\ client' \in ClientFields /\ client'.browser = client.browser /\ client'.context = n
        /\ live' \in Living /\ live'.browser = live.browser /\ n \in live'.context
    BY <1>2, <1>3 DEF NewContext, Makes, ClientFields, Living, Numbers
  <2>4. ~restartsMet => OwnFields(t, client', live')
    BY <1>1, <1>2, <2>1, <2>3 DEF OwnFields
  <2>5. ~restartsMet /\ badLaunches = 0 /\ crashes =< 1 => failedStarts = 0
    BY DEF BrowserInv, CrashesCounted
  <2> HIDE DEF t, n
  <2> QED
    BY <1>2, <2>1, <2>2, <2>3, <2>4, <2>5, RestartRun DEF Undone, Starting, Shared
<1>4. CASE n \notin live.browser
  <2>1. ~restartsMet /\ badLaunches = 0 => crashes > 1
    BY <1>1, <1>2, <1>4 DEF BrowserInv, CrashesCounted, At
  <2> QED
    BY <1>1, <1>2, <1>4, <2>1, StartRaisesKeeps DEF NewContext, htmlVars, counters
<1> QED
  BY <1>3, <1>4

\* The client is started, or the script of its context fails.
LEMMA StartedKeeps ==
    ASSUME BrowserInv, NEW f \in Fetchers, Started(f)
    PROVE  BrowserInv'
<1> DEFINE t == [fetcher[f] EXCEPT !.pc = IF fetcher[f].kind = "history" THEN "request" ELSE "page"]
           n == fetcher[f].uses
<1>1. fetcher[f].pc = "stealth" /\ fetcher[f].pc \in Starting
  BY DEF Started, At, Starting
<1>2. /\ BrowserTypeOK /\ f \in Restarting /\ fetcher[f] \in Runs /\ n \in Numbers
      /\ client \in ClientFields /\ live \in Living /\ launches \in Numbers
      /\ failedStarts \in Nat /\ badLaunches \in Nat /\ crashes \in Nat
      /\ ~restartsMet => OwnFields(fetcher[f], client, live) /\ live.browser \subseteq {client.browser}
  BY <1>1, StarterAt
<1>3. t \in Runs /\ t.pc \in {"request", "page"} /\ t.uses = n /\ t \in Fetches
  BY <1>2 DEF Runs, Steps, Fetches
<1>4. /\ fetcher' = [fetcher EXCEPT ![f] = t] /\ UNCHANGED <<launches, cached, futures, crashes, badLaunches>>
      /\ UNCHANGED <<restartsMet, failedStarts, disturbed, orphaned>>
  BY DEF Started, Continues, htmlVars, counters, histories
<1>5. /\ client' \in ClientFields /\ client'.browser = client.browser /\ client'.context = client.context
      /\ client'.started /\ client'.http = n
      /\ live' \in Living /\ live'.browser = live.browser /\ live'.context = live.context /\ n \in live'.http
  BY <1>2 DEF Started, Makes, ClientFields, Living, Numbers
<1>6. OwnFields(t, client', live')
  BY <1>3 DEF OwnFields
<1>7. ~restartsMet => client'.browser = client'.context
  BY <1>1, <1>2, <1>5 DEF OwnFields
<1>8. failedStarts = 0 /\ (\A g \in Restarting : g # f => At(g, "stealth")) => client.context \in live.context
  BY <1>1 DEF BrowserInv, Recovered, At
<1>9. ~restartsMet /\ badLaunches = 0 /\ crashes =< 1 => failedStarts = 0
  BY DEF BrowserInv, CrashesCounted
<1> HIDE DEF t, n
<1> QED
  BY <1>2, <1>3, <1>4, <1>5, <1>6, <1>7, <1>8, <1>9, RestartRun DEF Undone, Starting, Shared

\* The first of some fields, as numbers from 1 to 4.
LEMMA FirstField ==
    ASSUME NEW S \in SUBSET (1 .. 4), S # {}
    PROVE  Min(S) \in S /\ \A j \in S : Min(S) =< j
<1>1. \E m \in S : \A j \in S : m =< j
  <2>1. CASE 1 \in S
    BY <2>1
  <2>2. CASE 1 \notin S /\ 2 \in S
    BY <2>2
  <2>3. CASE 1 \notin S /\ 2 \notin S /\ 3 \in S
    BY <2>3
  <2>4. CASE 1 \notin S /\ 2 \notin S /\ 3 \notin S
    <3>1. \A j \in S : j = 4
      BY <2>4
    <3>2. PICK j \in S : TRUE
      OBVIOUS
    <3> QED
      BY <3>1, <3>2
  <2> QED
    BY <2>1, <2>2, <2>3, <2>4
<1> QED
  BY <1>1 DEF Min

\* close waits for the next field that is not empty, or start begins.
LEMMA CloseFromGoes ==
    ASSUME BrowserTypeOK, NEW f \in Fetchers, fetcher[f].pc \in {"probe", "close"},
           NEW now \in ClientFields, NEW i \in 1 .. 5, CloseFrom(f, now, i)
    PROVE  /\ client' \in ClientFields /\ \A j \in 1 .. 4 : client'[Fields[j]] = now[Fields[j]]
           /\ \/ \E t \in Closing :
                   /\ fetcher' = [fetcher EXCEPT ![f] = t] /\ t.pc = "close"
                   /\ i =< t.field /\ (\A j \in i .. t.field - 1 : now[Fields[j]] = 0)
                   /\ t.uses = now[Fields[t.field]] /\ UNCHANGED <<launches, cached>>
              \/ \E t \in Runs :
                   /\ fetcher' = [fetcher EXCEPT ![f] = t] /\ t.pc = "start"
                   /\ (\A j \in i .. 4 : now[Fields[j]] = 0)
                   /\ t.uses = launches' /\ launches' = launches + 1 /\ cached' = 0
<1> DEFINE rest == {j \in i .. Len(Fields) : now[Fields[j]] # 0}
<1>1. Len(Fields) = 4 /\ rest \subseteq 1 .. 4 /\ \A j \in 1 .. 4 : now[Fields[j]] \in Nat
  BY DEF Fields, ClientFields
<1>2. fetcher[f].kind \in FetchKinds
  BY WhereAreYou DEF Steps, Runs, Closing
<1>3. CASE rest # {}
  <2> DEFINE t == [pc |-> "close", kind |-> fetcher[f].kind, field |-> Min(rest), uses |-> now[Fields[Min(rest)]]]
  <2>1. Min(rest) \in rest /\ \A j \in rest : Min(rest) =< j
    <3> HIDE DEF rest
    <3> QED
      BY <1>1, <1>3, FirstField
  <2>2. Min(rest) \in 1 .. 4 /\ i =< Min(rest) /\ now[Fields[Min(rest)]] \in Nat
    BY <1>1, <2>1
  <2>3. \A j \in i .. Min(rest) - 1 : now[Fields[j]] = 0
    BY <1>1, <2>1, <2>2
  <2>4. /\ fetcher' = [fetcher EXCEPT ![f] = t] /\ client' = now /\ UNCHANGED <<launches, cached>>
    BY <1>3 DEF CloseFrom
  <2> HIDE DEF rest
  <2>5. t \in Closing
    BY <1>2, <2>2 DEF Closing
  <2> QED
    BY <2>2, <2>3, <2>4, <2>5
<1>4. CASE rest = {}
  <2> DEFINE t == [pc |-> "start", kind |-> fetcher[f].kind, uses |-> launches']
  <2>1. client' = Closed(now) /\ cached' = 0
    BY <1>4 DEF CloseFrom
  <2>2. client' \in ClientFields /\ ~client'.started /\ \A j \in 1 .. 4 : client'[Fields[j]] = now[Fields[j]]
    <3>1. client' = [now EXCEPT !.started = FALSE]
      BY <2>1 DEF Closed
    <3>2. /\ client' \in ClientFields /\ ~client'.started /\ client'.context = now.context
          /\ client'.browser = now.browser /\ client'.driver = now.driver /\ client'.http = now.http
      BY <3>1 DEF ClientFields
    <3> QED
      BY <3>2 DEF Fields
  <2>3. launches' = launches + 1 /\ fetcher' = [fetcher EXCEPT ![f] = t]
    BY <1>4, <2>2 DEF CloseFrom
  <2>4. t \in Runs
    BY <1>2, <2>3 DEF Runs, Steps, Starting, BrowserTypeOK, Numbers
  <2>5. \A j \in i .. 4 : now[Fields[j]] = 0
    BY <1>1, <1>4
  <2> HIDE DEF rest
  <2> QED
    BY <2>1, <2>2, <2>3, <2>4, <2>5
<1> QED
  BY <1>3, <1>4

\* What is common to the two that close: the operation waits for the next
\* field, or starts anew.
LEMMA ClosesOn ==
    ASSUME BrowserTypeOK, NEW f \in Fetchers, fetcher[f].pc \in {"probe", "close"},
           NEW now \in ClientFields, NEW i \in 1 .. 5, CloseFrom(f, now, i)
    PROVE  \E t \in Fetches :
             /\ fetcher' = [fetcher EXCEPT ![f] = t] /\ t.pc \in {"close", "start"}
             /\ t.pc = "start" => t.uses \in Numbers
             /\ launches' \in Numbers /\ cached' \in {0, cached}
             /\ launches' # 1 \/ (launches' = launches /\ UNCHANGED cached)
             /\ client' \in ClientFields /\ client'.browser = now.browser /\ client'.context = now.context
             /\ (\A j \in 1 .. i - 1 : now[Fields[j]] = 0) => OwnFields(t, client', live')
<1>1. client' \in ClientFields /\ \A j \in 1 .. 4 : client'[Fields[j]] = now[Fields[j]]
  BY CloseFromGoes
<1>2. client'.browser = now.browser /\ client'.context = now.context
  <2>1. client'[Fields[1]] = now[Fields[1]] /\ client'[Fields[2]] = now[Fields[2]]
    BY <1>1
  <2> QED
    BY <2>1 DEF Fields
<1>3. CASE \E t \in Closing :
                   /\ fetcher' = [fetcher EXCEPT ![f] = t] /\ t.pc = "close"
                   /\ i =< t.field /\ (\A j \in i .. t.field - 1 : now[Fields[j]] = 0)
                   /\ t.uses = now[Fields[t.field]] /\ UNCHANGED <<launches, cached>>
  <2>1. PICK t \in Closing :
                   /\ fetcher' = [fetcher EXCEPT ![f] = t] /\ t.pc = "close"
                   /\ i =< t.field /\ (\A j \in i .. t.field - 1 : now[Fields[j]] = 0)
                   /\ t.uses = now[Fields[t.field]] /\ UNCHANGED <<launches, cached>>
    BY <1>3
  <2>2. t.field \in 1 .. 4 /\ t \in Fetches /\ launches \in Numbers
    BY DEF Closing, Fetches, BrowserTypeOK
  <2>3. (\A j \in 1 .. i - 1 : now[Fields[j]] = 0) => OwnFields(t, client', live')
    <3> SUFFICES ASSUME \A j \in 1 .. i - 1 : now[Fields[j]] = 0 PROVE OwnFields(t, client', live')
      OBVIOUS
    <3>1. \A j \in 1 .. t.field - 1 : client'[Fields[j]] = 0
      <4> SUFFICES ASSUME NEW j \in 1 .. t.field - 1 PROVE client'[Fields[j]] = 0
        OBVIOUS
      <4>1. j \in 1 .. 4 /\ (j \in 1 .. i - 1 \/ j \in i .. t.field - 1)
        BY <2>2
      <4>2. now[Fields[j]] = 0
        BY <2>1, <4>1
      <4> QED
        BY <1>1, <4>1, <4>2
    <3> QED
      BY <1>1, <2>1, <2>2, <3>1 DEF OwnFields
  <2> QED
    BY <1>1, <1>2, <2>1, <2>2, <2>3
<1>4. CASE \E t \in Runs :
                   /\ fetcher' = [fetcher EXCEPT ![f] = t] /\ t.pc = "start"
                   /\ (\A j \in i .. 4 : now[Fields[j]] = 0)
                   /\ t.uses = launches' /\ launches' = launches + 1 /\ cached' = 0
  <2>1. PICK t \in Runs :
                   /\ fetcher' = [fetcher EXCEPT ![f] = t] /\ t.pc = "start"
                   /\ (\A j \in i .. 4 : now[Fields[j]] = 0)
                   /\ t.uses = launches' /\ launches' = launches + 1 /\ cached' = 0
    BY <1>4
  <2>2. t \in Fetches /\ launches' \in Numbers /\ launches' # 1
    BY <2>1 DEF Fetches, BrowserTypeOK, Numbers
  <2>3. (\A j \in 1 .. i - 1 : now[Fields[j]] = 0) => OwnFields(t, client', live')
    <3> SUFFICES ASSUME \A j \in 1 .. i - 1 : now[Fields[j]] = 0 PROVE OwnFields(t, client', live')
      OBVIOUS
    <3>1. \A j \in 1 .. 4 : client'[Fields[j]] = 0
      BY <1>1, <2>1
    <3> QED
      BY <2>1, <3>1 DEF OwnFields
  <2> QED
    BY <1>1, <1>2, <2>1, <2>2, <2>3
<1> QED
  BY <1>3, <1>4, CloseFromGoes

\* One field is closed and emptied.
LEMMA CloseFieldKeeps ==
    ASSUME BrowserInv, NEW f \in Fetchers, CloseField(f)
    PROVE  BrowserInv'
<1> DEFINE i == fetcher[f].field
           now == [client EXCEPT ![Fields[i]] = 0]
<1>1. BrowserTypeOK /\ AloneRestarts /\ fetcher[f].pc = "close" /\ f \in Restarting
  BY DEF BrowserInv, CloseField, Restarting
<1>2. fetcher[f] \in Closing /\ i \in 1 .. 4
  BY <1>1, WhereAreYou DEF Closing
<1>3. client \in ClientFields /\ live \in Living /\ failedStarts \in Nat /\ badLaunches \in Nat
  BY <1>1 DEF BrowserTypeOK
<1>4. /\ now \in ClientFields /\ now[Fields[i]] = 0 /\ \A j \in 1 .. 4 : j # i => now[Fields[j]] = client[Fields[j]]
  BY <1>2, <1>3 DEF ClientFields, Fields
<1>5. /\ CloseFrom(f, now, i + 1)
      /\ live' = [k \in DOMAIN live |->
                   IF k = Fields[i] \/ (Fields[i] = "driver" /\ k = "browser") THEN live[k] \ {fetcher[f].uses}
                   ELSE live[k]]
      /\ UNCHANGED <<futures, crashes, badLaunches, restartsMet, failedStarts, disturbed, orphaned>>
  BY DEF CloseField, counters, histories
<1>6. live' \in Living /\ live'.browser \subseteq live.browser
      /\ (Fields[i] = "browser" => live'.browser = live.browser \ {fetcher[f].uses})
  BY <1>3, <1>5 DEF Living
<1>7. i + 1 \in 1 .. 5
  BY <1>2
<1> HIDE DEF i, now
<1>8. PICK t \in Fetches :
             /\ fetcher' = [fetcher EXCEPT ![f] = t] /\ t.pc \in {"close", "start"}
             /\ t.pc = "start" => t.uses \in Numbers
             /\ launches' \in Numbers /\ cached' \in {0, cached}
             /\ launches' # 1 \/ (launches' = launches /\ UNCHANGED cached)
             /\ client' \in ClientFields /\ client'.browser = now.browser /\ client'.context = now.context
             /\ (\A j \in 1 .. (i + 1) - 1 : now[Fields[j]] = 0) => OwnFields(t, client', live')
  BY <1>1, <1>4, <1>5, <1>7, ClosesOn
<1>9. ~restartsMet => OwnFields(t, client', live') /\ live'.browser \subseteq {client'.browser}
  <2> SUFFICES ASSUME ~restartsMet PROVE OwnFields(t, client', live') /\ live'.browser \subseteq {client'.browser}
    OBVIOUS
  <2>1. /\ \A j \in 1 .. i - 1 : client[Fields[j]] = 0
        /\ fetcher[f].uses = client[Fields[i]] /\ live.browser \subseteq {client.browser}
    BY <1>1 DEF AloneRestarts, OwnFields, i
  <2>2. \A j \in 1 .. (i + 1) - 1 : now[Fields[j]] = 0
    BY <1>2, <1>4, <2>1
  <2>3. CASE i = 2
    <3>1. Fields[i] = "browser"
      BY <2>3 DEF Fields
    <3>2. live'.browser = live.browser \ {client.browser}
      BY <1>6, <2>1, <3>1
    <3> QED
      BY <1>8, <2>1, <2>2, <3>2
  <2>4. CASE i # 2
    <3>1. now[Fields[2]] = client[Fields[2]]
      BY <1>4, <2>4
    <3>2. now.browser = client.browser
      BY <3>1 DEF Fields
    <3> QED
      BY <1>6, <1>8, <2>1, <2>2, <3>2
  <2> QED
    BY <1>8, <2>2, <2>3, <2>4
<1>10. ~restartsMet /\ badLaunches = 0 /\ crashes =< 1 => failedStarts = 0
  BY DEF BrowserInv, CrashesCounted
<1> QED
  BY <1>1, <1>3, <1>5, <1>6, <1>8, <1>9, <1>10, RestartRun DEF Undone, Starting, Shared

\* An operation finds the client dead and begins to restart it.
LEMMA UnhealthyKeeps ==
    ASSUME BrowserInv, NEW f \in Fetchers, Unhealthy(f)
    PROVE  BrowserInv'
<1>1. BrowserTypeOK /\ AloneRestarts /\ Recovered /\ CrashesCounted /\ UndisturbedAlone /\ client \in ClientFields
  BY DEF BrowserInv, BrowserTypeOK
<1>2. fetcher[f].pc = "probe" /\ f \notin Restarting /\ ~Works(fetcher[f].uses) /\ CloseFrom(f, client, 1)
  BY DEF Unhealthy, At, Restarting, Starting
<1>3. /\ UNCHANGED <<live, futures, crashes, badLaunches, failedStarts, orphaned>>
      /\ restartsMet' = (restartsMet \/ Restarting # {})
      /\ disturbed' = disturbed \cup {g \in Fetchers : g # f /\ ~At(g, "resting")}
                            \cup (IF Restarting = {} THEN {} ELSE {f})
  BY DEF Unhealthy, counters
<1>4. PICK t \in Fetches :
             /\ fetcher' = [fetcher EXCEPT ![f] = t] /\ t.pc \in {"close", "start"}
             /\ t.pc = "start" => t.uses \in Numbers
             /\ launches' \in Numbers /\ cached' \in {0, cached}
             /\ launches' # 1 \/ (launches' = launches /\ UNCHANGED cached)
             /\ client' \in ClientFields /\ client'.browser = client.browser /\ client'.context = client.context
             /\ (\A j \in 1 .. 1 - 1 : client[Fields[j]] = 0) => OwnFields(t, client', live')
  BY <1>1, <1>2, ClosesOn
<1>5. OwnFields(t, client', live')
  BY <1>4
<1>6. fetcher'[f] = t /\ \A g \in Fetchers : g # f => fetcher'[g] = fetcher[g]
  BY <1>1, <1>4, FetchMoves DEF BrowserTypeOK
<1>7. Restarting' = Restarting \cup {f}
  BY <1>4, <1>6 DEF Restarting, Starting
<1>8. BrowserTypeOK'
  <2>1. fetcher' \in [Fetchers -> Fetches]
    BY <1>1, <1>4 DEF BrowserTypeOK
  <2>2. \A g \in Fetchers : fetcher'[g].pc \in Shared => fetcher'[g].future \in DOMAIN futures'
    BY <1>1, <1>3, <1>4, <1>6 DEF BrowserTypeOK, Shared
  <2>3. \A g \in Fetchers : fetcher'[g].pc \in Starting => fetcher'[g].uses \in Numbers
    BY <1>1, <1>4, <1>6 DEF BrowserTypeOK, Starting
  <2>4. cached' \in 0 .. Len(futures') /\ restartsMet' \in BOOLEAN
    BY <1>1, <1>3, <1>4 DEF BrowserTypeOK
  <2> QED
    BY <1>1, <1>3, <1>4, <2>1, <2>2, <2>3, <2>4 DEF BrowserTypeOK
<1>9. AloneRestarts'
  <2> SUFFICES ASSUME ~restartsMet, Restarting = {} PROVE AloneRestarts'
    BY <1>3 DEF AloneRestarts
  <2>1. \A g \in Fetchers : OwnFields(fetcher'[g], client', live')
    BY <1>5, <1>6 DEF Restarting, OwnFields, Starting
  <2> QED
    BY <1>1, <1>3, <1>4, <1>7, <2>1 DEF AloneRestarts
<1>10. Recovered'
  BY <1>4, <1>6, <1>7 DEF Recovered, At
<1>11. CrashesCounted'
  <2> SUFFICES ASSUME ~restartsMet, Restarting = {}, badLaunches = 0 PROVE CrashesCounted'
    BY <1>3 DEF CrashesCounted
  <2>1. crashes # 0
    BY <1>1, <1>2 DEF CrashesCounted, At
  <2>2. \A g \in Fetchers : ~At(g, "new_context")'
    BY <1>4, <1>6 DEF Restarting, At, Starting
  <2> QED
    BY <1>1, <1>3, <2>1, <2>2 DEF CrashesCounted
<1>12. UndisturbedAlone'
  <2>1. ASSUME NEW g \in Fetchers, g \notin disturbed', ~At(g, "resting")'
        PROVE  Restarting' \subseteq {g} /\ (At(g, "reply")' /\ failedStarts' = 0 => fetcher'[g].uses \in live'.http)
    <3>1. g = f /\ Restarting = {}
      BY <1>3, <1>6, <2>1 DEF At
    <3> QED
      BY <1>4, <1>6, <1>7, <3>1 DEF At
  <2> QED
    BY <1>1, <1>3, <2>1 DEF UndisturbedAlone
<1>13. FuturesServed'
  BY <1>2, <1>3, <1>4, CatalogueKept
<1> QED
  BY <1>8, <1>9, <1>10, <1>11, <1>12, <1>13 DEF BrowserInv

-----------------------------------------------------------------------------

\* The browser dies.
LEMMA BrowserCrashKeeps ==
    ASSUME BrowserInv, BrowserCrashes
    PROVE  BrowserInv'
<1>1. BrowserTypeOK /\ AloneRestarts /\ Recovered /\ CrashesCounted /\ UndisturbedAlone /\ FuturesServed
  BY DEF BrowserInv
<1>2. PICK b \in live.browser : live' = [live EXCEPT !.browser = @ \ {b}]
  BY DEF BrowserCrashes
<1>3. /\ live' \in Living /\ live'.browser \subseteq live.browser
      /\ live'.driver = live.driver /\ live'.context = live.context /\ live'.http = live.http
  BY <1>1, <1>2 DEF BrowserTypeOK, Living
<1>4. /\ crashes' = crashes + 1 /\ crashes \in Nat
      /\ UNCHANGED <<client, launches, fetcher, futures, cached, badLaunches, restartsMet, failedStarts, disturbed, orphaned>>
  BY <1>1 DEF BrowserCrashes, BrowserTypeOK, htmlVars, histories
<1>5. Restarting' = Restarting /\ \A g \in Fetchers : \A pc \in STRING : At(g, pc)' <=> At(g, pc)
  BY <1>4 DEF Restarting, At
<1>6. BrowserTypeOK'
  BY <1>1, <1>3, <1>4 DEF BrowserTypeOK
<1>7. AloneRestarts'
  BY <1>1, <1>3, <1>4, <1>5 DEF AloneRestarts, OwnFields
<1>8. Recovered'
  BY <1>1, <1>3, <1>4, <1>5 DEF Recovered, At
<1>9. CrashesCounted'
  BY <1>1, <1>4, <1>5 DEF CrashesCounted, Restarting, At, Starting
<1>10. UndisturbedAlone'
  BY <1>1, <1>3, <1>4, <1>5 DEF UndisturbedAlone, At
<1>11. FuturesServed'
  BY <1>1, <1>4 DEF FuturesServed
<1> QED
  BY <1>6, <1>7, <1>8, <1>9, <1>10, <1>11 DEF BrowserInv

\* Every step of the client keeps the invariant.
LEMMA BrowserStep ==
    ASSUME BrowserInv, [BrowserNext]_browserVars
    PROVE  BrowserInv'
<1>1. CASE UNCHANGED browserVars
  <2>1. /\ UNCHANGED <<client, launches, live, fetcher, futures, cached, crashes, badLaunches>>
        /\ UNCHANGED <<restartsMet, failedStarts, disturbed, orphaned>>
    BY <1>1 DEF browserVars, resources, htmlVars, counters, histories
  <2> QED
    BY <2>1 DEF BrowserInv, BrowserTypeOK, AloneRestarts, Recovered, CrashesCounted, UndisturbedAlone, FuturesServed,
                Restarting, At, Works
<1>2. ASSUME NEW f \in Fetchers, NEW kind \in {"history", "page"}, Begin(f, kind) PROVE BrowserInv'
  BY <1>2, BeginKeeps DEF FetchKinds
<1>3. ASSUME NEW f \in Fetchers,
             Probe(f) \/ Healthy(f) \/ Request(f) \/ Reply(f) \/ OpenPage(f) \/ PageLoads(f) \/ PageFails(f) \/ Awaited(f)
      PROVE BrowserInv'
  BY <1>3, CheckKeeps, SessionKeeps, PageKeeps
<1>4. ASSUME NEW f \in Fetchers, LookInCache(f) \/ OpenHtml(f) \/ HtmlLoads(f) \/ HtmlFails(f) \/ PopHtml(f)
      PROVE BrowserInv'
  BY <1>4, LookInCacheKeeps, OpenHtmlKeeps, SettlesKeeps, PopHtmlKeeps
<1>5. ASSUME NEW f \in Fetchers, Unhealthy(f) \/ CloseField(f) PROVE BrowserInv'
  BY <1>5, UnhealthyKeeps, CloseFieldKeeps
<1>6. ASSUME NEW f \in Fetchers,
             StartDriver(f) \/ LaunchBrowser(f) \/ LaunchFails(f) \/ NewContext(f) \/ Started(f)
      PROVE BrowserInv'
  BY <1>6, StartDriverKeeps, LaunchBrowserKeeps, LaunchFailsKeeps, NewContextKeeps, StartedKeeps
<1> QED
  BY <1>1, <1>2, <1>3, <1>4, <1>5, <1>6, BrowserCrashKeeps DEF BrowserNext

\* A client that nobody has used satisfies the invariant.
LEMMA BrowserBegins == BrowserInit => BrowserInv
<1> SUFFICES ASSUME BrowserInit PROVE BrowserInv
  OBVIOUS
<1>1. \A f \in Fetchers : fetcher[f] = NoFetch /\ fetcher[f].pc = "resting"
  BY DEF BrowserInit, NoFetch
<1>2. Restarting = {}
  BY <1>1 DEF Restarting, Starting
<1>3. /\ client = [started |-> TRUE, driver |-> 1, browser |-> 1, context |-> 1, http |-> 1]
      /\ live = [driver |-> {1}, browser |-> {1}, context |-> {1}, http |-> {1}]
  BY DEF BrowserInit
<1>4. BrowserTypeOK
  <2>1. NoFetch \in Fetches
    BY DEF NoFetch, Fetches, Resting
  <2>2. fetcher \in [Fetchers -> Fetches]
    BY <2>1 DEF BrowserInit
  <2>3. client \in ClientFields /\ live \in Living
    BY <1>3 DEF ClientFields, Living, Numbers
  <2>4. futures \in Seq({"pending", "done", "failed"}) /\ cached \in 0 .. Len(futures)
    BY DEF BrowserInit
  <2>5. \A f \in Fetchers : fetcher[f].pc \notin Shared \cup Starting
    BY <1>1 DEF Shared, Starting
  <2> QED
    <3>1. /\ launches = 1 /\ crashes = 0 /\ badLaunches = 0 /\ failedStarts = 0
          /\ restartsMet = FALSE /\ orphaned = FALSE
      BY DEF BrowserInit
    <3>2. launches \in Numbers
      BY <3>1 DEF Numbers
    <3> QED
      BY <2>2, <2>3, <2>4, <2>5, <3>1, <3>2 DEF BrowserTypeOK
<1>5. AloneRestarts
  BY <1>1, <1>2, <1>3 DEF AloneRestarts, OwnFields
<1>6. Recovered
  BY <1>2, <1>3 DEF Recovered
<1>7. CrashesCounted
  BY <1>1, <1>2, <1>3 DEF CrashesCounted, BrowserInit, Works, At
<1>8. UndisturbedAlone
  BY <1>1, <1>2 DEF UndisturbedAlone, BrowserInit, At
<1>9. FuturesServed
  BY <1>1 DEF FuturesServed, BrowserInit
<1> QED
  BY <1>4, <1>5, <1>6, <1>7, <1>8, <1>9 DEF BrowserInv

\* The invariant implies what the runs check.
LEMMA BrowserSound == BrowserInv => ClientRecovers
<1> SUFFICES ASSUME BrowserInv PROVE ClientRecovers
  OBVIOUS
<1>1. BrowserTypeOK /\ AloneRestarts /\ Recovered /\ CrashesCounted /\ UndisturbedAlone /\ FuturesServed
  BY DEF BrowserInv
<1>2. failedStarts \in Nat /\ badLaunches \in Nat /\ crashes \in Nat
  BY <1>1 DEF BrowserTypeOK
<1>3. Restarting = {} /\ failedStarts = 0 =>
       /\ client.started /\ client.http \in live.http
       /\ client.context \in live.context
       /\ restartsMet \/ client.browser = client.context
  BY <1>1 DEF Recovered, AloneRestarts
<1>4. ~restartsMet => live.browser \subseteq {client.browser}
  BY <1>1 DEF AloneRestarts
<1>5. failedStarts > 0 => restartsMet \/ badLaunches > 0 \/ crashes > 1
  BY <1>1, <1>2 DEF CrashesCounted
<1>6. orphaned => failedStarts > 0
  BY <1>1 DEF UndisturbedAlone
<1>7. \A f \in Fetchers :
       At(f, "await") /\ futures[fetcher[f].future] = "pending" =>
         \E g \in Fetchers : /\ fetcher[g].pc \in {"fetch_html", "load_html"}
                             /\ fetcher[g].future = fetcher[f].future
  BY <1>1 DEF BrowserTypeOK, FuturesServed, At, Shared
<1>8. launches = 1 => Cardinality({f \in Fetchers : fetcher[f].pc \in {"fetch_html", "load_html"}}) <= 1
  <2> DEFINE S == {f \in Fetchers : fetcher[f].pc \in {"fetch_html", "load_html"}}
  <2> SUFFICES ASSUME launches = 1 PROVE Cardinality(S) <= 1
    OBVIOUS
  <2>1. \A f, g \in S : f = g
    BY <1>1 DEF FuturesServed
  <2>2. S = {} \/ \E x : S = {x}
    BY <2>1
  <2>3. Cardinality(S) = 0 \/ Cardinality(S) = 1
    BY <2>2, FS_EmptySet, FS_Singleton
  <2> QED
    BY <2>3
<1> QED
  BY <1>3, <1>4, <1>5, <1>6, <1>7, <1>8 DEF ClientRecovers

(* Once nobody restarts and no start raised, the client is started and its *)
(* context and session are live; a browser left behind, and a browser on   *)
(* record that is not the context's, tell of restarts that met.            *)
THEOREM ClientRecoversAlways == BrowserSpec => []ClientRecovers
<1>1. BrowserInit => BrowserInv
  BY BrowserBegins
<1>2. BrowserInv /\ [BrowserNext]_browserVars => BrowserInv'
  BY BrowserStep
<1>3. BrowserInv => ClientRecovers
  BY BrowserSound
<1> QED
  BY <1>1, <1>2, <1>3, PTL DEF BrowserSpec

-----------------------------------------------------------------------------
(* What the site tells: the inductive invariant.                           *)
Kinds == {"check", "bid", "ask", "price"}
Answers == UNION {FeedAnswers[b] : b \in FeedBonds}

Quiet == [step : {"rest"}]
Lost == [step : {"missing"}, bond : FeedBonds, proc : ScrapeProcs]
Conversion == [step : {"convert", "bank", "looked", "store"}, bond : FeedBonds, proc : ScrapeProcs,
               answer : Answers, at : 1 .. 5, value : Nat, got : [Kinds -> Int]]

FeedTypeOK ==
  /\ feed \in [FeedBonds -> Answers \cup {Gone}]
  /\ \A b \in FeedBonds : feed[b] = Gone \/ feed[b] \in FeedAnswers[b]
  /\ bankRate \in BankRates /\ fxTable \in Nat /\ fxCache \in [ScrapeProcs -> Nat]
  /\ era \in [ScrapeProcs -> SUBSET (Nat \ {0})]
  /\ feedRow = [b \in FeedBonds |-> feedRow[b]] /\ origin = [b \in FeedBonds |-> origin[b]]
  /\ detail = [t \in FeedTasks |-> detail[t]]

\* The rates at hand are of those the processes may have met.
RatesMet ==
  \A p \in ScrapeProcs :
    /\ bankRate \in era[p]
    /\ fxTable # 0 => fxTable \in era[p]
    /\ fxCache[p] # 0 => fxCache[p] \in era[p]

\* The rates at which what is told of b in an era may be converted.
RatesOf(b, rates) == IF CurrencyOf[b] = "BYN" THEN {1} ELSE rates

\* The figure c of an answer is left out, or is the one at this rate.
Priced(a, got, c, r) == got[c] = NoFigure \/ got[c] = ToPercent(RawOf(a, c), a.nominal, r)

\* What was told of b: an answer of the site, converted at one rate.
ToldOf(b, told) ==
  /\ told.answer \in FeedAnswers[b] /\ told.rates # {}
  /\ \E r \in RatesOf(b, told.rates) : \A c \in Kinds : Priced(told.answer, told.got, c, r)

\* Every figure of a row is the one of the answer that is on record for it.
RowTold(b, row, org) ==
  \A f \in Figures :
    IF org[f] = NoOrigin THEN row[f] = NoFigure
    ELSE /\ ToldOf(b, org[f])
         /\ row[f] # NoFigure /\ row[f] = BondOf(b, org[f].answer, org[f].got)[f]

\* Before a rate is at hand no figure depends on one.
ConversionSound(d) ==
  /\ d \in Conversion /\ d.answer \in FeedAnswers[d.bond]
  /\ d.step # "store" =>
       /\ d.at \in 1 .. 4
       /\ \A c \in Kinds : \A r \in Nat \ {0} : Priced(d.answer, d.got, c, r)
  /\ d.step = "looked" => d.value \in era[d.proc] /\ CurrencyOf[d.bond] # "BYN"
  /\ d.step = "bank" => CurrencyOf[d.bond] # "BYN"  /\ NeedsRate(d)
  /\ d.step = "store" => \E r \in RatesOf(d.bond, era[d.proc]) : \A c \in Kinds : Priced(d.answer, d.got, c, r)

DelistSound(d) == d.bond \in FeedBonds /\ d.proc \in ScrapeProcs /\ (d.known => d.currency = CurrencyOf[d.bond])

WriteSound(d) ==
  /\ d.bond \in FeedBonds /\ d.proc \in ScrapeProcs /\ (d.known => d.currency = CurrencyOf[d.bond])
  /\ RowTold(d.bond, d.old, d.oldOrigin)
  /\ \/ \A f \in Figures : d.figures[f] = NoFigure
     \/ ToldOf(d.bond, d.told) /\ d.figures = BondOf(d.bond, d.told.answer, d.told.got)

DetailSound(d) ==
  /\ d.step \in {"rest", "missing", "convert", "bank", "looked", "store", "delist", "write"}
  /\ d.step = "rest" => d \in Quiet
  /\ d.step = "missing" => d \in Lost
  /\ d.step \in {"convert", "bank", "looked", "store"} => ConversionSound(d)
  /\ d.step = "delist" => DelistSound(d)
  /\ d.step = "write" => WriteSound(d)

DetailsSound == \A t \in FeedTasks : DetailSound(detail[t])

RowsTold == \A b \in FeedBonds : RowTold(b, feedRow[b], origin[b]) /\ CurrencyKept(b)

FeedInv == FeedTypeOK /\ RatesMet /\ DetailsSound /\ RowsTold

-----------------------------------------------------------------------------
(* The conversions.                                                        *)

\* An answer has its figures.
LEMMA AnswerFigures ==
    ASSUME NEW b \in FeedBonds, NEW a \in FeedAnswers[b]
    PROVE  /\ a \in Answers /\ a.nominal \in Int /\ a.yield \in Int /\ a.coupon \in Int
           /\ \A c \in Kinds : RawOf(a, c) \in Int
  BY FeedAssumption DEF FeedAssumption, FeedAnswerType, RawOf, Kinds, Answers

\* A conversion ends in a number.
LEMMA PercentIsNumber ==
    ASSUME NEW v \in Int, NEW nominal \in Int, NEW fx
    PROVE  ToPercent(v, nominal, fx) \in Int
<1> DEFINE percent == (v * 100) \div (nominal * fx)
<1>1. NoFigure \in Int
  BY DEF NoFigure
<1>2. percent \in 1 .. 500 => percent \in Int
  OBVIOUS
<1> HIDE DEF percent
<1>3. ToPercent(v, nominal, fx) \in {NoFigure, v} \/ (ToPercent(v, nominal, fx) = percent /\ percent \in 1 .. 500)
  <2>1. ToPercent(v, nominal, fx) =
          IF v = NoFigure \/ v <= 0 THEN NoFigure
          ELSE IF nominal = NoFigure \/ nominal <= 0 THEN v
          ELSE IF fx = 0 THEN NoFigure
          ELSE IF percent \in 1 .. 500 THEN percent ELSE v
    BY DEF ToPercent, percent
  <2> QED
    BY <2>1
<1> QED
  BY <1>1, <1>2, <1>3

\* What needs no rate is the same at every one; what needs one is left out
\* without it.
LEMMA PercentWithoutRate ==
    ASSUME NEW v \in Int, NEW nominal \in Int, NEW r \in Nat \ {0}
    PROVE  \/ ToPercent(v, nominal, 0) = NoFigure
           \/ ToPercent(v, nominal, 0) = ToPercent(v, nominal, r)
  BY DEF ToPercent, NoFigure

\* There are four conversions.
LEMMA FourConversions == Len(Conversions) = 4
  BY DEF Conversions

\* Conversions that are made at once are made at one rate.
LEMMA ConvertsOn ==
    ASSUME NEW d \in Conversion, d.answer \in FeedAnswers[d.bond], NEW upto \in d.at .. 4, d.at \in 1 .. 4, NEW fx
    PROVE  /\ ConvertedTo(d, upto, fx) \in Conversion
           /\ ConvertedTo(d, upto, fx).step = (IF upto = 4 THEN "store" ELSE "convert")
           /\ ConvertedTo(d, upto, fx).at = upto + 1
           /\ ConvertedTo(d, upto, fx).bond = d.bond /\ ConvertedTo(d, upto, fx).proc = d.proc
           /\ ConvertedTo(d, upto, fx).answer = d.answer
           /\ \A c \in Kinds :
                \/ ConvertedTo(d, upto, fx).got[c] = d.got[c]
                \/ ConvertedTo(d, upto, fx).got[c] = ToPercent(RawOf(d.answer, c), d.answer.nominal, fx)
<1> DEFINE Percent(c) == ToPercent(RawOf(d.answer, c), d.answer.nominal, fx)
           Now(c) == \E i \in d.at .. upto : Conversions[i] = c
           got == [c \in Kinds |-> IF Now(c) THEN Percent(c) ELSE d.got[c]]
           step == IF upto = 4 THEN "store" ELSE "convert"
<1>1. d.got \in [Kinds -> Int] /\ DOMAIN d.got = Kinds
  BY DEF Conversion
<1>2. \A c \in Kinds : Percent(c) \in Int
  BY AnswerFigures, PercentIsNumber DEF Conversion
<1>3. ConvertedTo(d, upto, fx) = [d EXCEPT !.at = upto + 1, !.got = got, !.step = step]
  BY <1>1, FourConversions DEF ConvertedTo, Conversion
<1> HIDE DEF Percent, Now
<1>4. got \in [Kinds -> Int] /\ \A c \in Kinds : got[c] = d.got[c] \/ got[c] = Percent(c)
  BY <1>1, <1>2
<1>5. upto + 1 \in 1 .. 5 /\ step \in {"convert", "bank", "looked", "store"}
  OBVIOUS
<1> HIDE DEF got, step
<1>6. /\ ConvertedTo(d, upto, fx) \in Conversion
      /\ ConvertedTo(d, upto, fx).step = step /\ ConvertedTo(d, upto, fx).at = upto + 1
      /\ ConvertedTo(d, upto, fx).bond = d.bond /\ ConvertedTo(d, upto, fx).proc = d.proc
      /\ ConvertedTo(d, upto, fx).answer = d.answer /\ ConvertedTo(d, upto, fx).got = got
  BY <1>3, <1>4, <1>5 DEF Conversion
<1> QED
  BY <1>4, <1>6 DEF Percent, step

\* What is known of an answer that is not converted yet.
LEMMA Unconverted ==
    ASSUME NEW d, ConversionSound(d), d.step # "store"
    PROVE  /\ d \in Conversion /\ d.answer \in FeedAnswers[d.bond] /\ d.bond \in FeedBonds /\ d.at \in 1 .. 4
           /\ \A c \in Kinds : \A r \in Nat \ {0} : Priced(d.answer, d.got, c, r)
  BY DEF ConversionSound, Conversion

\* With a rate at hand the rest of the answer is converted at it.
LEMMA ConvertsAll ==
    ASSUME NEW d, ConversionSound(d), d.step # "store", era[d.proc] \subseteq Nat \ {0},
           NEW fx \in RatesOf(d.bond, era[d.proc])
    PROVE  ConversionSound(ConvertedTo(d, Len(Conversions), fx))
<1> DEFINE e == ConvertedTo(d, 4, fx)
<1>1. fx \in Nat \ {0}
  BY DEF RatesOf
<1>2. /\ d \in Conversion /\ d.answer \in FeedAnswers[d.bond] /\ d.at \in 1 .. 4
      /\ \A c \in Kinds : Priced(d.answer, d.got, c, fx)
  BY <1>1, Unconverted
<1>3. /\ e \in Conversion /\ e.step = "store" /\ e.bond = d.bond /\ e.proc = d.proc /\ e.answer = d.answer
      /\ \A c \in Kinds : e.got[c] = d.got[c] \/ e.got[c] = ToPercent(RawOf(d.answer, c), d.answer.nominal, fx)
  BY <1>2, ConvertsOn
<1> HIDE DEF e
<1>4. \A c \in Kinds : Priced(e.answer, e.got, c, fx)
  BY <1>2, <1>3 DEF Priced
<1>5. ConversionSound(e)
  BY <1>2, <1>3, <1>4 DEF ConversionSound
<1> QED
  BY <1>5, FourConversions DEF e

\* What needs no rate, and what there is none for, is converted by itself.
LEMMA ConvertsOne ==
    ASSUME NEW d, ConversionSound(d), d.step # "store", era[d.proc] \subseteq Nat \ {0}, bankRate \in era[d.proc]
    PROVE  ConversionSound(ConvertedTo(d, d.at, 0))
<1> DEFINE e == ConvertedTo(d, d.at, 0)
<1>1. /\ d \in Conversion /\ d.answer \in FeedAnswers[d.bond] /\ d.bond \in FeedBonds /\ d.at \in 1 .. 4
      /\ \A c \in Kinds : \A r \in Nat \ {0} : Priced(d.answer, d.got, c, r)
  BY Unconverted
<1>2. /\ e \in Conversion /\ e.step = (IF d.at = 4 THEN "store" ELSE "convert") /\ e.at = d.at + 1
      /\ e.bond = d.bond /\ e.proc = d.proc /\ e.answer = d.answer
      /\ \A c \in Kinds : e.got[c] = d.got[c] \/ e.got[c] = ToPercent(RawOf(d.answer, c), d.answer.nominal, 0)
  BY <1>1, ConvertsOn
<1> HIDE DEF e
<1>3. ASSUME NEW c \in Kinds, NEW r \in Nat \ {0}
      PROVE  Priced(e.answer, e.got, c, r)
  <2>1. RawOf(d.answer, c) \in Int /\ d.answer.nominal \in Int
    BY <1>1, AnswerFigures
  <2>2. \/ ToPercent(RawOf(d.answer, c), d.answer.nominal, 0) = NoFigure
        \/ ToPercent(RawOf(d.answer, c), d.answer.nominal, 0) = ToPercent(RawOf(d.answer, c), d.answer.nominal, r)
    BY <2>1, PercentWithoutRate
  <2> QED
    BY <1>1, <1>2, <2>2 DEF Priced
<1>4. \E r \in RatesOf(d.bond, era[d.proc]) : r \in Nat \ {0}
  BY DEF RatesOf
<1>5. e.step = "store" => \E r \in RatesOf(e.bond, era[e.proc]) : \A c \in Kinds : Priced(e.answer, e.got, c, r)
  BY <1>2, <1>3, <1>4
<1>6. e.step # "store" => e.at \in 1 .. 4
  BY <1>1, <1>2
<1> QED
  BY <1>1, <1>2, <1>3, <1>5, <1>6 DEF ConversionSound, e

-----------------------------------------------------------------------------
(* The steps of a request.                                                 *)

\* What is known of a task's request stays known when rates are published.
LEMMA DetailKept ==
    ASSUME NEW d, DetailSound(d), d.step # "rest" => era[d.proc] \subseteq era'[d.proc]
    PROVE  DetailSound(d)'
<1>1. ConversionSound(d) /\ d.step # "rest" => ConversionSound(d)'
  BY DEF ConversionSound, RatesOf
<1> QED
  BY <1>1 DEF DetailSound

\* A task goes on, and may leave a rate behind; the rows are left alone.
LEMMA TaskLeavesRate ==
    ASSUME FeedInv, NEW t \in FeedTasks, NEW e, detail' = [detail EXCEPT ![t] = e], DetailSound(e)',
           fxTable' \in Nat, fxCache' \in [ScrapeProcs -> Nat], RatesMet',
           UNCHANGED <<feed, bankRate, feedRow, origin, era, guessed>>
    PROVE  FeedInv'
<1>1. FeedTypeOK /\ RatesMet /\ DetailsSound /\ RowsTold
  BY DEF FeedInv
<1>2. FeedTypeOK'
  BY <1>1 DEF FeedTypeOK
<1>3. RowsTold'
  BY <1>1 DEF RowsTold, CurrencyKept
<1>4. DetailsSound'
  <2> SUFFICES ASSUME NEW s \in FeedTasks PROVE DetailSound(detail[s])'
    BY DEF DetailsSound
  <2>1. DetailSound(detail[s])
    BY <1>1 DEF DetailsSound
  <2>2. DetailSound(detail[s]) /\ detail'[s] = detail[s] => DetailSound(detail[s])'
    BY DEF DetailSound, ConversionSound
  <2>3. CASE s = t
    BY <1>1, <2>3 DEF FeedTypeOK
  <2>4. CASE s # t
    BY <1>1, <2>1, <2>2, <2>4 DEF FeedTypeOK
  <2> QED
    BY <2>3, <2>4
<1> QED
  BY <1>2, <1>3, <1>4 DEF FeedInv

\* A task goes on and nothing else changes.
LEMMA TaskGoesOn ==
    ASSUME FeedInv, NEW t \in FeedTasks, NEW e, detail' = [detail EXCEPT ![t] = e], DetailSound(e)',
           UNCHANGED <<feed, bankRate, fxTable, fxCache, feedRow, origin, era, guessed>>
    PROVE  FeedInv'
<1>1. fxTable' \in Nat /\ fxCache' \in [ScrapeProcs -> Nat] /\ RatesMet'
  BY DEF FeedInv, FeedTypeOK, RatesMet
<1> QED
  BY <1>1, TaskLeavesRate

\* What is known of the request of a task.
LEMMA TaskKnown ==
    ASSUME FeedInv, NEW t \in FeedTasks
    PROVE  /\ DetailSound(detail[t])
           /\ detail[t].step \in {"convert", "bank", "looked", "store"} =>
                /\ ConversionSound(detail[t]) /\ detail[t] \in Conversion
                /\ detail[t].bond \in FeedBonds /\ detail[t].proc \in ScrapeProcs
                /\ era[detail[t].proc] \subseteq Nat \ {0} /\ bankRate \in era[detail[t].proc]
<1>1. DetailSound(detail[t])
  BY DEF FeedInv, DetailsSound
<1>2. detail[t].step \in {"convert", "bank", "looked", "store"} =>
        /\ ConversionSound(detail[t]) /\ detail[t] \in Conversion
        /\ detail[t].bond \in FeedBonds /\ detail[t].proc \in ScrapeProcs
  BY <1>1 DEF DetailSound, ConversionSound, Conversion
<1> QED
  BY <1>1, <1>2 DEF FeedInv, FeedTypeOK, RatesMet

\* What is converted is a request like any other.
LEMMA ConversionIsDetail ==
    ASSUME NEW e, ConversionSound(e)
    PROVE  DetailSound(e)
  BY DEF DetailSound, ConversionSound, Conversion

\* A request goes on with its conversions.
LEMMA ConversionGoesOn ==
    ASSUME FeedInv, NEW t \in FeedTasks, NEW e, detail' = [detail EXCEPT ![t] = e], ConversionSound(e),
           UNCHANGED <<feed, bankRate, fxTable, fxCache, feedRow, origin, era, guessed>>
    PROVE  FeedInv'
<1>1. DetailSound(e)'
  BY ConversionIsDetail, DetailKept
<1> QED
  BY <1>1, TaskGoesOn

\* A request for a bond begins.
LEMMA BeginDetailKeeps ==
    ASSUME FeedInv, NEW t \in FeedTasks, BeginDetail(t)
    PROVE  FeedInv'
<1> PICK b \in FeedBonds, p \in ScrapeProcs :
      detail' = [detail EXCEPT ![t] =
         IF feed[b] = Gone THEN [step |-> "missing", bond |-> b, proc |-> p]
         ELSE [step |-> "convert", bond |-> b, proc |-> p, answer |-> feed[b], at |-> 1, value |-> 0,
               got |-> [c \in {"check", "bid", "ask", "price"} |-> NoFigure]]]
  BY DEF BeginDetail
<1>1. UNCHANGED <<feed, bankRate, fxTable, fxCache, feedRow, origin, era, guessed>>
  BY DEF BeginDetail
<1>2. CASE feed[b] = Gone
  <2> DEFINE e == [step |-> "missing", bond |-> b, proc |-> p]
  <2>1. e \in Lost /\ e.step = "missing"
    BY DEF Lost
  <2>2. detail' = [detail EXCEPT ![t] = e]
    BY <1>2
  <2> HIDE DEF e
  <2>3. DetailSound(e)'
    BY <2>1 DEF DetailSound
  <2> QED
    BY <1>1, <2>2, <2>3, TaskGoesOn
<1>3. CASE feed[b] # Gone
  <2> DEFINE got == [c \in Kinds |-> NoFigure]
             e == [step |-> "convert", bond |-> b, proc |-> p, answer |-> feed[b], at |-> 1, value |-> 0, got |-> got]
  <2>1. feed[b] \in FeedAnswers[b] /\ feed[b] \in Answers
    BY <1>3 DEF FeedInv, FeedTypeOK, Answers
  <2>2. detail' = [detail EXCEPT ![t] = e]
    BY <1>3 DEF Kinds
  <2>3. got \in [Kinds -> Int] /\ \A c \in Kinds : got[c] = NoFigure
    BY DEF NoFigure
  <2> HIDE DEF got
  <2>4. e \in Conversion /\ e.step = "convert" /\ e.answer = feed[b] /\ e.bond = b /\ e.at = 1 /\ e.got = got
    BY <2>1, <2>3 DEF Conversion
  <2> HIDE DEF e
  <2>5. ConversionSound(e)
    BY <2>1, <2>3, <2>4 DEF ConversionSound, Priced
  <2> QED
    BY <1>1, <2>2, <2>5, ConversionGoesOn
<1> QED
  BY <1>2, <1>3

\* A conversion that needs no wait.
LEMMA ConvertKeeps ==
    ASSUME FeedInv, NEW t \in FeedTasks, Convert(t)
    PROVE  FeedInv'
<1> DEFINE d == detail[t]
<1>1. /\ d.step = "convert" /\ UNCHANGED <<feed, bankRate, fxTable, fxCache, feedRow, origin, era, guessed>>
      /\ \/ Cached(d) # 0 /\ detail' = [detail EXCEPT ![t] = ConvertedTo(d, Len(Conversions), Cached(d))]
         \/ Cached(d) = 0 /\ detail' = [detail EXCEPT ![t] = ConvertedTo(d, d.at, 0)]
  BY DEF Convert
<1>2. /\ ConversionSound(d) /\ d.bond \in FeedBonds /\ d.proc \in ScrapeProcs
      /\ era[d.proc] \subseteq Nat \ {0} /\ bankRate \in era[d.proc]
  BY <1>1, TaskKnown
<1>3. Cached(d) # 0 => Cached(d) \in RatesOf(d.bond, era[d.proc])
  BY <1>2 DEF Cached, RatesOf, FeedInv, RatesMet
<1> HIDE DEF d
<1>4. CASE Cached(d) # 0
  <2>1. ConversionSound(ConvertedTo(d, Len(Conversions), Cached(d)))
    BY <1>1, <1>2, <1>3, <1>4, ConvertsAll
  <2> QED
    BY <1>1, <1>4, <2>1, ConversionGoesOn
<1>5. CASE Cached(d) = 0
  <2>1. ConversionSound(ConvertedTo(d, d.at, 0))
    BY <1>1, <1>2, ConvertsOne
  <2> QED
    BY <1>1, <1>5, <2>1, ConversionGoesOn
<1> QED
  BY <1>4, <1>5

\* A request that has met a rate or none waits with what it has.
LEMMA Waits ==
    ASSUME NEW d, ConversionSound(d), d.step # "store", NEW step \in {"bank", "looked"}, NEW value \in Nat,
           CurrencyOf[d.bond] # "BYN",
           step = "bank" => NeedsRate(d),
           step = "looked" => value \in era[d.proc]
    PROVE  ConversionSound([d EXCEPT !.value = value, !.step = step])
<1> DEFINE e == [d EXCEPT !.value = value, !.step = step]
<1>1. /\ d \in Conversion /\ d.answer \in FeedAnswers[d.bond] /\ d.at \in 1 .. 4
      /\ \A c \in Kinds : \A r \in Nat \ {0} : Priced(d.answer, d.got, c, r)
  BY Unconverted
<1>2. /\ e \in Conversion /\ e.step = step /\ e.value = value /\ e.at = d.at /\ e.bond = d.bond /\ e.proc = d.proc
      /\ e.answer = d.answer /\ e.got = d.got
  BY <1>1 DEF Conversion
<1> HIDE DEF e
<1>3. step = "bank" => NeedsRate(e)
  BY <1>2 DEF NeedsRate
<1>4. ConversionSound(e)
  BY <1>1, <1>2, <1>3 DEF ConversionSound
<1> QED
  BY <1>4 DEF e

\* The rate is read from the table.
LEMMA ReadRateKeeps ==
    ASSUME FeedInv, NEW t \in FeedTasks, ReadRate(t)
    PROVE  FeedInv'
<1> DEFINE d == detail[t]
           step == IF fxTable = 0 THEN "bank" ELSE "looked"
           e == [d EXCEPT !.value = fxTable, !.step = step]
<1>1. /\ d.step = "convert" /\ UNCHANGED <<feed, bankRate, fxTable, fxCache, feedRow, origin, era, guessed>>
      /\ Cached(d) = 0 /\ NeedsRate(d)
  BY DEF ReadRate
<1>2. detail' = [detail EXCEPT ![t] = e]
  BY DEF ReadRate, FeedInv, FeedTypeOK
<1>3. ConversionSound(d) /\ d.proc \in ScrapeProcs
  BY <1>1, TaskKnown
<1>4. fxTable \in Nat /\ (step = "looked" => fxTable \in era[d.proc]) /\ step \in {"bank", "looked"}
  BY <1>3 DEF FeedInv, FeedTypeOK, RatesMet
<1>5. CurrencyOf[d.bond] # "BYN"
  BY <1>1 DEF Cached
<1> HIDE DEF d, step
<1>6. ConversionSound(e)
  BY <1>1, <1>3, <1>4, <1>5, Waits
<1> HIDE DEF e
<1> QED
  BY <1>1, <1>2, <1>6, ConversionGoesOn

\* The bank is asked.
LEMMA AskBankKeeps ==
    ASSUME FeedInv, NEW t \in FeedTasks, AskBank(t)
    PROVE  FeedInv'
<1> DEFINE d == detail[t]
<1>1. d.step = "bank" /\ UNCHANGED <<feed, bankRate, fxCache, feedRow, origin, era, guessed>>
  BY DEF AskBank
<1>2. /\ ConversionSound(d) /\ d.bond \in FeedBonds /\ d.proc \in ScrapeProcs
      /\ era[d.proc] \subseteq Nat \ {0} /\ bankRate \in era[d.proc]
  BY <1>1, TaskKnown
<1>3. CurrencyOf[d.bond] # "BYN"
  BY <1>1, <1>2 DEF ConversionSound
<1>4. CASE fxTable' = bankRate /\ detail' = [detail EXCEPT ![t].value = bankRate, ![t].step = "looked"]
  <2> DEFINE e == [d EXCEPT !.value = bankRate, !.step = "looked"]
  <2>1. detail' = [detail EXCEPT ![t] = e]
    BY <1>4 DEF FeedInv, FeedTypeOK
  <2>2. fxTable' \in Nat /\ fxCache' \in [ScrapeProcs -> Nat] /\ RatesMet'
    BY <1>1, <1>2, <1>4 DEF FeedInv, FeedTypeOK, RatesMet
  <2> HIDE DEF d
  <2>3. ConversionSound(e)
    BY <1>1, <1>2, <1>3, Waits
  <2> HIDE DEF e
  <2>4. PICK x : x = e
    OBVIOUS
  <2>5. DetailSound(x)'
    BY <1>1, <2>3, <2>4, ConversionIsDetail, DetailKept
  <2> QED
    BY <1>1, <2>1, <2>2, <2>4, <2>5, TaskLeavesRate
<1>5. CASE fxTable' = fxTable /\ detail' = [detail EXCEPT ![t] = ConvertedTo(d, d.at, 0)]
  <2>1. ConversionSound(ConvertedTo(d, d.at, 0))
    BY <1>1, <1>2, ConvertsOne
  <2> QED
    BY <1>1, <1>5, <2>1, ConversionGoesOn
<1> QED
  BY <1>4, <1>5 DEF AskBank

\* The rate is cached and used.
LEMMA RateLookedKeeps ==
    ASSUME FeedInv, NEW t \in FeedTasks, RateLooked(t)
    PROVE  FeedInv'
<1> DEFINE d == detail[t]
<1>1. /\ d.step = "looked" /\ UNCHANGED <<feed, bankRate, fxTable, feedRow, origin, era, guessed>>
      /\ fxCache' = [fxCache EXCEPT ![d.proc] = d.value]
      /\ detail' = [detail EXCEPT ![t] = ConvertedTo(d, Len(Conversions), d.value)]
  BY DEF RateLooked
<1>2. /\ ConversionSound(d) /\ d \in Conversion /\ d.bond \in FeedBonds /\ d.proc \in ScrapeProcs
      /\ era[d.proc] \subseteq Nat \ {0} /\ bankRate \in era[d.proc]
  BY <1>1, TaskKnown
<1>3. d.value \in era[d.proc] /\ d.value \in Nat /\ d.value \in RatesOf(d.bond, era[d.proc])
  BY <1>1, <1>2 DEF ConversionSound, RatesOf, Conversion
<1>4. fxTable' \in Nat /\ fxCache' \in [ScrapeProcs -> Nat] /\ RatesMet'
  BY <1>1, <1>2, <1>3 DEF FeedInv, FeedTypeOK, RatesMet
<1> HIDE DEF d
<1>5. ConversionSound(ConvertedTo(d, Len(Conversions), d.value))
  BY <1>1, <1>2, <1>3, ConvertsAll
<1>6. PICK x : x = ConvertedTo(d, Len(Conversions), d.value)
  OBVIOUS
<1>7. DetailSound(x)'
  BY <1>1, <1>5, <1>6, ConversionIsDetail, DetailKept
<1> QED
  BY <1>1, <1>4, <1>6, <1>7, TaskLeavesRate

\* A row is read to be merged with what is written.
LEMMA WritingSound ==
    ASSUME FeedInv, NEW d, d.bond \in FeedBonds, d.proc \in ScrapeProcs, NEW figures, NEW currency, NEW status,
           NEW known, known => currency = CurrencyOf[d.bond], NEW told,
           \/ \A f \in Figures : figures[f] = NoFigure
           \/ ToldOf(d.bond, told) /\ figures = BondOf(d.bond, told.answer, told.got)
    PROVE  DetailSound(Writing(d, figures, currency, status, known, told))
<1>1. RowTold(d.bond, feedRow[d.bond], origin[d.bond])
  BY DEF FeedInv, RowsTold
<1> DEFINE e == Writing(d, figures, currency, status, known, told)
<1>2. /\ e.step = "write" /\ e.bond = d.bond /\ e.proc = d.proc /\ e.figures = figures /\ e.currency = currency
      /\ e.told = told /\ e.old = feedRow[d.bond] /\ e.oldOrigin = origin[d.bond] /\ e.known = known
  BY DEF Writing
<1> HIDE DEF e
<1>3. WriteSound(e)
  BY <1>1, <1>2 DEF WriteSound
<1>4. DetailSound(e)
  BY <1>2, <1>3 DEF DetailSound
<1> QED
  BY <1>4 DEF e

\* The answer becomes what is written of the bond.
LEMMA MergeKeeps ==
    ASSUME FeedInv, NEW t \in FeedTasks, Merge(t)
    PROVE  FeedInv'
<1> DEFINE d == detail[t]
           told == [answer |-> d.answer, got |-> d.got, rates |-> era[d.proc]]
           figures == BondOf(d.bond, d.answer, d.got)
           e == Writing(d, figures, CurrencyOf[d.bond], "active", TRUE, told)
<1>1. /\ d.step = "store" /\ UNCHANGED <<feed, bankRate, fxTable, fxCache, feedRow, origin, era, guessed>>
      /\ detail' = [detail EXCEPT ![t] = IF Valid(d.answer) THEN e ELSE NoDetail]
  BY DEF Merge
<1>2. /\ ConversionSound(d) /\ d.bond \in FeedBonds /\ d.proc \in ScrapeProcs
      /\ era[d.proc] \subseteq Nat \ {0} /\ bankRate \in era[d.proc]
  BY <1>1, TaskKnown
<1>3. ToldOf(d.bond, told)
  BY <1>1, <1>2 DEF ConversionSound, ToldOf
<1>4. figures = BondOf(d.bond, told.answer, told.got)
  OBVIOUS
<1> HIDE DEF d, told, figures
<1>5. DetailSound(e)
  BY <1>2, <1>3, <1>4, WritingSound
<1>6. DetailSound(NoDetail) /\ NoDetail.step = "rest" /\ e.step = "write" /\ e.proc = d.proc
  BY DEF DetailSound, NoDetail, Quiet, Writing
<1> HIDE DEF e
<1>7. PICK x : x = IF Valid(d.answer) THEN e ELSE NoDetail
  OBVIOUS
<1>8. DetailSound(x)'
  BY <1>1, <1>5, <1>6, <1>7, DetailKept
<1> QED
  BY <1>1, <1>7, <1>8, TaskGoesOn

\* The currency of a bond that is gone is read.
LEMMA MissingReadKeeps ==
    ASSUME FeedInv, NEW t \in FeedTasks, MissingRead(t)
    PROVE  FeedInv'
<1> DEFINE d == detail[t]
           row == feedRow[d.bond]
           known == row.kept /\ d.bond \notin guessed
           currency == IF row.kept THEN row.currency ELSE "USD"
           e == [step |-> "delist", bond |-> d.bond, proc |-> d.proc, known |-> known, currency |-> currency]
<1>1. /\ d.step = "missing" /\ UNCHANGED <<feed, bankRate, fxTable, fxCache, feedRow, origin, era, guessed>>
      /\ detail' = [detail EXCEPT ![t] = e]
  BY DEF MissingRead
<1>2. d.bond \in FeedBonds /\ d.proc \in ScrapeProcs
  BY <1>1, TaskKnown DEF DetailSound, Lost
<1>3. known => currency = CurrencyOf[d.bond]
  BY <1>2 DEF FeedInv, RowsTold, CurrencyKept
<1> HIDE DEF d, known, currency
<1>4. e.step = "delist" /\ e.bond = d.bond /\ e.proc = d.proc /\ e.known = known /\ e.currency = currency
  OBVIOUS
<1> HIDE DEF e
<1>5. DelistSound(e)
  BY <1>2, <1>3, <1>4 DEF DelistSound
<1>6. DetailSound(e)
  BY <1>4, <1>5 DEF DetailSound
<1>7. PICK x : x = e
  OBVIOUS
<1>8. DetailSound(x)'
  BY <1>1, <1>6, <1>7, DetailKept
<1> QED
  BY <1>1, <1>7, <1>8, TaskGoesOn

\* A bond that is gone is merged with its row.
LEMMA MergeDelistedKeeps ==
    ASSUME FeedInv, NEW t \in FeedTasks, MergeDelisted(t)
    PROVE  FeedInv'
<1> DEFINE d == detail[t]
           e == Writing(d, Nothing, d.currency, "delisted", d.known, NoOrigin)
<1>1. /\ d.step = "delist" /\ UNCHANGED <<feed, bankRate, fxTable, fxCache, feedRow, origin, era, guessed>>
      /\ detail' = [detail EXCEPT ![t] = e]
  BY DEF MergeDelisted
<1>2. d.bond \in FeedBonds /\ d.proc \in ScrapeProcs /\ (d.known => d.currency = CurrencyOf[d.bond])
  BY <1>1, TaskKnown DEF DetailSound, DelistSound
<1>3. \A f \in Figures : Nothing[f] = NoFigure
  BY DEF Nothing
<1> HIDE DEF d
<1>4. DetailSound(e)
  BY <1>2, <1>3, WritingSound
<1>5. PICK x : x = e
  OBVIOUS
<1>6. DetailSound(x)'
  BY <1>1, <1>4, <1>5, DetailKept
<1> QED
  BY <1>1, <1>5, <1>6, TaskGoesOn

\* The row is written.
LEMMA StoredKeeps ==
    ASSUME FeedInv, NEW t \in FeedTasks, Stored(t)
    PROVE  FeedInv'
<1> DEFINE d == detail[t]
           row == Upserted(d.old, d.figures, d.currency, d.status)
           org == [f \in Figures |-> IF d.figures[f] = NoFigure THEN d.oldOrigin[f] ELSE d.told]
<1>1. FeedTypeOK /\ RatesMet /\ DetailsSound /\ RowsTold
  BY DEF FeedInv
<1>2. /\ d.step = "write" /\ UNCHANGED <<feed, bankRate, fxTable, fxCache, era>>
      /\ feedRow' = [feedRow EXCEPT ![d.bond] = row] /\ origin' = [origin EXCEPT ![d.bond] = org]
      /\ guessed' = IF d.known THEN guessed \ {d.bond} ELSE guessed \cup {d.bond}
      /\ detail' = [detail EXCEPT ![t] = NoDetail]
  BY DEF Stored
<1>3. WriteSound(d)
  BY <1>2, TaskKnown DEF DetailSound
<1>4. /\ \A f \in Figures : row[f] = IF d.figures[f] = NoFigure THEN d.old[f] ELSE d.figures[f]
      /\ row.currency = d.currency
  BY DEF Upserted, Figures
<1>5. \A f \in Figures : org[f] = IF d.figures[f] = NoFigure THEN d.oldOrigin[f] ELSE d.told
  OBVIOUS
<1> HIDE DEF row, org
<1>6. RowTold(d.bond, row, org)
  <2> SUFFICES ASSUME NEW f \in Figures
               PROVE  IF org[f] = NoOrigin THEN row[f] = NoFigure
                      ELSE /\ ToldOf(d.bond, org[f])
                           /\ row[f] # NoFigure /\ row[f] = BondOf(d.bond, org[f].answer, org[f].got)[f]
    BY DEF RowTold
  <2>1. CASE d.figures[f] = NoFigure
    BY <1>3, <1>4, <1>5, <2>1 DEF WriteSound, RowTold
  <2>2. CASE d.figures[f] # NoFigure
    <3>1. ToldOf(d.bond, d.told) /\ d.figures = BondOf(d.bond, d.told.answer, d.told.got)
      BY <1>3, <2>2 DEF WriteSound
    <3>2. d.told # NoOrigin
      BY <3>1 DEF ToldOf, NoOrigin
    <3> QED
      BY <1>4, <1>5, <2>2, <3>1, <3>2
  <2> QED
    BY <2>1, <2>2
<1>7. d.bond \in FeedBonds /\ (d.known => d.currency = CurrencyOf[d.bond])
  BY <1>3 DEF WriteSound
<1> HIDE DEF d
<1>8. RowsTold'
  <2> SUFFICES ASSUME NEW b \in FeedBonds PROVE (RowTold(b, feedRow[b], origin[b]) /\ CurrencyKept(b))'
    BY DEF RowsTold
  <2>1. CASE b = d.bond
    <3>1. feedRow'[b] = row /\ origin'[b] = org
      BY <1>1, <1>2, <2>1 DEF FeedTypeOK
    <3> QED
      BY <1>2, <1>4, <1>6, <1>7, <2>1, <3>1 DEF CurrencyKept, RowTold
  <2>2. CASE b # d.bond
    <3>1. feedRow'[b] = feedRow[b] /\ origin'[b] = origin[b] /\ (b \in guessed' <=> b \in guessed)
      BY <1>1, <1>2, <2>2 DEF FeedTypeOK
    <3> QED
      BY <1>1, <3>1 DEF RowsTold, RowTold, CurrencyKept
  <2> QED
    BY <2>1, <2>2
<1>9. FeedTypeOK' /\ RatesMet'
  BY <1>1, <1>2 DEF FeedTypeOK, RatesMet
<1>10. DetailsSound'
  <2> SUFFICES ASSUME NEW s \in FeedTasks PROVE DetailSound(detail[s])'
    BY DEF DetailsSound
  <2>1. DetailSound(detail[s])
    BY <1>1 DEF DetailsSound
  <2>2. DetailSound(detail[s]) /\ detail'[s] = detail[s] => DetailSound(detail[s])'
    BY <1>2 DEF DetailSound, ConversionSound
  <2>3. CASE s = t
    BY <1>1, <1>2, <2>3 DEF FeedTypeOK, DetailSound, NoDetail, Quiet
  <2>4. CASE s # t
    BY <1>1, <1>2, <2>1, <2>2, <2>4 DEF FeedTypeOK
  <2> QED
    BY <2>3, <2>4
<1> QED
  BY <1>8, <1>9, <1>10 DEF FeedInv

-----------------------------------------------------------------------------
(* What goes on around them.                                               *)

\* The site tells something else.
LEMMA FeedMovesKeeps ==
    ASSUME FeedInv, FeedMoves
    PROVE  FeedInv'
<1>1. FeedTypeOK /\ RatesMet /\ DetailsSound /\ RowsTold
  BY DEF FeedInv
<1>2. UNCHANGED <<bankRate, fxTable, fxCache, feedRow, detail, origin, era, guessed>>
  BY DEF FeedMoves
<1>3. PICK b \in FeedBonds : \E a \in FeedAnswers[b] \cup {Gone} : feed' = [feed EXCEPT ![b] = a]
  BY DEF FeedMoves
<1> PICK a \in FeedAnswers[b] \cup {Gone} : feed' = [feed EXCEPT ![b] = a]
  BY <1>3
<1>4. a \in Answers \cup {Gone}
  BY DEF Answers
<1>5. FeedTypeOK'
  BY <1>1, <1>2, <1>3, <1>4 DEF FeedTypeOK
<1>6. RatesMet' /\ RowsTold'
  BY <1>1, <1>2 DEF RatesMet, RowsTold, CurrencyKept
<1>7. DetailsSound'
  BY <1>1, <1>2 DEF DetailsSound, DetailSound, ConversionSound
<1> QED
  BY <1>5, <1>6, <1>7 DEF FeedInv

\* The processes in which the requests of the tasks are.
LEMMA TaskProcess ==
    ASSUME FeedInv, NEW t \in FeedTasks, detail[t].step # "rest"
    PROVE  detail[t].proc \in ScrapeProcs
  BY TaskKnown DEF DetailSound, Lost, ConversionSound, Conversion, DelistSound, WriteSound

\* The bank publishes a rate.
LEMMA RatePublishedKeeps ==
    ASSUME FeedInv, RatePublished
    PROVE  FeedInv'
<1>1. FeedTypeOK /\ RatesMet /\ DetailsSound /\ RowsTold
  BY DEF FeedInv
<1>2. /\ bankRate' \in BankRates /\ fxTable' \in {fxTable, bankRate'}
      /\ era' = [p \in ScrapeProcs |-> era[p] \cup {bankRate'}]
      /\ UNCHANGED <<feed, fxCache, feedRow, detail, origin, guessed>>
  BY DEF RatePublished
<1>3. bankRate' \in Nat \ {0}
  BY <1>2, FeedAssumption DEF FeedAssumption
<1>4. FeedTypeOK'
  BY <1>1, <1>2, <1>3 DEF FeedTypeOK
<1>5. RatesMet' /\ RowsTold'
  BY <1>1, <1>2 DEF RatesMet, RowsTold, CurrencyKept
<1>6. DetailsSound'
  <2> SUFFICES ASSUME NEW s \in FeedTasks PROVE DetailSound(detail[s])'
    BY DEF DetailsSound
  <2>1. PICK d : d = detail[s]
    OBVIOUS
  <2>2. DetailSound(d) /\ (d.step # "rest" => d.proc \in ScrapeProcs)
    BY <1>1, <2>1, TaskProcess DEF DetailsSound
  <2>3. DetailSound(d)'
    BY <1>2, <2>2, DetailKept
  <2> QED
    BY <1>2, <2>1, <2>3
<1> QED
  BY <1>4, <1>5, <1>6 DEF FeedInv

\* A process restarts: its cache and its requests are gone.
LEMMA ProcRestartsKeeps ==
    ASSUME FeedInv, ProcRestarts
    PROVE  FeedInv'
<1>1. FeedTypeOK /\ RatesMet /\ DetailsSound /\ RowsTold
  BY DEF FeedInv
<1>2. PICK p \in ScrapeProcs :
        /\ fxCache' = [fxCache EXCEPT ![p] = 0]
        /\ era' = [era EXCEPT ![p] = {bankRate} \cup ({fxTable} \ {0})]
        /\ detail' = [t \in FeedTasks |-> IF detail[t].step # "rest" /\ detail[t].proc = p THEN NoDetail ELSE detail[t]]
  BY DEF ProcRestarts
<1>3. UNCHANGED <<feed, bankRate, fxTable, feedRow, origin, guessed>>
  BY DEF ProcRestarts
<1>4. bankRate \in Nat \ {0} /\ fxTable \in Nat
  BY <1>1, FeedAssumption DEF FeedAssumption, FeedTypeOK
<1>5. FeedTypeOK'
  BY <1>1, <1>2, <1>3, <1>4 DEF FeedTypeOK
<1>6. RatesMet' /\ RowsTold'
  BY <1>1, <1>2, <1>3, <1>4 DEF RatesMet, RowsTold, CurrencyKept, FeedTypeOK
<1>7. DetailsSound'
  <2> SUFFICES ASSUME NEW s \in FeedTasks PROVE DetailSound(detail[s])'
    BY DEF DetailsSound
  <2>1. PICK d : d = detail[s]
    OBVIOUS
  <2>2. DetailSound(d) /\ (d.step # "rest" => d.proc \in ScrapeProcs)
    BY <1>1, <2>1, TaskProcess DEF DetailsSound
  <2>3. CASE d.step # "rest" /\ d.proc = p
    BY <1>2, <2>1, <2>3 DEF DetailSound, NoDetail, Quiet
  <2>4. CASE ~(d.step # "rest" /\ d.proc = p)
    <3>1. detail'[s] = d
      BY <1>2, <2>1, <2>4
    <3>2. d.step # "rest" => era[d.proc] \subseteq era'[d.proc]
      BY <1>1, <1>2, <2>2, <2>4 DEF FeedTypeOK
    <3>3. DetailSound(d)'
      BY <2>2, <3>2, DetailKept
    <3> QED
      BY <3>1, <3>3
  <2> QED
    BY <2>3, <2>4
<1> QED
  BY <1>5, <1>6, <1>7 DEF FeedInv

\* Every step keeps the invariant.
LEMMA FeedStep == FeedInv /\ [FeedNext]_feedVars => FeedInv'
<1> SUFFICES ASSUME FeedInv, [FeedNext]_feedVars PROVE FeedInv'
  OBVIOUS
<1>1. ASSUME NEW t \in FeedTasks,
             \/ BeginDetail(t) \/ Convert(t) \/ ReadRate(t) \/ AskBank(t) \/ RateLooked(t)
             \/ Merge(t) \/ MissingRead(t) \/ MergeDelisted(t) \/ Stored(t)
      PROVE  FeedInv'
  BY <1>1, BeginDetailKeeps, ConvertKeeps, ReadRateKeeps, AskBankKeeps, RateLookedKeeps, MergeKeeps,
     MissingReadKeeps, MergeDelistedKeeps, StoredKeeps
<1>2. CASE UNCHANGED feedVars
  <2>1. UNCHANGED <<feed, bankRate, fxTable, fxCache, feedRow, detail, origin, era, guessed>>
    BY <1>2 DEF feedVars
  <2>2. FeedTypeOK' /\ RatesMet' /\ RowsTold'
    BY <2>1 DEF FeedInv, FeedTypeOK, RatesMet, RowsTold, CurrencyKept
  <2>3. DetailsSound'
    BY <2>1 DEF FeedInv, DetailsSound, DetailSound, ConversionSound
  <2> QED
    BY <2>2, <2>3 DEF FeedInv
<1> QED
  BY <1>1, <1>2, FeedMovesKeeps, RatePublishedKeeps, ProcRestartsKeeps DEF FeedNext

\* Before anything is asked for the invariant holds.
LEMMA FeedBegins == FeedInit => FeedInv
<1> SUFFICES ASSUME FeedInit PROVE FeedInv
  OBVIOUS
<1>1. bankRate \in BankRates /\ bankRate \in Nat \ {0} /\ fxTable \in {0, bankRate}
  BY FeedAssumption DEF FeedInit, FeedAssumption
<1>2. feed \in [FeedBonds -> Answers] /\ \A b \in FeedBonds : feed[b] \in FeedAnswers[b]
  BY DEF FeedInit, Answers
<1>3. FeedTypeOK
  BY <1>1, <1>2 DEF FeedInit, FeedTypeOK
<1>4. RatesMet
  BY <1>1 DEF FeedInit, RatesMet
<1>5. DetailsSound
  BY DEF FeedInit, DetailsSound, DetailSound, NoDetail, Quiet
<1>6. \A b \in FeedBonds : /\ feedRow[b] = NoFeedRow
                           /\ \A f \in Figures : origin[b][f] = NoOrigin
  BY DEF FeedInit
<1>7. ~NoFeedRow.kept /\ \A f \in Figures : NoFeedRow[f] = NoFigure
  BY DEF NoFeedRow, Figures
<1>8. RowsTold
  BY <1>6, <1>7 DEF RowsTold, RowTold, CurrencyKept
<1> QED
  BY <1>3, <1>4, <1>5, <1>8 DEF FeedInv

-----------------------------------------------------------------------------
(* What the invariant says of the rows.                                    *)

\* A price of a row.
LEMMA PricesTold ==
    ASSUME NEW b \in FeedBonds, NEW row, NEW org, RowTold(b, row, org), NEW f \in {"price", "bid", "ask"}
    PROVE  /\ org[f] = NoOrigin <=> row[f] = NoFigure
           /\ org[f] # NoOrigin => ToldOf(b, org[f]) /\ row[f] # NoFigure /\ row[f] = org[f].got[f]
<1>1. f \in Figures
  BY DEF Figures
<1>2. \A a, got : BondOf(b, a, got)[f] = got[f]
  BY DEF BondOf
<1> QED
  BY <1>1, <1>2 DEF RowTold

\* The prices of a row are the figures of its answers.
LEMMA FiguresAreTold ==
    ASSUME FeedInv, NEW b \in FeedBonds
    PROVE  FiguresFromAnswers(b)
<1>1. RowTold(b, feedRow[b], origin[b])
  BY DEF FeedInv, RowsTold
<1> SUFFICES ASSUME NEW f \in {"price", "bid", "ask"}
             PROVE  /\ (origin[b][f] = NoOrigin) <=> (feedRow[b][f] = NoFigure)
                    /\ origin[b][f] # NoOrigin => \E r \in RatesOf(b, origin[b][f].rates) :
                         /\ feedRow[b][f] = ToPercent(origin[b][f].answer[f], origin[b][f].answer.nominal, r)
                         /\ \A g \in {"price", "bid", "ask"} :
                              origin[b][g] = origin[b][f]
                                => feedRow[b][g] = ToPercent(origin[b][f].answer[g], origin[b][f].answer.nominal, r)
  BY DEF FiguresFromAnswers, RatesOf
<1> DEFINE from == origin[b][f]
<1>2. \A g \in {"price", "bid", "ask"} :
        /\ origin[b][g] = NoOrigin <=> feedRow[b][g] = NoFigure
        /\ origin[b][g] # NoOrigin =>
             ToldOf(b, origin[b][g]) /\ feedRow[b][g] # NoFigure /\ feedRow[b][g] = origin[b][g].got[g]
  BY <1>1, PricesTold
<1>3. CASE from # NoOrigin
  <2>1. PICK r \in RatesOf(b, from.rates) : \A c \in Kinds : Priced(from.answer, from.got, c, r)
    BY <1>2, <1>3 DEF ToldOf
  <2>2. \A g \in {"price", "bid", "ask"} : g \in Kinds /\ RawOf(from.answer, g) = from.answer[g]
    BY DEF Kinds, RawOf
  <2>3. \A g \in {"price", "bid", "ask"} :
          origin[b][g] = from => feedRow[b][g] = ToPercent(from.answer[g], from.answer.nominal, r)
    BY <1>2, <1>3, <2>1, <2>2 DEF Priced
  <2> QED
    BY <1>2, <2>1, <2>3
<1> QED
  BY <1>2, <1>3

\* The yield of a row is believed.
LEMMA YieldsAreBelieved ==
    ASSUME FeedInv, NEW b \in FeedBonds
    PROVE  YieldsBelieved(b)
<1> DEFINE from == origin[b]["yield"]
           y == feedRow[b].yield
           a == from.answer
           q == from.got.check
<1>1. "yield" \in Figures /\ \A x, got : BondOf(b, x, got)["yield"] = SanitizedYield(x, got.check)
  BY DEF Figures, BondOf
<1>2. IF from = NoOrigin THEN y = NoFigure
      ELSE ToldOf(b, from) /\ y # NoFigure /\ y = SanitizedYield(a, q)
  BY <1>1 DEF FeedInv, RowsTold, RowTold
<1>3. CASE from # NoOrigin
  <2>1. PICK r \in RatesOf(b, from.rates) : \A c \in Kinds : Priced(a, from.got, c, r)
    BY <1>2, <1>3 DEF ToldOf
  <2>2. a \in FeedAnswers[b] /\ r \in from.rates \cup {1}
    BY <1>2, <1>3, <2>1 DEF ToldOf, RatesOf
  <2>3. a.yield \in Int /\ a.coupon \in Int
    BY <2>2, AnswerFigures
  <2>4. q = NoFigure \/ q = ToPercent(a.price, a.nominal, r)
    BY <2>1 DEF Priced, RawOf, Kinds
  <2>5. q # NoFigure => q \in {ToPercent(a.price, a.nominal, s) : s \in from.rates \cup {1}} \ {NoFigure}
    BY <2>2, <2>4
  <2>6. y # NoFigure /\ y = SanitizedYield(a, q)
    BY <1>2, <1>3
  <2> HIDE DEF from, y, a, q
  <2>7. /\ ~NoCouponMetalYield(a)
        /\ \/ y = a.yield /\ y \in 1 .. 99
           \/ /\ a.coupon # NoFigure /\ q # NoFigure
              /\ y = ImpliedYield[a.coupon][q] \/ Agrees(y, ImpliedYield[a.coupon][q])
    <3> DEFINE computed == IF q # NoFigure /\ a.coupon # NoFigure /\ a.freq # 0 /\ a.live
                           THEN ImpliedYield[a.coupon][q] ELSE NoFigure
    <3>1. y = IF a.yield = NoFigure \/ a.yield <= 0 \/ NoCouponMetalYield(a) THEN NoFigure
              ELSE IF computed # NoFigure THEN (IF Agrees(a.yield, computed) THEN a.yield ELSE computed)
              ELSE IF a.yield < 100 THEN a.yield ELSE NoFigure
      BY <2>6 DEF SanitizedYield
    <3>2. computed # NoFigure => q # NoFigure /\ a.coupon # NoFigure /\ computed = ImpliedYield[a.coupon][q]
      OBVIOUS
    <3> HIDE DEF computed
    <3>3. CASE computed # NoFigure
      BY <2>6, <3>1, <3>2, <3>3
    <3>4. CASE computed = NoFigure
      BY <2>3, <2>6, <3>1, <3>4
    <3> QED
      BY <3>3, <3>4
  <2>8. /\ (from = NoOrigin) <=> (y = NoFigure)
        /\ ~NoCouponMetalYield(a)
        /\ \/ y = a.yield /\ y \in 1 .. 99
           \/ /\ a.coupon # NoFigure
              /\ \E p \in {ToPercent(a.price, a.nominal, s) : s \in from.rates \cup {1}} \ {NoFigure} :
                   y = ImpliedYield[a.coupon][p] \/ Agrees(y, ImpliedYield[a.coupon][p])
    BY <1>3, <2>5, <2>6, <2>7
  <2> QED
    BY <2>8 DEF YieldsBelieved, from, y, a
<1>4. CASE from = NoOrigin
  BY <1>2, <1>4 DEF YieldsBelieved
<1> QED
  BY <1>3, <1>4

\* A bond of the state is read at the percent of its true face.
LEMMA FacesAreCorrected ==
    ASSUME FeedInv, NEW b \in FeedBonds
    PROVE  FaceCorrected(b)
<1> DEFINE from == origin[b]["price"]
           a == from.answer
<1> SUFFICES ASSUME from # NoOrigin, b \in MinfinBonds, origin[b]["nominal"] = from,
                    a.price > 500, a.nominal \in 1 .. MinfinNominal, (a.price * 100) \div a.nominal > 500
             PROVE  ReadPercent(feedRow[b].price, feedRow[b].nominal) = (a.price * 100) \div MinfinNominal
  BY DEF FaceCorrected
<1>1. RowTold(b, feedRow[b], origin[b]) /\ CurrencyOf[b] = "BYN"
  BY FeedAssumption DEF FeedInv, RowsTold, FeedAssumption
<1>2. ToldOf(b, from) /\ feedRow[b].price # NoFigure /\ feedRow[b].price = from.got.price
  BY <1>1, PricesTold
<1>3. Priced(a, from.got, "price", 1)
  BY <1>1, <1>2 DEF ToldOf, RatesOf, Kinds
<1>4. feedRow[b].price = ToPercent(a.price, a.nominal, 1)
  BY <1>2, <1>3 DEF Priced, RawOf
<1>5. a.price \in Int
  BY <1>2, AnswerFigures DEF ToldOf, Kinds, RawOf
<1>6. feedRow[b].nominal = SanitizedNominal(b, a.nominal)
  BY <1>1 DEF RowTold, Figures, BondOf
<1> HIDE DEF from, a
<1>7. feedRow[b].nominal = 1000
  BY <1>6 DEF SanitizedNominal, MinfinNominal
<1>8. feedRow[b].price = a.price
  <2>1. a.nominal * 1 = a.nominal /\ a.nominal \in Int /\ a.nominal > 0
    BY DEF MinfinNominal
  <2> DEFINE percent == (a.price * 100) \div a.nominal
  <2>2. ToPercent(a.price, a.nominal, 1) = IF percent \in 1 .. 500 THEN percent ELSE a.price
    BY <1>5, <2>1 DEF ToPercent, NoFigure
  <2>3. percent \notin 1 .. 500
    OBVIOUS
  <2> QED
    BY <1>4, <2>2, <2>3
<1> QED
  BY <1>5, <1>7, <1>8 DEF ReadPercent, MinfinNominal

\* The invariant implies what the runs check.
LEMMA FeedSound == FeedInv => QuotesSound
<1> SUFFICES ASSUME FeedInv, NEW b \in FeedBonds
             PROVE  FiguresFromAnswers(b) /\ YieldsBelieved(b) /\ FaceCorrected(b) /\ CurrencyKept(b)
  BY DEF QuotesSound
<1> QED
  BY FiguresAreTold, YieldsAreBelieved, FacesAreCorrected DEF FeedInv, RowsTold

(* Whatever requests, rates, processes and the site do meanwhile, every    *)
(* figure of a row is one the site told, converted at one rate of the      *)
(* process, no yield is made up, a wrong face of a state bond is corrected *)
(* and a bond that leaves keeps its currency (client._to_price_pct,        *)
(* _sanitize_yield, repositories/bonds.py).                                *)
THEOREM QuotesAlwaysSound == FeedInit /\ [][FeedNext]_feedVars => []QuotesSound
<1>1. FeedInit => FeedInv
  BY FeedBegins
<1>2. FeedInv /\ [FeedNext]_feedVars => FeedInv'
  BY FeedStep
<1>3. FeedInv => QuotesSound
  BY FeedSound
<1> QED
  BY <1>1, <1>2, <1>3, PTL

=============================================================================

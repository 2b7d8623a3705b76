--------------------------- MODULE ChannelProofs ---------------------------
(***************************************************************************)
(* The two payment channels over one users table, for any users, payments, *)
(* charges, refunds, referrals, processes, deliveries and failures.        *)
(*   - The webhook acts on every notice at most once.                      *)
(*   - What Stars purchases, refunds and referrals do to the users table.  *)
(*   - When handlers are served one after the other, a purchase through    *)
(*     either channel gives what was paid for, and a refund takes back     *)
(*     nothing of the other one's.                                         *)
(***************************************************************************)
EXTENDS PaymentChannels, FiniteSetTheorems, TLAPS

(***************************************************************************)
(* The webhook.                                                            *)
(***************************************************************************)

USE EntitlementAssumption, BillingAssumption
    DEF EntitlementAssumption, BillingAssumption

-----------------------------------------------------------------------------
(* Types.                                                                  *)

(* A grant, a revocation and a write-back of rows give a row.              *)
LEMMA GrantType ==
    ASSUME NEW a \in Account, NEW plan \in PaidTiers, NEW t \in Nat
    PROVE  YooKassaGrant(a, plan, t) \in Account /\ ExtendedFrom(a.expires, t) \in Nat
<1>1. ExtendedFrom(a.expires, t) \in Nat
  <2>1. a.expires \in Nat /\ Duration \in Nat
    BY DEF Account
  <2>2. QED
    BY <2>1 DEF ExtendedFrom
<1>2. YooKassaGrant(a, plan, t) \in Account
  BY <1>1 DEF YooKassaGrant, Account, Tiers, PaidTiers, Channels
<1>3. QED
  BY <1>1, <1>2

LEMMA RevokeType ==
    ASSUME NEW a \in Account
    PROVE  YooKassaRevoke(a) \in Account
BY DEF YooKassaRevoke, Account, Tiers, PaidTiers, Channels, Never

LEMMA WriteBackType ==
    ASSUME NEW a \in Account, NEW b \in Account, NEW c \in Account
    PROVE  WriteBack(a, b, c) \in Account
BY DEF WriteBack, Column, Account

LEMMA SubWriteBackType ==
    ASSUME NEW a \in Subscription, NEW b \in Subscription, NEW c \in Subscription
    PROVE  SubWriteBack(a, b, c) \in Subscription
BY DEF SubWriteBack, Column, Subscription

LEMMA EventType ==
    ASSUME NEW e \in Event
    PROVE  /\ PaymentOf(e) \in Payments
           /\ UserOf(e) \in Users
           /\ e.type \in {"succeeded", "canceled", "refunded"}
           /\ e.type = "refunded" => e.id \in Refunds
           /\ e.type # "refunded" => e.id \in Payments
BY DEF Event, PaymentOf, UserOf

LEMMA ActiveType ==
    ASSUME TypeOK, NEW w \in Workers, task[w].pc # "idle"
    PROVE  task[w] \in ActiveTask
BY DEF TypeOK, Task, Idle

LEMMA GotoType ==
    ASSUME TypeOK, NEW w \in Workers, task[w] \in ActiveTask,
           NEW pc \in {"fetch", "lock", "guard", "sub", "account", "commit",
                       "attribute", "respond"},
           Goto(w, pc)
    PROVE  task' \in [Workers -> Task]
<1>1. [task[w] EXCEPT !.pc = pc] \in ActiveTask
  BY DEF ActiveTask
<1>2. task' = [task EXCEPT ![w] = [task[w] EXCEPT !.pc = pc]]
  BY DEF Goto
<1>3. QED
  BY <1>1, <1>2 DEF TypeOK, Task

LEMMA RestType ==
    ASSUME TypeOK, NEW w \in Workers, task' = [task EXCEPT ![w] = Idle]
    PROVE  task' \in [Workers -> Task]
BY DEF TypeOK, Task

(* What a commit writes is well formed.                                    *)
LEMMA CommitType ==
    ASSUME NEW t \in ActiveTask
    PROVE  NewRow(t) \in Account /\ NewSub(t) \in Subscription
<1> DEFINE e == t.event
<1>1. e \in Event /\ t.row \in Account /\ t.sub \in Subscription /\ t.day \in Nat
  BY DEF ActiveTask
<1>2. CASE e.type = "succeeded"
  <2>1. e.id \in Payments /\ PaymentPlan[e.id] \in PaidTiers
    BY <1>1, <1>2, EventType
  <2>2. YooKassaGrant(t.row, PaymentPlan[e.id], t.day) \in Account
        /\ ExtendedFrom(t.row.expires, t.day) \in Nat
    BY <1>1, <2>1, GrantType
  <2>3. QED
    BY <1>2, <2>1, <2>2 DEF NewRow, NewSub, Subscription, Tiers
<1>3. CASE e.type \in {"canceled", "refunded"}
  <2>1. YooKassaRevoke(t.row) \in Account
    BY <1>1, RevokeType
  <2>2. NewRow(t) \in Account
    BY <1>1, <1>3, <2>1 DEF NewRow
  <2>3. NewSub(t) \in Subscription
    BY <1>1, <1>3 DEF NewSub, Subscription
  <2>4. QED
    BY <2>2, <2>3
<1>4. QED
  BY <1>1, <1>2, <1>3, EventType

-----------------------------------------------------------------------------
(* The inductive invariant.  What a handler has established by the time it *)
(* reaches each of its steps, and where stored payment ids come from.      *)

Established(w) ==
    LET t == task[w]
        e == t.event
    IN  /\ t.pc \notin {"idle", "fetch"} => Confirmed(e)
        /\ t.pc = "lock" => e.type = "succeeded"
        /\ t.pc \in {"guard", "sub", "account", "commit"} /\ e.type = "succeeded"
             => e.id \notin Mispriced
        /\ t.pc \in {"account", "commit"} =>
             /\ e.type # "canceled"
             /\ e.type = "refunded" => RefundOf[e.id] \in processed
             /\ t.sub.payment \in processed \cup {NoPayment}
        /\ t.pc = "attribute" =>
             e.type = "succeeded" /\ e.id \in processed /\ referrals[e.id] = 0

StoredIsGranted ==
    \A u \in Users : subs[u].payment \in processed \cup {NoPayment}

OneAttributes ==
    \A v, w \in Workers :
        v # w /\ task[v].pc = "attribute" /\ task[w].pc = "attribute"
            => task[v].event.id # task[w].event.id

IInv ==
    /\ TypeOK
    /\ ActedOnOnce /\ OnlyConfirmedPayments /\ RefundFollowsGrant
    /\ ReferralPaidOnce
    /\ StoredIsGranted /\ OneAttributes
    /\ \A w \in Workers : Established(w)

-----------------------------------------------------------------------------
(* Type correctness.                                                       *)
LEMMA InitType == Init => TypeOK
<1> SUFFICES ASSUME Init PROVE TypeOK
  OBVIOUS
<1>1. NewAccount \in Account /\ now \in Nat \ {0}
  BY DEF Init, NewAccount, Account, Tiers, PaidTiers, Channels, Never
<1>2. NoSub \in Subscription
  BY DEF NoSub, Subscription, Tiers, PaidTiers, Never
<1>3. account \in [Users -> Account] /\ subs \in [Users -> Subscription]
  BY <1>1, <1>2 DEF Init
<1>4. task \in [Workers -> Task]
  BY DEF Init, Task
<1>5. /\ payState \in [Payments -> {"pending", "succeeded", "canceled"}]
      /\ grants \in [Payments -> Nat] /\ referrals \in [Payments -> Nat]
      /\ refunded \subseteq Refunds /\ acked \subseteq Event
      /\ processed \subseteq Payments \cup Refunds /\ failures \in Nat
  BY DEF Init
<1>6. QED
  BY <1>1, <1>3, <1>4, <1>5 DEF TypeOK, EntitlementTypeOK

LEMMA TypeStep == TypeOK /\ [Next]_vars => TypeOK'
<1> SUFFICES ASSUME TypeOK, [Next]_vars PROVE TypeOK'
  OBVIOUS
<1>1. CASE Tick
  BY <1>1 DEF TypeOK, EntitlementTypeOK, Tick, billingVars
<1>2. CASE Provider
  <2>1. ASSUME NEW p \in Payments, NEW s \in {"succeeded", "canceled"}, Settle(p, s)
        PROVE  TypeOK'
    BY <2>1 DEF TypeOK, EntitlementTypeOK, Settle
  <2>2. ASSUME NEW r \in Refunds, RefundIssued(r) PROVE TypeOK'
    BY <2>2 DEF TypeOK, EntitlementTypeOK, RefundIssued
  <2>3. QED
    BY <1>2, <2>1, <2>2 DEF Provider
<1>3. ASSUME NEW w \in Workers, NEW e \in Event, Receive(w, e) PROVE TypeOK'
  <2>1. [pc |-> "fetch", event |-> e, sub |-> NoSub, row |-> NewAccount,
         day |-> now] \in ActiveTask
    BY DEF TypeOK, EntitlementTypeOK, ActiveTask, NoSub, Subscription, NewAccount,
           Account, Tiers, PaidTiers, Channels, Never
  <2>2. task' \in [Workers -> Task]
    BY <1>3, <2>1 DEF TypeOK, Receive, Task
  <2>3. QED
    BY <1>3, <2>2 DEF TypeOK, EntitlementTypeOK, Receive
<1>4. ASSUME NEW w \in Workers, Fail(w) PROVE TypeOK'
  <2>1. task' \in [Workers -> Task]
    BY <1>4, RestType DEF Fail
  <2>2. failures' \in Nat
    BY <1>4 DEF TypeOK, Fail
  <2>3. QED
    BY <1>4, <2>1, <2>2 DEF TypeOK, EntitlementTypeOK, Fail
<1>5. ASSUME NEW w \in Workers, Handle(w) PROVE TypeOK'
  <2>1. CASE Reject(w) \/ Conflict(w)
    BY <2>1, RestType DEF TypeOK, EntitlementTypeOK, Reject, Conflict
  <2>2. CASE Fetch(w)
    <3>1. task[w] \in ActiveTask
      BY <2>2, ActiveType DEF Fetch
    <3>2. task' \in [Workers -> Task]
      BY <2>2, <3>1, GotoType DEF Fetch, FetchStep
    <3>3. QED
      BY <2>2, <3>2 DEF TypeOK, EntitlementTypeOK, Fetch
  <2>3. CASE AcquireLock(w)
    <3>1. task[w] \in ActiveTask
      BY <2>3, ActiveType DEF AcquireLock
    <3>2. task' \in [Workers -> Task]
      BY <2>3, <3>1, GotoType DEF AcquireLock
    <3>3. QED
      BY <2>3, <3>2 DEF TypeOK, EntitlementTypeOK, AcquireLock
  <2>4. CASE ReplayGuard(w)
    <3>1. task[w] \in ActiveTask
      BY <2>4, ActiveType DEF ReplayGuard
    <3>2. task' \in [Workers -> Task]
      BY <2>4, <3>1, GotoType DEF ReplayGuard
    <3>3. QED
      BY <2>4, <3>2 DEF TypeOK, EntitlementTypeOK, ReplayGuard
  <2>5. CASE ReadSub(w)
    <3> DEFINE s == subs[UserOf(task[w].event)]
               t2 == [task[w] EXCEPT !.sub = s,
                                     !.pc = IF Applies(task[w].event, s)
                                            THEN "account" ELSE "respond"]
    <3>1. task[w] \in ActiveTask
      BY <2>5, ActiveType DEF ReadSub
    <3>2. s \in Subscription
      BY <3>1, EventType DEF TypeOK, ActiveTask
    <3>3. t2 \in ActiveTask
      BY <3>1, <3>2 DEF ActiveTask
    <3>4. task' = [task EXCEPT ![w] = t2]
      BY <2>5, <3>1 DEF ReadSub
    <3>5. task' \in [Workers -> Task]
      BY <3>3, <3>4 DEF TypeOK, Task
    <3>6. QED
      BY <2>5, <3>5 DEF TypeOK, EntitlementTypeOK, ReadSub
  <2>6. CASE ReadAccount(w)
    <3> DEFINE a == account[UserOf(task[w].event)]
               t2 == [task[w] EXCEPT !.row = a, !.day = now, !.pc = "commit"]
    <3>1. task[w] \in ActiveTask
      BY <2>6, ActiveType DEF ReadAccount
    <3>2. a \in Account /\ now \in Nat
      BY <3>1, EventType DEF TypeOK, EntitlementTypeOK, ActiveTask
    <3>3. t2 \in ActiveTask
      BY <3>1, <3>2 DEF ActiveTask
    <3>4. task' = [task EXCEPT ![w] = t2]
      BY <2>6, <3>1 DEF ReadAccount
    <3>5. task' \in [Workers -> Task]
      BY <3>3, <3>4 DEF TypeOK, Task
    <3>6. QED
      BY <2>6, <3>5 DEF TypeOK, EntitlementTypeOK, ReadAccount
  <2>7. CASE Commit(w)
    <3> DEFINE t == task[w]
               u == UserOf(t.event)
    <3>1. t \in ActiveTask
      BY <2>7, ActiveType DEF Commit
    <3>2. /\ u \in Users /\ t.event \in Event
          /\ t.event.id \in Payments \cup Refunds
          /\ t.row \in Account /\ t.sub \in Subscription
      BY <3>1, EventType DEF ActiveTask
    <3>3. NewRow(t) \in Account /\ NewSub(t) \in Subscription
      BY <3>1, CommitType
    <3>4. /\ account[u] \in Account /\ subs[u] \in Subscription
      BY <3>2 DEF TypeOK, EntitlementTypeOK
    <3>5. account' \in [Users -> Account]
      BY <2>7, <3>2, <3>3, <3>4, WriteBackType DEF Commit, TypeOK, EntitlementTypeOK
    <3>6. subs' \in [Users -> Subscription]
      BY <2>7, <3>2, <3>3, <3>4, SubWriteBackType DEF Commit, TypeOK
    <3>7. task' \in [Workers -> Task]
      BY <2>7, <3>1, GotoType DEF Commit, AfterCommit
    <3>8. grants' \in [Payments -> Nat] /\ processed' \subseteq Payments \cup Refunds
      BY <2>7, <3>2 DEF Commit, TypeOK
    <3>9. QED
      BY <2>7, <3>5, <3>6, <3>7, <3>8 DEF TypeOK, EntitlementTypeOK, Commit
  <2>8. CASE Attribute(w)
    <3>1. task[w] \in ActiveTask
      BY <2>8, ActiveType DEF Attribute
    <3>2. task' \in [Workers -> Task]
      BY <2>8, <3>1, GotoType DEF Attribute
    <3> DEFINE p == task[w].event.id
    <3>3. referrals' \in [Payments -> Nat]
      <4>1. referrals' = [referrals EXCEPT ![p] = referrals[p] + 1]
        BY <2>8 DEF Attribute
      <4>2. p \in Payments => referrals[p] + 1 \in Nat
        BY DEF TypeOK
      <4>3. QED
        BY <4>1, <4>2 DEF TypeOK
    <3>4. QED
      BY <2>8, <3>2, <3>3 DEF TypeOK, EntitlementTypeOK, Attribute
  <2>9. CASE Respond(w)
    <3>1. task[w] \in ActiveTask
      BY <2>9, ActiveType DEF Respond
    <3>2. acked' \subseteq Event /\ task' \in [Workers -> Task]
      BY <2>9, <3>1, RestType DEF TypeOK, Respond, ActiveTask
    <3>3. QED
      BY <2>9, <3>2 DEF TypeOK, EntitlementTypeOK, Respond
  <2>10. QED
    BY <1>5, <2>1, <2>2, <2>3, <2>4, <2>5, <2>6, <2>7, <2>8, <2>9 DEF Handle
<1>6. CASE UNCHANGED vars
  BY <1>6 DEF TypeOK, EntitlementTypeOK, vars, billingVars
<1>7. QED
  BY <1>1, <1>2, <1>3, <1>4, <1>5, <1>6 DEF Next

(* Every reachable state is well typed.                                    *)
THEOREM TypeCorrect == Spec => []TypeOK
BY InitType, TypeStep, PTL DEF Spec

-----------------------------------------------------------------------------
(* The invariant holds initially and is preserved by every step.           *)
LEMMA InitIInv == Init => IInv
<1> SUFFICES ASSUME Init PROVE IInv
  OBVIOUS
<1>1. TypeOK
  BY InitType
<1>2. ActedOnOnce /\ OnlyConfirmedPayments /\ RefundFollowsGrant /\ ReferralPaidOnce
  BY DEF Init, ActedOnOnce, OnlyConfirmedPayments, RefundFollowsGrant, ReferralPaidOnce
<1>3. StoredIsGranted
  BY DEF Init, StoredIsGranted, NoSub
<1>4. OneAttributes /\ \A w \in Workers : Established(w)
  BY DEF Init, OneAttributes, Established, Idle
<1>5. QED
  BY <1>1, <1>2, <1>3, <1>4 DEF IInv

(* A step that writes no table only has to leave its own handler in order. *)
LEMMA TaskOnly ==
    ASSUME IInv, TypeOK', NEW w \in Workers, NEW t \in Task,
           UNCHANGED <<payState, refunded, subs, processed, grants, referrals>>,
           task' = [task EXCEPT ![w] = t], t.pc # "attribute",
           Established(w)'
    PROVE  IInv'
<1>1. \A v \in Workers \ {w} : task'[v] = task[v]
  BY DEF IInv, TypeOK
<1>2. task'[w] = t
  BY DEF IInv, TypeOK
<1>3. \A v \in Workers \ {w} : Established(v)'
  BY <1>1 DEF IInv, Established, Confirmed
<1>4. OneAttributes'
  BY <1>1, <1>2 DEF IInv, OneAttributes
<1>5. (/\ ActedOnOnce /\ OnlyConfirmedPayments /\ RefundFollowsGrant
       /\ ReferralPaidOnce /\ StoredIsGranted)'
  BY DEF IInv, ActedOnOnce, OnlyConfirmedPayments, RefundFollowsGrant,
         ReferralPaidOnce, StoredIsGranted
<1>6. QED
  BY <1>3, <1>4, <1>5 DEF IInv

(* YooKassa's answers stay true.                                           *)
LEMMA ProviderStep ==
    ASSUME IInv, TypeOK', Provider
    PROVE  IInv'
<1>1. \A e \in Event : Confirmed(e) => Confirmed(e)'
  <2> SUFFICES ASSUME NEW e \in Event, Confirmed(e) PROVE Confirmed(e)'
    OBVIOUS
  <2>1. e.type # "refunded" => payState[e.id] \in {"succeeded", "canceled"}
    BY EventType DEF Confirmed
  <2>2. ASSUME NEW p \in Payments, NEW s \in {"succeeded", "canceled"}, Settle(p, s)
        PROVE  Confirmed(e)'
    BY <2>1, <2>2, EventType DEF Confirmed, Settle, IInv, TypeOK
  <2>3. ASSUME NEW r \in Refunds, RefundIssued(r) PROVE Confirmed(e)'
    BY <2>3 DEF Confirmed, RefundIssued
  <2>4. QED
    BY <2>2, <2>3 DEF Provider
<1>2. /\ UNCHANGED <<subs, processed, grants, referrals, task>>
      /\ refunded \subseteq refunded'
      /\ \A p \in Payments : payState[p] = "succeeded" => payState'[p] = "succeeded"
  BY DEF Provider, Settle, RefundIssued, IInv, TypeOK
<1>3. (/\ ActedOnOnce /\ OnlyConfirmedPayments /\ RefundFollowsGrant
       /\ ReferralPaidOnce /\ StoredIsGranted /\ OneAttributes)'
  BY <1>2 DEF IInv, ActedOnOnce, OnlyConfirmedPayments, RefundFollowsGrant,
              ReferralPaidOnce, StoredIsGranted, OneAttributes
<1>4. ASSUME NEW w \in Workers PROVE Established(w)'
  <2>1. task[w].pc # "idle" => task[w].event \in Event
    BY ActiveType DEF IInv, ActiveTask
  <2>2. task[w].pc \notin {"idle", "fetch"} => Confirmed(task[w].event)'
    BY <1>1, <1>2, <2>1 DEF IInv, Established, Confirmed
  <2>3. QED
    BY <1>2, <2>2 DEF IInv, Established, Confirmed
<1>5. QED
  BY <1>3, <1>4 DEF IInv

(* Every step of a handler before and after its transactions.              *)
LEMMA QuietStep ==
    ASSUME IInv, TypeOK', NEW w \in Workers, NEW e0 \in Event,
           \/ Receive(w, e0) \/ Fail(w) \/ Reject(w) \/ Conflict(w) \/ Respond(w)
           \/ Fetch(w) \/ AcquireLock(w) \/ ReplayGuard(w) \/ ReadSub(w)
           \/ ReadAccount(w)
    PROVE  IInv'
<1> DEFINE t2 == task'[w]
<1>1. /\ UNCHANGED <<payState, refunded, subs, processed, grants, referrals>>
      /\ t2 \in Task /\ task' = [task EXCEPT ![w] = t2]
  <2>1. UNCHANGED <<payState, refunded, subs, processed, grants, referrals>>
    BY DEF Receive, Fail, Reject, Conflict, Respond, Fetch, AcquireLock,
           ReplayGuard, ReadSub, ReadAccount
  <2>2. \A v \in Workers \ {w} : task'[v] = task[v]
    BY DEF IInv, TypeOK, Receive, Fail, Reject, Conflict, Respond, Fetch,
           AcquireLock, ReplayGuard, ReadSub, ReadAccount, Goto
  <2>3. task \in [Workers -> Task] /\ task' \in [Workers -> Task]
    BY DEF IInv, TypeOK
  <2>4. QED
    BY <2>1, <2>2, <2>3
<1>2. t2.pc # "attribute" /\ Established(w)'
  <2>1. CASE Fail(w) \/ Reject(w) \/ Conflict(w) \/ Respond(w)
    <3>1. t2 = Idle
      BY <2>1 DEF IInv, TypeOK, Fail, Reject, Conflict, Respond
    <3>2. QED
      BY <3>1 DEF Established, Idle
  <2>2. CASE Receive(w, e0)
    <3>1. t2.pc = "fetch"
      BY <2>2 DEF IInv, TypeOK, Receive
    <3>2. QED
      BY <3>1 DEF Established
  <2>3. CASE Fetch(w)
    <3>1. task[w] \in ActiveTask
      BY <2>3, ActiveType DEF IInv, Fetch
    <3>2. /\ t2.event = task[w].event
          /\ t2.pc = FetchStep(w)
      BY <2>3, <3>1 DEF IInv, TypeOK, Fetch, Goto, ActiveTask
    <3>3. Confirmed(task[w].event)
      BY <2>3 DEF Fetch
    <3>4. QED
      BY <1>1, <3>2, <3>3 DEF Established, FetchStep, Confirmed
  <2>4. CASE AcquireLock(w)
    <3>1. task[w] \in ActiveTask
      BY <2>4, ActiveType DEF IInv, AcquireLock
    <3>2. /\ t2.event = task[w].event
          /\ t2.pc = IF task[w].event.id \in Mispriced THEN "respond" ELSE "guard"
      BY <2>4, <3>1 DEF IInv, TypeOK, AcquireLock, Goto, ActiveTask
    <3>3. Confirmed(task[w].event) /\ task[w].event.type = "succeeded"
      BY <2>4 DEF IInv, Established, AcquireLock
    <3>4. QED
      BY <1>1, <3>2, <3>3 DEF Established, Confirmed
  <2>5. CASE ReplayGuard(w)
    <3>1. task[w] \in ActiveTask
      BY <2>5, ActiveType DEF IInv, ReplayGuard
    <3>2. t2.event = task[w].event /\ t2.pc \in {"respond", "sub"}
      BY <2>5, <3>1 DEF IInv, TypeOK, ReplayGuard, Goto, ActiveTask
    <3>3. QED
      BY <1>1, <2>5, <3>2 DEF IInv, Established, Confirmed, ReplayGuard
  <2>6. CASE ReadSub(w)
    <3> DEFINE e == task[w].event
               s == subs[UserOf(e)]
    <3>1. task[w] \in ActiveTask /\ e \in Event
      BY <2>6, ActiveType DEF IInv, ReadSub, ActiveTask
    <3>2. /\ t2.event = e /\ t2.sub = s
          /\ t2.pc = IF Applies(e, s) THEN "account" ELSE "respond"
      BY <2>6, <3>1 DEF IInv, TypeOK, ReadSub, ActiveTask
    <3>3. s.payment \in processed \cup {NoPayment}
      BY <3>1, EventType DEF IInv, StoredIsGranted
    <3>4. /\ Confirmed(e)
          /\ e.type = "succeeded" => e.id \notin Mispriced
      BY <2>6 DEF IInv, Established, ReadSub
    <3>5. ASSUME Applies(e, s), e.type = "canceled" PROVE FALSE
      <4>1. s.payment = e.id /\ e.id \in Payments /\ payState[e.id] = "canceled"
        BY <3>1, <3>4, <3>5, EventType DEF Applies, Confirmed
      <4>2. e.id \in processed
        BY <3>3, <4>1
      <4>3. QED
        BY <4>1, <4>2 DEF IInv, OnlyConfirmedPayments
    <3>6. ASSUME Applies(e, s), e.type = "refunded"
          PROVE  RefundOf[e.id] \in processed
      <4>1. s.payment = RefundOf[e.id]
        BY <3>6 DEF Applies
      <4>2. RefundOf[e.id] \in Payments
        BY <3>1, <3>6, EventType
      <4>3. QED
        BY <3>3, <4>1, <4>2
    <3>7. QED
      BY <1>1, <3>2, <3>3, <3>4, <3>5, <3>6 DEF Established, Confirmed
  <2>7. CASE ReadAccount(w)
    <3>1. task[w] \in ActiveTask
      BY <2>7, ActiveType DEF IInv, ReadAccount
    <3>2. t2.event = task[w].event /\ t2.pc = "commit" /\ t2.sub = task[w].sub
      BY <2>7, <3>1 DEF IInv, TypeOK, ReadAccount, ActiveTask
    <3>3. QED
      BY <1>1, <2>7, <3>2 DEF IInv, Established, Confirmed, ReadAccount
  <2>8. QED
    BY <2>1, <2>2, <2>3, <2>4, <2>5, <2>6, <2>7
<1>3. QED
  BY <1>1, <1>2, TaskOnly

(* The payout row is the first of its payment.                             *)
LEMMA AttributeStep ==
    ASSUME IInv, TypeOK', NEW w \in Workers, Attribute(w)
    PROVE  IInv'
<1> DEFINE id == task[w].event.id
<1>1. /\ task[w] \in ActiveTask /\ id \in Payments
      /\ id \in processed /\ referrals[id] = 0 /\ Confirmed(task[w].event)
  <2>1. task[w] \in ActiveTask
    BY ActiveType DEF IInv, Attribute
  <2>2. task[w].event.type = "succeeded" /\ id \in processed /\ referrals[id] = 0
        /\ Confirmed(task[w].event)
    BY DEF IInv, Established, Attribute
  <2>3. QED
    BY <2>1, <2>2, EventType DEF ActiveTask
<1>2. /\ UNCHANGED <<payState, refunded, subs, processed, grants>>
      /\ \A p \in Payments : referrals'[p] = IF p = id THEN 1 ELSE referrals[p]
  BY <1>1 DEF IInv, TypeOK, Attribute
<1>3. /\ \A v \in Workers \ {w} : task'[v] = task[v]
      /\ task'[w].pc = "respond" /\ task'[w].event = task[w].event
  BY <1>1 DEF IInv, TypeOK, Attribute, Goto, ActiveTask
<1>4. ReferralPaidOnce'
  BY <1>1, <1>2 DEF IInv, ReferralPaidOnce, ActedOnOnce
<1>5. (/\ ActedOnOnce /\ OnlyConfirmedPayments /\ RefundFollowsGrant
       /\ StoredIsGranted)'
  BY <1>2 DEF IInv, ActedOnOnce, OnlyConfirmedPayments, RefundFollowsGrant,
              StoredIsGranted
<1>6. OneAttributes'
  BY <1>3 DEF IInv, OneAttributes
<1>7. Established(w)'
  BY <1>1, <1>2, <1>3 DEF Established, Confirmed
<1>8. ASSUME NEW v \in Workers \ {w} PROVE Established(v)'
  <2>1. CASE task[v].pc = "attribute"
    <3>1. task[v].event.id \in Payments /\ task[v].event.id # id
      <4>1. task[v] \in ActiveTask /\ task[v].event.type = "succeeded"
        BY <2>1, ActiveType DEF IInv, Established
      <4>2. task[v].event.id \in Payments
        BY <4>1, EventType DEF ActiveTask
      <4>3. QED
        BY <2>1, <4>2 DEF IInv, OneAttributes, Attribute
    <3>2. QED
      BY <1>2, <1>3, <2>1, <3>1 DEF IInv, Established, Confirmed
  <2>2. CASE task[v].pc # "attribute"
    BY <1>2, <1>3, <2>2 DEF IInv, Established, Confirmed
  <2>3. QED
    BY <2>1, <2>2
<1>9. QED
  BY <1>4, <1>5, <1>6, <1>7, <1>8 DEF IInv

(* What the committing handler has established, and what it adds.          *)
LEMMA Committing ==
    ASSUME IInv, NEW w \in Workers, Commit(w)
    PROVE  LET t == task[w]
               e == t.event
           IN  /\ t \in ActiveTask /\ e \in Event
               /\ e.type \in {"succeeded", "refunded"}
               /\ e.id \notin processed
               /\ Confirmed(e)
               /\ t.sub.payment \in processed \cup {NoPayment}
               /\ e.type = "succeeded" =>
                    /\ e.id \in Payments \ Mispriced
                    /\ payState[e.id] = "succeeded"
                    /\ grants[e.id] = 0 /\ referrals[e.id] = 0
               /\ e.type = "refunded" =>
                    /\ e.id \in Refunds
                    /\ RefundOf[e.id] \in processed
                    /\ e.id \in refunded
<1> DEFINE t == task[w]
           e == t.event
<1>1. t \in ActiveTask /\ e \in Event
  BY ActiveType DEF IInv, Commit, ActiveTask
<1>2. /\ e.type # "canceled" /\ Confirmed(e)
      /\ t.sub.payment \in processed \cup {NoPayment}
      /\ e.type = "succeeded" => e.id \notin Mispriced
      /\ e.type = "refunded" => RefundOf[e.id] \in processed
  BY DEF IInv, Established, Commit
<1>3. e.id \notin processed
  BY DEF Commit, Duplicate
<1>4. e.type \in {"succeeded", "refunded"}
  BY <1>1, <1>2, EventType
<1>5. ASSUME e.type = "succeeded"
      PROVE  /\ e.id \in Payments /\ payState[e.id] = "succeeded"
             /\ grants[e.id] = 0 /\ referrals[e.id] = 0
  <2>1. e.id \in Payments /\ payState[e.id] = "succeeded"
    BY <1>1, <1>2, <1>5, EventType DEF Confirmed
  <2>2. grants[e.id] = 0
    BY <1>3, <2>1 DEF IInv, ActedOnOnce
  <2>3. referrals[e.id] = 0
    BY <2>1, <2>2 DEF IInv, TypeOK, ReferralPaidOnce
  <2>4. QED
    BY <2>1, <2>2, <2>3
<1>6. ASSUME e.type = "refunded" PROVE e.id \in Refunds /\ e.id \in refunded
  BY <1>1, <1>2, <1>6, EventType DEF Confirmed
<1>7. QED
  BY <1>1, <1>2, <1>3, <1>4, <1>5, <1>6

LEMMA CommitStep ==
    ASSUME IInv, TypeOK', NEW w \in Workers, Commit(w)
    PROVE  IInv'
<1> DEFINE t == task[w]
           e == t.event
<1>1. /\ t \in ActiveTask /\ e \in Event
      /\ e.type \in {"succeeded", "refunded"}
      /\ e.id \notin processed /\ Confirmed(e)
      /\ t.sub.payment \in processed \cup {NoPayment}
      /\ e.type = "succeeded" =>
           /\ e.id \in Payments \ Mispriced /\ payState[e.id] = "succeeded"
           /\ grants[e.id] = 0 /\ referrals[e.id] = 0
      /\ e.type = "refunded" =>
           /\ e.id \in Refunds /\ RefundOf[e.id] \in processed
           /\ e.id \in refunded
  BY Committing
<1>2. /\ UNCHANGED <<payState, refunded, referrals>>
      /\ processed' = processed \cup {e.id}
      /\ \A p \in Payments :
           grants'[p] = IF e.type = "succeeded" /\ p = e.id THEN grants[p] + 1 ELSE grants[p]
  BY DEF Commit, AfterCommit
<1>3. /\ \A v \in Workers \ {w} : task'[v] = task[v]
      /\ task'[w].event = e /\ task'[w].pc \in {"attribute", "respond"}
      /\ task'[w].pc = "attribute" => e.type = "succeeded"
  BY <1>1 DEF IInv, TypeOK, Commit, AfterCommit, Goto, ActiveTask
<1>4. ActedOnOnce'
  BY <1>1, <1>2 DEF IInv, ActedOnOnce
<1>5. OnlyConfirmedPayments'
  BY <1>1, <1>2 DEF IInv, OnlyConfirmedPayments
<1>6. RefundFollowsGrant'
  BY <1>1, <1>2 DEF IInv, RefundFollowsGrant
<1>7. ReferralPaidOnce'
  <2>1. \A p \in Payments : grants[p] \in Nat /\ referrals[p] \in Nat
    BY DEF IInv, TypeOK
  <2>2. QED
    BY <1>2, <2>1 DEF IInv, ReferralPaidOnce
<1>8. StoredIsGranted'
  <2> SUFFICES ASSUME NEW u \in Users
               PROVE  subs'[u].payment \in processed' \cup {NoPayment}
    BY DEF StoredIsGranted
  <2>1. subs[u].payment \in processed \cup {NoPayment}
    BY DEF IInv, StoredIsGranted
  <2>2. subs'[u].payment \in {subs[u].payment, NewSub(t).payment}
    BY DEF Commit, IInv, TypeOK, SubWriteBack, Column
  <2>3. NewSub(t).payment \in {e.id, t.sub.payment}
    BY <1>1 DEF NewSub, ActiveTask, Subscription
  <2>4. QED
    BY <1>1, <1>2, <2>1, <2>2, <2>3
<1>9. OneAttributes'
  <2>1. \A v \in Workers \ {w} :
          task[v].pc = "attribute" => task[v].event.id # e.id
    BY <1>1 DEF IInv, Established
  <2>2. QED
    BY <1>3, <2>1 DEF IInv, OneAttributes
<1>10. Established(w)'
  BY <1>1, <1>2, <1>3 DEF Established, Confirmed
<1>11. \A v \in Workers \ {w} : Established(v)'
  BY <1>2, <1>3 DEF IInv, Established, Confirmed
<1>12. QED
  BY <1>4, <1>5, <1>6, <1>7, <1>8, <1>9, <1>10, <1>11 DEF IInv

LEMMA StepIInv == IInv /\ [Next]_vars => IInv'
<1> SUFFICES ASSUME IInv, [Next]_vars PROVE IInv'
  OBVIOUS
<1>1. TypeOK'
  BY TypeStep DEF IInv
<1>2. CASE Provider
  BY <1>1, <1>2, ProviderStep
<1>3. ASSUME NEW w \in Workers, Fail(w) \/ Handle(w) \/ \E e \in Event : Receive(w, e)
      PROVE  IInv'
  <2>1. CASE Commit(w)
    BY <1>1, <2>1, CommitStep
  <2>2. CASE Attribute(w)
    BY <1>1, <2>2, AttributeStep
  <2>3. CASE Fail(w) \/ (Handle(w) /\ ~Commit(w) /\ ~Attribute(w))
    <3>1. task[w] \in ActiveTask
      BY <2>3, ActiveType DEF IInv, Fail, Handle, Reject, Conflict, Respond, Fetch,
           AcquireLock, ReplayGuard, ReadSub, ReadAccount
    <3>2. task[w].event \in Event
      BY <3>1 DEF ActiveTask
    <3>3. QED
      BY <1>1, <2>3, <3>2, QuietStep DEF Handle
  <2>4. CASE \E e \in Event : Receive(w, e)
    BY <1>1, <2>4, QuietStep
  <2>5. QED
    BY <1>3, <2>1, <2>2, <2>3, <2>4
<1>4. CASE Tick \/ UNCHANGED vars
  <2>1. UNCHANGED billingVars
    BY <1>4 DEF Tick, vars
  <2>2. (/\ ActedOnOnce /\ OnlyConfirmedPayments /\ RefundFollowsGrant
         /\ ReferralPaidOnce /\ StoredIsGranted /\ OneAttributes)'
    BY <2>1 DEF IInv, billingVars, ActedOnOnce, OnlyConfirmedPayments,
         RefundFollowsGrant, ReferralPaidOnce, StoredIsGranted, OneAttributes
  <2>3. \A w \in Workers : Established(w)'
    BY <2>1 DEF IInv, billingVars, Established, Confirmed
  <2>4. QED
    BY <1>1, <2>2, <2>3 DEF IInv
<1>5. QED
  BY <1>2, <1>3, <1>4 DEF Next

LEMMA Invariance == Spec => []IInv
BY InitIInv, StepIInv, PTL DEF Spec

-----------------------------------------------------------------------------
(* The promises of the webhook.                                            *)

(* A payment is granted once, and exactly when it is in the registry.      *)
THEOREM ActsOnce == Spec => []ActedOnOnce
<1>1. IInv => ActedOnOnce
  BY DEF IInv
<1>2. QED
  BY <1>1, Invariance, PTL

(* Only payments YooKassa reports as succeeded, at their price, are acted  *)
(* on.                                                                     *)
THEOREM ActsOnConfirmed == Spec => []OnlyConfirmedPayments
<1>1. IInv => OnlyConfirmedPayments
  BY DEF IInv
<1>2. QED
  BY <1>1, Invariance, PTL

(* Only confirmed refunds of payments that were granted take effect.       *)
THEOREM RefundsOnlyGranted == Spec => []RefundFollowsGrant
<1>1. IInv => RefundFollowsGrant
  BY DEF IInv
<1>2. QED
  BY <1>1, Invariance, PTL

(* Payments and refunds alike: only what YooKassa confirms is acted on.    *)
THEOREM ActsOnlyConfirmed == Spec => []ActsOnlyOnConfirmed
<1>1. IInv => ActsOnlyOnConfirmed
  BY DEF IInv, ActsOnlyOnConfirmed
<1>2. QED
  BY <1>1, Invariance, PTL

(* At most one payout row per payment.                                     *)
THEOREM PaysReferralOnce == Spec => []ReferralPaidOnce
<1>1. IInv => ReferralPaidOnce
  BY DEF IInv
<1>2. QED
  BY <1>1, Invariance, PTL

(* The branch of the cancellation handler that revokes is never taken.     *)
THEOREM CancelIsInert == Spec => []CancelNeverRevokes
<1>1. IInv => CancelNeverRevokes
  BY DEF IInv, Established, CancelNeverRevokes
<1>2. QED
  BY <1>1, Invariance, PTL

(* A refunded subscription is never re-activated by the payment that was   *)
(* refunded.                                                               *)
THEOREM RefundsStick == Spec => RefundSticks
<1> DEFINE Sticks ==
      \A u \in Users :
        subs[u].status = "refunded"
          => subs'[u].status = "refunded" \/ subs'[u].payment # subs[u].payment
<1>1. IInv /\ [Next]_vars => [Sticks]_subs
  <2> SUFFICES ASSUME IInv, [Next]_vars, subs' # subs, NEW u \in Users,
                      subs[u].status = "refunded"
               PROVE  subs'[u].status = "refunded" \/ subs'[u].payment # subs[u].payment
    OBVIOUS
  <2>1. PICK w \in Workers : Commit(w)
    BY DEF Next, Tick, Provider, Settle, RefundIssued, Receive, Fail, Handle, Reject,
           Conflict, Respond, Fetch, AcquireLock, ReplayGuard, ReadSub, ReadAccount,
           Attribute, vars, billingVars
  <2> DEFINE t == task[w]
             e == t.event
             new == NewSub(t)
  <2>2. /\ t \in ActiveTask /\ t.sub \in Subscription
        /\ e.type \in {"succeeded", "refunded"}
        /\ e.id \notin processed
        /\ t.sub.payment \in processed \cup {NoPayment}
        /\ e.type = "succeeded" => e.id \in Payments
    BY <2>1, Committing DEF ActiveTask
  <2>3. subs[u].payment \in processed \cup {NoPayment}
    BY DEF IInv, StoredIsGranted
  <2>4. CASE u # UserOf(e)
    BY <2>1, <2>4 DEF Commit, IInv, TypeOK
  <2>5. CASE u = UserOf(e)
    <3>1. subs'[u] = SubWriteBack(subs[u], t.sub, new)
      BY <2>1, <2>5 DEF Commit, IInv, TypeOK
    <3>2. CASE e.type = "refunded"
      <4>1. new.status = "refunded"
        BY <2>2, <3>2 DEF NewSub, Subscription
      <4>2. QED
        BY <3>1, <4>1 DEF SubWriteBack, Column
    <3>3. CASE e.type = "succeeded"
      <4>1. new.payment = e.id /\ e.id # NoPayment
        BY <2>2, <3>3 DEF NewSub
      <4>2. subs'[u].payment = e.id
        BY <2>2, <3>1, <4>1 DEF SubWriteBack, Column
      <4>3. QED
        BY <2>2, <2>3, <4>1, <4>2
    <3>4. QED
      BY <2>2, <3>2, <3>3
  <2>6. QED
    BY <2>4, <2>5
<1>2. QED
  BY <1>1, Invariance, PTL DEF Spec, RefundSticks

-----------------------------------------------------------------------------
LEMMA UpdateAt ==
    ASSUME NEW S, NEW f, NEW g, f = [m \in S |-> f[m]], g = [m \in S |-> g[m]],
           NEW n \in S, NEW v, g[n] = v, \A m \in S \ {n} : g[m] = f[m]
    PROVE  g = [f EXCEPT ![n] = v]
OBVIOUS

(* The handlers implement the registry: a commit is its Act, YooKassa's    *)
(* confirmation its Confirm, and every other step a stutter.               *)
THEOREM Implements == Spec => ImplementsRegistry
<1> DEFINE confirmed == {p \in Payments : payState[p] = "succeeded"} \cup refunded
           effects == [n \in Payments \cup Refunds |->
                         IF n \in Payments THEN grants[n]
                         ELSE IF n \in processed THEN 1 ELSE 0]
<1>1. Init => Registry!Init
  BY DEF Init, Registry!Init
<1>2. IInv /\ [Next]_vars => [Registry!Next]_<<confirmed, processed, effects>>
  <2> SUFFICES ASSUME IInv, [Next]_vars
               PROVE  Registry!Next \/ UNCHANGED <<confirmed, processed, effects>>
    OBVIOUS
  <2>1. ASSUME NEW p \in Payments, NEW s \in {"succeeded", "canceled"}, Settle(p, s)
        PROVE  Registry!Next \/ UNCHANGED <<confirmed, processed, effects>>
    <3>1. \A q \in Payments : payState'[q] = IF q = p THEN s ELSE payState[q]
      BY <2>1 DEF Settle, IInv, TypeOK
    <3>2. UNCHANGED <<processed, effects, refunded>> /\ payState[p] = "pending"
      BY <2>1 DEF Settle
    <3>3. CASE s = "succeeded"
      <4>1. confirmed' = confirmed \cup {p}
        BY <3>1, <3>2, <3>3
      <4>2. p \notin confirmed
        BY <3>2 DEF IInv, TypeOK
      <4>3. Registry!Confirm(p)
        BY <3>2, <4>1, <4>2 DEF Registry!Confirm
      <4>4. QED
        BY <4>3 DEF Registry!Next
    <3>4. CASE s = "canceled"
      BY <3>1, <3>2, <3>4
    <3>5. QED
      BY <3>3, <3>4
  <2>2. ASSUME NEW r \in Refunds, RefundIssued(r)
        PROVE  Registry!Next \/ UNCHANGED <<confirmed, processed, effects>>
    <3>1. UNCHANGED <<processed, effects, payState>> /\ r \notin confirmed
      BY <2>2 DEF RefundIssued
    <3>2. confirmed' = confirmed \cup {r}
      BY <2>2 DEF RefundIssued
    <3>3. Registry!Confirm(r)
      BY <3>1, <3>2 DEF Registry!Confirm
    <3>4. QED
      BY <3>3 DEF Registry!Next
  <2>3. ASSUME NEW w \in Workers, Commit(w)
        PROVE  Registry!Next \/ UNCHANGED <<confirmed, processed, effects>>
    <3> DEFINE e == task[w].event
    <3>1. PICK n \in Payments \cup Refunds :
            /\ n = e.id /\ n \notin processed
            /\ e.type = "succeeded" =>
                 n \in Payments /\ payState[n] = "succeeded" /\ grants[n] = 0
            /\ e.type # "succeeded" => n \in Refunds /\ n \in refunded
      BY <2>3, Committing
    <3>2. /\ UNCHANGED confirmed /\ processed' = processed \cup {n}
          /\ grants' = [p \in Payments |->
                IF e.type = "succeeded" /\ p = n THEN grants[p] + 1 ELSE grants[p]]
      BY <2>3, <3>1 DEF Commit
    <3>3. n \in confirmed \ processed
      BY <3>1
    <3>4. effects[n] = 0 /\ effects'[n] = 1
      BY <3>1, <3>2
    <3>5. \A m \in (Payments \cup Refunds) \ {n} : effects'[m] = effects[m]
      BY <3>1, <3>2
    <3>6. /\ effects = [m \in Payments \cup Refunds |-> effects[m]]
          /\ effects' = [m \in Payments \cup Refunds |-> effects'[m]]
      OBVIOUS
    <3>7. effects' = [effects EXCEPT ![n] = effects[n] + 1]
      <4>1. PICK f, g : f = effects /\ g = effects'
        OBVIOUS
      <4>2. /\ f = [m \in Payments \cup Refunds |-> f[m]]
            /\ g = [m \in Payments \cup Refunds |-> g[m]]
        BY <3>6, <4>1
      <4> HIDE DEF effects
      <4>3. f[n] = 0 /\ g[n] = 1 /\ \A m \in (Payments \cup Refunds) \ {n} : g[m] = f[m]
        BY <3>4, <3>5, <4>1
      <4>4. g = [f EXCEPT ![n] = f[n] + 1]
        <5>1. f[n] + 1 = g[n]
          BY <4>3
        <5>2. g = [f EXCEPT ![n] = g[n]]
          BY <4>2, <4>3, UpdateAt
        <5>3. QED
          BY <5>1, <5>2
      <4>5. QED
        BY <4>1, <4>4
    <3>8. Registry!Act(n)
      BY <3>2, <3>3, <3>7 DEF Registry!Act
    <3>9. QED
      BY <3>8 DEF Registry!Next
  <2>4. CASE UNCHANGED <<payState, refunded, processed, grants>>
    BY <2>4
  <2>5. QED
    BY <2>1, <2>2, <2>3, <2>4 DEF Next, Tick, Provider, Receive, Fail, Handle, Reject,
       Conflict, Respond, Fetch, AcquireLock, ReplayGuard, ReadSub, ReadAccount,
       Attribute, vars, billingVars
<1>3. QED
  BY <1>1, <1>2, Invariance, PTL DEF Spec, ImplementsRegistry, Registry!Spec

-----------------------------------------------------------------------------
(* Payouts.  A granted payment of a referral is left without its payout    *)
(* row only by the death of the handler that had granted it.               *)
PayoutInv == IsFiniteSet(Unattributed) /\ PayoutsLostOnlyToDeaths

LEMMA OneMore ==
    ASSUME NEW S, IsFiniteSet(S), NEW n \in Nat, Cardinality(S) <= n,
           NEW p, NEW T, T \subseteq S \cup {p}
    PROVE  IsFiniteSet(T) /\ Cardinality(T) <= n + 1
<1>0. Cardinality(S) \in Nat
  BY FS_CardinalityType
<1>1. /\ IsFiniteSet(S \cup {p})
      /\ Cardinality(S \cup {p}) =
           IF p \in S THEN Cardinality(S) ELSE Cardinality(S) + 1
  BY ONLY IsFiniteSet(S), FS_AddElement
<1>2. IsFiniteSet(T) /\ Cardinality(T) <= Cardinality(S \cup {p})
  BY <1>1, FS_Subset
<1>3. Cardinality(T) \in Nat /\ Cardinality(S \cup {p}) \in Nat
  BY <1>1, <1>2, FS_CardinalityType
<1>4. QED
  BY <1>0, <1>1, <1>2, <1>3

(* Only a death leaves one more payment without its row, and only one.     *)
LEMMA OneLostAtATime ==
    ASSUME IInv, TypeOK', [Next]_vars
    PROVE  \/ Unattributed' \subseteq Unattributed /\ failures' = failures
           \/ /\ failures' = failures + 1
              /\ \E p : Unattributed' \subseteq Unattributed \cup {p}
<1>1. ASSUME NEW w \in Workers, NEW e0 \in Event,
             \/ Receive(w, e0) \/ Reject(w) \/ Conflict(w) \/ Respond(w)
             \/ Fetch(w) \/ AcquireLock(w) \/ ReplayGuard(w) \/ ReadSub(w)
             \/ ReadAccount(w)
      PROVE  Unattributed' \subseteq Unattributed /\ failures' = failures
  <2>1. /\ UNCHANGED <<processed, referrals, failures>>
        /\ task[w].pc # "attribute"
        /\ \A v \in Workers \ {w} : task'[v] = task[v]
    BY <1>1 DEF IInv, TypeOK, Receive, Reject, Conflict, Respond, Fetch,
           AcquireLock, ReplayGuard, ReadSub, ReadAccount, Goto
  <2>2. QED
    BY <2>1 DEF Unattributed
<1>2. ASSUME NEW w \in Workers, Fail(w)
      PROVE  /\ failures' = failures + 1
             /\ \E p : Unattributed' \subseteq Unattributed \cup {p}
  <2>1. /\ UNCHANGED <<processed, referrals>> /\ failures' = failures + 1
        /\ \A v \in Workers \ {w} : task'[v] = task[v]
    BY <1>2 DEF IInv, TypeOK, Fail
  <2>2. Unattributed' \subseteq Unattributed \cup {task[w].event.id}
    BY <2>1 DEF Unattributed
  <2>3. QED
    BY <2>1, <2>2
<1>3. ASSUME NEW w \in Workers, Attribute(w)
      PROVE  Unattributed' \subseteq Unattributed /\ failures' = failures
  <2>1. task[w] \in ActiveTask /\ task[w].event.id \in Payments
    <3>1. task[w] \in ActiveTask /\ task[w].event.type = "succeeded"
      BY <1>3, ActiveType DEF IInv, Attribute, Established
    <3>2. QED
      BY <3>1, EventType DEF ActiveTask
  <2>2. /\ UNCHANGED <<processed, failures>>
        /\ referrals'[task[w].event.id] = referrals[task[w].event.id] + 1
        /\ \A p \in Payments : p # task[w].event.id => referrals'[p] = referrals[p]
        /\ \A v \in Workers \ {w} : task'[v] = task[v]
    BY <1>3, <2>1 DEF IInv, TypeOK, Attribute, Goto
  <2>3. \A p \in Payments : referrals[p] \in Nat
    BY DEF IInv, TypeOK
  <2>4. QED
    BY <2>1, <2>2, <2>3 DEF Unattributed
<1>4. ASSUME NEW w \in Workers, Commit(w)
      PROVE  Unattributed' \subseteq Unattributed /\ failures' = failures
  <2> DEFINE t == task[w]
             e == t.event
  <2>1. t \in ActiveTask /\ e \in Event /\ e.type \in {"succeeded", "refunded"}
        /\ (e.type = "refunded" => e.id \in Refunds)
    BY <1>4, Committing
  <2>2. /\ UNCHANGED <<referrals, failures>> /\ processed' = processed \cup {e.id}
        /\ t.pc = "commit"
        /\ task'[w].pc = AfterCommit(t) /\ task'[w].event = e
        /\ \A v \in Workers \ {w} : task'[v] = task[v]
    BY <1>4, <2>1 DEF Commit, IInv, TypeOK, Goto, ActiveTask
  <2>3. e.id \in Referred => task'[w].pc = "attribute"
    BY <2>1, <2>2 DEF AfterCommit
  <2>4. QED
    BY <2>2, <2>3 DEF Unattributed
<1>5. CASE Provider \/ Tick \/ UNCHANGED vars
  <2>1. UNCHANGED <<processed, referrals, failures, task>>
    BY <1>5 DEF Provider, Settle, RefundIssued, Tick, vars, billingVars
  <2>2. QED
    BY <2>1 DEF Unattributed
<1>6. ASSUME NEW w \in Workers, Handle(w), ~Commit(w), ~Attribute(w)
      PROVE  Unattributed' \subseteq Unattributed /\ failures' = failures
  <2>1. task[w] \in ActiveTask
    BY <1>6, ActiveType DEF IInv, Handle, Reject, Conflict, Respond, Fetch,
         AcquireLock, ReplayGuard, ReadSub, ReadAccount
  <2>2. task[w].event \in Event
    BY <2>1 DEF ActiveTask
  <2>3. QED
    BY <1>1, <1>6, <2>2 DEF Handle
<1>7. QED
  BY <1>1, <1>2, <1>3, <1>4, <1>5, <1>6 DEF Next

LEMMA InitPayout == Init => PayoutInv
<1> SUFFICES ASSUME Init PROVE PayoutInv
  OBVIOUS
<1>1. Unattributed = {} /\ failures = 0
  BY DEF Init, Unattributed
<1>2. QED
  BY <1>1, FS_EmptySet DEF PayoutInv, PayoutsLostOnlyToDeaths

LEMMA StepPayout == IInv /\ PayoutInv /\ [Next]_vars => PayoutInv'
<1> SUFFICES ASSUME IInv, PayoutInv, [Next]_vars PROVE PayoutInv'
  OBVIOUS
<1> DEFINE U == Unattributed
<1>1. TypeOK' /\ IsFiniteSet(U) /\ Cardinality(U) <= failures /\ failures \in Nat
  BY TypeStep DEF IInv, TypeOK, PayoutInv, PayoutsLostOnlyToDeaths
<1>2. CASE U' \subseteq U /\ failures' = failures
  BY <1>1, <1>2, FS_Subset, FS_CardinalityType DEF PayoutInv, PayoutsLostOnlyToDeaths
<1>3. CASE failures' = failures + 1 /\ \E p : U' \subseteq U \cup {p}
  <2>1. PICK p : U' \subseteq U \cup {p}
    BY <1>3
  <2>2. IsFiniteSet(U') /\ Cardinality(U') <= failures + 1
    BY <1>1, <2>1, OneMore
  <2>3. QED
    BY <1>3, <2>2 DEF PayoutInv, PayoutsLostOnlyToDeaths
<1>4. QED
  BY <1>1, <1>2, <1>3, OneLostAtATime

(* The payments of a referral without a payout row are no more than the    *)
(* handlers that have died.                                                *)
THEOREM PayoutsLost == Spec => []PayoutsLostOnlyToDeaths
<1>1. PayoutInv => PayoutsLostOnlyToDeaths
  BY DEF PayoutInv
<1>2. QED
  BY <1>1, InitPayout, StepPayout, Invariance, PTL DEF Spec

-----------------------------------------------------------------------------
(* One handler at a time.  Two handlers of one user read rows that the     *)
(* other one then writes, and the properties below fail; handlers that are *)
(* served one after the other keep them, for any payments, refunds, users  *)
(* and failures.                                                           *)
OneHandler == \A v, w \in Workers : v = w

(* The rows a handler has read are still those that are stored, and it got *)
(* past the subscription row because it applies to it.                     *)
ReadsAreCurrent(w) ==
    LET t == task[w]
        u == UserOf(t.event)
    IN  /\ t.pc \in {"account", "commit"} =>
             t.sub = subs[u] /\ Applies(t.event, t.sub)
        /\ t.pc = "commit" => t.row = account[u]

(* A subscription row names the plan of the payment it names.              *)
PlansRecorded ==
    \A u \in Users :
        subs[u].payment # NoPayment => subs[u].plan = PaymentPlan[subs[u].payment]

SerialInv ==
    /\ \A w \in Workers : ReadsAreCurrent(w)
    /\ PlansRecorded /\ ActiveMirrored /\ PartialRefundIgnored

LEMMA InitSerial == Init => SerialInv
<1> SUFFICES ASSUME Init PROVE SerialInv
  OBVIOUS
<1>1. \A w \in Workers : ReadsAreCurrent(w)
  BY DEF Init, ReadsAreCurrent, Idle
<1>2. PlansRecorded /\ ActiveMirrored
  BY DEF Init, PlansRecorded, ActiveMirrored, NoSub
<1>3. PartialRefundIgnored
  BY DEF Init, PartialRefundIgnored
<1>4. QED
  BY <1>1, <1>2, <1>3 DEF SerialInv

(* What a commit with current rows leaves of the two rows of its user.     *)
LEMMA SerialCommit ==
    ASSUME IInv, SerialInv, NEW w \in Workers, Commit(w)
    PROVE  LET t == task[w]
               e == t.event
               u == UserOf(e)
           IN  /\ u \in Users
               /\ subs'[u] = NewSub(t) /\ account'[u] = NewRow(t)
               /\ t.sub = subs[u] /\ t.row = account[u] /\ Applies(e, t.sub)
               /\ \A v \in Users \ {u} : subs'[v] = subs[v] /\ account'[v] = account[v]
<1> DEFINE t == task[w]
           e == t.event
           u == UserOf(e)
<1>1. t \in ActiveTask /\ e \in Event /\ e.type \in {"succeeded", "refunded"}
  BY Committing
<1>2. u \in Users
  BY <1>1, EventType
<1>3. t.sub = subs[u] /\ t.row = account[u] /\ Applies(e, t.sub)
  BY DEF SerialInv, ReadsAreCurrent, Commit
<1>4. NewRow(t) \in Account /\ NewSub(t) \in Subscription
  BY <1>1, CommitType
<1>5. /\ subs'[u] = SubWriteBack(subs[u], t.sub, NewSub(t))
      /\ account'[u] = WriteBack(account[u], t.row, NewRow(t))
      /\ \A v \in Users \ {u} : subs'[v] = subs[v] /\ account'[v] = account[v]
  BY <1>2 DEF Commit, IInv, TypeOK, EntitlementTypeOK
<1>6. WriteBack(account[u], t.row, NewRow(t)) = NewRow(t)
  BY <1>3, <1>4 DEF WriteBack, Column, Account
<1>7. NewSub(t).status = "active" \/ NewSub(t).end = subs[u].end
  BY <1>1, <1>3 DEF NewSub
<1>8. SubWriteBack(subs[u], t.sub, NewSub(t)) = NewSub(t)
  BY <1>3, <1>4, <1>7 DEF SubWriteBack, Column, Subscription
<1>9. QED
  BY <1>2, <1>3, <1>5, <1>6, <1>8

LEMMA StepSerial ==
    ASSUME OneHandler
    PROVE  IInv /\ SerialInv /\ [Next]_vars => SerialInv'
<1> SUFFICES ASSUME IInv, SerialInv, [Next]_vars PROVE SerialInv'
  OBVIOUS
<1>1. TypeOK'
  BY TypeStep DEF IInv
<1>2. ASSUME UNCHANGED <<account, subs, processed>>,
             \A w \in Workers : ReadsAreCurrent(w)'
      PROVE  SerialInv'
  BY <1>2 DEF SerialInv, PlansRecorded, ActiveMirrored, PartialRefundIgnored
<1>3. CASE Provider \/ Tick \/ UNCHANGED vars
  <2>1. UNCHANGED <<account, subs, processed, task>>
    BY <1>3 DEF Provider, Settle, RefundIssued, Tick, vars, billingVars
  <2>2. QED
    BY <1>2, <2>1 DEF SerialInv, ReadsAreCurrent
<1>4. ASSUME NEW w \in Workers,
             \/ Fail(w) \/ Reject(w) \/ Conflict(w) \/ Respond(w) \/ Fetch(w)
             \/ AcquireLock(w) \/ ReplayGuard(w) \/ Attribute(w)
             \/ \E e \in Event : Receive(w, e)
      PROVE  SerialInv'
  <2>1. /\ UNCHANGED <<account, subs, processed>>
        /\ task'[w].pc \notin {"account", "commit"}
    <3>1. CASE Fail(w) \/ Reject(w) \/ Conflict(w) \/ Respond(w)
      BY <3>1 DEF IInv, TypeOK, Fail, Reject, Conflict, Respond, Idle
    <3>2. CASE \E e \in Event : Receive(w, e)
      BY <3>2 DEF IInv, TypeOK, Receive
    <3>3. CASE Fetch(w) \/ AcquireLock(w) \/ ReplayGuard(w) \/ Attribute(w)
      <4>1. task[w] \in ActiveTask
        BY <3>3, ActiveType DEF IInv, Fetch, AcquireLock, ReplayGuard, Attribute
      <4>2. QED
        BY <3>3, <4>1 DEF IInv, TypeOK, Fetch, FetchStep, AcquireLock, ReplayGuard,
                          Attribute, Goto, ActiveTask
    <3>4. QED
      BY <1>4, <3>1, <3>2, <3>3
  <2>2. \A v \in Workers : ReadsAreCurrent(v)'
    <3>1. \A v \in Workers : v = w
      BY DEF OneHandler
    <3>2. QED
      BY <2>1, <3>1 DEF ReadsAreCurrent
  <2>3. QED
    BY <1>2, <2>1, <2>2
<1>5. ASSUME NEW w \in Workers, ReadSub(w) PROVE SerialInv'
  <2> DEFINE e == task[w].event
             s == subs[UserOf(e)]
  <2>1. task[w] \in ActiveTask
    BY <1>5, ActiveType DEF IInv, ReadSub
  <2>2. /\ task'[w].event = e /\ task'[w].sub = s
        /\ task'[w].pc = IF Applies(e, s) THEN "account" ELSE "respond"
    BY <1>5, <2>1 DEF IInv, TypeOK, ReadSub, ActiveTask
  <2>3. UNCHANGED <<account, subs, processed>>
    BY <1>5 DEF ReadSub
  <2>4. ReadsAreCurrent(w)'
    BY <2>2, <2>3 DEF ReadsAreCurrent
  <2>5. QED
    BY <1>2, <2>3, <2>4 DEF OneHandler
<1>6. ASSUME NEW w \in Workers, ReadAccount(w) PROVE SerialInv'
  <2> DEFINE e == task[w].event
  <2>1. task[w] \in ActiveTask
    BY <1>6, ActiveType DEF IInv, ReadAccount
  <2>2. /\ task'[w].event = e /\ task'[w].sub = task[w].sub
        /\ task'[w].row = account[UserOf(e)]
    BY <1>6, <2>1 DEF IInv, TypeOK, ReadAccount, ActiveTask
  <2>3. UNCHANGED <<account, subs, processed>> /\ task[w].pc = "account"
    BY <1>6 DEF ReadAccount
  <2>4. task[w].sub = subs[UserOf(e)] /\ Applies(e, task[w].sub)
    BY <2>3 DEF SerialInv, ReadsAreCurrent
  <2>5. ReadsAreCurrent(w)'
    BY <2>2, <2>3, <2>4 DEF ReadsAreCurrent
  <2>6. QED
    BY <1>2, <2>3, <2>5 DEF OneHandler
<1>7. ASSUME NEW w \in Workers, Commit(w) PROVE SerialInv'
  <2> DEFINE t == task[w]
             e == t.event
             u == UserOf(e)
  <2>1. /\ t \in ActiveTask /\ e \in Event /\ e.type \in {"succeeded", "refunded"}
        /\ e.type = "succeeded" => e.id \in Payments
        /\ e.type = "refunded" => e.id \in Refunds
    BY <1>7, Committing
  <2>2. /\ u \in Users
        /\ subs'[u] = NewSub(t) /\ account'[u] = NewRow(t)
        /\ t.sub = subs[u] /\ t.row = account[u] /\ Applies(e, t.sub)
        /\ \A v \in Users \ {u} : subs'[v] = subs[v] /\ account'[v] = account[v]
    BY <1>7, SerialCommit
  <2>3. processed' = processed \cup {e.id} /\ task'[w].pc \in {"attribute", "respond"}
    BY <1>7, <2>1 DEF Commit, AfterCommit, Goto, IInv, TypeOK, ActiveTask
  <2>4. subs[u] \in Subscription /\ account[u] \in Account
    BY <2>2 DEF IInv, TypeOK, EntitlementTypeOK
  <2>5. PlansRecorded'
    <3>1. NewSub(t).payment # NoPayment => NewSub(t).plan = PaymentPlan[NewSub(t).payment]
      BY <2>1, <2>2, <2>4 DEF NewSub, SerialInv, PlansRecorded, Subscription
    <3>2. QED
      BY <2>2, <3>1 DEF SerialInv, PlansRecorded
  <2>6. ActiveMirrored'
    <3>1. CASE e.type = "refunded"
      <4>1. subs'[u].status = "refunded"
        BY <2>1, <2>2, <2>4, <3>1 DEF NewSub, Subscription
      <4>2. QED
        BY <2>2, <4>1 DEF SerialInv, ActiveMirrored
    <3>2. CASE e.type = "succeeded"
      <4>1. /\ subs'[u].plan = PaymentPlan[e.id]
            /\ subs'[u].end = ExtendedFrom(t.row.expires, t.day)
        BY <2>2, <3>2 DEF NewSub
      <4>2. /\ account'[u].tier = PaymentPlan[e.id]
            /\ account'[u].expires = ExtendedFrom(t.row.expires, t.day)
            /\ account'[u].channel = "yookassa"
        BY <2>2, <2>4, <3>2 DEF NewRow, YooKassaGrant, Account
      <4>3. QED
        BY <2>2, <4>1, <4>2 DEF SerialInv, ActiveMirrored
    <3>3. QED
      BY <2>1, <3>1, <3>2
  <2>7. PartialRefundIgnored'
    <3>1. ASSUME e.id \in PartialRefunds PROVE FALSE
      <4>1. e.type = "refunded" /\ e.id \in Refunds
        BY <2>1, <3>1 DEF PartialRefunds
      <4>2. t.sub.payment = RefundOf[e.id] /\ t.sub.plan \in Covers[e.id]
        BY <2>2, <4>1 DEF Applies
      <4>3. t.sub.plan = PaymentPlan[RefundOf[e.id]]
        BY <2>2, <4>1, <4>2 DEF SerialInv, PlansRecorded
      <4>4. QED
        BY <3>1, <4>2, <4>3 DEF PartialRefunds
    <3>2. QED
      BY <2>3, <3>1 DEF SerialInv, PartialRefundIgnored, PartialRefunds
  <2>8. \A v \in Workers : ReadsAreCurrent(v)'
    BY <2>3 DEF OneHandler, ReadsAreCurrent
  <2>9. QED
    BY <2>5, <2>6, <2>7, <2>8 DEF SerialInv
<1>8. QED
  BY <1>3, <1>4, <1>5, <1>6, <1>7 DEF Next, Handle

LEMMA SerialInvariance ==
    ASSUME OneHandler
    PROVE  Spec => [](IInv /\ SerialInv)
<1>1. IInv /\ SerialInv /\ [Next]_vars => SerialInv'
  BY StepSerial
<1>2. QED
  BY <1>1, InitSerial, Invariance, PTL DEF Spec

(* With one handler at a time an active subscription row and the users row *)
(* that gates access agree.                                                *)
THEOREM MirrorsActive ==
    ASSUME OneHandler
    PROVE  Spec => []ActiveMirrored
<1>1. SerialInv => ActiveMirrored
  BY DEF SerialInv
<1>2. QED
  BY <1>1, SerialInvariance, PTL

(* With one handler at a time a partial refund takes no effect.            *)
THEOREM IgnoresPartialRefunds ==
    ASSUME OneHandler
    PROVE  Spec => []PartialRefundIgnored
<1>1. SerialInv => PartialRefundIgnored
  BY DEF SerialInv
<1>2. QED
  BY <1>1, SerialInvariance, PTL

(* With one handler at a time a purchase adds its days to what the user    *)
(* has and leaves him on the plan paid for.                                *)
THEOREM PurchasesExtend ==
    ASSUME OneHandler
    PROVE  Spec => PurchaseExtends
<1> DEFINE Extends ==
      \A p \in Payments : GrantedNow(p) =>
         LET u == PaymentUser[p]
         IN  /\ account'[u].expires >= account[u].expires + Duration
             /\ account'[u].tier = PaymentPlan[p]
<1>1. IInv /\ SerialInv /\ [Next]_vars => [Extends]_vars
  <2> SUFFICES ASSUME IInv, SerialInv, [Next]_vars, NEW p \in Payments, GrantedNow(p)
               PROVE  /\ account'[PaymentUser[p]].expires
                           >= account[PaymentUser[p]].expires + Duration
                      /\ account'[PaymentUser[p]].tier = PaymentPlan[p]
    OBVIOUS
  <2>1. grants[p] \in Nat /\ grants'[p] # grants[p]
    BY DEF IInv, TypeOK, GrantedNow
  <2>2. PICK w \in Workers : Commit(w)
    BY <2>1 DEF Next, Tick, Provider, Settle, RefundIssued, Receive, Fail, Handle,
           Reject, Conflict, Respond, Fetch, AcquireLock, ReplayGuard, ReadSub,
           ReadAccount, Attribute, vars, billingVars
  <2> DEFINE t == task[w]
             e == t.event
             u == UserOf(e)
  <2>3. e.type = "succeeded" /\ p = e.id
    BY <2>1, <2>2 DEF Commit
  <2>4. t \in ActiveTask /\ u = PaymentUser[p]
    BY <2>2, <2>3, Committing DEF UserOf, PaymentOf
  <2>5. u \in Users /\ account'[u] = NewRow(t) /\ t.row = account[u]
    BY <2>2, SerialCommit
  <2>6. account[u] \in Account /\ t.day \in Nat
    BY <2>4, <2>5 DEF IInv, TypeOK, EntitlementTypeOK, ActiveTask
  <2>7. /\ account'[u].expires = ExtendedFrom(account[u].expires, t.day)
        /\ account'[u].tier = PaymentPlan[p]
    BY <2>3, <2>5, <2>6 DEF NewRow, YooKassaGrant, Account
  <2>8. account[u].expires \in Nat /\ Duration \in Nat
    BY <2>6 DEF Account
  <2>9. ExtendedFrom(account[u].expires, t.day) >= account[u].expires + Duration
    BY <2>6, <2>8 DEF ExtendedFrom
  <2>10. QED
    BY <2>4, <2>7, <2>9
<1>2. QED
  BY <1>1, SerialInvariance, PTL DEF Spec, PurchaseExtends

HIDE DEF EntitlementAssumption, BillingAssumption


(***************************************************************************)
(* The Stars channel.                                                      *)
(***************************************************************************)

(* Types.                                                                  *)
Days == Duration \in Nat \ {0} /\ TrialDays \in Nat /\ BonusDays \in Nat

LEMMA DaysType == Days
BY EntitlementAssumption DEF EntitlementAssumption, Days

LEMMA NewAccountType == NewAccount \in Account
BY DaysType DEF Days, NewAccount, Account, Tiers, PaidTiers, Channels, Never

LEMMA StarsGrantType ==
    ASSUME NEW a \in Account, NEW plan \in PaidTiers, NEW c \in Charges, NEW t \in Nat
    PROVE  StarsGrant(a, plan, c, t) \in Account
<1>1. a.expires \in Nat /\ Duration \in Nat
  BY DaysType DEF Account, Days
<1>2. ExtendedFrom(a.expires, t) \in Nat
  BY <1>1 DEF ExtendedFrom
<1> QED
  BY <1>2 DEF StarsGrant, Account, Tiers, PaidTiers, Channels

LEMMA StarsRevokeType ==
    ASSUME NEW a \in Account
    PROVE  StarsRevoke(a) \in Account
BY DEF StarsRevoke, Account, Tiers, PaidTiers, Channels, Never

LEMMA BonusType ==
    ASSUME NEW a \in Account, NEW t \in Nat
    PROVE  ReferrerBonus(a, t) \in Account /\ InviteeBonus(a, t) \in Account
<1>1. a.trialEnd \in Nat /\ a.expires \in Nat /\ BonusDays \in Nat
  BY DaysType DEF Account, Days
<1>2. a.trialEnd + BonusDays \in Nat /\ a.expires + BonusDays \in Nat
  BY <1>1
<1> QED
  BY <1>2 DEF ReferrerBonus, InviteeBonus, Account

LEMMA RowWriteType ==
    ASSUME NEW a \in Account, NEW b \in Account, NEW c \in Account
    PROVE  WriteBack(a, b, c) \in Account
BY DEF WriteBack, Column, Account

(* An update concerns the rows of users.                                   *)
LEMMA UpdateType ==
    ASSUME NEW m \in Update
    PROVE  /\ m.op \in {"pay", "refund", "refer", "admin"}
           /\ m.op \in {"pay", "refund"} => m.charge \in Charges
           /\ m.op \in {"refer", "admin"} => m.user \in Users
           /\ m.op = "refer" => m.referrer \in Users
           /\ m.op = "admin" => m.tier \in Tiers
           /\ Subject(m) \in Users
<1>1. /\ m.op \in {"pay", "refund", "refer", "admin"}
      /\ m.op \in {"pay", "refund"} => m.charge \in Charges
      /\ m.op \in {"refer", "admin"} => m.user \in Users
      /\ m.op = "refer" => m.referrer \in Users
      /\ m.op = "admin" => m.tier \in Tiers
  BY DEF Update
<1>2. ChargeUser \in [Charges -> Users]
  BY StarsAssumption DEF StarsAssumption
<1> QED
  BY <1>1, <1>2 DEF Subject

Running == {"read", "referrer", "commit"}

LEMMA RunningType ==
    ASSUME StarsTypeOK, NEW h \in Handlers, handler[h].pc # "idle"
    PROVE  /\ handler[h].pc \in Running
           /\ handler[h].update \in Update
           /\ handler[h].row \in Account /\ handler[h].second \in Account
           /\ handler[h].day \in Nat
BY DEF StarsTypeOK, HandlerState, Running

LEMMA HandlerType ==
    ASSUME NEW pc \in Running, NEW m \in Update, NEW row \in Account,
           NEW second \in Account, NEW day \in Nat
    PROVE  [pc |-> pc, update |-> m, row |-> row, second |-> second, day |-> day]
               \in HandlerState
BY DEF HandlerState, Running

(* What a handler is after each of its steps.                              *)
LEMMA ReadRowFacts ==
    ASSUME StarsTypeOK, NEW h \in Handlers, ReadRow(h)
    PROVE  LET m == handler[h].update
               row == account[Subject(m)]
               t == [pc |-> AfterRead(m), update |-> m, row |-> row,
                     second |-> handler[h].second, day |-> now]
           IN  /\ row \in Account /\ t \in HandlerState
               /\ \/ Proceeds(m, row) /\ handler' = [handler EXCEPT ![h] = t]
                  \/ handler' = [handler EXCEPT ![h] = Resting]
<1> DEFINE m == handler[h].update
           row == account[Subject(m)]
           t == [pc |-> AfterRead(m), update |-> m, row |-> row,
                 second |-> handler[h].second, day |-> now]
<1>1. handler[h].pc # "idle"
  BY DEF ReadRow
<1>2. m \in Update /\ handler[h].second \in Account
  BY <1>1, RunningType
<1>3. row \in Account /\ now \in Nat
  BY <1>2, UpdateType DEF StarsTypeOK, EntitlementTypeOK
<1>4. AfterRead(m) \in Running
  BY DEF AfterRead, Running
<1>5. t \in HandlerState
  BY <1>2, <1>3, <1>4, HandlerType
<1> QED
  BY <1>3, <1>5 DEF ReadRow

LEMMA ReadReferrerFacts ==
    ASSUME StarsTypeOK, NEW h \in Handlers, ReadReferrer(h), handler[h].update.op = "refer"
    PROVE  LET m == handler[h].update
               second == account[m.referrer]
               t == [pc |-> "commit", update |-> m, row |-> handler[h].row,
                     second |-> second, day |-> now]
           IN  /\ second \in Account /\ t \in HandlerState
               /\ handler' = [handler EXCEPT ![h] = t]
<1> DEFINE m == handler[h].update
           second == account[m.referrer]
           t == [pc |-> "commit", update |-> m, row |-> handler[h].row,
                 second |-> second, day |-> now]
<1>1. handler[h].pc # "idle"
  BY DEF ReadReferrer
<1>2. m \in Update /\ handler[h].row \in Account
  BY <1>1, RunningType
<1>3. second \in Account /\ now \in Nat
  BY <1>2, UpdateType DEF StarsTypeOK, EntitlementTypeOK
<1>4. t \in HandlerState
  BY <1>2, <1>3, HandlerType DEF Running
<1> QED
  BY <1>3, <1>4 DEF ReadReferrer

(* What a commit writes is well formed.                                    *)
LEMMA UpdatedType ==
    ASSUME StarsTypeOK, NEW h \in Handlers, handler[h].pc # "idle"
    PROVE  UpdatedRow(handler[h]) \in Account
<1> DEFINE t == handler[h]
           m == t.update
<1>1. m \in Update /\ t.row \in Account /\ t.day \in Nat
  BY RunningType
<1>2. m.op = "pay" => StarsGrant(t.row, ChargePlan[m.charge], m.charge, t.day) \in Account
  BY <1>1, UpdateType, StarsGrantType, StarsAssumption DEF StarsAssumption
<1>3. StarsRevoke(t.row) \in Account
  BY <1>1, StarsRevokeType
<1>4. m.op = "refer" => [InviteeBonus(t.row, t.day) EXCEPT !.referredBy = m.referrer]
                            \in Account
  <2>1. InviteeBonus(t.row, t.day) \in Account
    BY <1>1, BonusType
  <2> QED
    BY <1>1, <2>1, UpdateType DEF Account
<1>5. m.op = "admin" => [t.row EXCEPT !.tier = m.tier] \in Account
  BY <1>1, UpdateType DEF Account
<1>6. m.op \in {"pay", "refund", "refer", "admin"}
  BY <1>1, UpdateType
<1> QED
  BY <1>2, <1>3, <1>4, <1>5, <1>6 DEF UpdatedRow

LEMMA WrittenType ==
    ASSUME StarsTypeOK, NEW h \in Handlers, handler[h].pc # "idle", NEW u \in Users
    PROVE  Written(handler[h], u) \in Account
<1> DEFINE t == handler[h]
<1>1. t.row \in Account /\ t.second \in Account /\ t.day \in Nat
  BY RunningType
<1>2. account[u] \in Account
  BY DEF StarsTypeOK, EntitlementTypeOK
<1>3. WriteBack(account[u], t.row, UpdatedRow(t)) \in Account
  BY <1>1, <1>2, UpdatedType, RowWriteType
<1>4. WriteBack(account[u], t.second, ReferrerBonus(t.second, t.day)) \in Account
  BY <1>1, <1>2, BonusType, RowWriteType
<1> QED
  BY <1>2, <1>3, <1>4 DEF Written

LEMMA EarnedType ==
    ASSUME NEW m \in Update
    PROVE  DaysOf(m) \in Nat
BY UpdateType, DaysType DEF DaysOf, Days

-----------------------------------------------------------------------------
(* Type correctness.  Only a referral looks at a second row.               *)
OnlyReferralsRefer ==
    \A h \in Handlers : handler[h].pc = "referrer" => handler[h].update.op = "refer"

StarsTypeInv == StarsTypeOK /\ OnlyReferralsRefer

LEMMA StarsInitType == StarsInit => StarsTypeInv
<1> SUFFICES ASSUME StarsInit PROVE StarsTypeInv
  OBVIOUS
<1>1. Resting \in HandlerState
  BY DEF Resting, HandlerState
<1>2. StarsTypeOK
  BY <1>1, NewAccountType DEF StarsInit, StarsTypeOK, EntitlementTypeOK
<1>3. OnlyReferralsRefer
  BY DEF StarsInit, OnlyReferralsRefer, Resting
<1> QED
  BY <1>2, <1>3 DEF StarsTypeInv

LEMMA StarsTypeStep ==
    StarsTypeInv /\ [StarsTick \/ StarsStep]_<<account, now, starsVars>> => StarsTypeInv'
<1> SUFFICES ASSUME StarsTypeInv, [StarsTick \/ StarsStep]_<<account, now, starsVars>>
             PROVE  StarsTypeInv'
  OBVIOUS
<1>0. StarsTypeOK /\ OnlyReferralsRefer /\ now \in Nat /\ Resting \in HandlerState
      /\ handler \in [Handlers -> HandlerState]
  BY DEF StarsTypeInv, StarsTypeOK, EntitlementTypeOK, Resting, HandlerState
<1>1. CASE StarsTick
  BY <1>1 DEF StarsTick, StarsTypeInv, StarsTypeOK, EntitlementTypeOK, starsVars,
              OnlyReferralsRefer
<1>2. ASSUME NEW c \in Charges, Charge(c) \/ ChargeBack(c) PROVE StarsTypeInv'
  BY <1>2 DEF Charge, ChargeBack, StarsTypeInv, StarsTypeOK, EntitlementTypeOK,
              OnlyReferralsRefer
<1>3. ASSUME NEW h \in Handlers, NEW m \in Update, Deliver(h, m) PROVE StarsTypeInv'
  <2> DEFINE t == [pc |-> "read", update |-> m, row |-> NewAccount,
                   second |-> NewAccount, day |-> now]
  <2>1. t \in HandlerState
    BY <1>0, NewAccountType, HandlerType DEF Running
  <2>2. handler' = [handler EXCEPT ![h] = t]
    BY <1>3 DEF Deliver
  <2>3. attempts' \in [Update -> Nat]
    BY <1>3 DEF Deliver, StarsTypeInv, StarsTypeOK
  <2>4. StarsTypeOK'
    BY <1>0, <1>3, <2>1, <2>2, <2>3 DEF Deliver, StarsTypeOK, EntitlementTypeOK
  <2>5. OnlyReferralsRefer'
    BY <1>0, <2>2 DEF OnlyReferralsRefer
  <2> QED
    BY <2>4, <2>5 DEF StarsTypeInv
<1>4. ASSUME NEW h \in Handlers, ReadRow(h) PROVE StarsTypeInv'
  <2>1. PICK t \in HandlerState :
           /\ handler' = [handler EXCEPT ![h] = t]
           /\ t.pc = "referrer" => t.update.op = "refer"
    <3> DEFINE m == handler[h].update
               s == [pc |-> AfterRead(m), update |-> m, row |-> account[Subject(m)],
                     second |-> handler[h].second, day |-> now]
    <3>1. /\ s \in HandlerState
          /\ \/ handler' = [handler EXCEPT ![h] = s]
             \/ handler' = [handler EXCEPT ![h] = Resting]
      BY <1>0, <1>4, ReadRowFacts
    <3>2. s.pc = "referrer" => s.update.op = "refer"
      BY DEF AfterRead
    <3>3. Resting \in HandlerState /\ Resting.pc # "referrer"
      BY DEF Resting, HandlerState
    <3> HIDE DEF s
    <3> QED
      BY <3>1, <3>2, <3>3
  <2>2. StarsTypeOK'
    BY <1>0, <1>4, <2>1 DEF ReadRow, StarsTypeOK, EntitlementTypeOK
  <2>3. OnlyReferralsRefer'
    BY <1>0, <2>1 DEF OnlyReferralsRefer
  <2> QED
    BY <2>2, <2>3 DEF StarsTypeInv
<1>5. ASSUME NEW h \in Handlers, ReadReferrer(h) PROVE StarsTypeInv'
  <2>1. handler[h].update.op = "refer"
    BY <1>0, <1>5 DEF ReadReferrer, OnlyReferralsRefer
  <2>2. PICK t \in HandlerState : handler' = [handler EXCEPT ![h] = t] /\ t.pc = "commit"
    BY <1>0, <1>5, <2>1, ReadReferrerFacts
  <2>3. StarsTypeOK'
    BY <1>0, <1>5, <2>2 DEF ReadReferrer, StarsTypeOK, EntitlementTypeOK
  <2>4. OnlyReferralsRefer'
    BY <1>0, <2>2 DEF OnlyReferralsRefer
  <2> QED
    BY <2>3, <2>4 DEF StarsTypeInv
<1>6. ASSUME NEW h \in Handlers, CommitRow(h) PROVE StarsTypeInv'
  <2>1. handler[h].pc # "idle" /\ handler' = [handler EXCEPT ![h] = Resting]
    BY <1>6 DEF CommitRow
  <2>2. account' \in [Users -> Account]
    BY <1>0, <1>6, <2>1, WrittenType DEF CommitRow
  <2>3. handler' \in [Handlers -> HandlerState]
    BY <1>0, <2>1
  <2>4. earned' \in Nat
    BY <1>0, <1>6, <2>1, RunningType, EarnedType DEF CommitRow, StarsTypeOK
  <2>5. chargeGrants' \in [Charges -> Nat] /\ attachments' \in [Users -> Nat]
    BY <1>0, <1>6 DEF CommitRow, StarsTypeOK
  <2>6. StarsTypeOK'
    BY <1>0, <1>6, <2>2, <2>3, <2>4, <2>5 DEF CommitRow, StarsTypeOK, EntitlementTypeOK
  <2>7. OnlyReferralsRefer'
    BY <1>0, <2>1 DEF OnlyReferralsRefer, Resting
  <2> QED
    BY <2>6, <2>7 DEF StarsTypeInv
<1>7. CASE UNCHANGED <<account, now, starsVars>>
  BY <1>7 DEF StarsTypeInv, StarsTypeOK, EntitlementTypeOK, starsVars, OnlyReferralsRefer
<1> QED
  BY <1>1, <1>2, <1>3, <1>4, <1>5, <1>6, <1>7 DEF StarsStep, HandlerStep

(* Every state of the users table and the bot's handlers is well formed.   *)
THEOREM StarsTypeCorrect == StarsSpec => []StarsTypeOK
<1>1. StarsTypeInv => StarsTypeOK
  BY DEF StarsTypeInv
<1> QED
  BY <1>1, StarsInitType, StarsTypeStep, PTL DEF StarsSpec

-----------------------------------------------------------------------------
(* No unearned days: a row, wherever a handler holds a copy of it, reaches *)
(* no further than the present day and the days earned so far.             *)
Within(a, paid, trial) == a.expires <= paid /\ a.trialEnd <= trial

LEMMA WithinLater ==
    ASSUME NEW a \in Account, NEW p1 \in Nat, NEW p2 \in Nat, NEW t1 \in Nat,
           NEW t2 \in Nat, Within(a, p1, t1), p1 <= p2, t1 <= t2
    PROVE  Within(a, p2, t2)
BY DEF Within, Account

LEMMA GrantWithin ==
    ASSUME NEW a \in Account, NEW plan \in PaidTiers, NEW c \in Charges, NEW day \in Nat,
           NEW p \in Nat, NEW t \in Nat, Within(a, p, t), day <= p
    PROVE  Within(StarsGrant(a, plan, c, day), p + Duration, t + Duration)
<1>1. a.expires \in Nat /\ a.trialEnd \in Nat /\ Duration \in Nat
  BY DaysType DEF Account, Days
<1>2. ExtendedFrom(a.expires, day) <= p + Duration
  BY <1>1 DEF ExtendedFrom, Within
<1>3. StarsGrant(a, plan, c, day).expires \in {a.expires, ExtendedFrom(a.expires, day)}
      /\ StarsGrant(a, plan, c, day).trialEnd = a.trialEnd
  BY DEF StarsGrant, Account
<1>4. a.expires <= p + Duration /\ a.trialEnd <= t + Duration
  BY <1>1 DEF Within
<1> QED
  BY <1>2, <1>3, <1>4 DEF Within

LEMMA RevokeWithin ==
    ASSUME NEW a \in Account, NEW p \in Nat, NEW t \in Nat, Within(a, p, t)
    PROVE  Within(StarsRevoke(a), p, t)
BY DEF StarsRevoke, Within, Account, Never

LEMMA BonusWithin ==
    ASSUME NEW a \in Account, NEW day \in Nat, NEW p \in Nat, NEW t \in Nat, Within(a, p, t)
    PROVE  /\ Within(InviteeBonus(a, day), p + BonusDays, t + BonusDays)
           /\ Within(ReferrerBonus(a, day), p + BonusDays, t + BonusDays)
<1>1. a.expires \in Nat /\ a.trialEnd \in Nat /\ BonusDays \in Nat
  BY DaysType DEF Account, Days
<1>2. /\ a.expires <= p + BonusDays /\ a.expires + BonusDays <= p + BonusDays
      /\ a.trialEnd <= t + BonusDays /\ a.trialEnd + BonusDays <= t + BonusDays
  BY <1>1 DEF Within
<1>3. /\ InviteeBonus(a, day).expires = a.expires
      /\ InviteeBonus(a, day).trialEnd \in {a.trialEnd, a.trialEnd + BonusDays}
      /\ ReferrerBonus(a, day).expires \in {a.expires, a.expires + BonusDays}
      /\ ReferrerBonus(a, day).trialEnd \in {a.trialEnd, a.trialEnd + BonusDays}
  BY DEF InviteeBonus, ReferrerBonus, Account
<1> QED
  BY <1>2, <1>3 DEF Within

LEMMA WriteBackWithin ==
    ASSUME NEW a, NEW b, NEW c, NEW p, NEW t, Within(a, p, t), Within(c, p, t)
    PROVE  Within(WriteBack(a, b, c), p, t)
BY DEF WriteBack, Column, Within

(* The days an update earns cover what its commit adds to a row.           *)
LEMMA UpdatedWithin ==
    ASSUME StarsTypeOK, NEW h \in Handlers, handler[h].pc # "idle",
           NEW p \in Nat, NEW t \in Nat,
           Within(handler[h].row, p, t), handler[h].day <= p
    PROVE  Within(UpdatedRow(handler[h]), p + DaysOf(handler[h].update),
                                          t + DaysOf(handler[h].update))
<1> DEFINE s == handler[h]
           m == s.update
<1>1. m \in Update /\ s.row \in Account /\ s.day \in Nat
  BY RunningType
<1>2. CASE m.op = "pay"
  <2>1. m.charge \in Charges /\ ChargePlan[m.charge] \in PaidTiers
    BY <1>1, <1>2, UpdateType, StarsAssumption DEF StarsAssumption
  <2>2. Within(StarsGrant(s.row, ChargePlan[m.charge], m.charge, s.day),
               p + Duration, t + Duration)
    BY <1>1, <2>1, GrantWithin
  <2> QED
    BY <1>2, <2>2 DEF UpdatedRow, DaysOf
<1>3. CASE m.op = "refund"
  <2>1. Within(StarsRevoke(s.row), p, t)
    BY <1>1, RevokeWithin
  <2> QED
    BY <1>3, <2>1 DEF UpdatedRow, DaysOf
<1>4. CASE m.op = "refer"
  <2>1. Within(InviteeBonus(s.row, s.day), p + BonusDays, t + BonusDays)
    BY <1>1, BonusWithin
  <2>2. InviteeBonus(s.row, s.day) \in Account
    BY <1>1, BonusType
  <2>3. Within([InviteeBonus(s.row, s.day) EXCEPT !.referredBy = m.referrer],
               p + BonusDays, t + BonusDays)
    BY <2>1, <2>2 DEF Within, Account
  <2> QED
    BY <1>4, <2>3 DEF UpdatedRow, DaysOf
<1>5. CASE m.op = "admin"
  <2>1. Within([s.row EXCEPT !.tier = m.tier], p, t)
    BY <1>1 DEF Within, Account
  <2> QED
    BY <1>5, <2>1 DEF UpdatedRow, DaysOf
<1> QED
  BY <1>1, <1>2, <1>3, <1>4, <1>5, UpdateType

TrialLimit == NewAccount.trialEnd + earned

EarnedInv ==
    /\ \A u \in Users : Within(account[u], now + earned, TrialLimit)
    /\ \A h \in Handlers : handler[h].pc # "idle" =>
         /\ Within(handler[h].row, now + earned, TrialLimit)
         /\ Within(handler[h].second, now + earned, TrialLimit)
         /\ handler[h].day <= now

LEMMA LimitType ==
    ASSUME StarsTypeOK
    PROVE  /\ now \in Nat /\ earned \in Nat /\ now + earned \in Nat
           /\ NewAccount.trialEnd \in Nat /\ TrialLimit \in Nat
<1>1. NewAccount.trialEnd \in Nat
  BY NewAccountType DEF Account
<1> QED
  BY <1>1 DEF StarsTypeOK, EntitlementTypeOK, TrialLimit

LEMMA EarnedInit == StarsInit => EarnedInv
<1> SUFFICES ASSUME StarsInit PROVE EarnedInv
  OBVIOUS
<1>1. NewAccount.trialEnd = 1 + TrialDays /\ NewAccount.expires = 0 /\ TrialDays \in Nat
  BY DaysType DEF NewAccount, Never, Days
<1>2. Within(NewAccount, now + earned, TrialLimit)
  BY <1>1 DEF StarsInit, Within, TrialLimit
<1> QED
  BY <1>2 DEF StarsInit, EarnedInv, Resting

(* A handler that copies rows of the table, or moves on.                   *)
LEMMA EarnedHandler ==
    ASSUME StarsTypeOK, EarnedInv, NEW h \in Handlers, NEW t,
           handler' = [handler EXCEPT ![h] = t],
           UNCHANGED <<account, now, earned>>,
           t.pc # "idle" => /\ Within(t.row, now + earned, TrialLimit)
                            /\ Within(t.second, now + earned, TrialLimit)
                            /\ t.day <= now
    PROVE  EarnedInv'
<1>1. handler \in [Handlers -> HandlerState] /\ TrialLimit' = TrialLimit
  BY DEF StarsTypeOK, TrialLimit
<1>2. \A g \in Handlers : handler'[g] = IF g = h THEN t ELSE handler[g]
  BY <1>1
<1> QED
  BY <1>1, <1>2 DEF EarnedInv

LEMMA EarnedStep ==
    StarsTypeInv /\ EarnedInv /\ [StarsTick \/ StarsStep]_<<account, now, starsVars>>
        => EarnedInv'
<1> SUFFICES ASSUME StarsTypeInv, EarnedInv,
                    [StarsTick \/ StarsStep]_<<account, now, starsVars>>
             PROVE  EarnedInv'
  OBVIOUS
<1>0. StarsTypeOK /\ OnlyReferralsRefer /\ Resting.pc = "idle"
      /\ handler \in [Handlers -> HandlerState]
  BY DEF StarsTypeInv, StarsTypeOK, Resting
<1>1. CASE StarsTick
  <2>1. /\ now' + earned' \in Nat /\ now + earned <= now' + earned' /\ now <= now'
        /\ TrialLimit' = TrialLimit
    BY <1>0, <1>1, LimitType DEF StarsTick, starsVars, TrialLimit
  <2>2. \A a \in Account : Within(a, now + earned, TrialLimit)
                              => Within(a, now' + earned', TrialLimit')
    BY <1>0, <2>1, LimitType, WithinLater
  <2>3. \A u \in Users : account[u] \in Account
    BY <1>0 DEF StarsTypeOK, EntitlementTypeOK
  <2>4. \A g \in Handlers : handler[g].pc # "idle" =>
             handler[g].row \in Account /\ handler[g].second \in Account
             /\ handler[g].day \in Nat
    BY <1>0, RunningType
  <2>5. \A g \in Handlers : handler[g].pc # "idle" => handler[g].day <= now'
    <3>1. now \in Nat /\ now' \in Nat
      BY <1>0, <1>1, LimitType DEF StarsTick
    <3> QED
      BY <2>1, <2>4, <3>1 DEF EarnedInv
  <2>6. account' = account /\ handler' = handler
    BY <1>1 DEF StarsTick, starsVars
  <2> QED
    BY <2>2, <2>3, <2>4, <2>5, <2>6 DEF EarnedInv
<1>2. ASSUME NEW c \in Charges, Charge(c) \/ ChargeBack(c) PROVE EarnedInv'
  BY <1>2 DEF Charge, ChargeBack, EarnedInv, TrialLimit
<1>3. ASSUME NEW h \in Handlers, NEW m \in Update, Deliver(h, m) PROVE EarnedInv'
  <2> DEFINE t == [pc |-> "read", update |-> m, row |-> NewAccount,
                   second |-> NewAccount, day |-> now]
  <2>1. Within(NewAccount, now + earned, TrialLimit) /\ now <= now
    BY <1>0, LimitType DEF Within, TrialLimit, NewAccount, Never
  <2>2. handler' = [handler EXCEPT ![h] = t] /\ UNCHANGED <<account, now, earned>>
    BY <1>3 DEF Deliver
  <2> QED
    BY <1>0, <2>1, <2>2, EarnedHandler
<1>4. ASSUME NEW h \in Handlers, ReadRow(h) PROVE EarnedInv'
  <2> DEFINE m == handler[h].update
             t == [pc |-> AfterRead(m), update |-> m, row |-> account[Subject(m)],
                   second |-> handler[h].second, day |-> now]
  <2>1. /\ \/ handler' = [handler EXCEPT ![h] = t]
           \/ handler' = [handler EXCEPT ![h] = Resting]
        /\ UNCHANGED <<account, now, earned>>
    BY <1>0, <1>4, ReadRowFacts DEF ReadRow
  <2>2. handler[h].pc # "idle" /\ Subject(m) \in Users
    BY <1>0, <1>4, RunningType, UpdateType DEF ReadRow
  <2>3. /\ Within(t.row, now + earned, TrialLimit)
        /\ Within(t.second, now + earned, TrialLimit)
        /\ t.day <= now
    BY <1>0, <2>2, LimitType DEF EarnedInv
  <2> HIDE DEF t
  <2> QED
    BY <1>0, <2>1, <2>3, EarnedHandler
<1>5. ASSUME NEW h \in Handlers, ReadReferrer(h) PROVE EarnedInv'
  <2> DEFINE m == handler[h].update
             t == [pc |-> "commit", update |-> m, row |-> handler[h].row,
                   second |-> account[m.referrer], day |-> now]
  <2>1. handler[h].pc # "idle" /\ m.op = "refer"
    BY <1>0, <1>5 DEF ReadReferrer, OnlyReferralsRefer
  <2>2. handler' = [handler EXCEPT ![h] = t] /\ UNCHANGED <<account, now, earned>>
    BY <1>0, <1>5, <2>1, ReadReferrerFacts DEF ReadReferrer
  <2>3. m.referrer \in Users
    BY <1>0, <2>1, RunningType, UpdateType
  <2>4. /\ Within(t.row, now + earned, TrialLimit)
        /\ Within(t.second, now + earned, TrialLimit)
        /\ t.day <= now
    BY <1>0, <2>1, <2>3, LimitType DEF EarnedInv
  <2> HIDE DEF t
  <2> QED
    BY <1>0, <2>2, <2>4, EarnedHandler
<1>6. ASSUME NEW h \in Handlers, CommitRow(h) PROVE EarnedInv'
  <2> DEFINE s == handler[h]
             d == DaysOf(s.update)
             p == now + earned
             t == TrialLimit
  <2>1. /\ s.pc # "idle" /\ now' = now /\ earned' = earned + d
        /\ handler' = [handler EXCEPT ![h] = Resting]
        /\ \A u \in Users : account'[u] = Written(s, u)
    BY <1>6 DEF CommitRow
  <2>2. /\ s.update \in Update /\ s.row \in Account /\ s.second \in Account
        /\ s.day \in Nat /\ d \in Nat
    BY <1>0, <2>1, RunningType, EarnedType
  <2>3. /\ p \in Nat /\ t \in Nat /\ p + d \in Nat /\ t + d \in Nat
        /\ p <= p + d /\ t <= t + d
        /\ now' + earned' = p + d /\ TrialLimit' = t + d
    BY <1>0, <2>1, <2>2, LimitType DEF TrialLimit
  <2>4. /\ Within(s.row, p, t) /\ Within(s.second, p, t) /\ s.day <= now
    BY <2>1 DEF EarnedInv
  <2>5. s.day <= p
    BY <1>0, <2>2, <2>4, LimitType
  <2> HIDE DEF d, p, t
  <2>6. Within(UpdatedRow(s), p + d, t + d)
    BY <1>0, <2>1, <2>3, <2>4, <2>5, UpdatedWithin DEF d
  <2>7. \A a \in Account : Within(a, p, t) => Within(a, p + d, t + d)
    BY <2>3, WithinLater
  <2>8. s.update.op = "refer" => Within(ReferrerBonus(s.second, s.day), p + d, t + d)
    BY <2>2, <2>3, <2>4, BonusWithin DEF d, DaysOf
  <2>9. ASSUME NEW u \in Users PROVE Within(account'[u], p + d, t + d)
    <3>1. account[u] \in Account /\ Within(account[u], p, t)
      BY <1>0 DEF StarsTypeOK, EntitlementTypeOK, EarnedInv, p, t
    <3>2. Within(account[u], p + d, t + d)
      BY <2>7, <3>1
    <3>3. Within(WriteBack(account[u], s.row, UpdatedRow(s)), p + d, t + d)
      BY <2>6, <3>2, WriteBackWithin
    <3>4. s.update.op = "refer" =>
            Within(WriteBack(account[u], s.second, ReferrerBonus(s.second, s.day)),
                   p + d, t + d)
      BY <2>8, <3>2, WriteBackWithin
    <3>5. account'[u] = Written(s, u)
      BY <2>1
    <3> QED
      BY <3>2, <3>3, <3>4, <3>5 DEF Written
  <2>10. ASSUME NEW g \in Handlers, handler'[g].pc # "idle"
         PROVE  /\ Within(handler'[g].row, p + d, t + d)
                /\ Within(handler'[g].second, p + d, t + d)
                /\ handler'[g].day <= now'
    <3>1. handler'[g] = handler[g] /\ handler[g].pc # "idle"
      BY <1>0, <2>1, <2>10
    <3>2. handler[g].row \in Account /\ handler[g].second \in Account
      BY <1>0, <3>1, RunningType
    <3>3. /\ Within(handler[g].row, p, t) /\ Within(handler[g].second, p, t)
          /\ handler[g].day <= now
      BY <3>1 DEF EarnedInv, p, t
    <3> QED
      BY <2>1, <2>7, <3>1, <3>2, <3>3
  <2> QED
    BY <2>3, <2>9, <2>10 DEF EarnedInv
<1>7. CASE UNCHANGED <<account, now, starsVars>>
  BY <1>7 DEF EarnedInv, starsVars, TrialLimit
<1> QED
  BY <1>1, <1>2, <1>3, <1>4, <1>5, <1>6, <1>7 DEF StarsStep, HandlerStep

(* However any number of handlers overlap, on updates delivered any number *)
(* of times, nobody gets days that nobody earned.                          *)
THEOREM NoDayUnearned == StarsSpec => []NoUnearnedDays
<1>1. EarnedInv => NoUnearnedDays
  BY DEF EarnedInv, Within, TrialLimit, NoUnearnedDays
<1>2. StarsTypeInv /\ EarnedInv /\ [StarsTick \/ StarsStep]_<<account, now, starsVars>>
          => (StarsTypeInv /\ EarnedInv)'
  BY StarsTypeStep, EarnedStep
<1> QED
  BY <1>1, <1>2, StarsInitType, EarnedInit, PTL DEF StarsSpec

-----------------------------------------------------------------------------
(* One handler at a time: the rows it has read are those of the table.     *)
OneBotHandler == \A g, h \in Handlers : g = h

NoChargeNoWindow ==
    \A u \in Users : account[u].lastCharge = NoCharge => account[u].expires = Never

AttachedIsReferred ==
    \A u \in Users : attachments[u] = IF account[u].referredBy = NoUser THEN 0 ELSE 1

(* A charge that was granted is the last one of its user, or forgotten.    *)
GrantedIsLast ==
    \A c \in Charges :
        /\ chargeGrants[c] > 0 =>
             account[ChargeUser[c]].lastCharge = c \/ ChargeForgotten(c)
        /\ chargeGrants[c] > 1 => ChargeForgotten(c)

ReadsCurrent(h) ==
    LET t == handler[h]
        m == t.update
    IN  /\ t.pc # "idle" /\ m.op = "refund" => m.charge \in chargedBack
        /\ t.pc \in {"referrer", "commit"} =>
             t.row = account[Subject(m)] /\ Proceeds(m, t.row)
        /\ t.pc = "commit" /\ m.op = "refer" => t.second = account[m.referrer]

BotSerialInv ==
    /\ StarsTypeInv
    /\ NoChargeNoWindow /\ AttachedIsReferred /\ GrantedIsLast
    /\ \A h \in Handlers : ReadsCurrent(h)

LEMMA WholeWrite ==
    ASSUME NEW a \in Account, NEW c \in Account
    PROVE  WriteBack(a, a, c) = c
BY DEF WriteBack, Column, Account

(* What a commit makes of each row, when the rows read are current.        *)
LEMMA BotCommit ==
    ASSUME StarsTypeInv, NEW h \in Handlers, ReadsCurrent(h), CommitRow(h),
           NEW u \in Users
    PROVE  LET t == handler[h]
               m == t.update
           IN  /\ m \in Update /\ t.day \in Nat /\ account[u] \in Account
               /\ account'[u] \in Account /\ Proceeds(m, account[Subject(m)])
               /\ m.op = "refund" => m.charge \in chargedBack
               /\ \/ u = Subject(m) /\ t.row = account[u] /\ account'[u] = UpdatedRow(t)
                  \/ /\ m.op = "refer" /\ u # Subject(m)
                     /\ account'[u] = ReferrerBonus(account[u], t.day)
                  \/ u # Subject(m) /\ account'[u] = account[u]
<1> DEFINE t == handler[h]
           m == t.update
<1>1. /\ t.pc = "commit" /\ account'[u] = Written(t, u)
      /\ m \in Update /\ t.row \in Account /\ t.second \in Account /\ t.day \in Nat
      /\ account[u] \in Account /\ Written(t, u) \in Account
      /\ UpdatedRow(t) \in Account
  BY RunningType, WrittenType, UpdatedType
     DEF CommitRow, StarsTypeInv, StarsTypeOK, EntitlementTypeOK
<1>2. /\ t.row = account[Subject(m)] /\ Proceeds(m, t.row)
      /\ m.op = "refund" => m.charge \in chargedBack
      /\ m.op = "refer" => t.second = account[m.referrer]
  BY <1>1 DEF ReadsCurrent
<1>3. CASE u = Subject(m)
  <2>1. account'[u] = WriteBack(account[u], account[u], UpdatedRow(t))
    BY <1>1, <1>2, <1>3 DEF Written
  <2>2. account'[u] = UpdatedRow(t)
    BY <1>1, <2>1, WholeWrite
  <2> QED
    BY <1>1, <1>2, <1>3, <2>2
<1>4. CASE u # Subject(m) /\ m.op = "refer" /\ u = m.referrer
  <2>1. account'[u] = WriteBack(account[u], account[u], ReferrerBonus(account[u], t.day))
    BY <1>1, <1>2, <1>4 DEF Written
  <2>2. account'[u] = ReferrerBonus(account[u], t.day)
    BY <1>1, <2>1, BonusType, WholeWrite
  <2> QED
    BY <1>1, <1>2, <1>4, <2>2
<1>5. CASE u # Subject(m) /\ ~(m.op = "refer" /\ u = m.referrer)
  <2>1. account'[u] = account[u]
    BY <1>1, <1>5 DEF Written
  <2> QED
    BY <1>1, <1>2, <1>5, <2>1
<1> QED
  BY <1>3, <1>4, <1>5

LEMMA ReferrerEffect ==
    ASSUME NEW a \in Account, NEW day \in Nat, NEW b, b = ReferrerBonus(a, day)
    PROVE  /\ b.lastCharge = a.lastCharge /\ b.referredBy = a.referredBy
           /\ b.expires >= a.expires
           /\ a.expires = Never => b.expires = Never
<1>1. a.expires \in Nat /\ BonusDays \in Nat
  BY DaysType DEF Account, Days
<1> QED
  BY <1>1 DEF ReferrerBonus, Account, Never

(* What the updates do to the charge, the referrer and the window.         *)
LEMMA UpdatesOf ==
    ASSUME NEW a \in Account, NEW day \in Nat
    PROVE  /\ \A plan \in PaidTiers, c \in Charges :
                  LET b == StarsGrant(a, plan, c, day)
                  IN  b.lastCharge = c /\ b.referredBy = a.referredBy
                      /\ b.expires >= a.expires
           /\ LET b == StarsRevoke(a)
              IN  b.lastCharge = NoCharge /\ b.referredBy = a.referredBy
                  /\ b.expires = Never
           /\ LET b == InviteeBonus(a, day)
              IN  b.lastCharge = a.lastCharge /\ b.expires = a.expires
<1>1. a.expires \in Nat /\ a.trialEnd \in Nat /\ Duration \in Nat /\ BonusDays \in Nat
  BY DaysType DEF Account, Days
<1>2. ExtendedFrom(a.expires, day) >= a.expires
  BY <1>1 DEF ExtendedFrom
<1>3. ASSUME NEW plan \in PaidTiers, NEW c \in Charges
      PROVE  LET b == StarsGrant(a, plan, c, day)
             IN  b.lastCharge = c /\ b.referredBy = a.referredBy
                 /\ b.expires >= a.expires
  BY <1>1, <1>2 DEF StarsGrant, Account
<1>4. LET b == StarsRevoke(a)
      IN  b.lastCharge = NoCharge /\ b.referredBy = a.referredBy /\ b.expires = Never
  BY DEF StarsRevoke, Account
<1>5. LET b == InviteeBonus(a, day)
      IN  b.lastCharge = a.lastCharge /\ b.expires = a.expires
  BY DEF InviteeBonus, Account
<1> QED
  BY <1>3, <1>4, <1>5

(* A commit changes a row's charge, referrer and window only as follows.   *)
LEMMA BotCommitEffect ==
    ASSUME BotSerialInv, NEW h \in Handlers, CommitRow(h), NEW u \in Users
    PROVE  LET m == handler[h].update
               a == account[u]
               b == account'[u]
               attached == m.op = "refer" /\ u = m.user
           IN  /\ b.lastCharge = NoCharge => b.expires = Never
               /\ attached => a.referredBy = NoUser /\ b.referredBy # NoUser
               /\ ~attached => b.referredBy = a.referredBy
               /\ b.expires < a.expires =>
                    a.lastCharge \in chargedBack /\ b.expires = Never
               /\ m.op = "pay" => m.charge \in Charges
               /\ IF m.op = "pay" /\ u = ChargeUser[m.charge]
                  THEN a.lastCharge # m.charge /\ b.lastCharge = m.charge
                  ELSE \/ b.lastCharge = a.lastCharge
                       \/ a.lastCharge \in chargedBack \cup {NoCharge}
<1> DEFINE t == handler[h]
           m == t.update
           a == account[u]
           b == account'[u]
<1>1. /\ m \in Update /\ t.day \in Nat /\ a \in Account /\ b \in Account
      /\ Proceeds(m, account[Subject(m)])
      /\ m.op = "refund" => m.charge \in chargedBack
      /\ \/ u = Subject(m) /\ t.row = a /\ b = UpdatedRow(t)
         \/ m.op = "refer" /\ u # Subject(m) /\ b = ReferrerBonus(a, t.day)
         \/ u # Subject(m) /\ b = a
  BY BotCommit DEF BotSerialInv
<1>2. /\ a.expires \in Nat /\ b.expires \in Nat
      /\ a.lastCharge = NoCharge => a.expires = Never
      /\ NoCharge \notin Charges /\ NoUser \notin Users
  BY <1>1, EntitlementAssumption
     DEF Account, BotSerialInv, NoChargeNoWindow, EntitlementAssumption
<1>9. /\ m.op = "pay" => m.charge \in Charges /\ Subject(m) = ChargeUser[m.charge]
      /\ m.op = "refer" => Subject(m) = m.user
  BY <1>1, UpdateType DEF Subject
<1>3. CASE u # Subject(m) /\ b = a
  BY <1>1, <1>2, <1>3, <1>9
<1>4. CASE m.op = "refer" /\ u # Subject(m) /\ b = ReferrerBonus(a, t.day)
  <2>1. /\ b.lastCharge = a.lastCharge /\ b.referredBy = a.referredBy
        /\ b.expires >= a.expires
        /\ a.expires = Never => b.expires = Never
    <3>1. a \in Account /\ t.day \in Nat /\ b = ReferrerBonus(a, t.day)
      BY <1>1, <1>4
    <3> HIDE DEF a, b
    <3> QED
      BY <3>1, ReferrerEffect
  <2> QED
    BY <1>2, <1>4, <1>9, <2>1
<1>5. CASE u = Subject(m) /\ t.row = a /\ b = UpdatedRow(t)
  <2>1. CASE m.op = "pay"
    <3>1. m.charge \in Charges /\ ChargePlan[m.charge] \in PaidTiers
      BY <1>1, <2>1, UpdateType, StarsAssumption DEF StarsAssumption
    <3>2. b = StarsGrant(a, ChargePlan[m.charge], m.charge, t.day)
      BY <1>5, <2>1 DEF UpdatedRow
    <3>3. b.lastCharge = m.charge /\ b.referredBy = a.referredBy
          /\ b.expires >= a.expires
      BY <1>1, <3>1, <3>2, UpdatesOf
    <3>4. u = ChargeUser[m.charge] /\ a.lastCharge # m.charge
      BY <1>1, <1>5, <1>9, <2>1 DEF Proceeds
    <3> QED
      BY <1>2, <2>1, <3>1, <3>3, <3>4
  <2>2. CASE m.op = "refund"
    <3>1. b = StarsRevoke(a)
      BY <1>5, <2>2 DEF UpdatedRow
    <3>2. b.lastCharge = NoCharge /\ b.referredBy = a.referredBy /\ b.expires = Never
      BY <1>1, <3>1, UpdatesOf
    <3>3. a.lastCharge \in {m.charge, NoCharge} /\ m.charge \in chargedBack
      BY <1>1, <1>5, <2>2 DEF Proceeds, StarsRevocable
    <3>4. b.expires < a.expires => a.lastCharge \in chargedBack
      BY <1>2, <3>2, <3>3 DEF Never
    <3>5. a.lastCharge \in chargedBack \cup {NoCharge}
      BY <3>3
    <3> QED
      BY <2>2, <3>2, <3>4, <3>5
  <2>3. CASE m.op = "refer"
    <3> DEFINE c == InviteeBonus(a, t.day)
    <3>1. b = [c EXCEPT !.referredBy = m.referrer] /\ c \in Account /\ m.referrer \in Users
      BY <1>1, <1>5, <2>3, BonusType, UpdateType DEF UpdatedRow
    <3>2. c.lastCharge = a.lastCharge /\ c.expires = a.expires
      BY <1>1, UpdatesOf
    <3> HIDE DEF c
    <3>3. b.lastCharge = a.lastCharge /\ b.expires = a.expires
          /\ b.referredBy = m.referrer
      BY <3>1, <3>2 DEF Account
    <3>4. a.referredBy = NoUser /\ u = m.user
      BY <1>1, <1>5, <1>9, <2>3 DEF Proceeds
    <3> QED
      BY <1>2, <2>3, <3>1, <3>3, <3>4
  <2>4. CASE m.op = "admin"
    <3>1. b = [a EXCEPT !.tier = m.tier]
      BY <1>5, <2>4 DEF UpdatedRow
    <3>2. b.lastCharge = a.lastCharge /\ b.expires = a.expires
          /\ b.referredBy = a.referredBy
      BY <1>1, <3>1 DEF Account
    <3> QED
      BY <1>2, <2>4, <3>2
  <2> QED
    BY <1>1, <2>1, <2>2, <2>3, <2>4, UpdateType
<1> QED
  BY <1>1, <1>3, <1>4, <1>5

LEMMA BotSerialInit == StarsInit => BotSerialInv
<1> SUFFICES ASSUME StarsInit PROVE BotSerialInv
  OBVIOUS
<1>1. \A u \in Users : account[u] = NewAccount /\ attachments[u] = 0
  BY DEF StarsInit
<1>2. NoChargeNoWindow /\ AttachedIsReferred
  BY <1>1 DEF NoChargeNoWindow, AttachedIsReferred, NewAccount
<1>3. \A h \in Handlers : ReadsCurrent(h)
  BY DEF StarsInit, ReadsCurrent, Resting
<1>4. \A c \in Charges : chargeGrants[c] = 0
  BY DEF StarsInit
<1>5. GrantedIsLast
  BY <1>4 DEF GrantedIsLast
<1> QED
  BY <1>2, <1>3, <1>5, StarsInitType DEF BotSerialInv

(* A step of the one handler, or of Telegram, that writes no row.          *)
LEMMA BotSerialRows ==
    ASSUME BotSerialInv, account' = account, attachments' = attachments,
           chargeGrants' = chargeGrants, chargedBack \subseteq chargedBack'
    PROVE  NoChargeNoWindow' /\ AttachedIsReferred' /\ GrantedIsLast'
<1>1. NoChargeNoWindow' /\ AttachedIsReferred'
  BY DEF BotSerialInv, NoChargeNoWindow, AttachedIsReferred
<1>2. \A c \in Charges : ChargeForgotten(c) => ChargeForgotten(c)'
  BY DEF ChargeForgotten
<1>3. GrantedIsLast'
  BY <1>2 DEF BotSerialInv, GrantedIsLast
<1> QED
  BY <1>1, <1>3

(* A grant leaves its charge the last one; the one that was last before is *)
(* forgotten for it.                                                       *)
LEMMA GrantsOfCommit ==
    ASSUME BotSerialInv, NEW h \in Handlers, CommitRow(h)
    PROVE  GrantedIsLast'
<1> DEFINE m == handler[h].update
<1>1. /\ chargeGrants \in [Charges -> Nat] /\ chargedBack \subseteq Charges
      /\ NoCharge \notin Charges /\ ChargeUser \in [Charges -> Users]
  BY EntitlementAssumption, StarsAssumption
     DEF BotSerialInv, StarsTypeInv, StarsTypeOK, EntitlementAssumption, StarsAssumption
<1>2. /\ chargedBack' = chargedBack
      /\ chargeGrants' = [c \in Charges |-> IF m.op = "pay" /\ m.charge = c
                                            THEN chargeGrants[c] + 1 ELSE chargeGrants[c]]
  BY DEF CommitRow
<1>3. \A c \in Charges : chargeGrants'[c] >= chargeGrants[c] /\ chargeGrants'[c] \in Nat
  BY <1>1, <1>2
<1>4. \A c \in Charges : ChargeForgotten(c) => ChargeForgotten(c)'
  BY <1>1, <1>2, <1>3 DEF ChargeForgotten
<1> SUFFICES ASSUME NEW c \in Charges
             PROVE  /\ chargeGrants'[c] > 0 =>
                          account'[ChargeUser[c]].lastCharge = c \/ ChargeForgotten(c)'
                    /\ chargeGrants'[c] > 1 => ChargeForgotten(c)'
  BY DEF GrantedIsLast
<1> DEFINE u == ChargeUser[c]
<1>5. /\ u \in Users
      /\ chargeGrants[c] > 0 => account[u].lastCharge = c \/ ChargeForgotten(c)
      /\ chargeGrants[c] > 1 => ChargeForgotten(c)
  BY <1>1 DEF BotSerialInv, GrantedIsLast
<1>6. /\ m.op = "pay" => m.charge \in Charges
      /\ IF m.op = "pay" /\ u = ChargeUser[m.charge]
         THEN account[u].lastCharge # m.charge /\ account'[u].lastCharge = m.charge
         ELSE \/ account'[u].lastCharge = account[u].lastCharge
              \/ account[u].lastCharge \in chargedBack \cup {NoCharge}
  BY <1>5, BotCommitEffect
<1>7. CASE m.op = "pay" /\ m.charge = c
  <2>1. /\ chargeGrants'[c] = chargeGrants[c] + 1
        /\ account[u].lastCharge # c /\ account'[u].lastCharge = c
    BY <1>2, <1>6, <1>7
  <2>2. chargeGrants'[c] > 1 => ChargeForgotten(c)
    BY <1>1, <1>5, <2>1
  <2> QED
    BY <1>4, <2>1, <2>2
<1>8. CASE ~(m.op = "pay" /\ m.charge = c)
  <2>1. chargeGrants'[c] = chargeGrants[c]
    BY <1>2, <1>8
  <2>2. ASSUME account[u].lastCharge = c
        PROVE  account'[u].lastCharge = c \/ ChargeForgotten(c)'
    <3>1. CASE m.op = "pay" /\ u = ChargeUser[m.charge]
      <4>1. m.charge \in Charges /\ m.charge # c /\ chargeGrants'[m.charge] > 0
        BY <1>1, <1>2, <1>6, <1>8, <3>1
      <4> QED
        BY <3>1, <4>1 DEF ChargeForgotten
    <3>2. CASE account'[u].lastCharge = account[u].lastCharge
      BY <2>2, <3>2
    <3>3. CASE account[u].lastCharge \in chargedBack \cup {NoCharge}
      BY <1>1, <1>2, <2>2, <3>3 DEF ChargeForgotten
    <3> QED
      BY <1>6, <3>1, <3>2, <3>3
  <2> QED
    BY <1>4, <1>5, <2>1, <2>2
<1> QED
  BY <1>7, <1>8

(* What a handler has read is current after each of its own steps, which   *)
(* leave the other handlers alone.                                         *)
LEMMA ReadsStayCurrent ==
    ASSUME StarsTypeInv, NEW h \in Handlers, ReadsCurrent(h),
           HandlerStep(h) \/ \E m \in Update : Deliver(h, m)
    PROVE  ReadsCurrent(h)' /\ \A g \in Handlers \ {h} : handler'[g] = handler[g]
<1>0. /\ StarsTypeOK /\ OnlyReferralsRefer /\ Resting.pc = "idle"
      /\ handler \in [Handlers -> HandlerState]
  BY DEF StarsTypeInv, StarsTypeOK, Resting
<1>1. ASSUME NEW m \in Update, Deliver(h, m)
      PROVE  ReadsCurrent(h)' /\ \A g \in Handlers \ {h} : handler'[g] = handler[g]
  <2> DEFINE t == [pc |-> "read", update |-> m, row |-> NewAccount,
                   second |-> NewAccount, day |-> now]
  <2>1. chargedBack' = chargedBack /\ handler' = [handler EXCEPT ![h] = t] /\ Sent(m)
    BY <1>1 DEF Deliver
  <2>2. m.op = "refund" => m.charge \in chargedBack
    BY <2>1 DEF Sent
  <2>3. handler'[h] = t
    BY <1>0, <2>1
  <2>4. ReadsCurrent(h)'
    BY <2>1, <2>2, <2>3 DEF ReadsCurrent
  <2> QED
    BY <1>0, <2>1, <2>4
<1>2. CASE ReadRow(h)
  <2> DEFINE m == handler[h].update
             t == [pc |-> AfterRead(m), update |-> m, row |-> account[Subject(m)],
                   second |-> handler[h].second, day |-> now]
  <2>1. /\ UNCHANGED <<account, chargedBack>>
        /\ \/ Proceeds(m, account[Subject(m)]) /\ handler' = [handler EXCEPT ![h] = t]
           \/ handler' = [handler EXCEPT ![h] = Resting]
        /\ handler[h].pc # "idle"
    BY <1>0, <1>2, ReadRowFacts DEF ReadRow
  <2>2. m.op = "refund" => m.charge \in chargedBack
    BY <2>1 DEF ReadsCurrent
  <2>3. t.pc = "commit" => t.update.op # "refer"
    BY DEF AfterRead
  <2>4. \/ Proceeds(m, account[Subject(m)]) /\ handler'[h] = t
        \/ handler'[h] = Resting
    BY <1>0, <2>1
  <2>5. CASE handler'[h] = Resting
    <3>1. ReadsCurrent(h)'
      BY <1>0, <2>5 DEF ReadsCurrent
    <3> QED
      BY <1>0, <2>1, <3>1
  <2>6. CASE Proceeds(m, account[Subject(m)]) /\ handler'[h] = t
    <3>1. ReadsCurrent(h)'
      BY <2>1, <2>2, <2>3, <2>6 DEF ReadsCurrent
    <3> QED
      BY <1>0, <2>1, <3>1
  <2> QED
    BY <2>4, <2>5, <2>6
<1>3. CASE ReadReferrer(h)
  <2> DEFINE m == handler[h].update
             t == [pc |-> "commit", update |-> m, row |-> handler[h].row,
                   second |-> account[m.referrer], day |-> now]
  <2>1. UNCHANGED <<account, chargedBack>> /\ handler[h].pc = "referrer" /\ m.op = "refer"
    BY <1>0, <1>3 DEF ReadReferrer, OnlyReferralsRefer
  <2>2. handler' = [handler EXCEPT ![h] = t]
    BY <1>0, <1>3, <2>1, ReadReferrerFacts
  <2>3. t.row = account[Subject(m)] /\ Proceeds(m, t.row)
    BY <2>1 DEF ReadsCurrent
  <2>4. handler'[h] = t
    BY <1>0, <2>2
  <2>5. ReadsCurrent(h)'
    BY <2>1, <2>3, <2>4 DEF ReadsCurrent
  <2> QED
    BY <1>0, <2>2, <2>5
<1>4. CASE CommitRow(h)
  <2>1. handler'[h] = Resting /\ \A g \in Handlers \ {h} : handler'[g] = handler[g]
    BY <1>0, <1>4 DEF CommitRow
  <2> QED
    BY <1>0, <2>1 DEF ReadsCurrent
<1> QED
  BY <1>1, <1>2, <1>3, <1>4 DEF HandlerStep

LEMMA BotSerialStep ==
    ASSUME OneBotHandler, BotSerialInv,
           [StarsTick \/ StarsStep]_<<account, now, starsVars>>
    PROVE  BotSerialInv'
<1>0. StarsTypeInv /\ StarsTypeInv'
  BY StarsTypeStep DEF BotSerialInv
<1>1. CASE \/ StarsTick \/ UNCHANGED <<account, now, starsVars>>
           \/ \E c \in Charges : Charge(c) \/ ChargeBack(c)
  <2>1. /\ UNCHANGED <<account, attachments, chargeGrants, handler>>
        /\ chargedBack \subseteq chargedBack'
    BY <1>1 DEF StarsTick, Charge, ChargeBack, starsVars
  <2>2. \A h \in Handlers : ReadsCurrent(h)'
    BY <2>1 DEF BotSerialInv, ReadsCurrent
  <2> QED
    BY <1>0, <2>1, <2>2, BotSerialRows DEF BotSerialInv
<1>2. ASSUME NEW h \in Handlers, HandlerStep(h) \/ \E m \in Update : Deliver(h, m)
      PROVE  BotSerialInv'
  <2>1. \A g \in Handlers : ReadsCurrent(g)'
    <3>1. ReadsCurrent(h)'
      BY <1>0, <1>2, ReadsStayCurrent DEF BotSerialInv
    <3> QED
      BY <3>1 DEF OneBotHandler
  <2>2. CASE ~CommitRow(h)
    <3>1. /\ account' = account /\ attachments' = attachments
          /\ chargeGrants' = chargeGrants /\ chargedBack' = chargedBack
      BY <1>2, <2>2 DEF HandlerStep, ReadRow, ReadReferrer, Deliver
    <3> QED
      BY <1>0, <2>1, <3>1, BotSerialRows DEF BotSerialInv
  <2>3. CASE CommitRow(h)
    <3> DEFINE m == handler[h].update
    <3>1. NoChargeNoWindow'
      BY <2>3, BotCommitEffect DEF NoChargeNoWindow
    <3>2. ASSUME NEW u \in Users
          PROVE  attachments'[u] = IF account'[u].referredBy = NoUser THEN 0 ELSE 1
      <4>1. attachments'[u] = IF m.op = "refer" /\ m.user = u
                              THEN attachments[u] + 1 ELSE attachments[u]
        BY <2>3 DEF CommitRow
      <4>2. attachments[u] = IF account[u].referredBy = NoUser THEN 0 ELSE 1
        BY DEF BotSerialInv, AttachedIsReferred
      <4>3. CASE m.op = "refer" /\ m.user = u
        <5>1. account[u].referredBy = NoUser /\ account'[u].referredBy # NoUser
          BY <2>3, <4>3, BotCommitEffect
        <5> QED
          BY <4>1, <4>2, <4>3, <5>1
      <4>4. CASE ~(m.op = "refer" /\ m.user = u)
        <5>1. account'[u].referredBy = account[u].referredBy
          BY <2>3, <4>4, BotCommitEffect
        <5> QED
          BY <4>1, <4>2, <4>4, <5>1
      <4> QED
        BY <4>3, <4>4
    <3>3. AttachedIsReferred'
      BY <3>2 DEF AttachedIsReferred
    <3>4. GrantedIsLast'
      BY <2>3, GrantsOfCommit
    <3> QED
      BY <1>0, <2>1, <3>1, <3>3, <3>4 DEF BotSerialInv
  <2> QED
    BY <2>2, <2>3
<1> QED
  BY <1>1, <1>2 DEF StarsStep

(* With one handler at a time nobody is attached twice, a window falls only *)
(* to the refund of the charge that was granted last, and a charge is      *)
(* granted again only once it was refunded or another was granted.         *)
THEOREM SerialIsSafe ==
    ASSUME OneBotHandler
    PROVE  StarsSpec => SerialStarsSafe
<1>1. BotSerialInv /\ [StarsTick \/ StarsStep]_<<account, now, starsVars>> => BotSerialInv'
  BY BotSerialStep
<1>2. BotSerialInv /\ [StarsTick \/ StarsStep]_<<account, now, starsVars>>
          => FallsOnlyOnLastRefund
  <2> SUFFICES ASSUME BotSerialInv, [StarsTick \/ StarsStep]_<<account, now, starsVars>>,
                      NEW u \in Users, account'[u].expires < account[u].expires
               PROVE  account[u].lastCharge \in chargedBack /\ account'[u].expires = Never
    BY DEF FallsOnlyOnLastRefund
  <2>1. account' # account
    <3>1. account[u] \in Account
      BY DEF BotSerialInv, StarsTypeInv, StarsTypeOK, EntitlementTypeOK
    <3> QED
      BY <3>1 DEF Account
  <2>2. PICK h \in Handlers : CommitRow(h)
    BY <2>1 DEF StarsTick, StarsStep, Charge, ChargeBack, Deliver, HandlerStep,
                ReadRow, ReadReferrer, starsVars
  <2> QED
    BY <2>2, BotCommitEffect
<1>3. BotSerialInv /\ BotSerialInv' /\ [StarsTick \/ StarsStep]_<<account, now, starsVars>>
          => [ /\ AttachedOnce' /\ GrantedAgainOnlyOnceForgotten'
               /\ FallsOnlyOnLastRefund ]_<<account, starsVars>>
  <2>1. BotSerialInv' => AttachedOnce' /\ GrantedAgainOnlyOnceForgotten'
    BY DEF BotSerialInv, AttachedIsReferred, AttachedOnce, GrantedIsLast,
           GrantedAgainOnlyOnceForgotten
  <2> QED
    BY <1>2, <2>1
<1> QED
  BY <1>1, <1>3, BotSerialInit, PTL DEF StarsSpec, SerialStarsSafe

(***************************************************************************)
(* Both channels.                                                          *)
(***************************************************************************)

(* The handler of either channel that is at work, if any, is the only one. *)
Alone ==
    /\ \A v, w \in Workers : task[v].pc # "idle" /\ task[w].pc # "idle" => v = w
    /\ \A g, h \in Handlers : handler[g].pc # "idle" /\ handler[h].pc # "idle" => g = h
    /\ \A w \in Workers, h \in Handlers : task[w].pc = "idle" \/ handler[h].pc = "idle"

(* The users row that a webhook handler is about to write back is the one  *)
(* that is stored.                                                         *)
RowIsCurrent(w) ==
    task[w].pc = "commit" => task[w].row = account[UserOf(task[w].event)]

(* A window paid in Stars names the charge that paid for it.               *)
StarsNamesCharge ==
    \A u \in Users : account[u].channel = "stars" => account[u].lastCharge # NoCharge

ChannelInv ==
    /\ TypeOK /\ StarsTypeInv
    /\ Alone /\ StarsNamesCharge
    /\ \A w \in Workers : RowIsCurrent(w)
    /\ \A h \in Handlers : ReadsCurrent(h)

LEMMA ChannelInitInv == ChannelsInit => ChannelInv
<1> SUFFICES ASSUME ChannelsInit PROVE ChannelInv
  OBVIOUS
<1>1. Init /\ StarsInit
  BY DEF ChannelsInit
<1>2. TypeOK /\ StarsTypeInv
  BY <1>1, InitType, StarsInitType
<1>3. /\ \A w \in Workers : task[w].pc = "idle"
      /\ \A h \in Handlers : handler[h].pc = "idle"
  BY <1>1 DEF Init, StarsInit, Idle, Resting
<1>4. Alone
  BY <1>3 DEF Alone
<1>5. StarsNamesCharge
  BY <1>1 DEF Init, NewAccount, StarsNamesCharge
<1>6. \A w \in Workers : RowIsCurrent(w)
  BY <1>3 DEF RowIsCurrent
<1>7. \A h \in Handlers : ReadsCurrent(h)
  BY <1>3 DEF ReadsCurrent
<1> QED
  BY <1>2, <1>4, <1>5, <1>6, <1>7 DEF ChannelInv

-----------------------------------------------------------------------------
(* A step of either channel is a step of its own module.                   *)
LEMMA ApiStepType ==
    ASSUME TypeOK, StarsTypeInv, ApiStep
    PROVE  TypeOK' /\ StarsTypeInv'
<1>1. Next
  BY DEF ApiStep, Next
<1>2. TypeOK'
  BY <1>1, TypeStep
<1>3. UNCHANGED starsVars
  BY DEF ApiStep
<1>4. StarsTypeInv'
  BY <1>2, <1>3 DEF TypeOK, StarsTypeInv, StarsTypeOK, OnlyReferralsRefer, starsVars
<1> QED
  BY <1>2, <1>4

LEMMA BotStepType ==
    ASSUME TypeOK, StarsTypeInv, BotStep
    PROVE  TypeOK' /\ StarsTypeInv'
<1>1. StarsStep
  BY DEF BotStep, StarsStep
<1>2. StarsTypeInv'
  BY <1>1, StarsTypeStep
<1>3. UNCHANGED billingVars
  BY DEF BotStep
<1>4. TypeOK'
  BY <1>2, <1>3 DEF StarsTypeInv, StarsTypeOK, TypeOK, billingVars
<1> QED
  BY <1>2, <1>4

(* What one step of a webhook handler, or its start, does to the handlers. *)
LEMMA ApiHandlerStep ==
    ASSUME TypeOK, NEW w \in Workers,
           Fail(w) \/ Handle(w) \/ \E e \in Event : Receive(w, e)
    PROVE  /\ \A v \in Workers \ {w} : task'[v] = task[v]
           /\ task'[w].pc = "commit" =>
                account' = account /\ task'[w].row = account[UserOf(task'[w].event)]
<1> DEFINE Claim ==
      /\ \A v \in Workers \ {w} : task'[v] = task[v]
      /\ task'[w].pc = "commit" =>
           account' = account /\ task'[w].row = account[UserOf(task'[w].event)]
<1>0. task \in [Workers -> Task]
  BY DEF TypeOK
<1>1. CASE Fail(w) \/ Reject(w) \/ Conflict(w) \/ Respond(w)
  BY <1>0, <1>1 DEF Fail, Reject, Conflict, Respond, Idle
<1>2. CASE \E e \in Event : Receive(w, e)
  BY <1>0, <1>2 DEF Receive
<1>3. CASE Fetch(w) \/ AcquireLock(w) \/ ReplayGuard(w) \/ Attribute(w) \/ Commit(w)
  <2>1. task[w] \in ActiveTask
    BY <1>3, ActiveType DEF Fetch, AcquireLock, ReplayGuard, Attribute, Commit
  <2>2. PICK pc \in {"lock", "guard", "sub", "attribute", "respond"} : Goto(w, pc)
    BY <1>3 DEF Fetch, FetchStep, AcquireLock, ReplayGuard, Attribute, Commit, AfterCommit
  <2>3. task'[w].pc = pc /\ \A v \in Workers \ {w} : task'[v] = task[v]
    BY <1>0, <2>1, <2>2 DEF Goto, ActiveTask
  <2> QED
    BY <2>3
<1>4. CASE ReadSub(w)
  <2>1. task[w] \in ActiveTask
    BY <1>4, ActiveType DEF ReadSub
  <2>2. /\ task'[w].pc \in {"account", "respond"}
        /\ \A v \in Workers \ {w} : task'[v] = task[v]
    BY <1>0, <1>4, <2>1 DEF ReadSub, ActiveTask
  <2> QED
    BY <2>2
<1>5. CASE ReadAccount(w)
  <2>1. task[w] \in ActiveTask
    BY <1>5, ActiveType DEF ReadAccount
  <2>2. /\ task'[w].event = task[w].event
        /\ task'[w].row = account[UserOf(task[w].event)]
        /\ \A v \in Workers \ {w} : task'[v] = task[v]
    BY <1>0, <1>5, <2>1 DEF ReadAccount, ActiveTask
  <2>3. account' = account
    BY <1>5 DEF ReadAccount
  <2> QED
    BY <2>2, <2>3
<1> QED
  BY <1>1, <1>2, <1>3, <1>4, <1>5 DEF Handle

(* Whoever takes a step is alone, and stays so.                            *)
WorksAlone(w) ==
    /\ \A v \in Workers \ {w} : task[v].pc = "idle"
    /\ \A h \in Handlers : handler[h].pc = "idle"

ServesAlone(h) ==
    /\ \A w \in Workers : task[w].pc = "idle"
    /\ \A g \in Handlers \ {h} : handler[g].pc = "idle"

LEMMA OneIsAlone ==
    /\ \A w \in Workers : WorksAlone(w) => Alone
    /\ \A h \in Handlers : ServesAlone(h) => Alone
BY DEF WorksAlone, ServesAlone, Alone

LEMMA StartsAlone ==
    ASSUME OneAtATime, Alone
    PROVE  /\ \A w \in Workers :
                 Fail(w) \/ Handle(w) \/ (MayStart /\ \E e \in Event : Receive(w, e))
                     => WorksAlone(w)
           /\ \A h \in Handlers :
                 HandlerStep(h) \/ (MayStart /\ \E m \in Update : Deliver(h, m))
                     => ServesAlone(h)
<1>1. ASSUME NEW w \in Workers, Fail(w) \/ Handle(w) PROVE WorksAlone(w)
  <2>1. task[w].pc # "idle"
    BY <1>1 DEF Fail, Handle, Reject, Conflict, Respond, Fetch, AcquireLock,
                ReplayGuard, ReadSub, ReadAccount, Commit, Attribute
  <2> QED
    BY <2>1 DEF Alone, WorksAlone
<1>2. ASSUME NEW h \in Handlers, HandlerStep(h) PROVE ServesAlone(h)
  <2>1. handler[h].pc # "idle"
    BY <1>2 DEF HandlerStep, ReadRow, ReadReferrer, CommitRow
  <2> QED
    BY <2>1 DEF Alone, ServesAlone
<1>3. MayStart => /\ \A w \in Workers : WorksAlone(w)
                  /\ \A h \in Handlers : ServesAlone(h)
  BY DEF MayStart, NoneRunning, WorksAlone, ServesAlone
<1> QED
  BY <1>1, <1>2, <1>3

-----------------------------------------------------------------------------
(* What a commit of each channel makes of a row.                           *)
LEMMA YooKassaEffect ==
    ASSUME NEW a \in Account, NEW plan \in PaidTiers, NEW day \in Nat
    PROVE  LET b == YooKassaGrant(a, plan, day)
           IN  /\ b.tier = plan /\ b.channel = "yookassa"
               /\ b.expires >= a.expires /\ b.expires >= day + Duration
<1>1. a.expires \in Nat /\ Duration \in Nat
  BY EntitlementAssumption DEF Account, EntitlementAssumption
<1>2. /\ ExtendedFrom(a.expires, day) >= a.expires
      /\ ExtendedFrom(a.expires, day) >= day + Duration
  BY <1>1 DEF ExtendedFrom
<1> QED
  BY <1>2 DEF YooKassaGrant, Account

LEMMA StarsEffect ==
    ASSUME NEW a \in Account, NEW plan \in PaidTiers, NEW c \in Charges, NEW day \in Nat
    PROVE  LET b == StarsGrant(a, plan, c, day)
           IN  /\ b.tier = plan /\ b.lastCharge = c /\ b.channel # "none"
               /\ b.expires >= a.expires /\ b.expires >= day + Duration
<1>1. a.expires \in Nat /\ Duration \in Nat
  BY DaysType DEF Account, Days
<1>2. /\ ExtendedFrom(a.expires, day) >= a.expires
      /\ ExtendedFrom(a.expires, day) >= day + Duration
  BY <1>1 DEF ExtendedFrom
<1>3. CASE OtherChannelOutlasts(a, day)
  BY <1>1, <1>3 DEF StarsGrant, OtherChannelOutlasts, Account
<1>4. CASE ~OtherChannelOutlasts(a, day)
  <2> DEFINE end == ExtendedFrom(a.expires, day)
             b == [a EXCEPT !.tier = plan, !.lastCharge = c, !.channel = "stars",
                            !.expires = end]
  <2>1. StarsGrant(a, plan, c, day) = b
    BY <1>4 DEF StarsGrant
  <2> HIDE DEF end
  <2>2. b.tier = plan /\ b.lastCharge = c /\ b.channel = "stars" /\ b.expires = end
    BY DEF Account
  <2> QED
    BY <1>2, <2>1, <2>2 DEF end
<1> QED
  BY <1>3, <1>4

(* A commit of the webhook: it frees a row of the channel "yookassa" only, *)
(* and a success leaves the plan paid for, with a window to match.         *)
LEMMA ApiCommitEffect ==
    ASSUME TypeOK, NEW w \in Workers, RowIsCurrent(w), Commit(w), NEW u \in Users
    PROVE  LET t == task[w]
               e == t.event
               a == account[u]
               b == account'[u]
           IN  /\ b.channel = "stars" => a.channel = "stars" /\ b.lastCharge = a.lastCharge
               /\ b.channel = "none" => a.channel # "stars"
               /\ e.type = "succeeded" /\ u = UserOf(e) =>
                    /\ b.tier = PaymentPlan[e.id]
                    /\ b.expires >= a.expires /\ b.expires >= t.day + Duration
<1> DEFINE t == task[w]
           e == t.event
           a == account[u]
           b == account'[u]
<1>1. t \in ActiveTask
  BY ActiveType DEF Commit
<1>2. /\ e \in Event /\ t.row \in Account /\ t.day \in Nat /\ UserOf(e) \in Users
      /\ e.type \in {"succeeded", "canceled", "refunded"}
      /\ e.type = "succeeded" => e.id \in Payments
  BY <1>1, EventType DEF ActiveTask
<1>3. NewRow(t) \in Account /\ a \in Account /\ account \in [Users -> Account]
  BY <1>1, CommitType DEF TypeOK, EntitlementTypeOK
<1>4. CASE u # UserOf(e)
  <2>1. b = a
    BY <1>2, <1>3, <1>4 DEF Commit
  <2> QED
    BY <1>4, <2>1
<1>5. CASE u = UserOf(e)
  <2>1. t.row = a
    BY <1>5 DEF RowIsCurrent, Commit
  <2>2. b = WriteBack(a, a, NewRow(t))
    BY <1>2, <1>3, <1>5, <2>1 DEF Commit
  <2>3. b = NewRow(t)
    BY <1>3, <2>2, WholeWrite
  <2>4. CASE e.type = "succeeded"
    <3>1. b = YooKassaGrant(a, PaymentPlan[e.id], t.day)
      BY <2>1, <2>3, <2>4 DEF NewRow
    <3>2. PaymentPlan[e.id] \in PaidTiers
      BY <1>2, <2>4, BillingAssumption DEF BillingAssumption
    <3>3. /\ b.tier = PaymentPlan[e.id] /\ b.channel = "yookassa"
          /\ b.expires >= a.expires /\ b.expires >= t.day + Duration
      BY <1>2, <1>3, <3>1, <3>2, YooKassaEffect
    <3> QED
      BY <3>3
  <2>5. CASE e.type # "succeeded"
    <3>1. b = a \/ b = YooKassaRevoke(a)
      BY <1>2, <2>1, <2>3, <2>5 DEF NewRow
    <3>2. \/ b = a
          \/ a.channel = "yookassa" /\ b.channel = "none"
      BY <1>3, <3>1 DEF YooKassaRevoke, Account
    <3> QED
      BY <2>5, <3>2
  <2> QED
    BY <2>4, <2>5
<1> QED
  BY <1>4, <1>5

(* A commit of the bot: it frees a row only for the refund of its charge,  *)
(* and a charge leaves the plan paid for, with a window to match.          *)
LEMMA StarsCommitEffect ==
    ASSUME StarsTypeInv, NEW h \in Handlers, ReadsCurrent(h), CommitRow(h), NEW u \in Users,
           account[u].channel = "stars" => account[u].lastCharge # NoCharge
    PROVE  LET t == handler[h]
               m == t.update
               a == account[u]
               b == account'[u]
           IN  /\ b.channel = "stars" => b.lastCharge # NoCharge
               /\ b.channel = "none" =>
                    /\ a.channel # "yookassa"
                    /\ a.channel = "stars" => a.lastCharge \in chargedBack
               /\ m.op = "pay" /\ u = ChargeUser[m.charge] =>
                    /\ b.tier = ChargePlan[m.charge]
                    /\ b.expires >= a.expires /\ b.expires >= t.day + Duration
<1> DEFINE t == handler[h]
           m == t.update
           a == account[u]
           b == account'[u]
<1>1. /\ m \in Update /\ t.day \in Nat /\ a \in Account /\ b \in Account
      /\ Proceeds(m, account[Subject(m)])
      /\ m.op = "refund" => m.charge \in chargedBack
      /\ \/ u = Subject(m) /\ t.row = a /\ b = UpdatedRow(t)
         \/ m.op = "refer" /\ u # Subject(m) /\ b = ReferrerBonus(a, t.day)
         \/ u # Subject(m) /\ b = a
  BY BotCommit
<1>2. m.op = "pay" => Subject(m) = ChargeUser[m.charge]
  BY DEF Subject
<1>3. CASE u # Subject(m) /\ b = a
  BY <1>2, <1>3
<1>4. CASE m.op = "refer" /\ u # Subject(m) /\ b = ReferrerBonus(a, t.day)
  <2>1. b.channel = a.channel /\ b.lastCharge = a.lastCharge
    <3>1. a \in Account /\ b = ReferrerBonus(a, t.day)
      BY <1>1, <1>4
    <3> HIDE DEF a, b
    <3> QED
      BY <3>1 DEF ReferrerBonus, Account
  <2> QED
    BY <1>4, <2>1
<1>5. CASE u = Subject(m) /\ t.row = a /\ b = UpdatedRow(t)
  <2>1. CASE m.op = "pay"
    <3>1. m.charge \in Charges /\ ChargePlan[m.charge] \in PaidTiers
      BY <1>1, <2>1, UpdateType, StarsAssumption DEF StarsAssumption
    <3>2. b = StarsGrant(a, ChargePlan[m.charge], m.charge, t.day)
      BY <1>5, <2>1 DEF UpdatedRow
    <3>3. /\ b.tier = ChargePlan[m.charge] /\ b.lastCharge = m.charge
          /\ b.channel # "none"
          /\ b.expires >= a.expires /\ b.expires >= t.day + Duration
      BY <1>1, <3>1, <3>2, StarsEffect
    <3>4. m.charge # NoCharge
      BY <3>1, EntitlementAssumption DEF EntitlementAssumption
    <3> QED
      BY <3>3, <3>4
  <2>2. CASE m.op = "refund"
    <3>1. b = StarsRevoke(a)
      BY <1>5, <2>2 DEF UpdatedRow
    <3>2. b.channel = "none"
      BY <1>1, <3>1 DEF StarsRevoke, Account
    <3>3. /\ a.lastCharge \in {m.charge, NoCharge} /\ a.channel \in {"none", "stars"}
          /\ m.charge \in chargedBack
      BY <1>1, <1>5, <2>2 DEF Proceeds, StarsRevocable
    <3> QED
      BY <2>2, <3>2, <3>3
  <2>3. CASE m.op = "refer"
    <3> DEFINE c == InviteeBonus(a, t.day)
    <3>1. b = [c EXCEPT !.referredBy = m.referrer] /\ c \in Account
      BY <1>1, <1>5, <2>3, BonusType DEF UpdatedRow
    <3>2. c.channel = a.channel /\ c.lastCharge = a.lastCharge
      BY <1>1 DEF InviteeBonus, Account
    <3> HIDE DEF c
    <3>3. b.channel = a.channel /\ b.lastCharge = a.lastCharge
      BY <3>1, <3>2 DEF Account
    <3> QED
      BY <2>3, <3>3
  <2>4. CASE m.op = "admin"
    <3>1. b = [a EXCEPT !.tier = m.tier]
      BY <1>5, <2>4 DEF UpdatedRow
    <3>2. b.channel = a.channel /\ b.lastCharge = a.lastCharge
      BY <1>1, <3>1 DEF Account
    <3> QED
      BY <2>4, <3>2
  <2> QED
    BY <1>1, <2>1, <2>2, <2>3, <2>4, UpdateType
<1> QED
  BY <1>1, <1>3, <1>4, <1>5

-----------------------------------------------------------------------------
(* Every step of either channel keeps the invariant, if handlers start     *)
(* only when none is running.                                              *)
LEMMA ChannelStep ==
    ASSUME OneAtATime, ChannelInv, [ApiStep \/ BotStep \/ DayPasses]_channelVars
    PROVE  ChannelInv'
<1>0. TypeOK' /\ StarsTypeInv'
  <2>1. CASE DayPasses \/ UNCHANGED channelVars
    <3>1. /\ UNCHANGED <<account, billingVars, starsVars>>
          /\ now' = now + 1 \/ now' = now
      BY <2>1 DEF DayPasses, Tick, channelVars
    <3>2. EntitlementTypeOK'
      BY <3>1 DEF ChannelInv, TypeOK, EntitlementTypeOK
    <3>3. TypeOK'
      BY <3>1, <3>2 DEF ChannelInv, TypeOK, billingVars
    <3>4. StarsTypeInv'
      BY <3>1, <3>2 DEF ChannelInv, StarsTypeInv, StarsTypeOK, OnlyReferralsRefer, starsVars
    <3> QED
      BY <3>3, <3>4
  <2> QED
    BY <2>1, ApiStepType, BotStepType DEF ChannelInv
<1>1. ASSUME UNCHANGED <<account, task, handler>>, chargedBack \subseteq chargedBack'
      PROVE  ChannelInv'
  <2>1. Alone' /\ StarsNamesCharge' /\ \A w \in Workers : RowIsCurrent(w)'
    BY <1>1 DEF ChannelInv, Alone, StarsNamesCharge, RowIsCurrent
  <2>2. \A h \in Handlers : ReadsCurrent(h)'
    BY <1>1 DEF ChannelInv, ReadsCurrent
  <2> QED
    BY <1>0, <2>1, <2>2 DEF ChannelInv
<1>2. CASE \/ DayPasses \/ UNCHANGED channelVars
           \/ Provider /\ UNCHANGED starsVars
           \/ \E c \in Charges : (Charge(c) \/ ChargeBack(c)) /\ UNCHANGED billingVars
  <2>1. UNCHANGED <<account, task, handler>> /\ chargedBack \subseteq chargedBack'
    BY <1>2 DEF DayPasses, Tick, Provider, Settle, RefundIssued, Charge, ChargeBack,
                channelVars, billingVars, starsVars
  <2> QED
    BY <1>1, <2>1
<1>3. ASSUME NEW w \in Workers, UNCHANGED starsVars,
             Fail(w) \/ Handle(w) \/ (MayStart /\ \E e \in Event : Receive(w, e))
      PROVE  ChannelInv'
  <2>1. WorksAlone(w)
    BY <1>3, StartsAlone DEF ChannelInv
  <2>2. /\ \A v \in Workers \ {w} : task'[v] = task[v]
        /\ task'[w].pc = "commit" =>
             account' = account /\ task'[w].row = account[UserOf(task'[w].event)]
    BY <1>3, ApiHandlerStep DEF ChannelInv
  <2>3. handler' = handler
    BY <1>3 DEF starsVars
  <2>4. WorksAlone(w)'
    BY <2>1, <2>2, <2>3 DEF WorksAlone
  <2>5. Alone'
    BY <2>4 DEF WorksAlone, Alone
  <2>6. \A v \in Workers : RowIsCurrent(v)'
    BY <2>2, <2>4 DEF RowIsCurrent, WorksAlone
  <2>7. \A h \in Handlers : ReadsCurrent(h)'
    BY <2>4 DEF ReadsCurrent, WorksAlone
  <2>8. StarsNamesCharge'
    <3>1. CASE Commit(w)
      <4> SUFFICES ASSUME NEW u \in Users, account'[u].channel = "stars"
                   PROVE  account'[u].lastCharge # NoCharge
        BY DEF StarsNamesCharge
      <4>1. account[u].channel = "stars" /\ account'[u].lastCharge = account[u].lastCharge
        BY <3>1, ApiCommitEffect DEF ChannelInv
      <4> QED
        BY <4>1 DEF ChannelInv, StarsNamesCharge
    <3>2. CASE ~Commit(w)
      <4>1. account' = account
        BY <1>3, <3>2 DEF Fail, Handle, Reject, Conflict, Respond, Fetch, AcquireLock,
                          ReplayGuard, ReadSub, ReadAccount, Attribute, Receive
      <4> QED
        BY <4>1 DEF ChannelInv, StarsNamesCharge
    <3> QED
      BY <3>1, <3>2
  <2> QED
    BY <1>0, <2>5, <2>6, <2>7, <2>8 DEF ChannelInv
<1>4. ASSUME NEW h \in Handlers, UNCHANGED billingVars,
             HandlerStep(h) \/ (MayStart /\ \E m \in Update : Deliver(h, m))
      PROVE  ChannelInv'
  <2>1. ServesAlone(h)
    BY <1>4, StartsAlone DEF ChannelInv
  <2>2. ReadsCurrent(h)' /\ \A g \in Handlers \ {h} : handler'[g] = handler[g]
    BY <1>4, ReadsStayCurrent DEF ChannelInv
  <2>3. task' = task
    BY <1>4 DEF billingVars
  <2>4. ServesAlone(h)'
    BY <2>1, <2>2, <2>3 DEF ServesAlone
  <2>5. Alone'
    BY <2>4 DEF ServesAlone, Alone
  <2>6. \A w \in Workers : RowIsCurrent(w)'
    BY <2>4 DEF RowIsCurrent, ServesAlone
  <2>7. \A g \in Handlers : ReadsCurrent(g)'
    BY <2>2, <2>4 DEF ReadsCurrent, ServesAlone
  <2>8. StarsNamesCharge'
    <3>1. CASE CommitRow(h)
      <4> SUFFICES ASSUME NEW u \in Users, account'[u].channel = "stars"
                   PROVE  account'[u].lastCharge # NoCharge
        BY DEF StarsNamesCharge
      <4>1. account[u].channel = "stars" => account[u].lastCharge # NoCharge
        BY DEF ChannelInv, StarsNamesCharge
      <4> QED
        BY <3>1, <4>1, StarsCommitEffect DEF ChannelInv
    <3>2. CASE ~CommitRow(h)
      <4>1. account' = account
        BY <1>4, <3>2 DEF HandlerStep, ReadRow, ReadReferrer, Deliver
      <4> QED
        BY <4>1 DEF ChannelInv, StarsNamesCharge
    <3> QED
      BY <3>1, <3>2
  <2> QED
    BY <1>0, <2>5, <2>6, <2>7, <2>8 DEF ChannelInv
<1> QED
  BY <1>2, <1>3, <1>4 DEF ApiStep, BotStep

LEMMA ChannelInvariance ==
    ASSUME OneAtATime
    PROVE  ChannelsSpec => []ChannelInv
<1>1. ChannelInv /\ [ApiStep \/ BotStep \/ DayPasses]_channelVars => ChannelInv'
  BY ChannelStep
<1> QED
  BY <1>1, ChannelInitInv, PTL DEF ChannelsSpec

(* A step that writes rows is the commit of one handler.                   *)
LEMMA WhoWrites ==
    ASSUME [ApiStep \/ BotStep \/ DayPasses]_channelVars
    PROVE  \/ /\ UNCHANGED <<account, grants, chargeGrants>>
           \/ /\ \E w \in Workers : Commit(w)
              /\ UNCHANGED starsVars
           \/ /\ \E h \in Handlers : CommitRow(h)
              /\ UNCHANGED billingVars
<1>1. CASE ApiStep
  BY <1>1 DEF ApiStep, Provider, Settle, RefundIssued, Receive, Fail, Handle, Reject,
              Conflict, Respond, Fetch, AcquireLock, ReplayGuard, ReadSub, ReadAccount,
              Attribute, starsVars
<1>2. CASE BotStep
  BY <1>2 DEF BotStep, Charge, ChargeBack, Deliver, HandlerStep, ReadRow, ReadReferrer,
              billingVars
<1>3. CASE DayPasses \/ UNCHANGED channelVars
  BY <1>3 DEF DayPasses, Tick, channelVars, billingVars, starsVars
<1> QED
  BY <1>1, <1>2, <1>3

-----------------------------------------------------------------------------
(* With one handler at a time, a refund takes a window away only from its  *)
(* own channel, and one of Stars only if its charge is what paid last.     *)
THEOREM RefundsRespectChannel ==
    ASSUME OneAtATime
    PROVE  ChannelsSpec => RefundRespectsChannel
<1> DEFINE Respects ==
      \A u \in Users : account'[u].channel = "none" =>
         /\ account[u].channel = "yookassa" => processed' # processed
         /\ account[u].channel = "stars" => account[u].lastCharge \in chargedBack
<1>1. ChannelInv /\ [ApiStep \/ BotStep \/ DayPasses]_channelVars => [Respects]_channelVars
  <2> SUFFICES ASSUME ChannelInv, [ApiStep \/ BotStep \/ DayPasses]_channelVars,
                      NEW u \in Users, account'[u].channel = "none"
               PROVE  /\ account[u].channel = "yookassa" => processed' # processed
                      /\ account[u].channel = "stars" => account[u].lastCharge \in chargedBack
    OBVIOUS
  <2>1. CASE account' = account
    BY <2>1
  <2>2. ASSUME NEW w \in Workers, Commit(w)
        PROVE  processed' # processed /\ account[u].channel # "stars"
    <3>1. processed' = processed \cup {task[w].event.id}
          /\ task[w].event.id \notin processed
      BY <2>2 DEF Commit, Duplicate
    <3>2. account[u].channel # "stars"
      BY <2>2, ApiCommitEffect DEF ChannelInv
    <3> QED
      BY <3>1, <3>2
  <2>3. ASSUME NEW h \in Handlers, CommitRow(h)
        PROVE  /\ account[u].channel # "yookassa"
               /\ account[u].channel = "stars" => account[u].lastCharge \in chargedBack
    <3>1. account[u].channel = "stars" => account[u].lastCharge # NoCharge
      BY DEF ChannelInv, StarsNamesCharge
    <3> QED
      BY <2>3, <3>1, StarsCommitEffect DEF ChannelInv
  <2> QED
    BY <2>1, <2>2, <2>3, WhoWrites
<1> QED
  BY <1>1, ChannelInvariance, PTL DEF ChannelsSpec, RefundRespectsChannel

(* No handler takes as long, from reading the clock to its commit, as the  *)
(* window lasts that a purchase opens (30 days in the code).               *)
Prompt ==
    /\ \A w \in Workers : task[w].pc = "commit" => now < task[w].day + Duration
    /\ \A h \in Handlers : handler[h].pc = "commit" => now < handler[h].day + Duration

LEMMA PaidTierIsEffective ==
    ASSUME NEW a \in Account, NEW plan \in PaidTiers, NEW day \in Nat,
           a.tier = plan, a.expires >= day + Duration, now \in Nat, now < day + Duration
    PROVE  EffectiveTier(a, now) = plan
<1>1. a.expires \in Nat /\ Duration \in Nat
  BY DaysType DEF Account, Days
<1>2. a.expires > now
  BY <1>1
<1>3. PaidAt(a, now)
  BY <1>2 DEF PaidAt
<1> QED
  BY <1>3 DEF EffectiveTier

(* With one handler at a time, none of which takes longer than a window, a *)
(* purchase through either channel leaves its user on the plan paid for,   *)
(* with a window that is open and no shorter than it was.                  *)
THEOREM PurchasesGiveAccess ==
    ASSUME OneAtATime
    PROVE  ChannelsSpec /\ []Prompt => PurchaseGivesAccess
<1> DEFINE Gives(x) ==
      LET u == BuyerOf(x)
      IN  /\ EffectiveTier(account'[u], now) = PlanOf(x)
          /\ account'[u].expires >= account[u].expires
<1>1. ChannelInv /\ Prompt /\ [ApiStep \/ BotStep \/ DayPasses]_channelVars
          => [\A x \in Purchases : BoughtNow(x) => Gives(x)]_channelVars
  <2> SUFFICES ASSUME ChannelInv, Prompt, [ApiStep \/ BotStep \/ DayPasses]_channelVars,
                      NEW x \in Purchases, BoughtNow(x)
               PROVE  Gives(x)
    OBVIOUS
  <2>0. /\ now \in Nat /\ TypeOK' /\ StarsTypeOK /\ TypeOK
        /\ account \in [Users -> Account] /\ account' \in [Users -> Account]
        /\ grants \in [Payments -> Nat] /\ chargeGrants \in [Charges -> Nat]
    <3>1. TypeOK /\ StarsTypeOK
      BY DEF ChannelInv, StarsTypeInv
    <3>2. TypeOK'
      BY ChannelStep DEF ChannelInv
    <3> QED
      BY <3>1, <3>2 DEF TypeOK, StarsTypeOK, EntitlementTypeOK
  <2>1. CASE x \in Payments
    <3>1. grants'[x] > grants[x] /\ grants[x] \in Nat
      BY <2>0, <2>1 DEF BoughtNow
    <3>2. PICK w \in Workers : Commit(w)
      BY <3>1, WhoWrites DEF billingVars
    <3> DEFINE e == task[w].event
               u == UserOf(e)
    <3>3. e.type = "succeeded" /\ x = e.id
      BY <2>1, <3>1, <3>2 DEF Commit
    <3>4. /\ u = PaymentUser[x] /\ u \in Users /\ PaymentPlan[x] \in PaidTiers
          /\ BuyerOf(x) = u /\ PlanOf(x) = PaymentPlan[x]
      BY <2>1, <3>3, BillingAssumption DEF BillingAssumption, UserOf, PaymentOf, BuyerOf, PlanOf
    <3>5. task[w].day \in Nat /\ now < task[w].day + Duration
      <4>1. task[w].pc = "commit"
        BY <3>2 DEF Commit
      <4>2. task[w] \in ActiveTask
        BY <2>0, <4>1, ActiveType
      <4> QED
        BY <4>1, <4>2 DEF Prompt, ActiveTask
    <3>6. /\ account'[u].tier = PaymentPlan[x]
          /\ account'[u].expires >= account[u].expires
          /\ account'[u].expires >= task[w].day + Duration
      BY <3>2, <3>3, <3>4, ApiCommitEffect DEF ChannelInv
    <3>7. account'[u] \in Account
      BY <2>0, <3>4
    <3>8. EffectiveTier(account'[u], now) = PaymentPlan[x]
      BY <2>0, <3>4, <3>5, <3>6, <3>7, PaidTierIsEffective
    <3> QED
      BY <3>4, <3>6, <3>8
  <2>2. CASE x \notin Payments
    <3>0. x \in Charges
      BY <2>2 DEF Purchases
    <3>1. chargeGrants'[x] > chargeGrants[x] /\ chargeGrants[x] \in Nat
      BY <2>0, <2>2, <3>0 DEF BoughtNow
    <3>2. PICK h \in Handlers : CommitRow(h)
      BY <3>1, WhoWrites DEF starsVars
    <3> DEFINE m == handler[h].update
               u == ChargeUser[x]
    <3>3. m.op = "pay" /\ x = m.charge
      BY <3>0, <3>1, <3>2 DEF CommitRow
    <3>4. /\ u \in Users /\ ChargePlan[x] \in PaidTiers
          /\ BuyerOf(x) = u /\ PlanOf(x) = ChargePlan[x]
      BY <2>2, <3>0, StarsAssumption DEF StarsAssumption, BuyerOf, PlanOf
    <3>5. handler[h].day \in Nat /\ now < handler[h].day + Duration
      <4>1. handler[h].pc = "commit"
        BY <3>2 DEF CommitRow
      <4>2. handler[h].day \in Nat
        BY <2>0, <4>1, RunningType
      <4> QED
        BY <4>1, <4>2 DEF Prompt
    <3>6. account[u].channel = "stars" => account[u].lastCharge # NoCharge
      BY <3>4 DEF ChannelInv, StarsNamesCharge
    <3>7. /\ account'[u].tier = ChargePlan[x]
          /\ account'[u].expires >= account[u].expires
          /\ account'[u].expires >= handler[h].day + Duration
      BY <3>2, <3>3, <3>4, <3>6, StarsCommitEffect DEF ChannelInv
    <3>8. account'[u] \in Account
      BY <2>0, <3>4
    <3>9. EffectiveTier(account'[u], now) = ChargePlan[x]
      BY <2>0, <3>4, <3>5, <3>7, <3>8, PaidTierIsEffective
    <3> QED
      BY <3>4, <3>7, <3>9
  <2> QED
    BY <2>1, <2>2
<1> QED
  BY <1>1, ChannelInvariance, PTL DEF ChannelsSpec, PurchaseGivesAccess
=============================================================================

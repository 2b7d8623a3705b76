------------------------------ MODULE Billing ------------------------------
(***************************************************************************)
(* The YooKassa webhook (api/billing/service.py).  A notification is only  *)
(* a trigger: the handler fetches the payment or refund from YooKassa and  *)
(* acts on that.  A handler is a coroutine; it may be overtaken by others  *)
(* at every await, so each query is a step of its own and everything the   *)
(* transaction writes takes effect in the commit.  Isolation is READ       *)
(* COMMITTED and no row is read FOR UPDATE; but what a handler has changed *)
(* when it issues its last query is flushed before it and keeps its rows   *)
(* locked until the commit.                                                *)
(*                                                                         *)
(* Any notification may arrive at any time, any number of times, in any    *)
(* order: YooKassa repeats one until it sees a 200, and a 200 can be lost. *)
(***************************************************************************)
EXTENDS Entitlement, FiniteSets

CONSTANTS
    Payments,       \* YooKassa payment ids
    Refunds,        \* YooKassa refund ids
    NoPayment,      \* null yookassa_payment_id
    PaymentUser,    \* [Payments -> Users]: metadata.user_id
    PaymentPlan,    \* [Payments -> PaidTiers]: metadata.plan
    Mispriced,      \* payments whose amount is below today's plan price
    Referred,       \* payments whose referral code names a partner or a user
    RefundOf,       \* [Refunds -> Payments]
    Covers,         \* [Refunds -> SUBSET PaidTiers]: plans whose price it reaches
    Workers,        \* webhook handler coroutines
    ProcessOf,      \* [Workers -> processes]: the uvicorn worker it runs in
    MaxNow,         \* bound: last day of the clock
    MaxFailures     \* bound: handlers that die (exception, lost database, crash)

ASSUME BillingAssumption ==
    /\ PaymentUser \in [Payments -> Users]
    /\ PaymentPlan \in [Payments -> PaidTiers]
    /\ RefundOf \in [Refunds -> Payments]
    /\ Covers \in [Refunds -> SUBSET PaidTiers]
    /\ Payments \cap Refunds = {}
    /\ NoPayment \notin Payments
    /\ Referred \subseteq Payments
    /\ MaxNow \in Nat /\ MaxFailures \in Nat

VARIABLES
    payState,   \* YooKassa's status of each payment
    refunded,   \* refund objects YooKassa reports as succeeded
    acked,      \* notifications answered with a 200
    subs,       \* subscriptions rows, one per user
    processed,  \* billing_payment_events.payment_id, UNIQUE
    grants,     \* how often each payment has been granted (history)
    referrals,  \* partner_referrals rows each payment has produced
    task,       \* the handler coroutines
    failures    \* handlers that have died

billingVars == <<payState, refunded, acked, subs, processed, grants,
                 referrals, task, failures>>
vars == <<account, now, billingVars>>

Event == [type : {"succeeded", "canceled"}, id : Payments]
         \cup [type : {"refunded"}, id : Refunds]

PaymentOf(e) == IF e.type = "refunded" THEN RefundOf[e.id] ELSE e.id
UserOf(e) == PaymentUser[PaymentOf(e)]

Subscription ==
    [payment : Payments \cup {NoPayment}, plan : Tiers, end : Nat,
     status : {"absent", "active", "canceled", "refunded"}]

NoSub == [payment |-> NoPayment, plan |-> "free", end |-> Never,
          status |-> "absent"]

Idle == [pc |-> "idle"]

(* A handler: its program counter, the notification it serves and the rows *)
(* it has read so far.                                                     *)
ActiveTask ==
    [pc : {"fetch", "lock", "guard", "sub", "account", "commit", "attribute",
           "respond"},
     event : Event, sub : Subscription, row : Account, day : Nat]

Task == {Idle} \cup ActiveTask

TypeOK ==
    /\ EntitlementTypeOK
    /\ payState \in [Payments -> {"pending", "succeeded", "canceled"}]
    /\ refunded \subseteq Refunds
    /\ acked \subseteq Event
    /\ subs \in [Users -> Subscription]
    /\ processed \subseteq Payments \cup Refunds
    /\ grants \in [Payments -> Nat]
    /\ referrals \in [Payments -> Nat]
    /\ task \in [Workers -> Task]
    /\ failures \in Nat

Init ==
    /\ account = [u \in Users |-> NewAccount]
    /\ now = 1
    /\ payState = [p \in Payments |-> "pending"]
    /\ refunded = {}
    /\ acked = {}
    /\ subs = [u \in Users |-> NoSub]
    /\ processed = {}
    /\ grants = [p \in Payments |-> 0]
    /\ referrals = [p \in Payments |-> 0]
    /\ task = [w \in Workers |-> Idle]
    /\ failures = 0

-----------------------------------------------------------------------------
(* YooKassa and the clock.                                                 *)
providerSame == UNCHANGED <<payState, refunded>>
tablesSame == UNCHANGED <<account, subs, processed, grants, referrals>>

Tick ==
    /\ now < MaxNow
    /\ now' = now + 1
    /\ UNCHANGED <<account, billingVars>>

(* create_payment asked for capture: the payment succeeds or is canceled,  *)
(* once and for all.                                                       *)
Settle(p, status) ==
    /\ payState[p] = "pending"
    /\ payState' = [payState EXCEPT ![p] = status]
    /\ UNCHANGED <<account, now, refunded, acked, subs, processed, grants,
                   referrals, task, failures>>

(* A refunded payment keeps its status succeeded.                          *)
RefundIssued(r) ==
    /\ payState[RefundOf[r]] = "succeeded"
    /\ r \notin refunded
    /\ refunded' = refunded \cup {r}
    /\ UNCHANGED <<account, now, payState, acked, subs, processed, grants,
                   referrals, task, failures>>

(* Mutant: a payment notification is believed as it stands.                *)
MutConfirmedByBody(e) == e.type = "refunded" => e.id \in refunded

Confirmed(e) ==
    IF e.type = "refunded" THEN e.id \in refunded ELSE payState[e.id] = e.type

-----------------------------------------------------------------------------
(* The handler.                                                            *)
Goto(w, pc) == task' = [task EXCEPT ![w].pc = pc]

Receive(w, e) ==
    /\ task[w].pc = "idle"
    /\ task' = [task EXCEPT ![w] =
                  [pc |-> "fetch", event |-> e, sub |-> NoSub,
                   row |-> NewAccount, day |-> now]]
    /\ UNCHANGED <<account, now, payState, refunded, acked, subs, processed,
                   grants, referrals, failures>>

(* Only what YooKassa reports counts; anything else is answered with 400.  *)
FetchStep(w) == IF task[w].event.type = "succeeded" THEN "lock" ELSE "guard"

Fetch(w) ==
    /\ task[w].pc = "fetch"
    /\ Confirmed(task[w].event)
    /\ Goto(w, FetchStep(w))
    /\ UNCHANGED <<account, now, payState, refunded, acked, subs, processed,
                   grants, referrals, failures>>

Reject(w) ==
    /\ task[w].pc = "fetch"
    /\ task' = [task EXCEPT ![w] = Idle]
    /\ UNCHANGED <<account, now, payState, refunded, acked, subs, processed,
                   grants, referrals, failures>>

(* The asyncio lock of a payment excludes handlers of the same process.    *)
InLock(w) == task[w].pc \in {"guard", "sub", "account", "commit", "attribute"}
             /\ task[w].event.type = "succeeded"

LockFree(w) ==
    \A v \in Workers \ {w} :
        ~(/\ ProcessOf[v] = ProcessOf[w]
          /\ InLock(v)
          /\ task[v].event.id = task[w].event.id)

AcquireLock(w) ==
    /\ task[w].pc = "lock"
    /\ LockFree(w)
    /\ Goto(w, IF task[w].event.id \in Mispriced THEN "respond" ELSE "guard")
    /\ UNCHANGED <<account, now, payState, refunded, acked, subs, processed,
                   grants, referrals, failures>>

(* Mutant: a repeated success is attributed again.                         *)
MutReplayAttributes(w) ==
    /\ task[w].pc = "guard"
    /\ Goto(w, IF task[w].event.id \notin processed THEN "sub"
               ELSE IF task[w].event.id \in Referred THEN "attribute" ELSE "respond")
    /\ UNCHANGED <<account, now, payState, refunded, acked, subs, processed,
                   grants, referrals, failures>>

ReplayGuard(w) ==
    /\ task[w].pc = "guard"
    /\ Goto(w, IF task[w].event.id \in processed THEN "respond" ELSE "sub")
    /\ UNCHANGED <<account, now, payState, refunded, acked, subs, processed,
                   grants, referrals, failures>>

(* A mistake: any amount is a full refund.                                 *)
MutAppliesAnyAmount(e, s) ==
    CASE e.type = "succeeded" ->
            ~(s.payment = e.id /\ s.status \in {"active", "refunded", "canceled"})
      [] e.type = "canceled"  -> s.payment = e.id
      [] e.type = "refunded"  -> s.payment = RefundOf[e.id]

(* What each handler makes of the subscription row it finds.               *)
Applies(e, s) ==
    CASE e.type = "succeeded" ->
            ~(s.payment = e.id /\ s.status \in {"active", "refunded", "canceled"})
      [] e.type = "canceled"  -> s.payment = e.id
      [] e.type = "refunded"  -> s.payment = RefundOf[e.id] /\ s.plan \in Covers[e.id]

ReadSub(w) ==
    LET s == subs[UserOf(task[w].event)]
    IN  /\ task[w].pc = "sub"
        /\ task' = [task EXCEPT ![w].sub = s,
                                ![w].pc = IF Applies(task[w].event, s)
                                          THEN "account" ELSE "respond"]
        /\ UNCHANGED <<account, now, payState, refunded, acked, subs,
                       processed, grants, referrals, failures>>

(* The query for the users row flushes what has been changed so far: a new *)
(* subscriptions row, or the status of a canceled or refunded one.         *)
InsertsSub(t) == t.event.type = "succeeded" /\ t.sub.status = "absent"
FlushesSub(t) ==
    \/ InsertsSub(t)
    \/ t.event.type # "succeeded" /\ t.sub.status # t.event.type

(* No other handler holds the user's subscriptions row locked.             *)
RowFree(w) ==
    \A v \in Workers \ {w} :
        ~(/\ task[v].pc = "commit"
          /\ FlushesSub(task[v])
          /\ UserOf(task[v].event) = UserOf(task[w].event))

(* Mutant: billing_payment_events without its UNIQUE constraint.           *)
MutNoRegistryKey(t) ==
    t.pc = "account" /\ InsertsSub(t) /\ subs[UserOf(t.event)].status # "absent"

(* subscriptions.user_id and billing_payment_events.payment_id are UNIQUE: *)
(* someone else may have inserted the row since it was found missing.      *)
Duplicate(t) ==
    \/ t.pc = "account" /\ InsertsSub(t) /\ subs[UserOf(t.event)].status # "absent"
    \/ t.pc = "commit" /\ t.event.id \in processed

ReadAccount(w) ==
    /\ task[w].pc = "account"
    /\ FlushesSub(task[w]) => RowFree(w)
    /\ ~Duplicate(task[w])
    /\ task' = [task EXCEPT ![w].row = account[UserOf(task[w].event)],
                            ![w].day = now, ![w].pc = "commit"]
    /\ UNCHANGED <<account, now, payState, refunded, acked, subs, processed,
                   grants, referrals, failures>>

(* The rows the handler leaves behind, from the rows it read.              *)
NewRow(t) ==
    CASE t.event.type = "succeeded" ->
            YooKassaGrant(t.row, PaymentPlan[t.event.id], t.day)
      [] t.event.type = "canceled"  ->
            IF t.row.tier = "free" THEN t.row ELSE YooKassaRevoke(t.row)
      [] t.event.type = "refunded"  -> YooKassaRevoke(t.row)

(* Mutants: the notification's own word for the status; a repeat purchase  *)
(* that does not record its payment id.                                    *)
MutNewSubRawStatus(t) ==
    [t.sub EXCEPT !.payment = PaymentOf(t.event), !.status = t.event.type]

MutNewSubKeepsPayment(t) ==
    IF t.event.type = "succeeded"
    THEN [payment |-> IF t.sub.payment = NoPayment THEN t.event.id ELSE t.sub.payment,
          plan |-> PaymentPlan[t.event.id],
          end |-> ExtendedFrom(t.row.expires, t.day), status |-> "active"]
    ELSE [t.sub EXCEPT !.status = t.event.type]

NewSub(t) ==
    IF t.event.type = "succeeded"
    THEN [payment |-> t.event.id, plan |-> PaymentPlan[t.event.id],
          end |-> ExtendedFrom(t.row.expires, t.day), status |-> "active"]
    ELSE [t.sub EXCEPT !.status = t.event.type]

SubWriteBack(current, read, new) ==
    [payment |-> Column(current.payment, read.payment, new.payment),
     plan    |-> Column(current.plan, read.plan, new.plan),
     end     |-> IF new.status = "active" THEN new.end ELSE current.end,
     status  |-> Column(current.status, read.status, new.status)]

(* Mutant: only the user's first purchase is attributed.                   *)
MutAttributesFirst(t) ==
    IF t.event.type = "succeeded" /\ t.event.id \in Referred
         /\ t.sub.status = "absent"
    THEN "attribute" ELSE "respond"

AfterCommit(t) ==
    IF t.event.type = "succeeded" /\ t.event.id \in Referred
    THEN "attribute" ELSE "respond"

Commit(w) ==
    LET t == task[w]
        u == UserOf(t.event)
    IN  /\ t.pc = "commit"
        /\ RowFree(w)
        /\ ~Duplicate(t)
        /\ account' = [account EXCEPT ![u] = WriteBack(@, t.row, NewRow(t))]
        /\ subs' = [subs EXCEPT ![u] = SubWriteBack(@, t.sub, NewSub(t))]
        /\ processed' = processed \cup {t.event.id}
        /\ grants' = [p \in Payments |->
                        IF t.event.type = "succeeded" /\ p = t.event.id
                        THEN grants[p] + 1 ELSE grants[p]]
        /\ Goto(w, AfterCommit(t))
        /\ UNCHANGED <<now, payState, refunded, acked, referrals, failures>>

(* Mutant: an IntegrityError taken for a repetition and answered with 200. *)
MutConflictAcknowledged(w) ==
    /\ task[w].pc \in {"account", "commit"}
    /\ RowFree(w)
    /\ Duplicate(task[w])
    /\ acked' = acked \cup {task[w].event}
    /\ task' = [task EXCEPT ![w] = Idle]
    /\ UNCHANGED <<account, now, payState, refunded, subs, processed, grants,
                   referrals, failures>>

(* IntegrityError: rolled back, answered with 500.                         *)
Conflict(w) ==
    /\ task[w].pc \in {"account", "commit"}
    /\ RowFree(w)
    /\ Duplicate(task[w])
    /\ task' = [task EXCEPT ![w] = Idle]
    /\ UNCHANGED <<account, now, payState, refunded, acked, subs, processed,
                   grants, referrals, failures>>

(* The referral row is written by a second transaction of the session.     *)
Attribute(w) ==
    /\ task[w].pc = "attribute"
    /\ referrals' = [referrals EXCEPT ![task[w].event.id] = @ + 1]
    /\ Goto(w, "respond")
    /\ UNCHANGED <<account, now, payState, refunded, acked, subs, processed,
                   grants, failures>>

Respond(w) ==
    /\ task[w].pc = "respond"
    /\ acked' = acked \cup {task[w].event}
    /\ task' = [task EXCEPT ![w] = Idle]
    /\ UNCHANGED <<account, now, payState, refunded, subs, processed, grants,
                   referrals, failures>>

Fail(w) ==
    /\ task[w].pc # "idle"
    /\ failures < MaxFailures
    /\ failures' = failures + 1
    /\ task' = [task EXCEPT ![w] = Idle]
    /\ UNCHANGED <<account, now, payState, refunded, acked, subs, processed,
                   grants, referrals>>

Handle(w) ==
    \/ Fetch(w) \/ Reject(w) \/ AcquireLock(w) \/ ReplayGuard(w) \/ ReadSub(w)
    \/ ReadAccount(w) \/ Commit(w) \/ Conflict(w) \/ Attribute(w) \/ Respond(w)

Provider ==
    \/ \E p \in Payments : Settle(p, "succeeded") \/ Settle(p, "canceled")
    \/ \E r \in Refunds : RefundIssued(r)

Next ==
    \/ Tick
    \/ Provider
    \/ \E w \in Workers : Fail(w) \/ Handle(w) \/ \E e \in Event : Receive(w, e)

Spec == Init /\ [][Next]_vars

(* A coroutine that can run is run, the lock is handed over in the order   *)
(* it was asked for, YooKassa answers in the end and repeats a             *)
(* notification until it is acknowledged.                                  *)
Fairness ==
    /\ \A w \in Workers :
         /\ WF_vars(ReplayGuard(w)) /\ WF_vars(ReadSub(w)) /\ WF_vars(ReadAccount(w))
         /\ WF_vars(Commit(w)) /\ WF_vars(Conflict(w)) /\ WF_vars(Attribute(w))
         /\ WF_vars(Respond(w)) /\ WF_vars(Reject(w))
         /\ SF_vars(AcquireLock(w))
    /\ \A e \in Event :
         /\ SF_vars(e \notin acked /\ \E w \in Workers : Receive(w, e))
         /\ SF_vars(\E w \in Workers : task[w].pc = "fetch" /\ task[w].event = e /\ Fetch(w))

FairSpec == Spec /\ Fairness

-----------------------------------------------------------------------------
(* A payment is in the registry of processed notifications exactly when it *)
(* has been granted, and it has been granted once: however deliveries are  *)
(* repeated, overlap in two processes or die, and also when the handlers   *)
(* for its success and for its cancellation meet.                          *)
ActedOnOnce ==
    \A p \in Payments : grants[p] = IF p \in processed THEN 1 ELSE 0

(* Only a payment YooKassa reports as succeeded, at the plan's price, is   *)
(* acted on, whatever the notification's body said.                        *)
OnlyConfirmedPayments ==
    \A p \in processed \cap Payments :
        payState[p] = "succeeded" /\ p \notin Mispriced

(* A refund takes effect only for a payment that was granted, and only     *)
(* once YooKassa reports it.                                               *)
RefundFollowsGrant ==
    \A r \in processed \cap Refunds :
        RefundOf[r] \in processed /\ r \in refunded

(* Whatever the notices say, and in whatever order they come, a handler    *)
(* acts only on what YooKassa confirms: a payment at its price, a refund   *)
(* of a payment that was granted.                                          *)
ActsOnlyOnConfirmed == OnlyConfirmedPayments /\ RefundFollowsGrant

(* "Only a FULL refund revokes access; partial refunds must not cut an     *)
(* active subscription" (_handle_refund_succeeded): a refund that does not *)
(* reach the price of the plan that was paid for takes no effect.          *)
PartialRefunds == {r \in Refunds : PaymentPlan[RefundOf[r]] \notin Covers[r]}

PartialRefundIgnored == processed \cap PartialRefunds = {}

(* A payment yields at most one partner payout row, and none before it has *)
(* been granted.                                                           *)
ReferralPaidOnce == \A p \in Payments : referrals[p] <= grants[p]

(* The cancellation handler never comes to revoke anything: the id it      *)
(* compares with is only ever stored together with the registry row that   *)
(* stops it.                                                               *)
CancelNeverRevokes ==
    \A w \in Workers :
        task[w].pc \in {"account", "commit"} => task[w].event.type # "canceled"

(* A refunded subscription is never re-activated by the payment that was   *)
(* refunded, only by another one (the comment in _handle_payment_succeeded *)
(* on redelivered payment.succeeded webhooks).                             *)
RefundSticks ==
    [][\A u \in Users :
         subs[u].status = "refunded"
           => subs'[u].status = "refunded" \/ subs'[u].payment # subs[u].payment
      ]_subs

(* The commits of a step.                                                  *)
GrantedNow(p) == grants'[p] > grants[p]

(* "A repeat purchase extends from the later of the current expiry or now" *)
(* (_handle_payment_succeeded): a granted payment adds its days to what    *)
(* the user has when it is granted, and leaves him on the plan paid for.   *)
PurchaseExtends ==
    [][\A p \in Payments : GrantedNow(p) =>
         LET u == PaymentUser[p]
         IN  /\ account'[u].expires >= account[u].expires + Duration
             /\ account'[u].tier = PaymentPlan[p]]_vars

(* An active subscription row and the users row that gates access agree on *)
(* the plan, on its end and on who established it.                         *)
ActiveMirrored ==
    \A u \in Users :
        subs[u].status = "active" =>
            /\ account[u].tier = subs[u].plan
            /\ account[u].expires = subs[u].end
            /\ account[u].channel = "yookassa"

(* "One row per successfully activated subscription" (PartnerReferralORM): *)
(* the row is a second transaction, so a granted payment with a referral   *)
(* code can stay without one, but only if a handler died on the way.       *)
Unattributed ==
    {p \in Referred \cap processed :
        /\ referrals[p] = 0
        /\ \A w \in Workers : task[w].pc = "attribute" => task[w].event.id # p}

PayoutsLostOnlyToDeaths == Cardinality(Unattributed) <= failures

(* "A refunded/canceled payment must NOT be re-activated by a redelivered  *)
(* payment.succeeded webhook": once the notification of a full refund has  *)
(* been accepted, the refunded payment grants nothing.                     *)
RefundedNeverActivates ==
    [][\A p \in Payments : GrantedNow(p) =>
         \A r \in Refunds \ PartialRefunds :
            RefundOf[r] = p => [type |-> "refunded", id |-> r] \notin acked]_vars

(* The handlers implement the registry: every payment and every refund     *)
(* takes effect at most once, and only after YooKassa confirms it.         *)
Registry == INSTANCE PaymentRegistry WITH
    Notices   <- Payments \cup Refunds,
    confirmed <- {p \in Payments : payState[p] = "succeeded"} \cup refunded,
    acted     <- processed,
    effects   <- [n \in Payments \cup Refunds |->
                    IF n \in Payments THEN grants[n]
                    ELSE IF n \in processed THEN 1 ELSE 0]

ImplementsRegistry == Registry!Spec

(* Every payment that succeeds is granted in the end, despite handlers     *)
(* that die, meet in the UNIQUE index or cannot reach YooKassa.            *)
PaidIsGranted ==
    \A p \in Payments \ Mispriced :
        payState[p] = "succeeded" ~> p \in processed
=============================================================================

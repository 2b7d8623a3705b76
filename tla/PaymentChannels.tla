-------------------------- MODULE PaymentChannels --------------------------
(***************************************************************************)
(* The two payment channels over the one users table: the YooKassa webhook *)
(* of the API processes and the Telegram bot.  Nothing coordinates them    *)
(* but the rows they read and the columns they write.                      *)
(***************************************************************************)
EXTENDS Billing, StarsPayments

CONSTANT OneAtATime     \* TRUE: a handler starts only when no other is running

ASSUME ChannelsAssumption == OneAtATime \in BOOLEAN

VARIABLE paidUntil      \* day each purchase has been paid up to (history)

channelVars == <<account, now, billingVars, starsVars, paidUntil>>

Purchases == Payments \cup Charges
BuyerOf(x) == IF x \in Payments THEN PaymentUser[x] ELSE ChargeUser[x]
PlanOf(x) == IF x \in Payments THEN PaymentPlan[x] ELSE ChargePlan[x]

ChannelsInit == Init /\ StarsInit /\ paidUntil = [x \in Purchases |-> Never]

NoneRunning ==
    /\ \A w \in Workers : task[w].pc = "idle"
    /\ \A h \in Handlers : handler[h].pc = "idle"

MayStart == OneAtATime => NoneRunning

BoughtNow(x) ==
    IF x \in Payments THEN grants'[x] > grants[x]
                      ELSE chargeGrants'[x] > chargeGrants[x]

RecordPurchase ==
    paidUntil' = [x \in Purchases |->
                    IF BoughtNow(x) THEN now + Duration ELSE paidUntil[x]]

ApiStep ==
    /\ \/ Provider
       \/ \E w \in Workers : Fail(w) \/ Handle(w)
       \/ \E w \in Workers, e \in Event : MayStart /\ Receive(w, e)
    /\ UNCHANGED starsVars
    /\ RecordPurchase

BotStep ==
    /\ \/ \E c \in Charges : Charge(c) \/ ChargeBack(c)
       \/ \E h \in Handlers : HandlerStep(h)
       \/ \E h \in Handlers, m \in Update : MayStart /\ Deliver(h, m)
    /\ UNCHANGED billingVars
    /\ RecordPurchase

DayPasses == Tick /\ UNCHANGED <<starsVars, paidUntil>>

ChannelsSpec == ChannelsInit /\ [][ApiStep \/ BotStep \/ DayPasses]_channelVars

-----------------------------------------------------------------------------
(* Whatever the user bought before and through either channel, a purchase  *)
(* leaves them on the plan they paid for, with a window that is open and   *)
(* no shorter than it was ("paying again never shortens access").          *)
PurchaseGivesAccess ==
    [][\A x \in Purchases : BoughtNow(x) =>
         LET u == BuyerOf(x)
         IN  /\ EffectiveTier(account'[u], now) = PlanOf(x)
             /\ account'[u].expires >= account[u].expires]_channelVars

(* "A Stars refund must not cancel a separate YooKassa-paid subscription   *)
(* (and vice versa)" (clear_subscription_by_telegram): a window loses its  *)
(* channel only in a step that acts on a refund of that channel.           *)
RefundRespectsChannel ==
    [][\A u \in Users : account'[u].channel = "none" =>
         /\ account[u].channel = "yookassa" => processed' # processed
         /\ account[u].channel = "stars" => account[u].lastCharge \in chargedBack
      ]_channelVars

(* A paid purchase that has not been refunded.                             *)
Stands(x) ==
    IF x \in Payments THEN \A r \in refunded : RefundOf[r] # x
                      ELSE x \notin chargedBack

EntitledWhilePaid(x) ==
    (now < paidUntil[x] /\ Stands(x)) => PaidAt(account[BuyerOf(x)], now)

(* "A YooKassa refund must not revoke access that was paid for via         *)
(* Telegram Stars" (_handle_refund_succeeded).                             *)
StarsDaysSurvive == \A c \in Charges : EntitledWhilePaid(c)
=============================================================================

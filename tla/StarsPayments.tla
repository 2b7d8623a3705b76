--------------------------- MODULE StarsPayments ---------------------------
(***************************************************************************)
(* What the Telegram bot and the admin panel do to the users table         *)
(* (telegram_bot/subscriptions.py, stars_payments.py, api/admin): Stars    *)
(* purchases and refunds, referral links, and tiers set by hand.  Each     *)
(* handler reads a row, awaits, and commits the columns it changed; aiogram *)
(* runs the updates it has polled as concurrent tasks.  Telegram delivers  *)
(* an update again until the bot confirms it.  A handler that dies before  *)
(* its commit changes nothing, so dying is the same as never going on.     *)
(***************************************************************************)
EXTENDS Entitlement

CONSTANTS
    ChargeUser,     \* [Charges -> Users]
    ChargePlan,     \* [Charges -> PaidTiers]
    ReferralLinks,  \* <<invitee, referrer>> pairs users have clicked
    AdminTiers,     \* tiers the admin may set by hand
    Handlers,       \* handler coroutines
    MaxAttempts,    \* bound: deliveries of each update
    LastDay         \* bound: last day of the clock

ASSUME StarsAssumption ==
    /\ ChargeUser \in [Charges -> Users]
    /\ ChargePlan \in [Charges -> PaidTiers]
    /\ ReferralLinks \subseteq Users \X Users
    /\ AdminTiers \subseteq Tiers
    /\ MaxAttempts \in Nat /\ LastDay \in Nat

VARIABLES
    charged,        \* Stars charges the user has paid
    chargedBack,    \* charges Telegram has refunded
    attempts,       \* [Update -> Nat]: deliveries so far
    chargeGrants,   \* how often each charge has been granted (history)
    attachments,    \* how often each user's referrer has been attached (history)
    earned,         \* days of the purchases granted and referrers attached (history)
    handler         \* the handler coroutines

starsVars == <<charged, chargedBack, attempts, chargeGrants, attachments, earned,
               handler>>

Update ==
    [op : {"pay", "refund"}, charge : Charges]
    \cup [op : {"refer"}, user : Users, referrer : Users]
    \cup [op : {"admin"}, user : Users, tier : Tiers]

Subject(m) == IF m.op \in {"pay", "refund"} THEN ChargeUser[m.charge] ELSE m.user

HandlerState ==
    [pc : {"idle"}]
    \cup [pc : {"read", "referrer", "commit"}, update : Update,
          row : Account, second : Account, day : Nat]

Resting == [pc |-> "idle"]

StarsTypeOK ==
    /\ EntitlementTypeOK
    /\ charged \subseteq Charges
    /\ chargedBack \subseteq charged
    /\ attempts \in [Update -> Nat]
    /\ chargeGrants \in [Charges -> Nat]
    /\ attachments \in [Users -> Nat]
    /\ earned \in Nat
    /\ handler \in [Handlers -> HandlerState]

StarsInit ==
    /\ account = [u \in Users |-> NewAccount]
    /\ now = 1
    /\ charged = {}
    /\ chargedBack = {}
    /\ attempts = [m \in Update |-> 0]
    /\ chargeGrants = [c \in Charges |-> 0]
    /\ attachments = [u \in Users |-> 0]
    /\ earned = 0
    /\ handler = [h \in Handlers |-> Resting]

-----------------------------------------------------------------------------
(* Telegram: a pre-checkout for a known plan at its price is accepted and  *)
(* the charge goes through; it may be refunded later.                      *)
Charge(c) ==
    /\ c \notin charged
    /\ charged' = charged \cup {c}
    /\ UNCHANGED <<account, now, chargedBack, attempts, chargeGrants,
                   attachments, earned, handler>>

ChargeBack(c) ==
    /\ c \in charged \ chargedBack
    /\ chargedBack' = chargedBack \cup {c}
    /\ UNCHANGED <<account, now, charged, attempts, chargeGrants, attachments,
                   earned, handler>>

Sent(m) ==
    CASE m.op = "pay"    -> m.charge \in charged
      [] m.op = "refund" -> m.charge \in chargedBack
      [] m.op = "refer"  -> <<m.user, m.referrer>> \in ReferralLinks
      [] m.op = "admin"  -> m.tier \in AdminTiers

-----------------------------------------------------------------------------
(* The handlers.                                                           *)
Deliver(h, m) ==
    /\ handler[h].pc = "idle"
    /\ Sent(m)
    /\ attempts[m] < MaxAttempts
    /\ attempts' = [attempts EXCEPT ![m] = @ + 1]
    /\ handler' = [handler EXCEPT ![h] =
                     [pc |-> "read", update |-> m, row |-> NewAccount,
                      second |-> NewAccount, day |-> now]]
    /\ UNCHANGED <<account, now, charged, chargedBack, chargeGrants, attachments,
                   earned>>

(* Whether the handler goes on, given the row it finds.                    *)
Proceeds(m, row) ==
    CASE m.op = "pay"    -> row.lastCharge # m.charge
      [] m.op = "refund" -> StarsRevocable(row, m.charge)
      [] m.op = "refer"  -> row.referredBy = NoUser /\ m.user # m.referrer
      [] m.op = "admin"  -> TRUE

AfterRead(m) == IF m.op = "refer" THEN "referrer" ELSE "commit"

ReadRow(h) ==
    LET m == handler[h].update
        row == account[Subject(m)]
    IN  /\ handler[h].pc = "read"
        /\ handler' = IF Proceeds(m, row)
                      THEN [handler EXCEPT ![h] =
                              [pc |-> AfterRead(m), update |-> m, row |-> row,
                               second |-> @.second, day |-> now]]
                      ELSE [handler EXCEPT ![h] = Resting]
        /\ UNCHANGED <<account, now, charged, chargedBack, attempts,
                       chargeGrants, attachments, earned>>

ReadReferrer(h) ==
    /\ handler[h].pc = "referrer"
    /\ handler' = [handler EXCEPT ![h] =
                     [pc |-> "commit", update |-> @.update, row |-> @.row,
                      second |-> account[@.update.referrer], day |-> now]]
    /\ UNCHANGED <<account, now, charged, chargedBack, attempts, chargeGrants,
                   attachments, earned>>

UpdatedRow(t) ==
    LET m == t.update
    IN  CASE m.op = "pay"    -> StarsGrant(t.row, ChargePlan[m.charge], m.charge, t.day)
          [] m.op = "refund" -> StarsRevoke(t.row)
          [] m.op = "refer"  -> [InviteeBonus(t.row, t.day) EXCEPT !.referredBy = m.referrer]
          [] m.op = "admin"  -> [t.row EXCEPT !.tier = m.tier]

(* The rows a commit writes: the subject's and, for a referral, the        *)
(* referrer's.                                                             *)
Written(t, u) ==
    CASE u = Subject(t.update) -> WriteBack(account[u], t.row, UpdatedRow(t))
      [] u # Subject(t.update) /\ t.update.op = "refer" /\ u = t.update.referrer ->
            WriteBack(account[u], t.second, ReferrerBonus(t.second, t.day))
      [] OTHER -> account[u]

(* What an update is worth to whom it rewards.                             *)
DaysOf(m) == CASE m.op = "pay"   -> Duration
               [] m.op = "refer" -> BonusDays
               [] OTHER          -> 0

CommitRow(h) ==
    LET t == handler[h]
        m == t.update
    IN  /\ t.pc = "commit"
        /\ account' = [u \in Users |-> Written(t, u)]
        /\ chargeGrants' = [c \in Charges |->
                              IF m.op = "pay" /\ m.charge = c
                              THEN chargeGrants[c] + 1 ELSE chargeGrants[c]]
        /\ attachments' = [u \in Users |->
                             IF m.op = "refer" /\ m.user = u
                             THEN attachments[u] + 1 ELSE attachments[u]]
        /\ earned' = earned + DaysOf(m)
        /\ handler' = [handler EXCEPT ![h] = Resting]
        /\ UNCHANGED <<now, charged, chargedBack, attempts>>

HandlerStep(h) == ReadRow(h) \/ ReadReferrer(h) \/ CommitRow(h)

StarsStep ==
    \/ \E c \in Charges : Charge(c) \/ ChargeBack(c)
    \/ \E h \in Handlers : HandlerStep(h) \/ \E m \in Update : Deliver(h, m)

StarsTick ==
    /\ now < LastDay
    /\ now' = now + 1
    /\ UNCHANGED <<account, starsVars>>

StarsSpec == StarsInit /\ [][StarsTick \/ StarsStep]_<<account, now, starsVars>>

-----------------------------------------------------------------------------
(* Nobody gets days that nobody earned: however handlers overlap, a paid   *)
(* window reaches no further than the days granted purchases and attached  *)
(* referrals add up to, and neither does a trial.                          *)
NoUnearnedDays ==
    \A u \in Users :
        /\ account[u].expires <= now + earned
        /\ account[u].trialEnd <= NewAccount.trialEnd + earned

(* "Returns True if a referrer was attached (no-op if self/already         *)
(* set/invalid)": nobody is attached, and rewarded for, twice.             *)
AttachedOnce == \A u \in Users : attachments[u] <= 1

(* A purchase adds its days to the window the user has, and a refund of    *)
(* another charge leaves that window alone: the expiry falls only when the *)
(* charge that was granted last is refunded.                               *)
FallsOnlyOnLastRefund ==
    \A u \in Users : account'[u].expires < account[u].expires =>
        /\ account[u].lastCharge \in chargedBack
        /\ account'[u].expires = Never

(* Telegram may deliver a payment twice.  Only the last charge of a user is *)
(* stored (set_tier_by_telegram), so a charge is granted again at most when *)
(* it was refunded, or when another charge of its user was granted: the row *)
(* tells a redelivery from a new payment only until then.                  *)
ChargeForgotten(c) ==
    \/ c \in chargedBack
    \/ \E d \in Charges \ {c} : ChargeUser[d] = ChargeUser[c] /\ chargeGrants[d] > 0

GrantedAgainOnlyOnceForgotten ==
    \A c \in Charges : chargeGrants[c] > 1 => ChargeForgotten(c)

(* With one handler at a time a repeated link attaches nobody again, a late *)
(* refund closes no window but the one its charge paid for last, and a     *)
(* repeated payment is granted again only once its charge is forgotten.    *)
SerialStarsSafe ==
    [][ /\ AttachedOnce' /\ GrantedAgainOnlyOnceForgotten'
        /\ FallsOnlyOnLastRefund ]_<<account, starsVars>>
=============================================================================

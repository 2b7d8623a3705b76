---------------------------- MODULE Entitlement ----------------------------
(***************************************************************************)
(* The row of the users table that decides what a user may do, and every   *)
(* update the payment channels make to it.  Each channel reads the row,    *)
(* computes a new one in Python and lets SQLAlchemy write back the columns *)
(* that changed.  Times are whole days; a null timestamp is Never.         *)
(***************************************************************************)
EXTENDS Integers

CONSTANTS
    Users,      \* users.id
    Charges,    \* Telegram payment charge ids
    NoUser,     \* null referred_by
    NoCharge,   \* null last_charge_id
    Duration,   \* days one purchase grants (duration_days, 30 in the code)
    TrialDays,  \* days of the trial a new account starts with
    BonusDays   \* REFERRAL_BONUS_DAYS

ASSUME EntitlementAssumption ==
    /\ Duration \in Nat \ {0}
    /\ TrialDays \in Nat
    /\ BonusDays \in Nat
    /\ NoUser \notin Users
    /\ NoCharge \notin Charges

VARIABLES
    account,    \* [Users -> Account]: the committed users rows
    now         \* the current day; day 0 is null, the clock starts at 1

Never == 0

PaidTiers == {"pro", "enterprise"}
Tiers == PaidTiers \cup {"free"}
Channels == {"none", "stars", "yookassa"}

Account == [tier : Tiers, expires : Nat, channel : Channels,
            lastCharge : Charges \cup {NoCharge}, trialEnd : Nat,
            referredBy : Users \cup {NoUser}]

NewAccount == [tier |-> "free", expires |-> Never, channel |-> "none",
               lastCharge |-> NoCharge, trialEnd |-> 1 + TrialDays,
               referredBy |-> NoUser]

EntitlementTypeOK == account \in [Users -> Account] /\ now \in Nat \ {0}

-----------------------------------------------------------------------------
(* What a row entitles its user to on day t: a paid tier whose window is   *)
(* open or has no end, else Pro during an active trial, else free.         *)
PaidAt(a, t) == a.tier \in PaidTiers /\ (a.expires = Never \/ a.expires > t)

EffectiveTier(a, t) ==
    CASE PaidAt(a, t)                       -> a.tier
      [] ~PaidAt(a, t) /\ a.trialEnd > t    -> "pro"
      [] ~PaidAt(a, t) /\ ~(a.trialEnd > t) -> "free"

(* Mutants of the updates below stand before the definition they replace;  *)
(* each is a slip some property of the system has to notice.               *)
MutExtendedFromNow(base, t) == t + Duration

(* A purchase extends from the later of the present expiry and now.        *)
ExtendedFrom(base, t) == (IF base > t THEN base ELSE t) + Duration

\* Mutant: the grant leaves the channel that paid before.
MutGrantKeepsChannel(a, plan, t) ==
    [a EXCEPT !.tier = plan, !.expires = ExtendedFrom(a.expires, t)]

YooKassaGrant(a, plan, t) ==
    [a EXCEPT !.tier = plan, !.expires = ExtendedFrom(a.expires, t),
              !.channel = "yookassa"]

YooKassaRevoke(a) ==
    IF a.channel = "yookassa"
    THEN [a EXCEPT !.tier = "free", !.expires = Never, !.channel = "none"]
    ELSE a

(* Stars keeps a longer window of the other channel as it is: only the     *)
(* tier and the charge change.                                             *)
OtherChannelOutlasts(a, t) ==
    a.channel \notin {"none", "stars"} /\ a.expires > t + Duration

MutStarsGrantFromNow(a, plan, charge, t) ==
    [a EXCEPT !.tier = plan, !.lastCharge = charge, !.channel = "stars",
              !.expires = t + Duration]

StarsGrant(a, plan, charge, t) ==
    IF OtherChannelOutlasts(a, t)
    THEN [a EXCEPT !.tier = plan, !.lastCharge = charge]
    ELSE [a EXCEPT !.tier = plan, !.lastCharge = charge, !.channel = "stars",
                   !.expires = ExtendedFrom(a.expires, t)]

MutRevocableByAnyCharge(a, charge) == a.channel \in {"none", "stars"}

MutRevocableInAnyChannel(a, charge) == a.lastCharge \in {charge, NoCharge}

StarsRevocable(a, charge) ==
    /\ a.lastCharge \in {charge, NoCharge}
    /\ a.channel \in {"none", "stars"}

StarsRevoke(a) ==
    [a EXCEPT !.tier = "free", !.expires = Never, !.channel = "none",
              !.lastCharge = NoCharge]

MutBonusFullPeriod(a, t) ==
    IF a.trialEnd > t THEN [a EXCEPT !.trialEnd = @ + Duration] ELSE a

(* A referral extends an active trial, else an open paid window; it never  *)
(* arms either from nothing.                                               *)
ReferrerBonus(a, t) ==
    IF a.trialEnd > t
    THEN [a EXCEPT !.trialEnd = @ + BonusDays]
    ELSE IF a.expires > t THEN [a EXCEPT !.expires = @ + BonusDays] ELSE a

InviteeBonus(a, t) ==
    IF a.trialEnd > t THEN [a EXCEPT !.trialEnd = @ + BonusDays] ELSE a

-----------------------------------------------------------------------------
(* The UPDATE a transaction issues names only the columns whose value      *)
(* differs from the one it read; the others keep what is committed now.    *)
Column(current, read, new) == IF new = read THEN current ELSE new

WriteBack(current, read, new) ==
    [tier       |-> Column(current.tier, read.tier, new.tier),
     expires    |-> Column(current.expires, read.expires, new.expires),
     channel    |-> Column(current.channel, read.channel, new.channel),
     lastCharge |-> Column(current.lastCharge, read.lastCharge, new.lastCharge),
     trialEnd   |-> Column(current.trialEnd, read.trialEnd, new.trialEnd),
     referredBy |-> Column(current.referredBy, read.referredBy, new.referredBy)]
=============================================================================

------------------------------- MODULE Accounts -------------------------------
(***************************************************************************)
(* How an account comes to be and who may enter it (api/auth/service.py,   *)
(* router.py; get_or_create_user_by_telegram; the switch of the admin).    *)
(*                                                                         *)
(* Every request is a transaction that reads the row, works, and commits.  *)
(* Between the two other requests run; e-mail, google_id and telegram_id   *)
(* are UNIQUE, and that is all that stops them.                            *)
(***************************************************************************)
EXTENDS Naturals, FiniteSets

CONSTANTS
  Emails,        \* addresses as they are written in a row
  LowerCase,     \* [Emails -> Emails]: lower().strip()
  TelegramEmail, \* the address made up for a Telegram user
  GoogleIds,
  Visitors,      \* requests that may be in progress
  ReferralDays,  \* REFERRAL_BONUS_DAYS
  FirstTrial,    \* TRIAL_DAYS
  MaxVisits,     \* bound on the requests that span several steps
  MaxTokens,     \* bound on the reset tokens created
  MaxToggles,    \* bound on the admin's switches
  NoEmail

ASSUME AccountsAssumption ==
  /\ IsFiniteSet(Emails)
  /\ LowerCase \in [Emails -> Emails]
  /\ \A e \in Emails : LowerCase[LowerCase[e]] = LowerCase[e]
  /\ TelegramEmail \in Emails /\ NoEmail \notin Emails
  /\ ReferralDays \in Nat /\ FirstTrial \in Nat \ {0}
  /\ MaxVisits \in Nat /\ MaxTokens \in Nat /\ MaxToggles \in Nat

VARIABLES
  user,        \* the rows of users, by e-mail
  visitor,     \* the requests in progress
  tokens,      \* how many reset tokens were created
  mailed,      \* the tokens that have been sent and are not older than an hour
  toggles,
  resets,      \* history: [token, visit]: password changes that committed
  visits,      \* history: how many requests there were; each has a number
  meetings,    \* history: pairs of requests that overlapped
  entries,     \* history: [by, active] of the tokens handed out
  stored       \* history: [token, email, visit]: the requests that stored a reset token

accountVars == <<user, visitor, tokens, mailed, toggles, resets, visits, meetings, entries, stored>>

NoUserRow == [there |-> FALSE, password |-> 0, google |-> "none", active |-> TRUE,
              reset |-> 0, trial |-> 0, referrer |-> NoEmail]
Registered == [NoUserRow EXCEPT !.there = TRUE, !.password = 1, !.trial = FirstTrial]
Away == [pc |-> "away", kind |-> "none", email |-> NoEmail, google |-> "none",
         token |-> 0, referrer |-> NoEmail, seen |-> 0, number |-> 0]
Visiting(v) == visitor[v].pc # "away"

AccountsInitWith(tokensDone, togglesDone) ==
  /\ \E known \in SUBSET {e \in Emails : LowerCase[e] = e /\ e # TelegramEmail} :
       user = [e \in Emails |-> IF e \in known THEN Registered ELSE NoUserRow]
  /\ visitor = [v \in Visitors |-> Away]
  /\ tokens = tokensDone /\ mailed = {} /\ toggles = togglesDone
  /\ resets = {} /\ visits = 0 /\ meetings = {} /\ entries = {} /\ stored = {}

AccountsInit == AccountsInitWith(0, 0)

-----------------------------------------------------------------------------

Comes(v, to) ==
  /\ ~Visiting(v)
  /\ visits < MaxVisits
  /\ visits' = visits + 1
  /\ visitor' = [visitor EXCEPT ![v] = [to EXCEPT !.number = visits']]
  /\ meetings' = meetings \cup {<<visitor[w].number, visits'>> : w \in {x \in Visitors : Visiting(x)}}

VisitGoesOn(v, to) == visitor' = [visitor EXCEPT ![v] = to] /\ UNCHANGED <<visits, meetings>>
Leaves(v) == VisitGoesOn(v, Away)

\* access and refresh token for the account
Enter(e, by) == entries' = entries \cup {[by |-> by, active |-> user[e].active]}

OnlyRequests == UNCHANGED <<user, tokens, mailed, toggles, resets, entries, stored>>

-----------------------------------------------------------------------------
(* Registration.                                                           *)

\* register_user: an address that is taken is answered with 409.
Register(v, e, code) ==
  /\ ~user[LowerCase[e]].there
  /\ Comes(v, [Away EXCEPT !.pc = IF code = NoEmail THEN "create" ELSE "referrer",
                           !.kind = "register", !.email = LowerCase[e], !.referrer = code])
  /\ OnlyRequests

\* get_or_create_user_by_telegram
TelegramStart(v) ==
  /\ ~user[TelegramEmail].there
  /\ Comes(v, [Away EXCEPT !.pc = "create", !.kind = "telegram", !.email = TelegramEmail])
  /\ OnlyRequests

\* _resolve_referrer: an active account, and its trial as it is now.
ReadInviter(v) ==
  LET t == visitor[v]
      found == t.referrer # NoEmail /\ user[t.referrer].there /\ user[t.referrer].active
  IN /\ t.pc = "referrer"
     /\ VisitGoesOn(v, IF found
                    THEN [t EXCEPT !.pc = "create", !.seen = user[t.referrer].trial]
                    ELSE [t EXCEPT !.pc = "create", !.referrer = NoEmail])
     /\ OnlyRequests

\* _grant_referral_bonus: an open trial gets longer by what was read of it.
Rewarded(rows, t) ==
  IF t.referrer # NoEmail /\ t.seen > 0
  THEN [rows EXCEPT ![t.referrer].trial = t.seen + ReferralDays] ELSE rows

NewUser(t) == [NoUserRow EXCEPT
  !.there = TRUE, !.trial = FirstTrial, !.google = t.google,
  !.password = IF t.kind = "register" THEN 1 ELSE 0, !.referrer = t.referrer]

Collides(t) ==
  \/ user[t.email].there
  \/ t.google # "none" /\ \E e \in Emails : user[e].google = t.google

\* INSERT and commit; a row that has come meanwhile fails on the UNIQUE index,
\* and the bonus with it.
CreateUser(v) ==
  LET t == visitor[v]
  IN /\ t.pc = "create"
     /\ Leaves(v)
     /\ user' = IF Collides(t) THEN user ELSE [Rewarded(user, t) EXCEPT ![t.email] = NewUser(t)]
     /\ UNCHANGED <<tokens, mailed, toggles, resets, entries, stored>>

-----------------------------------------------------------------------------
(* Google.  The address is taken as Google writes it.                      *)

GoogleKnown(g) ==
  /\ \E e \in Emails : user[e].google = g /\ Enter(e, "google")
  /\ UNCHANGED <<user, visitor, tokens, mailed, toggles, resets, visits, meetings, stored>>

GoogleUnknown(v, g, e) ==
  /\ \A f \in Emails : user[f].google # g
  /\ Comes(v, [Away EXCEPT !.pc = "byEmail", !.kind = "google", !.google = g, !.email = e])
  /\ OnlyRequests

GoogleByEmail(v) ==
  LET t == visitor[v]
  IN /\ t.pc = "byEmail"
     /\ VisitGoesOn(v, [t EXCEPT !.pc = IF user[t.email].there THEN "link" ELSE "create"])
     /\ OnlyRequests

\* The account with the address becomes that of this Google id, whatever id it
\* had; the id may have got another row meanwhile.
LinkGoogle(v) ==
  LET t == visitor[v]
  IN /\ t.pc = "link"
     /\ Leaves(v)
     /\ IF \E e \in Emails \ {t.email} : user[e].google = t.google
        THEN UNCHANGED <<user, entries>>
        ELSE /\ user' = [user EXCEPT ![t.email].google = t.google]
             /\ Enter(t.email, "google")
     /\ UNCHANGED <<tokens, mailed, toggles, resets, stored>>

-----------------------------------------------------------------------------
(* Passwords.                                                              *)

\* login_user; refresh asks the same of the row.
LogIn(e) ==
  /\ user[LowerCase[e]].password # 0
  /\ user[LowerCase[e]].active
  /\ Enter(LowerCase[e], "password")
  /\ UNCHANGED <<user, visitor, tokens, mailed, toggles, resets, visits, meetings, stored>>

ForgotPassword(v, e) ==
  /\ user[LowerCase[e]].there
  /\ tokens < MaxTokens
  /\ tokens' = tokens + 1
  /\ Comes(v, [Away EXCEPT !.pc = "store", !.kind = "forgot", !.email = LowerCase[e], !.token = tokens'])
  /\ UNCHANGED <<user, mailed, toggles, resets, entries, stored>>

\* The hash replaces that of an older token; the token goes out by mail.
StoreToken(v) ==
  LET t == visitor[v]
  IN /\ t.pc = "store"
     /\ Leaves(v)
     /\ user' = [user EXCEPT ![t.email].reset = t.token]
     /\ mailed' = mailed \cup {[token |-> t.token, email |-> t.email]}
     /\ stored' = stored \cup {[token |-> t.token, email |-> t.email, visit |-> t.number]}
     /\ UNCHANGED <<tokens, toggles, resets, entries>>

TokenExpires(m) ==
  /\ m \in mailed
  /\ mailed' = mailed \ {m}
  /\ UNCHANGED <<user, visitor, tokens, toggles, resets, visits, meetings, entries, stored>>

\* A mistake: any token of the account will do while one is stored.
MutTokenFits(m) == user[m.email].reset # 0

TokenFits(m) == user[m.email].reset = m.token

\* reset_password reads the row and compares ...
ResetPassword(v, m) ==
  /\ m \in mailed
  /\ TokenFits(m)
  /\ Comes(v, [Away EXCEPT !.pc = "reset", !.kind = "reset", !.email = m.email, !.token = m.token])
  /\ OnlyRequests

\* ... and writes the password and no token, whichever is there now.
CommitReset(v) ==
  LET t == visitor[v]
  IN /\ t.pc = "reset"
     /\ Leaves(v)
     /\ user' = [user EXCEPT ![t.email].password = 1 + t.token, ![t.email].reset = 0]
     /\ resets' = resets \cup {[token |-> t.token, visit |-> t.number]}
     /\ UNCHANGED <<tokens, mailed, toggles, entries, stored>>

-----------------------------------------------------------------------------

\* The admin switches an account off or on again.
ToggleActive(e) ==
  /\ user[e].there
  /\ toggles < MaxToggles
  /\ toggles' = toggles + 1
  /\ user' = [user EXCEPT ![e].active = ~@]
  /\ UNCHANGED <<visitor, tokens, mailed, resets, visits, meetings, entries, stored>>

AccountsNext ==
  \/ \E v \in Visitors :
       \/ ReadInviter(v) \/ CreateUser(v) \/ GoogleByEmail(v) \/ LinkGoogle(v)
       \/ StoreToken(v) \/ CommitReset(v) \/ TelegramStart(v)
       \/ \E e \in Emails :
            \/ ForgotPassword(v, e)
            \/ \E code \in Emails \cup {NoEmail} : Register(v, e, code)
            \/ \E g \in GoogleIds : GoogleUnknown(v, g, e)
       \/ \E m \in mailed : ResetPassword(v, m)
  \/ \E m \in mailed : TokenExpires(m)
  \/ \E e \in Emails : ToggleActive(e) \/ LogIn(e)
  \/ \E g \in GoogleIds : GoogleKnown(g)

AccountsSpec == AccountsInit /\ [][AccountsNext]_accountVars

-----------------------------------------------------------------------------
(* Properties.                                                             *)

Met(i, j) == i = j \/ <<i, j>> \in meetings \/ <<j, i>> \in meetings

Before(i, j) == i < j /\ ~Met(i, j)

\* A newer token was stored for the account after this one and before the reset.
Superseded(r) ==
  \E o, n \in stored : /\ o.token = r.token /\ n.email = o.email
                       /\ Before(o.visit, n.visit) /\ Before(n.visit, r.visit)

Invited(e) == {f \in Emails : user[f].there /\ user[f].referrer = e}

\* A reset link works once, and not after a newer one was sent, unless the
\* requests overlapped; a Google id has one account; an account that is off
\* is entered through Google alone; and a trial is never longer than its own
\* days and the bonus of everybody it brought.
AccountsSound ==
  /\ \A r, s \in resets : r.token = s.token => Met(r.visit, s.visit)
  /\ \A r \in resets : ~Superseded(r)
  /\ \A e, f \in Emails : user[e].google = user[f].google /\ user[e].google # "none" => e = f
  /\ \A n \in entries : n.active \/ n.by = "google"
  /\ \A e \in Emails : user[e].trial =< FirstTrial + ReferralDays * Cardinality(Invited(e))
=============================================================================

----------------------------- MODULE AlertChecks -----------------------------
(***************************************************************************)
(* The user's alert rules and the job that checks them                     *)
(* (notifications/alerts_service.py, alerts_repository.py, delivery.py,    *)
(* the rule endpoints of api/analytics/portfolio.py, the presets of        *)
(* telegram_bot/bond_picker.py).                                           *)
(*                                                                         *)
(* A check is one transaction.  It reads the rules, the quotes and the     *)
(* events of the last 24 hours, one query after another, and then goes     *)
(* through the rules.  A message is sent as soon as its rule fires; the    *)
(* event that keeps the next check quiet is only there once the whole      *)
(* check has committed.  No lock keeps a second check out: the scheduler   *)
(* may be replicated, and `alerts-check` can be started by hand.           *)
(*                                                                         *)
(* Time is counted in parts of the window; a check is short against it, so *)
(* it does not pass while one is running.                                  *)
(***************************************************************************)
EXTENDS Naturals, FiniteSets

CONSTANTS
  Rules,          \* the rows alert_rules may hold
  Instruments,    \* bonds and stocks, one map from internal_id (by_id)
  Checkers,       \* the processes that may run a check
  RuleOn,         \* [Rules -> Instruments]
  Above,          \* [Rules -> BOOLEAN]: direction = "above"
  Threshold,      \* [Rules -> Nat]
  Quotes,         \* the values a metric may have
  NoQuote,        \* null, and an instrument that is not in the database
  Window,         \* _DEDUP_WINDOW
  MaxClock,       \* bound on the clock
  MaxChecks,      \* bound on the checks that are started
  MaxErrors       \* bound on checks that stop or meet an error

ASSUME AlertAssumption ==
  /\ RuleOn \in [Rules -> Instruments]
  /\ Above \in [Rules -> BOOLEAN]
  /\ Threshold \in [Rules -> Nat]
  /\ Quotes \subseteq Nat
  /\ NoQuote \notin Nat
  /\ Window \in Nat /\ MaxClock \in Nat /\ MaxChecks \in Nat /\ MaxErrors \in Nat

VARIABLES
  clock,
  quote,      \* the metric of each instrument as the scraper last stored it
  rules,      \* the active rows of alert_rules
  gone,       \* the deleted ones, whose ids do not come back
  events,     \* the committed rows of alert_events
  checker,    \* the checks
  checks,     \* how many were started; each has a number
  errors,     \* how many failed
  messages,   \* history: [rule, check] for which Telegram took a message
  overlaps,   \* history: pairs of checks that ran at the same time
  broken      \* history: checks that were rolled back

alertVars == <<clock, quote, rules, gone, events, checker, checks, errors,
               messages, overlaps, broken>>

-----------------------------------------------------------------------------

\* A row of alert_events.  created_at is now() of the database, the time the
\* transaction began.
Event == [rule : Rules, at : Nat, check : Nat, delivered : BOOLEAN]

\* The local state of a check; `listed` and `todo` are the rules it read and
\* those it has still to look at, `current` the one it is at, `locks` the rows
\* it has updated, `added` its uncommitted events.
CheckerIdle == [pc |-> "idle", number |-> 0, listed |-> {}, todo |-> {},
         seen |-> [i \in Instruments |-> NoQuote],
         recent |-> {}, current |-> {}, added |-> {}, locks |-> {}]

Running(c) == checker[c].pc # "idle"

\* UPDATE alert_rules takes the row until the transaction ends.
Held(c, r) == \E d \in Checkers \ {c} : r \in checker[d].locks

AlertInit ==
  /\ clock = 0
  /\ quote \in [Instruments -> Quotes \cup {NoQuote}]
  /\ rules = {} /\ gone = {}
  /\ events = {}
  /\ checker = [c \in Checkers |-> CheckerIdle]
  /\ checks = 0
  /\ errors = 0
  /\ messages = {}
  /\ overlaps = {}
  /\ broken = {}

-----------------------------------------------------------------------------
(* The API and the bot change the rules, the scraper the quotes.           *)

\* An instrument that is not in the database is answered with 404.
CreateRule(r) ==
  /\ r \notin rules \cup gone
  /\ rules' = rules \cup {r}
  /\ UNCHANGED <<clock, quote, gone, events, checker, checks, errors, messages, overlaps, broken>>

\* DELETE waits for a check that has updated the row.
DeleteRule(r) ==
  /\ r \in rules
  /\ ~\E c \in Checkers : r \in checker[c].locks
  /\ rules' = rules \ {r}
  /\ gone' = gone \cup {r}
  /\ UNCHANGED <<clock, quote, events, checker, checks, errors, messages, overlaps, broken>>

Scrape(i) ==
  /\ \E v \in Quotes \cup {NoQuote} : quote' = [quote EXCEPT ![i] = v]
  /\ UNCHANGED <<clock, rules, gone, events, checker, checks, errors, messages, overlaps, broken>>

Elapse ==
  /\ clock < MaxClock
  /\ \A c \in Checkers : ~Running(c)
  /\ clock' = clock + 1
  /\ UNCHANGED <<quote, rules, gone, events, checker, checks, errors, messages, overlaps, broken>>

-----------------------------------------------------------------------------
(* The check.                                                              *)

Step(c, to) == checker' = [checker EXCEPT ![c] = to]

\* list_active_rules; without rules the check ends at once.
ListRules(c) ==
  /\ ~Running(c)
  /\ checks < MaxChecks
  /\ checks' = checks + 1
  /\ IF rules = {}
     THEN UNCHANGED <<checker, overlaps>>
     ELSE /\ Step(c, [CheckerIdle EXCEPT !.pc = "quotes", !.number = checks',
                                   !.listed = rules, !.todo = rules])
          /\ overlaps' = overlaps \cup
                         {<<checker[d].number, checks'>> : d \in {e \in Checkers : Running(e)}}
  /\ UNCHANGED <<clock, quote, rules, gone, events, errors, messages, broken>>

ReadQuotes(c) ==
  /\ checker[c].pc = "quotes"
  /\ Step(c, [checker[c] EXCEPT !.pc = "recent", !.seen = quote])
  /\ UNCHANGED <<clock, quote, rules, gone, events, checks, errors, messages, overlaps, broken>>

\* The rules that have fired since now - _DEDUP_WINDOW.
RecentRules == {e.rule : e \in {f \in events : f.at + Window >= clock}}

ReadRecent(c) ==
  /\ checker[c].pc = "recent"
  /\ Step(c, [checker[c] EXCEPT !.pc = "rules", !.recent = RecentRules])
  /\ UNCHANGED <<clock, quote, rules, gone, events, checks, errors, messages, overlaps, broken>>

\* _is_fired
Fired(r, v) ==
  /\ v # NoQuote
  /\ IF Above[r] THEN v >= Threshold[r] ELSE v =< Threshold[r]

FiredFor(c, r) == Fired(r, checker[c].seen[RuleOn[r]])

\* The next rule, in whatever order the query returned them.  One that has
\* not fired is passed over.
PassOver(c, r) ==
  /\ checker[c].pc = "rules"
  /\ r \in checker[c].todo
  /\ ~FiredFor(c, r)
  /\ Step(c, [checker[c] EXCEPT !.todo = @ \ {r}])
  /\ UNCHANGED <<clock, quote, rules, gone, events, checks, errors, messages, overlaps, broken>>

\* A mistake: the recent events are not asked for.
MutAlwaysNew(c, r) == TRUE

IsNew(c, r) == r \notin checker[c].recent

\* A rule that has fired; record_event unless it has a recent event.
NextFired(c, r) ==
  /\ checker[c].pc = "rules"
  /\ r \in checker[c].todo
  /\ FiredFor(c, r)
  /\ Step(c, [checker[c] EXCEPT
       !.pc = "mark", !.current = {r},
       !.added = IF IsNew(c, r)
                 THEN @ \cup {[rule |-> r, at |-> clock, check |-> checker[c].number,
                               delivered |-> FALSE]}
                 ELSE @])
  /\ UNCHANGED <<clock, quote, rules, gone, events, checks, errors, messages, overlaps, broken>>

\* mark_rule_triggered waits for another check that has updated the row (a
\* row deleted meanwhile is not there to be locked).  A rule with a recent
\* event is then done.
MarkTriggered(c, r) ==
  /\ checker[c].pc = "mark"
  /\ r \in checker[c].current
  /\ ~Held(c, r)
  /\ Step(c, IF r \in checker[c].recent
              THEN [checker[c] EXCEPT !.pc = "rules", !.current = {}, !.todo = @ \ {r},
                                      !.locks = @ \cup ({r} \cap rules)]
              ELSE [checker[c] EXCEPT !.pc = "send", !.locks = @ \cup ({r} \cap rules)])
  /\ UNCHANGED <<clock, quote, rules, gone, events, checks, errors, messages, overlaps, broken>>

\* deliver_telegram, which reports every failure as FALSE, the flag, and the
\* webhook event, which cannot fail either.
SendMessage(c, r, ok) ==
  /\ checker[c].pc = "send"
  /\ r \in checker[c].current
  /\ messages' = IF ok THEN messages \cup {[rule |-> r, check |-> checker[c].number]} ELSE messages
  /\ Step(c, [checker[c] EXCEPT
       !.pc = "rules", !.current = {}, !.todo = @ \ {r},
       !.added = {IF e.rule = r THEN [e EXCEPT !.delivered = ok] ELSE e : e \in @}])
  /\ UNCHANGED <<clock, quote, rules, gone, events, checks, errors, overlaps, broken>>

CommitCheck(c) ==
  /\ checker[c].pc = "rules"
  /\ checker[c].todo = {}
  /\ events' = events \cup checker[c].added
  /\ Step(c, CheckerIdle)
  /\ UNCHANGED <<clock, quote, rules, gone, checks, errors, messages, overlaps, broken>>

RolledBack(c) ==
  /\ Step(c, CheckerIdle)
  /\ broken' = broken \cup {checker[c].number}
  /\ UNCHANGED <<clock, quote, rules, gone, events, checks, messages, overlaps>>

\* A database error or a process that stops: nothing of the check remains.
BreakOff(c) ==
  /\ Running(c)
  /\ errors < MaxErrors
  /\ errors' = errors + 1
  /\ RolledBack(c)

\* Rows taken in opposite orders: the database ends one of the two.
Waits(c, d) ==
  /\ checker[c].pc = "mark"
  /\ checker[c].current \cap checker[d].locks # {}

Victim(c) ==
  /\ \E d \in Checkers \ {c} : Waits(c, d) /\ Waits(d, c)
  /\ RolledBack(c)
  /\ UNCHANGED errors

AlertNext ==
  \/ \E r \in Rules : CreateRule(r) \/ DeleteRule(r)
  \/ \E i \in Instruments : Scrape(i)
  \/ Elapse
  \/ \E c \in Checkers :
       \/ ListRules(c) \/ ReadQuotes(c) \/ ReadRecent(c)
       \/ CommitCheck(c) \/ BreakOff(c) \/ Victim(c)
       \/ \E r \in Rules :
            \/ PassOver(c, r) \/ NextFired(c, r) \/ MarkTriggered(c, r)
            \/ \E ok \in BOOLEAN : SendMessage(c, r, ok)

AlertSpec == AlertInit /\ [][AlertNext]_alertVars

-----------------------------------------------------------------------------
(* Properties.                                                             *)

\* Two events of one rule within the window come only from two checks that
\* ran at the same time: neither could see the other's.
QuietUnlessOverlapping ==
  \A e, f \in events :
    \/ e.check = f.check
    \/ e.rule # f.rule
    \/ f.at > e.at + Window \/ e.at > f.at + Window
    \/ <<e.check, f.check>> \in overlaps \/ <<f.check, e.check>> \in overlaps

\* A message the user got is on record: its event is committed or about to
\* be, and says that it was delivered.  Only a check that was rolled back
\* leaves messages without an event.
MessagesOnRecord ==
  \A m \in messages :
    \/ m.check \in broken
    \/ \E e \in events \cup UNION {checker[c].added : c \in Checkers} :
         e.rule = m.rule /\ e.check = m.check /\ e.delivered

\* A check that commits has missed nothing: every rule it listed whose value
\* it saw across the threshold has an event not older than the window.
MissesNothing ==
  \A c \in Checkers, r \in Rules :
    (r \in checker[c].listed /\ FiredFor(c, r) /\ CommitCheck(c))
      => \E e \in events' : e.rule = r /\ e.at + Window >= clock

\* What the user was told and what the feed shows agree, nobody is told twice
\* in a window by checks that followed each other, and nobody is left untold,
\* although rules come and go, checks fail half way, and quotes move while a
\* check is running.
AlertsSound ==
  [][QuietUnlessOverlapping' /\ MessagesOnRecord' /\ MissesNothing]_alertVars
=============================================================================

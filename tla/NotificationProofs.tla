-------------------------- MODULE NotificationProofs --------------------------
(***************************************************************************)
(* What users and partners are told, for any number of rules, checks,      *)
(* hooks, events and deliveries: the alerts of AlertChecks, the webhooks   *)
(* of Partners, and the pages and answers of the Integration API.          *)
(***************************************************************************)
EXTENDS AlertChecks, Partners, Integration, SnapshotCache, FiniteSetTheorems, WellFoundedInduction, TLAPS

-----------------------------------------------------------------------------
(* Alerts: the inductive invariant.                                        *)
Check == [pc : {"idle", "quotes", "recent", "rules", "mark", "send"}, number : Nat,
          listed : SUBSET Rules, todo : SUBSET Rules,
          seen : [Instruments -> Quotes \cup {NoQuote}], recent : SUBSET Rules,
          current : SUBSET Rules, added : SUBSET Event, locks : SUBSET Rules]

AlertTypeOK ==
  /\ clock \in Nat /\ checks \in Nat
  /\ quote \in [Instruments -> Quotes \cup {NoQuote}]
  /\ rules \subseteq Rules
  /\ events \subseteq Event
  /\ checker \in [Checkers -> Check]
  /\ messages \subseteq [rule : Rules, check : Nat]

Deciding(c) == checker[c].pc \in {"rules", "mark", "send"}

Overlapped(i, j) == <<i, j>> \in overlaps \/ <<j, i>> \in overlaps

InWindowNow(e) == e.at + Window >= clock

(* The events of a check that is under way are its own, of this moment,    *)
(* and about rules that had been quiet; what it is at, it still has to do, *)
(* and has an event for it unless there was one.                           *)
CheckInOrder(c) ==
  LET t == checker[c]
  IN /\ t.pc \in {"idle", "quotes", "recent"} => t.added = {}
     /\ t.pc \in {"quotes", "recent"} => t.todo = t.listed
     /\ \A e \in t.added : e.check = t.number /\ e.at = clock /\ e.rule \notin t.recent
     /\ t.pc \in {"mark", "send"} =>
          \A r \in t.current :
            /\ r \in t.todo /\ t.current = {r}
            /\ (t.pc = "mark" /\ r \in t.recent) \/ \E e \in t.added : e.rule = r
     /\ Running(c) => t.number \in 1 .. checks

(* A rule that is still to be looked at has had no message of this check.  *)
TodoUntold(c) ==
  Running(c) =>
    \A m \in messages : m.check = checker[c].number => m.rule \notin checker[c].todo

(* What a check decides by: the events of the window it does not know of   *)
(* were committed by checks it has overlapped, those it knows of are       *)
(* there, and every rule it has settled and that fired has one.            *)
DecidesRightly(c) ==
  LET t == checker[c]
  IN Deciding(c) =>
     /\ \A f \in events : InWindowNow(f) => f.rule \in t.recent \/ Overlapped(f.check, t.number)
     /\ \A r \in t.recent : \E e \in events : e.rule = r /\ InWindowNow(e)
     /\ \A r \in t.listed \ t.todo :
          FiredFor(c, r) => \E e \in events \cup t.added : e.rule = r /\ InWindowNow(e)

(* Checks under way at the same time are known to overlap.                 *)
RunningOverlap ==
  \A c, d \in Checkers :
    c # d /\ Running(c) /\ Running(d) =>
      /\ checker[c].number # checker[d].number
      /\ Overlapped(checker[c].number, checker[d].number)

PastOnly ==
  /\ \A m \in messages : m.check =< checks
  /\ \A e \in events : e.at =< clock

AlertInv ==
  /\ AlertTypeOK
  /\ \A c \in Checkers : CheckInOrder(c) /\ TodoUntold(c) /\ DecidesRightly(c)
  /\ RunningOverlap /\ PastOnly
  /\ QuietUnlessOverlapping /\ MessagesOnRecord

LEMMA AlertInitInv == AlertInit => AlertInv
<1> SUFFICES ASSUME AlertInit PROVE AlertInv
  OBVIOUS
<1>1. CheckerIdle \in Check
  BY DEF CheckerIdle, Check
<1>2. AlertTypeOK
  BY <1>1 DEF AlertInit, AlertTypeOK
<1>3. \A c \in Checkers : checker[c].pc = "idle" /\ checker[c].added = {}
  BY DEF AlertInit, CheckerIdle
<1>4. \A c \in Checkers : CheckInOrder(c) /\ TodoUntold(c) /\ DecidesRightly(c)
  BY <1>3 DEF CheckInOrder, TodoUntold, DecidesRightly, Deciding, Running
<1>5. RunningOverlap
  BY <1>3 DEF RunningOverlap, Running
<1>6. PastOnly /\ QuietUnlessOverlapping /\ MessagesOnRecord
  BY DEF AlertInit, PastOnly, QuietUnlessOverlapping, MessagesOnRecord
<1>7. QED
  BY <1>2, <1>4, <1>5, <1>6 DEF AlertInv

(* A check goes on by itself: what it looks at changes, and what it has    *)
(* established has to be shown for it alone.                               *)
LEMMA CheckGoesOn ==
    ASSUME AlertInv, NEW c \in Checkers, NEW t \in Check,
           checker' = [checker EXCEPT ![c] = t],
           UNCHANGED <<clock, quote, rules, events, checks, messages, overlaps, broken>>,
           Running(c), t.pc # "idle", t.number = checker[c].number,
           checker[c].added \subseteq t.added,
           CheckInOrder(c)', TodoUntold(c)', DecidesRightly(c)'
    PROVE  AlertInv'
<1>1. checker'[c] = t /\ \A d \in Checkers \ {c} : checker'[d] = checker[d]
  BY DEF AlertInv, AlertTypeOK
<1>2. AlertTypeOK'
  BY DEF AlertInv, AlertTypeOK
<1>3. \A d \in Checkers \ {c} : CheckInOrder(d)' /\ TodoUntold(d)' /\ DecidesRightly(d)'
  BY <1>1 DEF AlertInv, CheckInOrder, TodoUntold, DecidesRightly, Deciding, Running,
              FiredFor, Overlapped, InWindowNow
<1>4. RunningOverlap'
  BY <1>1 DEF AlertInv, RunningOverlap, Running, Overlapped
<1>5. PastOnly' /\ QuietUnlessOverlapping'
  BY DEF AlertInv, PastOnly, QuietUnlessOverlapping
<1>6. MessagesOnRecord'
  <2>1. \A d \in Checkers : checker[d].added \subseteq checker'[d].added
    BY <1>1
  <2>2. UNION {checker[d].added : d \in Checkers} \subseteq
        UNION {checker'[d].added : d \in Checkers}
    BY <2>1
  <2>3. QED
    BY <2>2 DEF AlertInv, MessagesOnRecord
<1>7. QED
  BY <1>2, <1>3, <1>4, <1>5, <1>6 DEF AlertInv

LEMMA ReadQuotesInv ==
    ASSUME AlertInv, NEW c \in Checkers, ReadQuotes(c)
    PROVE  AlertInv'
<1> DEFINE t == [checker[c] EXCEPT !.pc = "recent", !.seen = quote]
<1>1. checker[c] \in Check /\ checker[c].pc = "quotes"
  BY DEF AlertInv, AlertTypeOK, ReadQuotes
<1>2. /\ t \in Check /\ t.pc = "recent" /\ t.number = checker[c].number
      /\ t.added = checker[c].added /\ t.todo = checker[c].todo
      /\ t.listed = checker[c].listed
  BY <1>1 DEF Check, AlertInv, AlertTypeOK
<1>3. checker' = [checker EXCEPT ![c] = t]
  BY DEF ReadQuotes, Step
<1> HIDE DEF t
<1>4. checker'[c] = t
  BY <1>3 DEF AlertInv, AlertTypeOK
<1>5. CheckInOrder(c) /\ TodoUntold(c)
  BY DEF AlertInv
<1>6. CheckInOrder(c)' /\ TodoUntold(c)' /\ DecidesRightly(c)'
  BY <1>1, <1>2, <1>4, <1>5 DEF CheckInOrder, TodoUntold, DecidesRightly, Deciding,
                               Running, ReadQuotes
<1>7. Running(c) /\ t.pc # "idle"
      /\ UNCHANGED <<clock, quote, rules, events, checks, messages, overlaps, broken>>
  BY <1>1, <1>2 DEF Running, ReadQuotes
<1>8. QED
  BY <1>2, <1>3, <1>6, <1>7, CheckGoesOn

LEMMA ReadRecentInv ==
    ASSUME AlertInv, NEW c \in Checkers, ReadRecent(c)
    PROVE  AlertInv'
<1> DEFINE t == [checker[c] EXCEPT !.pc = "rules", !.recent = RecentRules]
<1>1. checker[c] \in Check /\ checker[c].pc = "recent" /\ events \subseteq Event
  BY DEF AlertInv, AlertTypeOK, ReadRecent
<1>2. \A r : r \in RecentRules <=> \E e \in events : e.rule = r /\ InWindowNow(e)
  BY DEF RecentRules, InWindowNow
<1>3. RecentRules \subseteq Rules
  BY <1>1, <1>2 DEF Event
<1>4. /\ t \in Check /\ t.pc = "rules" /\ t.number = checker[c].number
      /\ t.added = checker[c].added /\ t.todo = checker[c].todo
      /\ t.listed = checker[c].listed /\ t.recent = RecentRules
  BY <1>1, <1>3 DEF Check
<1>5. checker' = [checker EXCEPT ![c] = t]
  BY DEF ReadRecent, Step
<1> HIDE DEF t
<1>6. checker'[c] = t
  BY <1>5 DEF AlertInv, AlertTypeOK
<1>7. UNCHANGED <<clock, quote, rules, events, checks, messages, overlaps, broken>>
  BY DEF ReadRecent
<1>8. CheckInOrder(c) /\ TodoUntold(c)
  BY DEF AlertInv
<1>9. CheckInOrder(c)' /\ TodoUntold(c)'
  BY <1>1, <1>4, <1>6, <1>7, <1>8 DEF CheckInOrder, TodoUntold, Running
<1>10. DecidesRightly(c)'
  <2>1. t.todo = t.listed
    BY <1>1, <1>4, <1>8 DEF CheckInOrder
  <2>2. QED
    BY <1>2, <1>4, <1>6, <1>7, <2>1 DEF DecidesRightly, InWindowNow
<1>11. Running(c) /\ t.pc # "idle"
  BY <1>1, <1>4 DEF Running
<1>12. QED
  BY <1>4, <1>5, <1>7, <1>9, <1>10, <1>11, CheckGoesOn

LEMMA PassOverInv ==
    ASSUME AlertInv, NEW c \in Checkers, NEW r0 \in Rules, PassOver(c, r0)
    PROVE  AlertInv'
<1> DEFINE t == [checker[c] EXCEPT !.todo = @ \ {r0}]
<1>1. checker[c] \in Check /\ checker[c].pc = "rules"
  BY DEF AlertInv, AlertTypeOK, PassOver
<1>2. /\ t \in Check /\ t.pc = "rules" /\ t.number = checker[c].number
      /\ t.added = checker[c].added /\ t.todo = checker[c].todo \ {r0}
      /\ t.listed = checker[c].listed /\ t.recent = checker[c].recent
      /\ t.seen = checker[c].seen
  BY <1>1 DEF Check
<1>3. checker' = [checker EXCEPT ![c] = t]
  BY DEF PassOver, Step
<1> HIDE DEF t
<1>4. checker'[c] = t
  BY <1>3 DEF AlertInv, AlertTypeOK
<1>5. UNCHANGED <<clock, quote, rules, events, checks, messages, overlaps, broken>>
      /\ ~FiredFor(c, r0)
  BY DEF PassOver
<1>6. CheckInOrder(c) /\ TodoUntold(c) /\ DecidesRightly(c)
  BY DEF AlertInv
<1>7. CheckInOrder(c)' /\ TodoUntold(c)'
  BY <1>1, <1>2, <1>4, <1>5, <1>6 DEF CheckInOrder, TodoUntold, Running
<1>8. DecidesRightly(c)'
  BY <1>1, <1>2, <1>4, <1>5, <1>6 DEF DecidesRightly, Deciding, InWindowNow, Overlapped,
                                      FiredFor
<1>9. Running(c) /\ t.pc # "idle"
  BY <1>1, <1>2 DEF Running
<1>10. QED
  BY <1>2, <1>3, <1>5, <1>7, <1>8, <1>9, CheckGoesOn

LEMMA NextFiredInv ==
    ASSUME AlertInv, NEW c \in Checkers, NEW r0 \in Rules, NextFired(c, r0)
    PROVE  AlertInv'
<1>1. /\ checker[c] \in Check /\ checker[c].pc = "rules" /\ clock \in Nat
      /\ r0 \in checker[c].todo /\ checker[c].number \in Nat
      /\ checker[c].added \in SUBSET Event
  BY DEF AlertInv, AlertTypeOK, NextFired, Check
<1>2. PICK e0 \in Event :
        /\ e0 = [rule |-> r0, at |-> clock, check |-> checker[c].number, delivered |-> FALSE]
        /\ e0.rule = r0 /\ e0.at = clock /\ e0.check = checker[c].number
  <2>1. PICK n \in Nat : n = checker[c].number
    BY <1>1
  <2>2. [rule |-> r0, at |-> clock, check |-> n, delivered |-> FALSE] \in Event
    BY <1>1 DEF Event
  <2>3. QED
    BY <2>1, <2>2
<1>21. PICK more \in SUBSET Event :
         more = IF IsNew(c, r0) THEN checker[c].added \cup {e0} ELSE checker[c].added
  BY <1>1
<1> DEFINE t == [checker[c] EXCEPT !.pc = "mark", !.current = {r0}, !.added = more]
<1>3. /\ t \in Check /\ t.pc = "mark" /\ t.number = checker[c].number
      /\ t.added = more /\ t.todo = checker[c].todo /\ t.current = {r0}
      /\ t.listed = checker[c].listed /\ t.recent = checker[c].recent
      /\ t.seen = checker[c].seen
  BY <1>1 DEF Check
<1>4. checker' = [checker EXCEPT ![c] = t]
  BY <1>2, <1>21 DEF NextFired, Step
<1> HIDE DEF t
<1>5. checker'[c] = t
  BY <1>4 DEF AlertInv, AlertTypeOK
<1>6. UNCHANGED <<clock, quote, rules, events, checks, messages, overlaps, broken>>
  BY DEF NextFired
<1>7. CheckInOrder(c) /\ TodoUntold(c) /\ DecidesRightly(c)
  BY DEF AlertInv
<1>8. checker[c].added \subseteq more
  BY <1>21
<1>81. \A e \in more : e \in checker[c].added \/ (e = e0 /\ r0 \notin checker[c].recent)
  BY <1>21 DEF IsNew
<1>82. r0 \in checker[c].recent \/ \E e \in more : e.rule = r0
  BY <1>2, <1>21 DEF IsNew
<1>9. CheckInOrder(c)'
  <2>0. \A e \in checker[c].added :
           e.check = checker[c].number /\ e.at = clock /\ e.rule \notin checker[c].recent
    BY <1>7 DEF CheckInOrder
  <2>1. \A e \in t.added : e.check = t.number /\ e.at = clock /\ e.rule \notin t.recent
    <3>1. \A e \in more : e.check = checker[c].number /\ e.at = clock /\ e.rule \notin checker[c].recent
      BY <1>2, <2>0, <1>81
    <3>2. t.added = more /\ t.number = checker[c].number /\ t.recent = checker[c].recent
      BY <1>3
    <3>3. QED
      BY <3>1, <3>2
  <2>2. \A r \in t.current :
            /\ r \in t.todo /\ t.current = {r}
            /\ (t.pc = "mark" /\ r \in t.recent) \/ \E e \in t.added : e.rule = r
    BY <1>1, <1>3, <1>82
  <2>3. t.number \in 1 .. checks
    BY <1>1, <1>3, <1>7 DEF CheckInOrder, Running
  <2>4. QED
    BY <1>3, <1>5, <1>6, <2>1, <2>2, <2>3 DEF CheckInOrder
<1>10. TodoUntold(c)'
  BY <1>1, <1>3, <1>5, <1>6, <1>7 DEF TodoUntold, Running
<1>11. DecidesRightly(c)'
  BY <1>1, <1>3, <1>5, <1>6, <1>7, <1>8 DEF DecidesRightly, Deciding, InWindowNow, Overlapped,
                                      FiredFor
<1>12. Running(c) /\ t.pc # "idle"
  BY <1>1, <1>3 DEF Running
<1>13. QED
  BY <1>3, <1>4, <1>6, <1>8, <1>9, <1>10, <1>11, <1>12, CheckGoesOn

LEMMA MarkTriggeredInv ==
    ASSUME AlertInv, NEW c \in Checkers, NEW r0 \in Rules, MarkTriggered(c, r0)
    PROVE  AlertInv'
<1> DEFINE lock == checker[c].locks \cup ({r0} \cap rules)
           done == [checker[c] EXCEPT !.pc = "rules", !.current = {}, !.todo = @ \ {r0},
                                      !.locks = lock]
           sends == [checker[c] EXCEPT !.pc = "send", !.locks = lock]
           t == IF r0 \in checker[c].recent THEN done ELSE sends
<1>1. /\ checker[c] \in Check /\ checker[c].pc = "mark"
      /\ r0 \in checker[c].current /\ rules \subseteq Rules
  BY DEF AlertInv, AlertTypeOK, MarkTriggered
<1>2. /\ t \in Check /\ t.number = checker[c].number
      /\ t.added = checker[c].added /\ t.listed = checker[c].listed
      /\ t.recent = checker[c].recent /\ t.seen = checker[c].seen
      /\ r0 \in checker[c].recent =>
           t.pc = "rules" /\ t.todo = checker[c].todo \ {r0}
      /\ r0 \notin checker[c].recent =>
           t.pc = "send" /\ t.todo = checker[c].todo /\ t.current = checker[c].current
  <2>1. lock \in SUBSET Rules
    BY <1>1 DEF Check
  <2> HIDE DEF lock
  <2>2. QED
    BY <1>1, <2>1 DEF Check
<1>3. checker' = [checker EXCEPT ![c] = t]
  BY DEF MarkTriggered, Step
<1> HIDE DEF t
<1>4. checker'[c] = t
  BY <1>3 DEF AlertInv, AlertTypeOK
<1>5. UNCHANGED <<clock, quote, rules, events, checks, messages, overlaps, broken>>
  BY DEF MarkTriggered
<1>6. CheckInOrder(c) /\ TodoUntold(c) /\ DecidesRightly(c)
  BY DEF AlertInv
<1>7. checker[c].current = {r0}
  BY <1>1, <1>6 DEF CheckInOrder
<1>8. CheckInOrder(c)'
  <2>1. /\ \A e \in t.added : e.check = t.number /\ e.at = clock /\ e.rule \notin t.recent
        /\ t.number \in 1 .. checks
    BY <1>1, <1>2, <1>6 DEF CheckInOrder, Running
  <2>2. t.pc = "send" => \A r \in t.current :
            /\ r \in t.todo /\ t.current = {r}
            /\ \E e \in t.added : e.rule = r
    BY <1>1, <1>2, <1>6, <1>7 DEF CheckInOrder
  <2>3. QED
    BY <1>2, <1>4, <1>5, <2>1, <2>2 DEF CheckInOrder
<1>9. TodoUntold(c)'
  BY <1>1, <1>2, <1>4, <1>5, <1>6 DEF TodoUntold, Running
<1>10. DecidesRightly(c)'
  BY <1>1, <1>2, <1>4, <1>5, <1>6 DEF DecidesRightly, Deciding, InWindowNow, Overlapped,
                                      FiredFor
<1>11. Running(c) /\ t.pc # "idle"
  BY <1>1, <1>2 DEF Running
<1>12. QED
  BY <1>2, <1>3, <1>5, <1>8, <1>9, <1>10, <1>11, CheckGoesOn

LEMMA SendMessageInv ==
    ASSUME AlertInv, NEW c \in Checkers, NEW r0 \in Rules, NEW ok \in BOOLEAN,
           SendMessage(c, r0, ok)
    PROVE  AlertInv'
<1>1. /\ checker[c] \in Check /\ checker[c].pc = "send" /\ r0 \in checker[c].current
      /\ checker[c].added \in SUBSET Event /\ checker[c].number \in Nat
  BY DEF AlertInv, AlertTypeOK, SendMessage, Check
<1>2. \A e \in Event : /\ [e EXCEPT !.delivered = ok] \in Event
                       /\ [e EXCEPT !.delivered = ok].rule = e.rule
                       /\ [e EXCEPT !.delivered = ok].at = e.at
                       /\ [e EXCEPT !.delivered = ok].check = e.check
                       /\ [e EXCEPT !.delivered = ok].delivered = ok
  BY DEF Event
<1>3. PICK now2 \in SUBSET Event :
        now2 = {IF e.rule = r0 THEN [e EXCEPT !.delivered = ok] ELSE e : e \in checker[c].added}
  BY <1>1, <1>2
<1>4. \A e \in now2 : \E f \in checker[c].added :
        e.rule = f.rule /\ e.at = f.at /\ e.check = f.check
  <2> SUFFICES ASSUME NEW e \in now2
               PROVE  \E f \in checker[c].added :
                        e.rule = f.rule /\ e.at = f.at /\ e.check = f.check
    OBVIOUS
  <2>1. PICK f \in checker[c].added :
          e = IF f.rule = r0 THEN [f EXCEPT !.delivered = ok] ELSE f
    BY <1>3
  <2>2. f \in Event
    BY <1>1
  <2>3. QED
    BY <1>2, <2>1, <2>2
<1>5. \A f \in checker[c].added : \E e \in now2 :
        /\ e.rule = f.rule /\ e.at = f.at /\ e.check = f.check
        /\ f.rule # r0 => e = f
        /\ f.rule = r0 => e.delivered = ok
  BY <1>1, <1>2, <1>3
<1> DEFINE t == [checker[c] EXCEPT !.pc = "rules", !.current = {}, !.todo = @ \ {r0},
                                   !.added = now2]
<1>6. /\ t \in Check /\ t.pc = "rules" /\ t.number = checker[c].number
      /\ t.added = now2 /\ t.todo = checker[c].todo \ {r0}
      /\ t.listed = checker[c].listed /\ t.recent = checker[c].recent
      /\ t.seen = checker[c].seen
  BY <1>1 DEF Check
<1>7. checker' = [checker EXCEPT ![c] = t]
  BY <1>3 DEF SendMessage, Step
<1> HIDE DEF t
<1>8. checker'[c] = t /\ \A d \in Checkers \ {c} : checker'[d] = checker[d]
  BY <1>7 DEF AlertInv, AlertTypeOK
<1>9. UNCHANGED <<clock, quote, rules, events, checks, overlaps, broken>>
  BY DEF SendMessage
<1>10. \A m \in messages' : m \in messages \/ (ok /\ m.rule = r0 /\ m.check = checker[c].number)
  BY DEF SendMessage
<1>11. messages' \subseteq [rule : Rules, check : Nat]
  BY <1>1 DEF SendMessage, AlertInv, AlertTypeOK
<1>12. /\ CheckInOrder(c) /\ TodoUntold(c) /\ DecidesRightly(c)
  BY DEF AlertInv
<1>13. r0 \in checker[c].todo /\ \E e \in checker[c].added : e.rule = r0
  BY <1>1, <1>12 DEF CheckInOrder
<1>14. AlertTypeOK'
  BY <1>6, <1>7, <1>9, <1>11 DEF AlertInv, AlertTypeOK
<1>15. CheckInOrder(c)'
  <2>1. \A e \in checker[c].added :
          e.check = checker[c].number /\ e.at = clock /\ e.rule \notin checker[c].recent
    BY <1>12 DEF CheckInOrder
  <2>2. \A e \in t.added : e.check = t.number /\ e.at = clock /\ e.rule \notin t.recent
    BY <1>4, <1>6, <2>1
  <2>3. t.number \in 1 .. checks
    BY <1>1, <1>6, <1>12 DEF CheckInOrder, Running
  <2>4. QED
    BY <1>6, <1>8, <1>9, <2>2, <2>3 DEF CheckInOrder
<1>16. TodoUntold(c)'
  BY <1>1, <1>6, <1>8, <1>10, <1>12 DEF TodoUntold, Running
<1>17. DecidesRightly(c)'
  <2>1. \A f \in events : InWindowNow(f) =>
          f.rule \in checker[c].recent \/ Overlapped(f.check, checker[c].number)
    BY <1>1, <1>12 DEF DecidesRightly, Deciding
  <2>2. \A r \in checker[c].recent : \E e \in events : e.rule = r /\ InWindowNow(e)
    BY <1>1, <1>12 DEF DecidesRightly, Deciding
  <2>3. ASSUME NEW r \in t.listed \ t.todo, FiredFor(c, r)
        PROVE  \E e \in events \cup t.added : e.rule = r /\ InWindowNow(e)
    <3>1. PICK e \in events \cup checker[c].added : e.rule = r /\ InWindowNow(e)
      <4>1. CASE r # r0
        BY <1>1, <1>6, <1>12, <2>3, <4>1 DEF DecidesRightly, Deciding
      <4>2. CASE r = r0
        <5>1. PICK e \in checker[c].added : e.rule = r0
          BY <1>13
        <5>2. e.at = clock /\ clock \in Nat /\ Window \in Nat
          BY <1>12, <5>1, AlertAssumption DEF CheckInOrder, AlertAssumption, AlertInv, AlertTypeOK
        <5>3. QED
          BY <4>2, <5>1, <5>2 DEF InWindowNow
      <4>3. QED
        BY <4>1, <4>2
    <3>2. CASE e \in events
      BY <3>1, <3>2
    <3>3. CASE e \in checker[c].added
      <4>1. PICK f \in now2 : f.rule = e.rule /\ f.at = e.at
        BY <1>5, <3>3
      <4>2. QED
        BY <1>6, <3>1, <4>1 DEF InWindowNow
    <3>4. QED
      BY <3>2, <3>3
  <2>4. \A r : FiredFor(c, r)' <=> FiredFor(c, r)
    BY <1>6, <1>8 DEF FiredFor
  <2>5. QED
    BY <1>6, <1>8, <1>9, <2>1, <2>2, <2>3, <2>4 DEF DecidesRightly, InWindowNow, Overlapped
<1>18. \A d \in Checkers \ {c} : CheckInOrder(d)' /\ DecidesRightly(d)'
  BY <1>8, <1>9 DEF AlertInv, CheckInOrder, DecidesRightly, Deciding, Running, FiredFor,
                    Overlapped, InWindowNow
<1>19. ASSUME NEW d \in Checkers \ {c} PROVE TodoUntold(d)'
  <2>1. Running(d) => checker[d].number # checker[c].number
    BY <1>1 DEF AlertInv, RunningOverlap, Running
  <2>2. TodoUntold(d)
    BY DEF AlertInv
  <2>3. QED
    BY <1>8, <1>10, <2>1, <2>2 DEF TodoUntold, Running
<1>20. RunningOverlap'
  BY <1>1, <1>6, <1>8, <1>9 DEF AlertInv, RunningOverlap, Running, Overlapped
<1>21. PastOnly'
  <2>1. checker[c].number =< checks
    BY <1>1, <1>12 DEF CheckInOrder, Running
  <2>2. QED
    BY <1>9, <1>10, <2>1 DEF AlertInv, PastOnly
<1>22. QuietUnlessOverlapping'
  BY <1>9 DEF AlertInv, QuietUnlessOverlapping
<1>23. MessagesOnRecord'
  <2> DEFINE On(m, e) == e.rule = m.rule /\ e.check = m.check /\ e.delivered
  <2>1. \A d \in Checkers : \A e \in checker'[d].added :
          e \in UNION {checker'[x].added : x \in Checkers}
    OBVIOUS
  <2>2. ASSUME NEW m \in messages, m.check \notin broken
        PROVE  \E e \in events \cup UNION {checker'[x].added : x \in Checkers} : On(m, e)
    <3>1. \E e \in events \cup UNION {checker[x].added : x \in Checkers} : On(m, e)
      BY <2>2 DEF AlertInv, MessagesOnRecord
    <3>2. CASE \E e \in events : On(m, e)
      BY <3>2
    <3>3. CASE \E d \in Checkers : \E e \in checker[d].added : On(m, e)
      <4>1. PICK d \in Checkers : \E e \in checker[d].added : On(m, e)
        BY <3>3
      <4>2. PICK e \in checker[d].added : On(m, e)
        BY <4>1
      <4>3. CASE d # c
        BY <1>8, <2>1, <4>2, <4>3
      <4>4. CASE d = c
        <5>1. e.check = checker[c].number
          BY <1>12, <4>2, <4>4 DEF CheckInOrder
        <5>2. m.rule # r0
          BY <1>1, <1>12, <1>13, <4>2, <5>1 DEF TodoUntold, Running
        <5>3. e \in now2
          BY <1>5, <4>2, <4>4, <5>2
        <5>4. e \in checker'[c].added
          BY <1>6, <1>8, <5>3
        <5>5. QED
          BY <2>1, <4>2, <5>4
      <4>5. QED
        BY <4>3, <4>4
    <3>4. QED
      BY <3>1, <3>2, <3>3
  <2>3. ASSUME NEW m \in messages', m \notin messages
        PROVE  \E e \in UNION {checker'[x].added : x \in Checkers} : On(m, e)
    <3>1. ok /\ m.rule = r0 /\ m.check = checker[c].number
      BY <1>10, <2>3
    <3>2. PICK f \in checker[c].added : f.rule = r0
      BY <1>13
    <3>3. PICK e \in now2 : e.rule = r0 /\ e.check = f.check /\ e.delivered = ok
      BY <1>5, <3>2
    <3>4. f.check = checker[c].number
      BY <1>12, <3>2 DEF CheckInOrder
    <3>5. e \in checker'[c].added
      BY <1>6, <1>8, <3>3
    <3>6. QED
      BY <2>1, <3>1, <3>3, <3>4, <3>5
  <2>4. QED
    BY <1>9, <2>2, <2>3 DEF MessagesOnRecord
<1>24. QED
  BY <1>14, <1>15, <1>16, <1>17, <1>18, <1>19, <1>20, <1>21, <1>22, <1>23 DEF AlertInv

(* A new check overlaps all that are under way.                            *)
LEMMA ListRulesInv ==
    ASSUME AlertInv, NEW c \in Checkers, ListRules(c)
    PROVE  AlertInv'
<1>1. /\ ~Running(c) /\ checks' = checks + 1 /\ checks \in Nat /\ rules \subseteq Rules
      /\ UNCHANGED <<clock, quote, rules, events, messages, broken>>
  BY DEF AlertInv, AlertTypeOK, ListRules
<1>2. CASE rules = {}
  <2>1. UNCHANGED <<checker, overlaps>>
    BY <1>2 DEF ListRules
  <2>2. AlertTypeOK'
    BY <1>1, <2>1 DEF AlertInv, AlertTypeOK
  <2>3. ASSUME NEW d \in Checkers
        PROVE  CheckInOrder(d)' /\ TodoUntold(d)' /\ DecidesRightly(d)'
    <3>1. CheckInOrder(d) /\ TodoUntold(d) /\ DecidesRightly(d)
      BY DEF AlertInv
    <3>2. Running(d)' => checker'[d].number \in 1 .. checks'
      BY <1>1, <2>1, <3>1 DEF CheckInOrder, Running
    <3>3. CheckInOrder(d)'
      BY <1>1, <2>1, <3>1, <3>2 DEF CheckInOrder, Running
    <3>4. QED
      BY <1>1, <2>1, <3>1, <3>3 DEF TodoUntold, DecidesRightly, Deciding, Running,
         FiredFor, Overlapped, InWindowNow
  <2>4. RunningOverlap' /\ QuietUnlessOverlapping' /\ MessagesOnRecord'
    BY <1>1, <2>1 DEF AlertInv, RunningOverlap, Running, Overlapped,
       QuietUnlessOverlapping, MessagesOnRecord
  <2>5. PastOnly'
    BY <1>1 DEF AlertInv, AlertTypeOK, PastOnly
  <2>6. QED
    BY <2>2, <2>3, <2>4, <2>5 DEF AlertInv
<1>3. CASE rules # {}
  <2>0. PICK n \in Nat : n = checks' /\ n = checks + 1
    BY <1>1
  <2> DEFINE t == [CheckerIdle EXCEPT !.pc = "quotes", !.number = n,
                                      !.listed = rules, !.todo = rules]
  <2>1. /\ t \in Check /\ t.pc = "quotes" /\ t.number = checks + 1
        /\ t.added = {} /\ t.listed = rules /\ t.todo = rules
    BY <1>1, <2>0 DEF CheckerIdle, Check
  <2>2. checker' = [checker EXCEPT ![c] = t]
    BY <1>3, <2>0 DEF ListRules, Step
  <2> HIDE DEF t
  <2>3. checker'[c] = t /\ \A d \in Checkers \ {c} : checker'[d] = checker[d]
    BY <2>2 DEF AlertInv, AlertTypeOK
  <2>4. overlaps \subseteq overlaps'
    BY <1>3 DEF ListRules
  <2>5. \A d \in Checkers : Running(d) => <<checker[d].number, checks + 1>> \in overlaps'
    BY <1>1, <1>3 DEF ListRules
  <2>6. AlertTypeOK'
    BY <1>1, <2>1, <2>2 DEF AlertInv, AlertTypeOK
  <2>7. \A d \in Checkers : Running(d) => checker[d].number \in 1 .. checks
    BY DEF AlertInv, CheckInOrder
  <2>8. ASSUME NEW d \in Checkers \ {c}
        PROVE  CheckInOrder(d)' /\ TodoUntold(d)' /\ DecidesRightly(d)'
    <3>1. CheckInOrder(d) /\ TodoUntold(d) /\ DecidesRightly(d)
      BY DEF AlertInv
    <3>2. Running(d)' => checker'[d].number \in 1 .. checks'
      BY <1>1, <2>3, <2>7 DEF Running
    <3>3. CheckInOrder(d)'
      BY <1>1, <2>3, <3>1, <3>2 DEF CheckInOrder, Running
    <3>4. TodoUntold(d)'
      BY <1>1, <2>3, <3>1 DEF TodoUntold, Running
    <3>5. DecidesRightly(d)'
      BY <1>1, <2>3, <2>4, <3>1 DEF DecidesRightly, Deciding,
         FiredFor, Overlapped, InWindowNow
    <3>6. QED
      BY <3>3, <3>4, <3>5
  <2>9. CheckInOrder(c)' /\ DecidesRightly(c)'
    BY <1>1, <2>1, <2>3 DEF CheckInOrder, DecidesRightly, Deciding, Running
  <2>10. TodoUntold(c)'
    <3>1. \A m \in messages : m.check \in Nat /\ m.check =< checks
      BY DEF AlertInv, AlertTypeOK, PastOnly
    <3>2. QED
      BY <1>1, <2>1, <2>3, <3>1 DEF TodoUntold
  <2>11. RunningOverlap'
    <3> SUFFICES ASSUME NEW a \in Checkers, NEW b \in Checkers, a # b,
                        Running(a)', Running(b)'
                 PROVE  /\ checker'[a].number # checker'[b].number
                        /\ Overlapped(checker[a].number, checker[b].number)'
      BY DEF RunningOverlap
    <3>1. CASE a # c /\ b # c
      BY <2>3, <2>4, <3>1 DEF AlertInv, RunningOverlap, Running, Overlapped
    <3>2. CASE a = c
      <4>1. Running(b) /\ checker'[b] = checker[b] /\ checker'[a].number = checks + 1
        BY <2>1, <2>3, <3>2 DEF Running
      <4>2. QED
        BY <1>1, <2>5, <2>7, <4>1 DEF Overlapped
    <3>3. CASE b = c
      <4>1. Running(a) /\ checker'[a] = checker[a] /\ checker'[b].number = checks + 1
        BY <2>1, <2>3, <3>3 DEF Running
      <4>2. QED
        BY <1>1, <2>5, <2>7, <4>1 DEF Overlapped
    <3>4. QED
      BY <3>1, <3>2, <3>3
  <2>12. PastOnly'
    BY <1>1 DEF AlertInv, AlertTypeOK, PastOnly
  <2>13. QuietUnlessOverlapping'
    BY <1>1, <2>4 DEF AlertInv, QuietUnlessOverlapping
  <2>14. MessagesOnRecord'
    <3>1. checker[c].added = {}
      BY <1>1 DEF AlertInv, CheckInOrder, Running
    <3>2. \A d \in Checkers : checker[d].added \subseteq checker'[d].added
      BY <2>3, <3>1
    <3>3. UNION {checker[d].added : d \in Checkers} \subseteq
          UNION {checker'[d].added : d \in Checkers}
      BY <3>2
    <3>4. QED
      BY <1>1, <3>3 DEF AlertInv, MessagesOnRecord
  <2>15. QED
    BY <2>6, <2>8, <2>9, <2>10, <2>11, <2>12, <2>13, <2>14 DEF AlertInv
<1>4. QED
  BY <1>2, <1>3

(* What a check committed is on record, and every check under way has      *)
(* overlapped it.                                                          *)
LEMMA CommitCheckInv ==
    ASSUME AlertInv, NEW c \in Checkers, CommitCheck(c)
    PROVE  AlertInv'
<1> DEFINE t == checker[c]
<1>1. /\ t \in Check /\ t.pc = "rules" /\ t.added \in SUBSET Event /\ t.number \in Nat
      /\ clock \in Nat /\ Window \in Nat
  BY AlertAssumption DEF AlertInv, AlertTypeOK, CommitCheck, Check, AlertAssumption
<1>2. /\ checker' = [checker EXCEPT ![c] = CheckerIdle] /\ events' = events \cup t.added
      /\ UNCHANGED <<clock, quote, rules, checks, messages, overlaps, broken>>
  BY DEF CommitCheck, Step
<1>3. CheckerIdle \in Check /\ CheckerIdle.pc = "idle" /\ CheckerIdle.added = {}
  BY DEF CheckerIdle, Check
<1>4. /\ checker'[c].pc = "idle" /\ checker'[c].added = {}
      /\ \A d \in Checkers \ {c} : checker'[d] = checker[d]
  BY <1>2, <1>3 DEF AlertInv, AlertTypeOK
<1>5. CheckInOrder(c) /\ DecidesRightly(c)
  BY DEF AlertInv
<1>6. \A e \in t.added : e.check = t.number /\ e.at = clock /\ e.rule \notin t.recent
  BY <1>5 DEF CheckInOrder
<1>7. AlertTypeOK'
  BY <1>1, <1>2, <1>3 DEF AlertInv, AlertTypeOK
<1>8. CheckInOrder(c)' /\ TodoUntold(c)' /\ DecidesRightly(c)'
  BY <1>4 DEF CheckInOrder, TodoUntold, DecidesRightly, Deciding, Running
<1>9. ASSUME NEW d \in Checkers \ {c}
      PROVE  CheckInOrder(d)' /\ TodoUntold(d)' /\ DecidesRightly(d)'
  <2>1. CheckInOrder(d) /\ TodoUntold(d) /\ DecidesRightly(d)
    BY DEF AlertInv
  <2>2. CheckInOrder(d)' /\ TodoUntold(d)'
    BY <1>2, <1>4, <2>1 DEF CheckInOrder, TodoUntold, Running
  <2>3. DecidesRightly(d)'
    <3> SUFFICES ASSUME Deciding(d) PROVE DecidesRightly(d)'
      BY <1>4 DEF DecidesRightly, Deciding
    <3>1. Overlapped(t.number, checker[d].number)
      BY <1>1 DEF AlertInv, RunningOverlap, Running, Deciding, Overlapped
    <3>2. \A f \in events' : InWindowNow(f) =>
            f.rule \in checker[d].recent \/ Overlapped(f.check, checker[d].number)
      BY <1>2, <1>6, <2>1, <3>1 DEF DecidesRightly
    <3>3. \A r \in checker[d].recent : \E e \in events' : e.rule = r /\ InWindowNow(e)
      BY <1>2, <2>1 DEF DecidesRightly
    <3>4. \A r \in checker[d].listed \ checker[d].todo : FiredFor(d, r) =>
            \E e \in events' \cup checker[d].added : e.rule = r /\ InWindowNow(e)
      BY <1>2, <2>1 DEF DecidesRightly
    <3>5. QED
      BY <1>2, <1>4, <3>2, <3>3, <3>4
         DEF DecidesRightly, InWindowNow, Overlapped, FiredFor
  <2>4. QED
    BY <2>2, <2>3
<1>10. RunningOverlap'
  BY <1>2, <1>4 DEF AlertInv, RunningOverlap, Running, Overlapped
<1>11. PastOnly'
  <2>1. \A e \in events' : e.at =< clock
    BY <1>1, <1>2, <1>6 DEF AlertInv, PastOnly
  <2>2. QED
    BY <1>2, <2>1 DEF AlertInv, PastOnly
<1>12. QuietUnlessOverlapping'
  <2> DEFINE Apart(e, f) ==
        \/ e.check = f.check
        \/ e.rule # f.rule
        \/ f.at > e.at + Window \/ e.at > f.at + Window
        \/ <<e.check, f.check>> \in overlaps \/ <<f.check, e.check>> \in overlaps
  <2>1. ASSUME NEW e \in t.added, NEW f \in events PROVE Apart(e, f) /\ Apart(f, e)
    <3>1. e.check = t.number /\ e.at = clock /\ e.rule \notin t.recent /\ f.at \in Nat
      BY <1>6 DEF AlertInv, AlertTypeOK, Event
    <3>2. CASE ~InWindowNow(f)
      BY <1>1, <3>1, <3>2 DEF InWindowNow
    <3>3. CASE InWindowNow(f)
      <4>1. f.rule \in t.recent \/ Overlapped(f.check, t.number)
        BY <1>1, <1>5, <3>3 DEF DecidesRightly, Deciding
      <4>2. QED
        BY <3>1, <4>1 DEF Overlapped
    <3>4. QED
      BY <3>2, <3>3
  <2>2. \A e, f \in t.added : Apart(e, f)
    BY <1>6
  <2>3. \A e, f \in events : Apart(e, f)
    BY DEF AlertInv, QuietUnlessOverlapping
  <2>4. \A e, f \in events' : Apart(e, f)
    BY <1>2, <2>1, <2>2, <2>3
  <2>5. QED
    BY <1>2, <2>4 DEF QuietUnlessOverlapping
<1>13. MessagesOnRecord'
  <2>1. events \cup UNION {checker[d].added : d \in Checkers}
          \subseteq events' \cup UNION {checker'[d].added : d \in Checkers}
    <3>1. ASSUME NEW d \in Checkers, NEW e \in checker[d].added
          PROVE  e \in events' \cup UNION {checker'[x].added : x \in Checkers}
      BY <1>2, <1>4, <3>1
    <3>2. QED
      BY <1>2, <3>1
  <2>2. QED
    BY <1>2, <2>1 DEF AlertInv, MessagesOnRecord
<1>14. QED
  BY <1>7, <1>8, <1>9, <1>10, <1>11, <1>12, <1>13 DEF AlertInv

(* A check that is rolled back takes its events with it; its messages stay *)
(* and are counted as broken.                                              *)
LEMMA RolledBackInv ==
    ASSUME AlertInv, NEW c \in Checkers, RolledBack(c)
    PROVE  AlertInv'
<1>1. /\ checker' = [checker EXCEPT ![c] = CheckerIdle]
      /\ broken' = broken \cup {checker[c].number}
      /\ UNCHANGED <<clock, quote, rules, events, checks, messages, overlaps>>
  BY DEF RolledBack, Step
<1>2. CheckerIdle \in Check /\ CheckerIdle.pc = "idle" /\ CheckerIdle.added = {}
  BY DEF CheckerIdle, Check
<1>3. /\ checker'[c].pc = "idle" /\ checker'[c].added = {}
      /\ \A d \in Checkers \ {c} : checker'[d] = checker[d]
  BY <1>1, <1>2 DEF AlertInv, AlertTypeOK
<1>4. AlertTypeOK'
  BY <1>1, <1>2 DEF AlertInv, AlertTypeOK
<1>5. CheckInOrder(c)' /\ TodoUntold(c)' /\ DecidesRightly(c)'
  BY <1>3 DEF CheckInOrder, TodoUntold, DecidesRightly, Deciding, Running
<1>6. \A d \in Checkers \ {c} : CheckInOrder(d)' /\ TodoUntold(d)' /\ DecidesRightly(d)'
  BY <1>1, <1>3 DEF AlertInv, CheckInOrder, TodoUntold, DecidesRightly, Deciding, Running,
                    FiredFor, Overlapped, InWindowNow
<1>7. RunningOverlap'
  BY <1>1, <1>3 DEF AlertInv, RunningOverlap, Running, Overlapped
<1>8. PastOnly' /\ QuietUnlessOverlapping'
  BY <1>1 DEF AlertInv, PastOnly, QuietUnlessOverlapping
<1>9. MessagesOnRecord'
  <2> SUFFICES ASSUME NEW m \in messages, m.check \notin broken'
               PROVE  \E e \in events \cup UNION {checker'[x].added : x \in Checkers} :
                        e.rule = m.rule /\ e.check = m.check /\ e.delivered
    BY <1>1 DEF MessagesOnRecord
  <2>1. PICK e \in events \cup UNION {checker[x].added : x \in Checkers} :
          e.rule = m.rule /\ e.check = m.check /\ e.delivered
    BY <1>1 DEF AlertInv, MessagesOnRecord
  <2>2. e \notin checker[c].added
    BY <1>1, <2>1 DEF AlertInv, CheckInOrder
  <2>3. e \in events \cup UNION {checker'[x].added : x \in Checkers}
    BY <1>3, <2>1, <2>2
  <2>4. QED
    BY <2>1, <2>3
<1>10. QED
  BY <1>4, <1>5, <1>6, <1>7, <1>8, <1>9 DEF AlertInv

(* The world around the checks: rules, quotes and the clock, which does    *)
(* not move while a check is under way.                                    *)
LEMMA AlertWorldInv ==
    ASSUME AlertInv,
           \/ \E r \in Rules : CreateRule(r) \/ DeleteRule(r)
           \/ \E i \in Instruments : Scrape(i)
           \/ Elapse \/ UNCHANGED alertVars
    PROVE  AlertInv'
<1>1. UNCHANGED <<events, checker, checks, messages, overlaps, broken>>
  BY DEF CreateRule, DeleteRule, Scrape, Elapse, alertVars
<1>2. clock' = clock \/ (clock' = clock + 1 /\ \A c \in Checkers : ~Running(c))
  BY DEF CreateRule, DeleteRule, Scrape, Elapse, alertVars
<1>3. AlertTypeOK'
  <2>1. clock' \in Nat
    BY <1>2 DEF AlertInv, AlertTypeOK
  <2>2. rules' \subseteq Rules
    BY DEF AlertInv, AlertTypeOK, CreateRule, DeleteRule, Scrape, Elapse, alertVars
  <2>3. quote' \in [Instruments -> Quotes \cup {NoQuote}]
    BY DEF AlertInv, AlertTypeOK, CreateRule, DeleteRule, Scrape, Elapse, alertVars
  <2>4. QED
    BY <1>1, <2>1, <2>2, <2>3 DEF AlertInv, AlertTypeOK
<1>4. ASSUME NEW c \in Checkers
      PROVE  CheckInOrder(c)' /\ TodoUntold(c)' /\ DecidesRightly(c)'
  <2>1. CheckInOrder(c) /\ TodoUntold(c) /\ DecidesRightly(c)
    BY DEF AlertInv
  <2>2. CASE clock' = clock
    BY <1>1, <2>1, <2>2 DEF CheckInOrder, TodoUntold, DecidesRightly, Deciding, Running,
       FiredFor, Overlapped, InWindowNow
  <2>3. CASE ~Running(c)
    BY <1>1, <2>1, <2>3 DEF CheckInOrder, TodoUntold, DecidesRightly, Deciding, Running
  <2>4. QED
    BY <1>2, <2>2, <2>3
<1>5. RunningOverlap' /\ QuietUnlessOverlapping' /\ MessagesOnRecord'
  BY <1>1 DEF AlertInv, RunningOverlap, Running, Overlapped,
     QuietUnlessOverlapping, MessagesOnRecord
<1>6. PastOnly'
  <2>1. \A e \in events : e.at \in Nat /\ e.at =< clock
    BY DEF AlertInv, AlertTypeOK, PastOnly, Event
  <2>2. clock \in Nat
    BY DEF AlertInv, AlertTypeOK
  <2>3. QED
    BY <1>1, <1>2, <2>1, <2>2 DEF AlertInv, PastOnly
<1>7. QED
  BY <1>3, <1>4, <1>5, <1>6 DEF AlertInv

LEMMA AlertStepInv == AlertInv /\ [AlertNext]_alertVars => AlertInv'
<1> SUFFICES ASSUME AlertInv, [AlertNext]_alertVars PROVE AlertInv'
  OBVIOUS
<1>1. CASE \/ \E r \in Rules : CreateRule(r) \/ DeleteRule(r)
           \/ \E i \in Instruments : Scrape(i)
           \/ Elapse \/ UNCHANGED alertVars
  BY <1>1, AlertWorldInv
<1>2. ASSUME NEW c \in Checkers, ListRules(c) \/ ReadQuotes(c) \/ ReadRecent(c) \/ CommitCheck(c)
      PROVE  AlertInv'
  BY <1>2, ListRulesInv, ReadQuotesInv, ReadRecentInv, CommitCheckInv
<1>3. ASSUME NEW c \in Checkers, BreakOff(c) \/ Victim(c) PROVE AlertInv'
  <2>1. RolledBack(c)
    BY <1>3 DEF BreakOff, Victim
  <2>2. QED
    BY <2>1, RolledBackInv
<1>4. ASSUME NEW c \in Checkers, NEW r \in Rules,
             \/ PassOver(c, r) \/ NextFired(c, r) \/ MarkTriggered(c, r)
             \/ \E ok \in BOOLEAN : SendMessage(c, r, ok)
      PROVE  AlertInv'
  BY <1>4, PassOverInv, NextFiredInv, MarkTriggeredInv, SendMessageInv
<1>5. QED
  BY <1>1, <1>2, <1>3, <1>4 DEF AlertNext

LEMMA AlertInvariance == AlertSpec => []AlertInv
BY AlertInitInv, AlertStepInv, PTL DEF AlertSpec

(* A check that commits has missed no rule that fired, events of one rule  *)
(* in one window come only from overlapping checks, and what a user was    *)
(* told is on record unless the check was rolled back: for any rules,      *)
(* instruments, window and number of checks.                               *)
THEOREM AlertsAreSound == AlertSpec => AlertsSound
<1> DEFINE Sound == QuietUnlessOverlapping' /\ MessagesOnRecord' /\ MissesNothing
<1>1. AlertInv /\ AlertInv' /\ [AlertNext]_alertVars => [Sound]_alertVars
  <2> SUFFICES ASSUME AlertInv, AlertInv' PROVE Sound
    OBVIOUS
  <2>1. QuietUnlessOverlapping' /\ MessagesOnRecord'
    BY DEF AlertInv
  <2>2. ASSUME NEW c \in Checkers, NEW r \in Rules,
               r \in checker[c].listed, FiredFor(c, r), CommitCheck(c)
        PROVE  \E e \in events' : e.rule = r /\ e.at + Window >= clock
    <3>1. /\ checker[c].pc = "rules" /\ checker[c].todo = {}
          /\ events' = events \cup checker[c].added
      BY <2>2 DEF CommitCheck
    <3>2. \E e \in events \cup checker[c].added : e.rule = r /\ InWindowNow(e)
      BY <2>2, <3>1 DEF AlertInv, DecidesRightly, Deciding
    <3>3. QED
      BY <3>1, <3>2 DEF InWindowNow
  <2>3. QED
    BY <2>1, <2>2 DEF MissesNothing
<1>2. QED
  BY <1>1, AlertInvariance, PTL DEF AlertSpec, AlertsSound

-----------------------------------------------------------------------------
(* Partners: the invariant of the keys.  A request at work has a key; if   *)
(* the key has been revoked, the request was authenticated before.         *)
CallState == [pc : {"idle", "work"}, key : PartnerKeys \cup {"none"}, stale : BOOLEAN]

KeysInv ==
  /\ keyRow \in [PartnerKeys -> {"none", "partner", "trial", "revoked"}]
  /\ partnerCall \in [PartnerCalls -> CallState]
  /\ \A c \in PartnerCalls : partnerCall[c].pc = "work" =>
       /\ partnerCall[c].key \in PartnerKeys
       /\ keyRow[partnerCall[c].key] = "revoked" => partnerCall[c].stale
  /\ \A a \in answered : a.stale

(* The invariant of the hooks.                                             *)
HookState == [state : {"unused", "live", "deleted"}, key : PartnerKeys \cup {"none"},
              events : SUBSET EventTypes, error : BOOLEAN, delivered : Nat]

DeliveryState ==
  [pc : {"resolve", "post", "unsent", "load", "store", "done", "lost"},
   ok : BOOLEAN, seenError : BOOLEAN]

HooksTypeOK ==
  /\ hookRow \in [Hooks -> HookState]
  /\ emitted \in Seq([type : EventTypes, to : SUBSET Hooks])
  /\ DOMAIN delivery \subseteq (1 .. Len(emitted)) \X Hooks
  /\ delivery \in [DOMAIN delivery -> DeliveryState]
  /\ received \subseteq DOMAIN delivery
  /\ recorded \subseteq DOMAIN delivery
  /\ \A e, d : <<e, d>> \in earlier => e \in recorded /\ d \in DOMAIN delivery

(* A delivery goes to a hook that was there and subscribed to its event.   *)
Addressed ==
  \A d \in DOMAIN delivery :
    /\ d[2] \in emitted[d[1]].to
    /\ emitted[d[1]].type \in hookRow[d[2]].events
    /\ hookRow[d[2]].state # "unused"

RecordedAreDone == \A d \in recorded : delivery[d].pc = "done"

(* The deliveries that have cleared the error of their hook, or have found *)
(* none and so are not going to clear it; and the other way round.         *)
Clearing(h) ==
  {d \in DOMAIN delivery : d[2] = h /\
     \/ d \in recorded /\ delivery[d].ok
     \/ delivery[d].pc = "store" /\ ~delivery[d].seenError}

Setting(h) ==
  {d \in DOMAIN delivery : d[2] = h /\
     \/ d \in recorded /\ ~delivery[d].ok
     \/ delivery[d].pc = "store" /\ delivery[d].seenError}

(* The row is as the last delivery that changed it left it: none that came *)
(* after it and has ended, or has read the row, was of the other kind.     *)
LastWriterKnown(h) ==
  IF hookRow[h].error
  THEN \E f \in recorded : /\ f[2] = h /\ ~delivery[f].ok
                           /\ \A d \in Clearing(h) : <<f, d>> \notin earlier
  ELSE \/ Setting(h) = {}
       \/ \E s \in recorded : /\ s[2] = h /\ delivery[s].ok
                              /\ \A d \in Setting(h) : <<s, d>> \notin earlier

HooksInv ==
  /\ HooksTypeOK /\ Addressed /\ RecordedAreDone
  /\ \A h \in Hooks : hookRow[h].state = "live" => LastWriterKnown(h)

LEMMA PartnersInitInv == PartnersInit => KeysInv /\ HooksInv
<1> SUFFICES ASSUME PartnersInit PROVE KeysInv /\ HooksInv
  OBVIOUS
<1>1. KeysInv
  BY DEF PartnersInit, KeysInv, CallState, NoCall
<1>2. HooksTypeOK
  BY DEF PartnersInit, HooksTypeOK, HookState, DeliveryState, NoHook
<1>3. Addressed /\ RecordedAreDone
  BY DEF PartnersInit, Addressed, RecordedAreDone
<1>4. \A h \in Hooks : hookRow[h].state # "live"
  BY DEF PartnersInit, NoHook
<1>5. QED
  BY <1>1, <1>2, <1>3, <1>4 DEF HooksInv

(* What CallEnds leaves: the request is over, and if its key was revoked   *)
(* it had been authenticated before that.                                  *)
LEMMA CallEndsKeepsKeys ==
  ASSUME NEW c \in PartnerCalls, NEW what, KeysInv, partnerCall[c].pc = "work",
         CallEnds(c, what), keyRow' = keyRow
  PROVE  KeysInv'
<1>1. partnerCall' \in [PartnerCalls -> CallState]
  BY DEF KeysInv, CallEnds, CallState, NoCall
<1>2. \A b \in PartnerCalls : partnerCall'[b].pc = "work" => partnerCall'[b] = partnerCall[b]
  BY DEF KeysInv, CallEnds, NoCall
<1>3. \A a \in answered' : a.stale
  BY DEF KeysInv, CallEnds
<1>4. QED
  BY <1>1, <1>2, <1>3 DEF KeysInv

LEMMA KeysStep == KeysInv /\ [PartnersNext]_partnerVars => KeysInv'
<1> SUFFICES ASSUME KeysInv, [PartnersNext]_partnerVars PROVE KeysInv'
  OBVIOUS
<1>1. ASSUME NEW k \in PartnerKeys, NEW tier \in {"partner", "trial"}, IssueKey(k, tier)
      PROVE  KeysInv'
  <2>1. keyRow' \in [PartnerKeys -> {"none", "partner", "trial", "revoked"}]
    BY <1>1 DEF IssueKey, KeysInv
  <2>2. \A j \in PartnerKeys : keyRow'[j] = "revoked" => keyRow[j] = "revoked"
    BY <1>1 DEF IssueKey, KeysInv
  <2>3. QED
    BY <1>1, <2>1, <2>2 DEF IssueKey, KeysInv
<1>2. ASSUME NEW k \in PartnerKeys, RevokeKey(k)
      PROVE  KeysInv'
  <2>1. keyRow' \in [PartnerKeys -> {"none", "partner", "trial", "revoked"}]
    BY <1>2 DEF RevokeKey, KeysInv
  <2>2. partnerCall' \in [PartnerCalls -> CallState]
    BY <1>2 DEF RevokeKey, KeysInv, CallState
  <2>3. \A c \in PartnerCalls : /\ partnerCall'[c].pc = partnerCall[c].pc
                                /\ partnerCall'[c].key = partnerCall[c].key
                                /\ partnerCall[c].stale => partnerCall'[c].stale
                                /\ partnerCall[c].key = k => partnerCall'[c].stale
    BY <1>2 DEF RevokeKey, KeysInv, CallState
  <2>4. \A j \in PartnerKeys : keyRow'[j] = "revoked" => j = k \/ keyRow[j] = "revoked"
    BY <1>2 DEF RevokeKey, KeysInv
  <2>5. QED
    BY <1>2, <2>1, <2>2, <2>3, <2>4 DEF RevokeKey, KeysInv
<1>3. ASSUME NEW c \in PartnerCalls, NEW k \in PartnerKeys, Authenticate(c, k)
      PROVE  KeysInv'
  <2>1. partnerCall' \in [PartnerCalls -> CallState]
    BY <1>3 DEF Authenticate, KeysInv, CallState
  <2>2. partnerCall'[c].key = k /\ keyRow[k] # "revoked"
    BY <1>3 DEF Authenticate, KeysInv
  <2>3. \A b \in PartnerCalls \ {c} : partnerCall'[b] = partnerCall[b]
    BY <1>3 DEF Authenticate, KeysInv
  <2>4. QED
    BY <1>3, <2>1, <2>2, <2>3 DEF Authenticate, KeysInv
<1>4. ASSUME NEW c \in PartnerCalls, ReadData(c)
      PROVE  KeysInv'
  BY <1>4, CallEndsKeepsKeys DEF ReadData
<1>5. ASSUME NEW c \in PartnerCalls, SendTest(c)
      PROVE  KeysInv'
  BY <1>5, CallEndsKeepsKeys DEF SendTest
<1>6. ASSUME NEW c \in PartnerCalls, NEW h \in Hooks, DeleteHook(c, h)
      PROVE  KeysInv'
  BY <1>6, CallEndsKeepsKeys DEF DeleteHook
<1>7. ASSUME NEW c \in PartnerCalls, NEW h \in Hooks, NEW types \in SUBSET EventTypes,
             RegisterHook(c, h, types)
      PROVE  KeysInv'
  BY <1>7, CallEndsKeepsKeys DEF RegisterHook
<1>8. CASE ApiStops
  <2>1. partnerCall' \in [PartnerCalls -> CallState]
    BY <1>8 DEF ApiStops, CallState, NoCall
  <2>2. \A c \in PartnerCalls : partnerCall'[c].pc # "work"
    BY <1>8 DEF ApiStops, NoCall
  <2>3. QED
    BY <1>8, <2>1, <2>2 DEF ApiStops, KeysInv
<1>9. CASE UNCHANGED <<keyRow, partnerCall, answered>>
  BY <1>9 DEF KeysInv
<1>10. QED
  BY <1>1, <1>2, <1>3, <1>4, <1>5, <1>6, <1>7, <1>8, <1>9
     DEF PartnersNext, partnerVars, Emit, Resolve, Post, LoadRow, StoreRow

-----------------------------------------------------------------------------
(* Partners: the hooks.                                                    *)

(* What a step keeps of the record of a hook that it does not write: it    *)
(* may commit outcomes and read rows, as long as no delivery becomes one   *)
(* that could undo the last writer without having come before it.          *)
LEMMA WriterStays ==
  ASSUME NEW h \in Hooks, LastWriterKnown(h),
         hookRow'[h].error = hookRow[h].error,
         recorded \subseteq recorded',
         \A f \in recorded : delivery'[f].ok = delivery[f].ok,
         hookRow[h].error =>
           \A d \in Clearing(h)' : d \in Clearing(h) /\
             \A f \in recorded : <<f, d>> \in earlier' => <<f, d>> \in earlier,
         ~hookRow[h].error =>
           \A d \in Setting(h)' : d \in Setting(h) /\
             \A f \in recorded : <<f, d>> \in earlier' => <<f, d>> \in earlier
  PROVE  LastWriterKnown(h)'
<1>1. CASE hookRow[h].error
  <2>1. PICK f \in recorded : /\ f[2] = h /\ ~delivery[f].ok
                              /\ \A d \in Clearing(h) : <<f, d>> \notin earlier
    BY <1>1 DEF LastWriterKnown
  <2>2. \A d \in Clearing(h)' : <<f, d>> \notin earlier'
    BY <1>1, <2>1
  <2>3. f \in recorded' /\ ~delivery'[f].ok
    BY <2>1
  <2>4. QED
    BY <1>1, <2>1, <2>2, <2>3 DEF LastWriterKnown
<1>2. CASE ~hookRow[h].error /\ Setting(h) = {}
  <2>1. Setting(h)' = {}
    BY <1>2
  <2>2. QED
    BY <1>2, <2>1 DEF LastWriterKnown
<1>3. CASE ~hookRow[h].error /\ Setting(h) # {}
  <2>1. PICK s \in recorded : /\ s[2] = h /\ delivery[s].ok
                              /\ \A d \in Setting(h) : <<s, d>> \notin earlier
    BY <1>3 DEF LastWriterKnown
  <2>2. \A d \in Setting(h)' : <<s, d>> \notin earlier'
    BY <1>3, <2>1
  <2>3. s \in recorded' /\ delivery'[s].ok
    BY <2>1
  <2>4. QED
    BY <1>3, <2>1, <2>2, <2>3 DEF LastWriterKnown
<1>4. QED
  BY <1>1, <1>2, <1>3

(* A step that changes only the states of deliveries, none of them into    *)
(* or out of the commit.                                                   *)
LEMMA DeliveriesMove ==
  ASSUME HooksInv, UNCHANGED <<hookRow, emitted, recorded, earlier>>,
         received' \subseteq DOMAIN delivery,
         DOMAIN delivery' = DOMAIN delivery,
         delivery' \in [DOMAIN delivery -> DeliveryState],
         \A d \in DOMAIN delivery :
           \/ delivery'[d] = delivery[d]
           \/ delivery[d].pc # "done" /\ delivery'[d].pc # "store"
  PROVE  HooksInv'
<1>1. HooksTypeOK'
  BY DEF HooksInv, HooksTypeOK
<1>2. Addressed'
  BY DEF HooksInv, Addressed
<1>3. \A d \in recorded : delivery'[d] = delivery[d]
  BY DEF HooksInv, HooksTypeOK, RecordedAreDone
<1>4. RecordedAreDone'
  BY <1>3 DEF HooksInv, RecordedAreDone
<1>5. ASSUME NEW h \in Hooks
      PROVE  Clearing(h)' \subseteq Clearing(h) /\ Setting(h)' \subseteq Setting(h)
  <2>1. \A d \in DOMAIN delivery : d \in recorded \/ delivery'[d].pc = "store" =>
          delivery'[d] = delivery[d]
    BY <1>3
  <2>2. QED
    BY <2>1 DEF Clearing, Setting
<1>6. ASSUME NEW h \in Hooks, hookRow'[h].state = "live"
      PROVE  LastWriterKnown(h)'
  <2>1. LastWriterKnown(h)
    BY <1>6 DEF HooksInv
  <2>2. QED
    BY <1>3, <1>5, <2>1, WriterStays
<1>7. QED
  BY <1>1, <1>2, <1>4, <1>6 DEF HooksInv

LEMMA ResolveKeepsHooks ==
  ASSUME HooksInv, NEW d \in DOMAIN delivery, NEW public \in BOOLEAN, Resolve(d, public)
  PROVE  HooksInv'
<1> DEFINE s == [delivery[d] EXCEPT !.pc = IF public THEN "post" ELSE "unsent"]
<1>0. delivery[d] \in DeliveryState
  BY DEF HooksInv, HooksTypeOK
<1>1. s \in DeliveryState /\ s.pc \in {"post", "unsent"}
  BY <1>0 DEF DeliveryState
<1>2. delivery' = [delivery EXCEPT ![d] = s]
  BY DEF Resolve, Goes
<1> HIDE DEF s
<1>3. DOMAIN delivery' = DOMAIN delivery /\ delivery' \in [DOMAIN delivery -> DeliveryState]
  BY <1>1, <1>2 DEF HooksInv, HooksTypeOK
<1>4. \A e \in DOMAIN delivery :
        \/ delivery'[e] = delivery[e]
        \/ delivery[e].pc # "done" /\ delivery'[e].pc # "store"
  BY <1>1, <1>2 DEF Resolve
<1>5. UNCHANGED <<hookRow, emitted, recorded, earlier>> /\ received' \subseteq DOMAIN delivery
  BY DEF Resolve, HooksInv, HooksTypeOK
<1>6. QED
  BY <1>3, <1>4, <1>5, DeliveriesMove

LEMMA PostKeepsHooks ==
  ASSUME HooksInv, NEW d \in DOMAIN delivery, NEW arrives \in BOOLEAN, NEW ok \in BOOLEAN,
         Post(d, arrives, ok)
  PROVE  HooksInv'
<1> DEFINE s == [delivery[d] EXCEPT !.pc = "load", !.ok = ok]
<1>0. delivery[d] \in DeliveryState
  BY DEF HooksInv, HooksTypeOK
<1>1. s \in DeliveryState /\ s.pc = "load"
  BY <1>0 DEF DeliveryState
<1>2. delivery' = [delivery EXCEPT ![d] = s]
  BY DEF Post, Goes
<1> HIDE DEF s
<1>3. DOMAIN delivery' = DOMAIN delivery /\ delivery' \in [DOMAIN delivery -> DeliveryState]
  BY <1>1, <1>2 DEF HooksInv, HooksTypeOK
<1>4. \A e \in DOMAIN delivery :
        \/ delivery'[e] = delivery[e]
        \/ delivery[e].pc # "done" /\ delivery'[e].pc # "store"
  BY <1>1, <1>2 DEF Post
<1>5. UNCHANGED <<hookRow, emitted, recorded, earlier>> /\ received' \subseteq DOMAIN delivery
  BY DEF Post, HooksInv, HooksTypeOK
<1>6. QED
  BY <1>3, <1>4, <1>5, DeliveriesMove

LEMMA ApiStopsKeepsHooks ==
  ASSUME HooksInv, ApiStops PROVE HooksInv'
<1>1. delivery' \in [DOMAIN delivery -> DeliveryState]
  BY DEF ApiStops, HooksInv, HooksTypeOK, DeliveryState
<1>2. \A e \in DOMAIN delivery :
        \/ delivery'[e] = delivery[e]
        \/ delivery[e].pc # "done" /\ delivery'[e].pc # "store"
  BY DEF ApiStops, HooksInv, HooksTypeOK, DeliveryState
<1>3. DOMAIN delivery' = DOMAIN delivery
  BY DEF ApiStops
<1>4. UNCHANGED <<hookRow, emitted, recorded, earlier>> /\ received' \subseteq DOMAIN delivery
  BY DEF ApiStops, HooksInv, HooksTypeOK
<1>5. QED
  BY <1>1, <1>2, <1>3, <1>4, DeliveriesMove

(* Rows that keep their events and their errors, and do not come back.     *)
LEMMA RowsKept ==
  ASSUME HooksInv, UNCHANGED <<delivery, emitted, received, recorded, earlier>>,
         hookRow' \in [Hooks -> HookState],
         \A h \in Hooks : \/ hookRow'[h].state \in {"live", "deleted"} /\ hookRow[h].state = "unused"
                               /\ ~hookRow'[h].error
                          \/ /\ hookRow'[h].state = hookRow[h].state \/ hookRow'[h].state = "deleted"
                             /\ hookRow'[h].events = hookRow[h].events
                             /\ hookRow'[h].error = hookRow[h].error
  PROVE  HooksInv'
<1>1. HooksTypeOK'
  BY DEF HooksInv, HooksTypeOK
<1>2. ASSUME NEW d \in DOMAIN delivery
      PROVE  /\ d[2] \in emitted[d[1]].to
             /\ emitted[d[1]].type \in hookRow'[d[2]].events
             /\ hookRow'[d[2]].state # "unused"
  <2>1. d[2] \in Hooks
    BY DEF HooksInv, HooksTypeOK
  <2>2. /\ d[2] \in emitted[d[1]].to
        /\ emitted[d[1]].type \in hookRow[d[2]].events
        /\ hookRow[d[2]].state # "unused"
    BY DEF HooksInv, Addressed
  <2>3. QED
    BY <2>1, <2>2
<1>3. Addressed'
  BY <1>2 DEF Addressed
<1>4. RecordedAreDone'
  BY DEF HooksInv, RecordedAreDone
<1>5. ASSUME NEW h \in Hooks
      PROVE  Clearing(h)' = Clearing(h) /\ Setting(h)' = Setting(h)
  BY DEF Clearing, Setting
<1>6. ASSUME NEW h \in Hooks, hookRow'[h].state = "live"
      PROVE  LastWriterKnown(h)'
  <2>1. CASE hookRow[h].state = "unused" /\ ~hookRow'[h].error
    <3>1. \A d \in DOMAIN delivery : d[2] # h
      BY <2>1 DEF HooksInv, Addressed
    <3>2. Setting(h)' = {}
      BY <3>1 DEF Setting
    <3>3. QED
      BY <2>1, <3>2 DEF LastWriterKnown
  <2>2. CASE hookRow[h].state = "live" /\ hookRow'[h].error = hookRow[h].error
    <3>1. LastWriterKnown(h)
      BY <2>2 DEF HooksInv
    <3>2. QED
      BY <1>5, <2>2, <3>1, WriterStays
  <2>3. QED
    BY <1>6, <2>1, <2>2
<1>7. QED
  BY <1>1, <1>3, <1>4, <1>6 DEF HooksInv

LEMMA RegisterHookKeepsHooks ==
  ASSUME KeysInv, HooksInv, NEW c \in PartnerCalls, NEW h \in Hooks,
         NEW types \in SUBSET EventTypes, RegisterHook(c, h, types)
  PROVE  HooksInv'
<1>1. partnerCall[c].key \in PartnerKeys
  BY DEF RegisterHook, KeysInv
<1> DEFINE row == [NoHook EXCEPT !.state = "live", !.key = partnerCall[c].key, !.events = types]
<1>2. row \in HookState /\ row.state = "live" /\ ~row.error
  BY <1>1 DEF HookState, NoHook
<1>3. hookRow' = [hookRow EXCEPT ![h] = row] /\ hookRow[h].state = "unused"
  BY DEF RegisterHook
<1> HIDE DEF row
<1>4. hookRow' \in [Hooks -> HookState]
  BY <1>2, <1>3 DEF HooksInv, HooksTypeOK
<1>5. \A g \in Hooks : IF g = h THEN hookRow'[g] = row ELSE hookRow'[g] = hookRow[g]
  BY <1>3 DEF HooksInv, HooksTypeOK
<1>6. UNCHANGED <<delivery, emitted, received, recorded, earlier>>
  BY DEF RegisterHook
<1>7. QED
  BY <1>2, <1>3, <1>4, <1>5, <1>6, RowsKept

LEMMA DeleteHookKeepsHooks ==
  ASSUME HooksInv, NEW c \in PartnerCalls, NEW h \in Hooks, DeleteHook(c, h)
  PROVE  HooksInv'
<1>1. PICK row \in HookState : row = [hookRow[h] EXCEPT !.state = "deleted"]
  BY DEF HooksInv, HooksTypeOK, HookState
<1>2. row.state = "deleted" /\ row.events = hookRow[h].events /\ row.error = hookRow[h].error
  BY <1>1 DEF HooksInv, HooksTypeOK, HookState
<1>3. hookRow' = [hookRow EXCEPT ![h] = row] \/ hookRow' = hookRow
  BY <1>1 DEF DeleteHook
<1>4. hookRow' \in [Hooks -> HookState]
  BY <1>2, <1>3 DEF HooksInv, HooksTypeOK
<1>5. \A g \in Hooks : (g = h /\ hookRow'[g] = row) \/ hookRow'[g] = hookRow[g]
  BY <1>3 DEF HooksInv, HooksTypeOK
<1>6. UNCHANGED <<delivery, emitted, received, recorded, earlier>>
  BY DEF DeleteHook
<1>7. QED
  BY <1>2, <1>4, <1>5, <1>6, RowsKept

(* An event is a new number, and its deliveries are new.                   *)
LEMMA DispatchKeepsHooks ==
  ASSUME HooksInv, NEW type \in EventTypes, Dispatch(type),
         UNCHANGED <<hookRow, received, recorded, earlier>>
  PROVE  HooksInv'
<1> DEFINE n == Len(emitted) + 1
           new == {n} \X Subscribed(type)
           event == [type |-> type, to |-> Subscribed(type)]
<1>1. /\ emitted' = Append(emitted, event)
      /\ delivery' = [d \in DOMAIN delivery \cup new |->
                        IF d \in new THEN NewDelivery ELSE delivery[d]]
  BY DEF Dispatch
<1>2. Len(emitted) \in Nat /\ emitted \in Seq([type : EventTypes, to : SUBSET Hooks])
  BY DEF HooksInv, HooksTypeOK
<1>3. Subscribed(type) \subseteq Hooks
  BY DEF Subscribed
<1>4. event \in [type : EventTypes, to : SUBSET Hooks] /\ event.to = Subscribed(type) /\ event.type = type
  BY <1>3
<1> HIDE DEF event
<1>5. /\ emitted' \in Seq([type : EventTypes, to : SUBSET Hooks])
      /\ Len(emitted') = Len(emitted) + 1
      /\ emitted'[n] = event
      /\ \A i \in 1 .. Len(emitted) : emitted'[i] = emitted[i]
  BY <1>1, <1>2, <1>4
<1>6. \A d \in new : d[1] = n /\ d[2] \in Subscribed(type) /\ d \in (1 .. Len(emitted')) \X Hooks
  BY <1>2, <1>3, <1>5
<1>7. \A d \in DOMAIN delivery : d[1] \in 1 .. Len(emitted) /\ d[2] \in Hooks /\ d[1] # n
  BY <1>2 DEF HooksInv, HooksTypeOK
<1>8. DOMAIN delivery \subseteq (1 .. Len(emitted')) \X Hooks
  BY <1>2, <1>5 DEF HooksInv, HooksTypeOK
<1>9. \A d \in new : d \notin DOMAIN delivery
  BY <1>6, <1>7
<1> HIDE DEF n, new
<1>10. DOMAIN delivery' = DOMAIN delivery \cup new
  BY <1>1
<1>11. \A d \in DOMAIN delivery : delivery'[d] = delivery[d]
  BY <1>1, <1>9
<1>12. NewDelivery \in DeliveryState /\ NewDelivery.pc = "resolve"
  BY DEF NewDelivery, DeliveryState
<1>13. \A d \in new : delivery'[d] = NewDelivery
  BY <1>1
<1>14. delivery' \in [DOMAIN delivery' -> DeliveryState]
  BY <1>1, <1>12 DEF HooksInv, HooksTypeOK
<1>15. DOMAIN delivery' \subseteq (1 .. Len(emitted')) \X Hooks
  BY <1>6, <1>8, <1>10
<1>16. HooksTypeOK'
  BY <1>5, <1>10, <1>14, <1>15 DEF HooksInv, HooksTypeOK
<1>17. ASSUME NEW d \in DOMAIN delivery'
       PROVE  /\ d[2] \in emitted'[d[1]].to
              /\ emitted'[d[1]].type \in hookRow'[d[2]].events
              /\ hookRow'[d[2]].state # "unused"
  <2>1. CASE d \in DOMAIN delivery
    <3>1. emitted'[d[1]] = emitted[d[1]]
      BY <1>5, <1>7, <2>1
    <3>2. QED
      BY <2>1, <3>1 DEF HooksInv, Addressed
  <2>2. CASE d \in new
    <3>1. emitted'[d[1]] = event /\ d[2] \in Subscribed(type)
      BY <1>5, <1>6, <2>2
    <3>2. hookRow[d[2]].state = "live" /\ type \in hookRow[d[2]].events
      BY <3>1 DEF Subscribed
    <3>3. QED
      BY <1>4, <3>1, <3>2
  <2>3. QED
    BY <1>10, <2>1, <2>2
<1>18. Addressed'
  BY <1>17 DEF Addressed
<1>19. RecordedAreDone'
  BY <1>11 DEF HooksInv, HooksTypeOK, RecordedAreDone
<1>20. ASSUME NEW h \in Hooks, hookRow'[h].state = "live"
       PROVE  LastWriterKnown(h)'
  <2>1. \A d \in DOMAIN delivery' : d \in recorded \/ delivery'[d].pc = "store" =>
          d \in DOMAIN delivery /\ delivery'[d] = delivery[d]
    BY <1>10, <1>11, <1>12, <1>13 DEF HooksInv, HooksTypeOK
  <2>2. Clearing(h)' \subseteq Clearing(h)
    BY <2>1 DEF Clearing
  <2>3. Setting(h)' \subseteq Setting(h)
    BY <2>1 DEF Setting
  <2>4. LastWriterKnown(h)
    BY <1>20 DEF HooksInv
  <2>5. \A f \in recorded : delivery'[f].ok = delivery[f].ok
    BY <1>11 DEF HooksInv, HooksTypeOK
  <2>6. QED
    BY <2>2, <2>3, <2>4, <2>5, WriterStays
<1>21. QED
  BY <1>16, <1>18, <1>19, <1>20 DEF HooksInv

(* A delivery that finds an error will not set it, and one that finds none *)
(* will not clear it.                                                      *)
LEMMA LoadRowKeepsHooks ==
  ASSUME HooksInv, NEW d \in DOMAIN delivery, LoadRow(d)
  PROVE  HooksInv'
<1>0. /\ d[2] \in Hooks /\ delivery[d] \in DeliveryState /\ delivery[d].pc = "load"
      /\ hookRow[d[2]] \in HookState
  BY DEF HooksInv, HooksTypeOK, LoadRow
<1>1. CASE hookRow[d[2]].state = "live"
  <2> DEFINE s == [delivery[d] EXCEPT !.pc = "store", !.seenError = hookRow[d[2]].error]
  <2>1. s \in DeliveryState /\ s.pc = "store" /\ s.seenError = hookRow[d[2]].error
    BY <1>0 DEF DeliveryState, HookState
  <2>2. delivery' = [delivery EXCEPT ![d] = s]
    BY <1>1 DEF LoadRow, Goes
  <2> HIDE DEF s
  <2>3. /\ earlier' = earlier \cup {<<e, d>> : e \in {f \in recorded : f[2] = d[2]}}
        /\ UNCHANGED <<hookRow, emitted, received, recorded>>
    BY <1>1 DEF LoadRow
  <2>4. DOMAIN delivery' = DOMAIN delivery /\ delivery' \in [DOMAIN delivery -> DeliveryState]
    BY <2>1, <2>2 DEF HooksInv, HooksTypeOK
  <2>5. delivery'[d] = s /\ \A e \in DOMAIN delivery \ {d} : delivery'[e] = delivery[e]
    BY <2>2 DEF HooksInv, HooksTypeOK
  <2>6. d \notin recorded
    BY <1>0 DEF HooksInv, RecordedAreDone
  <2>7. \A f, e : <<f, e>> \in earlier' => <<f, e>> \in earlier \/ (f \in recorded /\ e = d)
    BY <2>3
  <2>8. HooksTypeOK'
    BY <2>3, <2>4, <2>7 DEF HooksInv, HooksTypeOK
  <2>9. Addressed'
    BY <2>3, <2>4 DEF HooksInv, Addressed
  <2>10. RecordedAreDone'
    BY <2>3, <2>5, <2>6 DEF HooksInv, HooksTypeOK, RecordedAreDone
  <2>11. \A f \in recorded : delivery'[f].ok = delivery[f].ok
    BY <2>5, <2>6 DEF HooksInv, HooksTypeOK
  <2>12. ASSUME NEW h \in Hooks, hookRow'[h].state = "live"
         PROVE  LastWriterKnown(h)'
    <3>1. LastWriterKnown(h)
      BY <2>3, <2>12 DEF HooksInv
    <3>2. ASSUME hookRow[h].error, NEW e \in Clearing(h)'
          PROVE  e \in Clearing(h) /\ e # d
      <4>1. e \in DOMAIN delivery /\ e[2] = h
        BY <2>4 DEF Clearing
      <4>2. e # d
        BY <2>1, <2>3, <2>5, <2>6, <3>2, <4>1 DEF Clearing
      <4>3. QED
        BY <2>3, <2>5, <4>1, <4>2, <3>2 DEF Clearing
    <3>3. ASSUME ~hookRow[h].error, NEW e \in Setting(h)'
          PROVE  e \in Setting(h) /\ e # d
      <4>1. e \in DOMAIN delivery /\ e[2] = h
        BY <2>4 DEF Setting
      <4>2. e # d
        BY <2>1, <2>3, <2>5, <2>6, <3>3, <4>1 DEF Setting
      <4>3. QED
        BY <2>3, <2>5, <4>1, <4>2, <3>3 DEF Setting
    <3>4. \A e : e # d => \A f \in recorded : <<f, e>> \in earlier' => <<f, e>> \in earlier
      BY <2>7
    <3>5. hookRow' = hookRow /\ recorded' = recorded
      BY <2>3
    <3>6. QED
      BY <2>11, <3>1, <3>2, <3>3, <3>4, <3>5, WriterStays
  <2>13. QED
    BY <2>8, <2>9, <2>10, <2>12 DEF HooksInv
<1>2. CASE hookRow[d[2]].state # "live"
  <2> DEFINE s == [delivery[d] EXCEPT !.pc = "done"]
  <2>1. s \in DeliveryState /\ s.pc = "done"
    BY <1>0 DEF DeliveryState
  <2>2. delivery' = [delivery EXCEPT ![d] = s]
    BY <1>2 DEF LoadRow, Goes
  <2> HIDE DEF s
  <2>3. DOMAIN delivery' = DOMAIN delivery /\ delivery' \in [DOMAIN delivery -> DeliveryState]
    BY <2>1, <2>2 DEF HooksInv, HooksTypeOK
  <2>4. \A e \in DOMAIN delivery :
          \/ delivery'[e] = delivery[e]
          \/ delivery[e].pc # "done" /\ delivery'[e].pc # "store"
    BY <1>0, <2>1, <2>2
  <2>5. UNCHANGED <<hookRow, emitted, recorded, earlier>> /\ received' \subseteq DOMAIN delivery
    BY <1>2 DEF LoadRow, HooksInv, HooksTypeOK
  <2>6. QED
    BY <2>3, <2>4, <2>5, DeliveriesMove
<1>3. QED
  BY <1>1, <1>2

(* The commit: what is written is the outcome of this delivery, and nobody *)
(* has read it yet; what is not written was already there.                 *)
LEMMA StoreRowKeepsHooks ==
  ASSUME HooksInv, NEW d \in DOMAIN delivery, StoreRow(d)
  PROVE  HooksInv'
<1> DEFINE h == d[2]
<1>0. /\ h \in Hooks /\ delivery[d] \in DeliveryState /\ delivery[d].pc = "store"
      /\ hookRow[h] \in HookState /\ d[1] \in Nat
  BY DEF HooksInv, HooksTypeOK, StoreRow
<1> DEFINE s == [delivery[d] EXCEPT !.pc = "done"]
<1>1. s \in DeliveryState /\ s.pc = "done" /\ s.ok = delivery[d].ok
  BY <1>0 DEF DeliveryState
<1>2. delivery' = [delivery EXCEPT ![d] = s]
  BY DEF StoreRow, Goes
<1> HIDE DEF s
<1>3. DOMAIN delivery' = DOMAIN delivery /\ delivery' \in [DOMAIN delivery -> DeliveryState]
  BY <1>1, <1>2 DEF HooksInv, HooksTypeOK
<1>4. delivery'[d] = s /\ \A e \in DOMAIN delivery \ {d} : delivery'[e] = delivery[e]
  BY <1>2 DEF HooksInv, HooksTypeOK
<1>5. UNCHANGED <<emitted, received, earlier>>
  BY DEF StoreRow
<1>6. CASE hookRow[h].state = "live"
  <2>1. PICK error \in BOOLEAN : error = IF ErrorWritten(d) THEN ~delivery[d].ok ELSE hookRow[h].error
    BY <1>0 DEF HookState, DeliveryState
  <2>2. PICK delivered \in Nat : delivered = IF delivery[d].ok THEN d[1] ELSE hookRow[h].delivered
    BY <1>0 DEF HookState
  <2>3. /\ hookRow' = [hookRow EXCEPT ![h].error = error, ![h].delivered = delivered]
        /\ recorded' = recorded \cup {d}
    BY <1>6, <2>1, <2>2 DEF StoreRow, HooksInv, HooksTypeOK
  <2>4. /\ hookRow' \in [Hooks -> HookState]
        /\ hookRow'[h].error = error
        /\ \A g \in Hooks : /\ hookRow'[g].state = hookRow[g].state
                            /\ hookRow'[g].events = hookRow[g].events
                            /\ g # h => hookRow'[g].error = hookRow[g].error
    BY <1>0, <2>3 DEF HooksInv, HooksTypeOK, HookState
  <2>5. HooksTypeOK'
    BY <1>3, <1>5, <2>3, <2>4 DEF HooksInv, HooksTypeOK
  <2>6. ASSUME NEW e \in DOMAIN delivery
        PROVE  /\ e[2] \in emitted'[e[1]].to
               /\ emitted'[e[1]].type \in hookRow'[e[2]].events
               /\ hookRow'[e[2]].state # "unused"
    <3>1. e[2] \in Hooks
      BY DEF HooksInv, HooksTypeOK
    <3>2. QED
      BY <1>5, <2>4, <3>1 DEF HooksInv, Addressed
  <2>7. Addressed'
    BY <1>3, <2>6 DEF Addressed
  <2>8. RecordedAreDone'
    BY <1>1, <1>4, <2>3 DEF HooksInv, HooksTypeOK, RecordedAreDone
  <2>9. d \notin recorded
    BY <1>0 DEF HooksInv, RecordedAreDone
  <2>10. \A e : <<d, e>> \notin earlier'
    BY <1>5, <2>9 DEF HooksInv, HooksTypeOK
  <2>11. \A f \in recorded : delivery'[f].ok = delivery[f].ok
    BY <1>4, <2>9 DEF HooksInv, HooksTypeOK
  <2>12. ASSUME NEW g \in Hooks, hookRow'[g].state = "live", g # h
         PROVE  LastWriterKnown(g)'
    <3>1. LastWriterKnown(g)
      BY <2>4, <2>12 DEF HooksInv
    <3>2. Clearing(g)' \subseteq Clearing(g)
      BY <1>3, <1>4, <2>3, <2>12 DEF Clearing
    <3>3. Setting(g)' \subseteq Setting(g)
      BY <1>3, <1>4, <2>3, <2>12 DEF Setting
    <3>4. hookRow'[g].error = hookRow[g].error /\ recorded \subseteq recorded'
      BY <2>3, <2>4, <2>12
    <3>5. QED
      BY <1>5, <2>11, <3>1, <3>2, <3>3, <3>4, WriterStays
  <2>13. CASE ErrorWritten(d)
    <3>1. error = ~delivery[d].ok
      BY <2>1, <2>13
    <3>2. d \in recorded' /\ delivery'[d].ok = delivery[d].ok
      BY <1>1, <1>4, <2>3
    <3>3. LastWriterKnown(h)'
      BY <2>4, <2>10, <3>1, <3>2 DEF LastWriterKnown
    <3>4. QED
      BY <2>5, <2>7, <2>8, <2>12, <3>3 DEF HooksInv
  <2>14. CASE ~ErrorWritten(d)
    <3>1. error = hookRow[h].error
      BY <2>1, <2>14
    <3>2. delivery[d].seenError = ~delivery[d].ok
      BY <1>0, <2>14 DEF ErrorWritten, DeliveryState
    <3>3. Clearing(h)' \subseteq Clearing(h)
      BY <1>0, <1>1, <1>3, <1>4, <2>3, <3>2 DEF Clearing
    <3>4. Setting(h)' \subseteq Setting(h)
      BY <1>0, <1>1, <1>3, <1>4, <2>3, <3>2 DEF Setting
    <3>5. LastWriterKnown(h)
      BY <1>0, <1>6 DEF HooksInv
    <3>6. hookRow'[h].error = hookRow[h].error /\ recorded \subseteq recorded'
      BY <2>3, <2>4, <3>1
    <3> HIDE DEF h
    <3>7. LastWriterKnown(h)'
      BY <1>0, <1>5, <2>11, <3>3, <3>4, <3>5, <3>6, WriterStays
    <3>8. QED
      BY <2>5, <2>7, <2>8, <2>12, <3>7 DEF HooksInv
  <2>15. QED
    BY <2>13, <2>14
<1>7. CASE hookRow[h].state # "live"
  <2>1. UNCHANGED <<hookRow, recorded>>
    BY <1>7 DEF StoreRow
  <2>2. \A e \in DOMAIN delivery :
          \/ delivery'[e] = delivery[e]
          \/ delivery[e].pc # "done" /\ delivery'[e].pc # "store"
    BY <1>0, <1>1, <1>4
  <2>3. UNCHANGED <<hookRow, emitted, recorded, earlier>> /\ received' \subseteq DOMAIN delivery
    BY <1>5, <2>1 DEF HooksInv, HooksTypeOK
  <2>4. QED
    BY <1>3, <2>2, <2>3, DeliveriesMove
<1>8. QED
  BY <1>6, <1>7

LEMMA HooksUnchanged ==
  ASSUME HooksInv, UNCHANGED <<hookRow, delivery, emitted, received, recorded, earlier>>
  PROVE  HooksInv'
<1>1. HooksTypeOK'
  BY DEF HooksInv, HooksTypeOK
<1>2. QED
  BY <1>1, DeliveriesMove DEF HooksInv, HooksTypeOK

LEMMA PartnersStepInv ==
  KeysInv /\ HooksInv /\ [PartnersNext]_partnerVars => KeysInv' /\ HooksInv'
<1> SUFFICES ASSUME KeysInv, HooksInv, [PartnersNext]_partnerVars PROVE HooksInv'
  BY KeysStep
<1>1. ASSUME NEW k \in PartnerKeys, RevokeKey(k) \/ \E tier \in {"partner", "trial"} : IssueKey(k, tier)
      PROVE  HooksInv'
  BY <1>1, HooksUnchanged DEF RevokeKey, IssueKey
<1>2. ASSUME NEW c \in PartnerCalls,
             \/ \E k \in PartnerKeys : Authenticate(c, k)
             \/ ReadData(c)
      PROVE  HooksInv'
  BY <1>2, HooksUnchanged DEF Authenticate, ReadData
<1>3. ASSUME NEW c \in PartnerCalls, SendTest(c)
      PROVE  HooksInv'
  BY <1>3, PartnersAssumption, DispatchKeepsHooks DEF SendTest
<1>4. ASSUME NEW type \in EventTypes, Emit(type)
      PROVE  HooksInv'
  BY <1>4, DispatchKeepsHooks DEF Emit
<1>5. CASE UNCHANGED partnerVars
  BY <1>5, HooksUnchanged DEF partnerVars
<1>6. QED
  BY <1>1, <1>2, <1>3, <1>4, <1>5, RegisterHookKeepsHooks, DeleteHookKeepsHooks,
     ResolveKeepsHooks, PostKeepsHooks, LoadRowKeepsHooks, StoreRowKeepsHooks,
     ApiStopsKeepsHooks DEF PartnersNext

(* While a hook lives, whoever has ended with it has told its row.         *)
EndedAreRecorded ==
  \A d \in DOMAIN delivery :
    delivery[d].pc = "done" /\ hookRow[d[2]].state = "live" => d \in recorded

LEMMA EndedStep ==
  ASSUME HooksInv, EndedAreRecorded, [PartnersNext]_partnerVars
  PROVE  EndedAreRecorded'
<1>0. /\ hookRow \in [Hooks -> HookState]
      /\ \A d \in DOMAIN delivery : d[2] \in Hooks /\ hookRow[d[2]].state # "unused"
                                   /\ delivery[d] \in DeliveryState
  BY DEF HooksInv, HooksTypeOK, Addressed
<1>1. CASE /\ delivery' = delivery /\ recorded' = recorded
           /\ \A h \in Hooks : hookRow'[h].state = "live" => hookRow[h].state \in {"live", "unused"}
  BY <1>0, <1>1 DEF EndedAreRecorded
<1>2. ASSUME NEW d \in DOMAIN delivery, NEW s, delivery' = [delivery EXCEPT ![d] = s],
             s.pc # "done", hookRow' = hookRow, recorded' = recorded
      PROVE  EndedAreRecorded'
  BY <1>0, <1>2 DEF EndedAreRecorded
<1>3. ASSUME NEW type \in EventTypes, Dispatch(type), hookRow' = hookRow, recorded' = recorded
      PROVE  EndedAreRecorded'
  <2>1. \A d \in DOMAIN delivery' :
          delivery'[d] = NewDelivery \/ (d \in DOMAIN delivery /\ delivery'[d] = delivery[d])
    BY <1>3 DEF Dispatch
  <2>2. NewDelivery.pc # "done"
    BY DEF NewDelivery
  <2>3. QED
    BY <1>3, <2>1, <2>2 DEF EndedAreRecorded
<1>4. ASSUME NEW k \in PartnerKeys, RevokeKey(k) \/ \E tier \in {"partner", "trial"} : IssueKey(k, tier)
      PROVE  EndedAreRecorded'
  BY <1>1, <1>4 DEF RevokeKey, IssueKey
<1>5. ASSUME NEW c \in PartnerCalls,
             \/ \E k \in PartnerKeys : Authenticate(c, k)
             \/ ReadData(c)
      PROVE  EndedAreRecorded'
  BY <1>1, <1>5 DEF Authenticate, ReadData
<1>6. ASSUME NEW c \in PartnerCalls, SendTest(c)
      PROVE  EndedAreRecorded'
  BY <1>3, <1>6, PartnersAssumption DEF SendTest, PartnersAssumption
<1>7. ASSUME NEW c \in PartnerCalls, NEW h \in Hooks, DeleteHook(c, h)
      PROVE  EndedAreRecorded'
  <2>1. \A g \in Hooks : hookRow'[g].state = "live" => hookRow[g].state = "live"
    <3>1. PICK row : row = [hookRow[h] EXCEPT !.state = "deleted"]
      OBVIOUS
    <3>2. row.state = "deleted"
      BY <1>0, <3>1 DEF HookState
    <3>3. hookRow' = [hookRow EXCEPT ![h] = row] \/ hookRow' = hookRow
      BY <1>7, <3>1 DEF DeleteHook
    <3>4. QED
      BY <1>0, <3>2, <3>3
  <2>2. delivery' = delivery /\ recorded' = recorded
    BY <1>7 DEF DeleteHook
  <2>3. QED
    BY <1>1, <2>1, <2>2
<1>8. ASSUME NEW c \in PartnerCalls, NEW h \in Hooks, NEW types \in SUBSET EventTypes,
             RegisterHook(c, h, types)
      PROVE  EndedAreRecorded'
  <2>1. PICK row : hookRow' = [hookRow EXCEPT ![h] = row]
    BY <1>8 DEF RegisterHook
  <2>2. hookRow[h].state = "unused" /\ delivery' = delivery /\ recorded' = recorded
    BY <1>8 DEF RegisterHook
  <2>3. \A g \in Hooks : g = h \/ hookRow'[g] = hookRow[g]
    BY <1>0, <2>1
  <2>4. QED
    BY <1>1, <2>2, <2>3
<1>9. ASSUME NEW type \in EventTypes, Emit(type)
      PROVE  EndedAreRecorded'
  BY <1>3, <1>9 DEF Emit
<1>10. ASSUME NEW d \in DOMAIN delivery, NEW public \in BOOLEAN, Resolve(d, public)
       PROVE  EndedAreRecorded'
  <2> DEFINE s == [delivery[d] EXCEPT !.pc = IF public THEN "post" ELSE "unsent"]
  <2>1. s.pc # "done"
    BY <1>0 DEF DeliveryState
  <2>2. delivery' = [delivery EXCEPT ![d] = s] /\ hookRow' = hookRow /\ recorded' = recorded
    BY <1>10 DEF Resolve, Goes
  <2> HIDE DEF s
  <2>3. QED
    BY <1>2, <2>1, <2>2
<1>11. ASSUME NEW d \in DOMAIN delivery, NEW arrives \in BOOLEAN, NEW ok \in BOOLEAN,
              Post(d, arrives, ok)
       PROVE  EndedAreRecorded'
  <2> DEFINE s == [delivery[d] EXCEPT !.pc = "load", !.ok = ok]
  <2>1. s.pc # "done"
    BY <1>0 DEF DeliveryState
  <2>2. delivery' = [delivery EXCEPT ![d] = s] /\ hookRow' = hookRow /\ recorded' = recorded
    BY <1>11 DEF Post, Goes
  <2> HIDE DEF s
  <2>3. QED
    BY <1>2, <2>1, <2>2
<1>12. ASSUME NEW d \in DOMAIN delivery, LoadRow(d)
       PROVE  EndedAreRecorded'
  <2>1. hookRow' = hookRow /\ recorded' = recorded
    BY <1>12 DEF LoadRow
  <2>2. CASE hookRow[d[2]].state = "live"
    <3> DEFINE s == [delivery[d] EXCEPT !.pc = "store", !.seenError = hookRow[d[2]].error]
    <3>1. s.pc # "done"
      BY <1>0 DEF DeliveryState
    <3>2. delivery' = [delivery EXCEPT ![d] = s]
      BY <1>12, <2>2 DEF LoadRow, Goes
    <3> HIDE DEF s
    <3>3. QED
      BY <1>2, <2>1, <3>1, <3>2
  <2>3. CASE hookRow[d[2]].state # "live"
    <3>1. PICK s : delivery' = [delivery EXCEPT ![d] = s]
      BY <1>12, <2>3 DEF LoadRow, Goes
    <3>2. QED
      BY <2>1, <2>3, <3>1 DEF EndedAreRecorded
  <2>4. QED
    BY <2>2, <2>3
<1>13. ASSUME NEW d \in DOMAIN delivery, StoreRow(d)
       PROVE  EndedAreRecorded'
  <2>1. PICK s : delivery' = [delivery EXCEPT ![d] = s]
    BY <1>13 DEF StoreRow, Goes
  <2>2. CASE hookRow[d[2]].state = "live"
    <3>1. /\ recorded' = recorded \cup {d}
          /\ \A h \in Hooks : hookRow'[h].state = hookRow[h].state
      BY <1>0, <1>13, <2>2 DEF StoreRow, HookState
    <3>2. QED
      BY <1>0, <2>1, <3>1 DEF EndedAreRecorded
  <2>3. CASE hookRow[d[2]].state # "live"
    <3>1. hookRow' = hookRow /\ recorded' = recorded
      BY <1>13, <2>3 DEF StoreRow
    <3>2. QED
      BY <2>1, <2>3, <3>1 DEF EndedAreRecorded
  <2>4. QED
    BY <2>2, <2>3
<1>14. CASE ApiStops
  <2>1. hookRow' = hookRow /\ recorded' = recorded /\ DOMAIN delivery' = DOMAIN delivery
    BY <1>14 DEF ApiStops
  <2>2. \A d \in DOMAIN delivery : delivery'[d].pc = "done" => delivery[d].pc = "done"
    BY <1>0, <1>14 DEF ApiStops, DeliveryState
  <2>3. QED
    BY <2>1, <2>2 DEF EndedAreRecorded
<1>15. CASE UNCHANGED partnerVars
  BY <1>1, <1>15 DEF partnerVars
<1>16. QED
  BY <1>4, <1>5, <1>6, <1>7, <1>8, <1>9, <1>10, <1>11, <1>12, <1>13, <1>14, <1>15
     DEF PartnersNext

LEMMA LastWriterTells ==
  ASSUME NEW h \in Hooks, hookRow[h].state = "live", HooksInv, EndedAreRecorded
  PROVE  RowTellsFailedPosts(h)
<1>0. /\ LastWriterKnown(h)
      /\ \A d \in recorded : d \in DOMAIN delivery /\ delivery[d].pc = "done"
      /\ \A d \in DOMAIN delivery : d[2] = h /\ delivery[d].pc = "done" => d \in recorded
  BY DEF HooksInv, HooksTypeOK, RecordedAreDone, EndedAreRecorded
<1>1. CASE hookRow[h].error
  <2>1. PICK f \in recorded : /\ f[2] = h /\ ~delivery[f].ok
                              /\ \A d \in Clearing(h) : <<f, d>> \notin earlier
    BY <1>0, <1>1 DEF LastWriterKnown
  <2>2. f \in Posted(h, FALSE)
    BY <1>0, <2>1 DEF Posted
  <2>3. Posted(h, TRUE) \subseteq Clearing(h)
    BY <1>0 DEF Posted, Clearing
  <2>4. QED
    BY <1>1, <2>1, <2>2, <2>3 DEF RowTellsFailedPosts
<1>2. CASE ~hookRow[h].error
  <2>1. Posted(h, FALSE) \subseteq Setting(h)
    BY <1>0 DEF Posted, Setting
  <2>2. \A s \in recorded : s[2] = h /\ delivery[s].ok => s \in Posted(h, TRUE)
    BY <1>0 DEF Posted
  <2>3. QED
    BY <1>0, <1>2, <2>1, <2>2 DEF LastWriterKnown, RowTellsFailedPosts
<1>3. QED
  BY <1>1, <1>2

(* The row of a live hook tells of the posts to it that failed, whatever   *)
(* overlaps and whenever it is read, an event reaches only hooks that      *)
(* subscribed to it, and a revoked key serves only a request that was      *)
(* authenticated before: for any partners, hooks, events, deliveries and   *)
(* restarts.                                                               *)
THEOREM PartnersAreServed == PartnersSpec => []PartnersServed
<1>1. KeysInv /\ HooksInv /\ EndedAreRecorded => PartnersServed
  <2> SUFFICES ASSUME KeysInv, HooksInv, EndedAreRecorded PROVE PartnersServed
    OBVIOUS
  <2>1. \A h \in Hooks : hookRow[h].state = "live" => RowTellsFailedPosts(h)
    BY LastWriterTells
  <2>2. \A d \in received : d[2] \in emitted[d[1]].to /\ emitted[d[1]].type \in hookRow[d[2]].events
    BY DEF HooksInv, HooksTypeOK, Addressed
  <2>3. \A a \in answered : a.stale
    BY DEF KeysInv
  <2>4. QED
    BY <2>1, <2>2, <2>3 DEF PartnersServed
<1>2. PartnersInit => EndedAreRecorded
  BY DEF PartnersInit, EndedAreRecorded
<1>3. KeysInv /\ HooksInv /\ EndedAreRecorded /\ [PartnersNext]_partnerVars
        => (KeysInv /\ HooksInv /\ EndedAreRecorded)'
  BY PartnersStepInv, EndedStep
<1>4. QED
  BY <1>1, <1>2, <1>3, PartnersInitInv, PTL DEF PartnersSpec

-----------------------------------------------------------------------------
(* Numbers below a bound: the least and the greatest of a set.             *)
LEMMA LeastExists ==
  ASSUME NEW S \in SUBSET Nat, S # {}
  PROVE  \E x \in S : \A y \in S : x =< y
<1> DEFINE R == {ss \in Nat \X Nat : ss[1] < ss[2]}
<1>1. IsWellFoundedOn(R, Nat)
  BY NatLessThanWellFounded DEF OpToRel
<1> HIDE DEF R
<1>2. PICK x \in S : \A y \in S : ~ (<<y, x>> \in R)
  BY <1>1, WFMin, Zenon
<1>3. ASSUME NEW y \in S PROVE x =< y
  <2>1. <<y, x>> \notin R
    BY <1>2
  <2> QED
    BY <2>1 DEF R
<1> QED
  BY <1>3

LEMMA GreatestExists ==
  ASSUME NEW S \in SUBSET Nat, S # {}, NEW b \in Nat, \A x \in S : x =< b
  PROVE  /\ Max(S) \in S
         /\ \A y \in S : y =< Max(S)
<1> DEFINE D == {b - x : x \in S}
<1>1. D \in SUBSET Nat /\ D # {}
  <2>1. \A x \in S : b - x \in Nat
    OBVIOUS
  <2> QED
    BY <2>1
<1>2. PICK d \in D : \A e \in D : d =< e
  BY <1>1, LeastExists
<1>3. PICK x \in S : d = b - x
  BY <1>2
<1>4. \A y \in S : x >= y
  BY <1>2, <1>3
<1> QED
  BY <1>3, <1>4 DEF Max

(* The rows of a query, and of a page: the lowest n of a set of ids.       *)
Below(i, S) == {j \in S : j < i}

LEMMA BelowCounted ==
  ASSUME NEW S \in SUBSET Nat, IsFiniteSet(S), NEW i \in Nat
  PROVE  /\ IsFiniteSet(Below(i, S))
         /\ Cardinality(Below(i, S)) \in Nat
         /\ Cardinality(Below(i, S)) =< Cardinality(S)
<1>1. Below(i, S) \subseteq S
  BY DEF Below
<1> QED
  BY <1>1, FS_Subset, FS_CardinalityType

LEMMA LowestIs ==
  ASSUME NEW n, NEW S
  PROVE  LowestOf(n, S) = {i \in S : Cardinality(Below(i, S)) < n}
BY DEF LowestOf, Below

LEMMA LowestClosed ==
  ASSUME NEW S \in SUBSET Nat, IsFiniteSet(S), NEW n \in Nat,
         NEW i \in LowestOf(n, S), NEW j \in S, j < i
  PROVE  j \in LowestOf(n, S)
<1>1. i \in S /\ Cardinality(Below(i, S)) < n
  BY LowestIs
<1>2. Below(j, S) \subseteq Below(i, S)
  <2>1. \A k \in S : k \in Nat
    OBVIOUS
  <2>2. i \in Nat /\ j \in Nat
    BY <1>1, <2>1
  <2>3. \A k \in S : k < j => k < i
    BY <2>1, <2>2
  <2> QED
    BY <2>3 DEF Below
<1>3. Cardinality(Below(j, S)) =< Cardinality(Below(i, S))
  BY <1>1, <1>2, BelowCounted, FS_Subset
<1>4. Cardinality(Below(j, S)) \in Nat /\ Cardinality(Below(i, S)) \in Nat
  BY <1>1, BelowCounted
<1>5. Cardinality(Below(j, S)) < n
  BY <1>1, <1>3, <1>4
<1> QED
  BY <1>5, LowestIs

LEMMA LowestExists ==
  ASSUME NEW S \in SUBSET Nat, S # {}, NEW n \in Nat \ {0}
  PROVE  LowestOf(n, S) # {}
<1>1. PICK x \in S : \A y \in S : x =< y
  BY LeastExists
<1>2. Below(x, S) = {}
  <2>1. \A k \in S : ~ (k < x)
    BY <1>1
  <2> QED
    BY <2>1 DEF Below
<1>3. Cardinality(Below(x, S)) < n
  BY <1>2, FS_EmptySet
<1> QED
  BY <1>1, <1>3, LowestIs

LEMMA LowestAll ==
  ASSUME NEW S \in SUBSET Nat, IsFiniteSet(S), NEW n \in Nat, Cardinality(S) < n
  PROVE  LowestOf(n, S) = S
<1>1. ASSUME NEW i \in S PROVE Cardinality(Below(i, S)) < n
  BY BelowCounted, FS_CardinalityType
<1> QED
  BY <1>1, LowestIs

LEMMA LowestMany ==
  ASSUME NEW S \in SUBSET Nat, IsFiniteSet(S), NEW n \in Nat, Cardinality(S) >= n
  PROVE  Cardinality(LowestOf(n, S)) >= n
<1> DEFINE L == LowestOf(n, S)
<1>1. L \subseteq S
  BY DEF LowestOf
<1>2. IsFiniteSet(L) /\ Cardinality(L) \in Nat /\ Cardinality(S) \in Nat
  BY <1>1, FS_Subset, FS_CardinalityType
<1>3. SUFFICES ASSUME Cardinality(L) < n PROVE FALSE
  BY <1>2
<1>4. S \ L # {}
  BY <1>1, <1>2, <1>3
<1>5. PICK x \in S \ L : \A y \in S \ L : x =< y
  BY <1>4, LeastExists
<1>6. Below(x, S) \subseteq L
  <2>1. \A k \in S : k < x => k \in L
    BY <1>5
  <2> QED
    BY <2>1 DEF Below
<1>7. Cardinality(Below(x, S)) =< Cardinality(L)
  BY <1>2, <1>6, FS_Subset
<1>8. Cardinality(Below(x, S)) \in Nat
  BY BelowCounted
<1>9. Cardinality(Below(x, S)) < n
  BY <1>2, <1>3, <1>7, <1>8
<1> QED
  BY <1>5, <1>9, LowestIs

-----------------------------------------------------------------------------
(* Integration: the inductive invariant of the walk.                       *)

Walks == [state : {"ready", "reading", "failed", "done"}, cursor : Nat, at : Nat,
          page : SUBSET BondIds, queries : Nat, more : BOOLEAN, exhausted : BOOLEAN,
          seen : SUBSET BondIds, repeated : SUBSET BondIds, steady : SUBSET BondIds]

WalkTypeOK ==
  /\ bond \in [BondIds -> {"absent", "match", "other"}]
  /\ walk \in Walks

(* Every row that stands is answered up to the cursor, none beyond it.     *)
SeenToCursor(w) ==
  /\ w.repeated = {}
  /\ \A i \in w.seen : i =< w.cursor
  /\ \A i \in w.steady : i =< w.cursor => i \in w.seen

(* What a request has found lies between its cursor and where it reads; a  *)
(* row that stands there was found, or comes after a full page.            *)
PageHolds(w) ==
  /\ w.cursor =< w.at
  /\ \A i \in w.page : w.cursor < i /\ i =< w.at
  /\ w.more <=> Cardinality(w.page) >= PageLimit
  /\ \A i \in w.steady : w.cursor < i /\ i =< w.at =>
       \/ i \in w.page
       \/ w.more /\ \A j \in Answered(w) : j < i

WalkInv ==
  /\ walk.steady \subseteq Matching
  /\ walk.state # "done" => SeenToCursor(walk)
  /\ walk.state = "reading" => PageHolds(walk)
  /\ WalkComplete

LEMMA IdsAreNumbers ==
  ASSUME NEW S \in SUBSET BondIds
  PROVE  /\ S \in SUBSET Nat
         /\ IsFiniteSet(S)
         /\ Cardinality(S) \in Nat
         /\ \A i \in S : i \in Nat /\ i =< LastBond
<1>1. IsFiniteSet(BondIds)
  BY FS_Interval, IntegrationAssumption DEF BondIds
<1>2. IsFiniteSet(S)
  BY <1>1, FS_Subset
<1> QED
  BY <1>2, FS_CardinalityType, IntegrationAssumption DEF BondIds

LEMMA AnsweredIs ==
  ASSUME NEW w \in Walks
  PROVE  /\ Answered(w) \subseteq w.page
         /\ w.page # {} => Answered(w) # {}
         /\ Cardinality(w.page) < PageLimit => Answered(w) = w.page
         /\ \A i \in Answered(w), j \in w.page : j < i => j \in Answered(w)
<1>1. w.page \in SUBSET BondIds
  BY DEF Walks
<1>2. w.page \in SUBSET Nat /\ IsFiniteSet(w.page) /\ PageLimit \in Nat \ {0}
  BY <1>1, IdsAreNumbers, IntegrationAssumption
<1>3. Answered(w) \subseteq w.page
  BY DEF Answered, LowestOf
<1>4. w.page # {} => Answered(w) # {}
  BY <1>2, LowestExists DEF Answered
<1>5. Cardinality(w.page) < PageLimit => Answered(w) = w.page
  BY <1>2, LowestAll DEF Answered
<1>6. ASSUME NEW i \in Answered(w), NEW j \in w.page, j < i PROVE j \in Answered(w)
  BY <1>2, <1>6, LowestClosed DEF Answered
<1> QED
  BY <1>3, <1>4, <1>5, <1>6

(* A request ends with a page that keeps the walk complete.                *)
LEMMA AnswerKeeps ==
  ASSUME NEW w \in Walks, SeenToCursor(w), PageHolds(w),
         ~ w.more /\ w.exhausted => \A i \in w.steady : i =< w.at
  PROVE  LET a == AnswerPage(w)
         IN  /\ a \in Walks
             /\ a.steady = w.steady
             /\ a.state \in {"ready", "failed", "done"}
             /\ a.repeated = {}
             /\ a.state # "done" => SeenToCursor(a)
             /\ a.state = "done" => a.steady \subseteq a.seen
             /\ a.state = "failed" => \A i \in a.steady : i =< a.cursor \/ i > a.at
<1> DEFINE a == AnswerPage(w)
           hasNext == w.more \/ ~ w.exhausted
           items == Answered(w)
<1>1. /\ w.page \in SUBSET BondIds /\ w.seen \in SUBSET BondIds /\ w.steady \in SUBSET BondIds
      /\ w.repeated = {} /\ w.cursor \in Nat /\ w.at \in Nat
      /\ w.more \in BOOLEAN /\ w.exhausted \in BOOLEAN
  BY DEF Walks, SeenToCursor
<1>2. /\ \A i \in w.page : i \in Nat /\ i =< LastBond
      /\ \A i \in w.steady : i \in Nat
      /\ \A i \in w.seen : i \in Nat
      /\ Cardinality(w.page) \in Nat
      /\ LastBond \in Nat /\ PageLimit \in Nat \ {0}
  BY <1>1, IdsAreNumbers, IntegrationAssumption
<1>3. items \in SUBSET w.page
  BY AnsweredIs
<1>4. ~ w.more => items = w.page
  BY <1>2, AnsweredIs DEF PageHolds
<1>5. CASE hasNext /\ w.page = {}
  <2>1. a = [w EXCEPT !.state = "failed"]
    BY <1>5 DEF AnswerPage
  <2>2. /\ a \in Walks /\ a.state = "failed" /\ a.steady = w.steady /\ a.repeated = w.repeated
        /\ a.seen = w.seen /\ a.cursor = w.cursor /\ a.at = w.at
    BY <2>1 DEF Walks
  <2>3. ~ w.more
    BY <1>2, <1>5, FS_EmptySet DEF PageHolds
  <2>4. \A i \in w.steady : i =< w.cursor \/ i > w.at
    BY <1>1, <1>2, <1>5, <2>3 DEF PageHolds
  <2>5. SeenToCursor(a)
    BY <2>2 DEF SeenToCursor
  <2> QED
    BY <1>1, <2>2, <2>4, <2>5
<1>6. CASE ~ (hasNext /\ w.page = {})
  <2> DEFINE late == {i \in items : \E j \in w.seen : i <= j}
             next == IF hasNext THEN NextCursor(w) ELSE w.cursor
             then == IF hasNext THEN "ready" ELSE "done"
             both == w.seen \cup items
             again == w.repeated \cup late
  <2>1. a = [w EXCEPT !.state = then, !.cursor = next, !.seen = both, !.repeated = again,
                      !.at = 0, !.page = {}, !.queries = 0, !.more = FALSE, !.exhausted = TRUE]
    BY <1>6 DEF AnswerPage
  <2>2. late = {}
    <3>1. ASSUME NEW i \in items, NEW j \in w.seen PROVE ~ (i <= j)
      BY <1>1, <1>2, <1>3 DEF SeenToCursor, PageHolds
    <3> QED
      BY <3>1
  <2>3. hasNext => /\ NextCursor(w) \in items
                   /\ \A i \in items : i =< NextCursor(w)
    <3>1. SUFFICES ASSUME hasNext PROVE /\ NextCursor(w) \in items
                                        /\ \A i \in items : i =< NextCursor(w)
      OBVIOUS
    <3>2. items # {}
      BY <1>6, <3>1, AnsweredIs
    <3>3. items \in SUBSET Nat
      BY <1>2, <1>3
    <3>4. \A i \in items : i =< LastBond
      BY <1>2, <1>3
    <3> QED
      BY <1>2, <3>2, <3>3, <3>4, GreatestExists DEF NextCursor
  <2>4. next \in Nat
    BY <1>1, <1>2, <1>3, <2>3
  <2>5. both \in SUBSET BondIds /\ again = {} /\ then \in {"ready", "done"}
    BY <1>1, <1>3, <2>2
  <2> HIDE DEF late, next, then, both, again, a
  <2>8. /\ a \in Walks /\ a.steady = w.steady /\ a.repeated = {} /\ a.state = then
        /\ a.seen = both /\ a.cursor = next
    BY <2>1, <2>4, <2>5 DEF Walks
  <2> USE DEF then, both
  <2>6. ASSUME ~ hasNext PROVE a.steady \subseteq a.seen
    <3>1. ~ w.more /\ w.exhausted
      BY <2>6, <1>1
    <3>2. ASSUME NEW i \in w.steady PROVE i \in w.seen \cup items
      <4>1. i =< w.at
        BY <3>1
      <4>2. i =< w.cursor => i \in w.seen
        BY DEF SeenToCursor
      <4>3. w.cursor < i => i \in w.page
        BY <3>1, <4>1 DEF PageHolds
      <4> QED
        BY <1>1, <1>2, <1>4, <3>1, <4>2, <4>3
    <3> QED
      BY <2>8, <3>2
  <2>7. ASSUME hasNext PROVE SeenToCursor(a)
    <3> DEFINE c == NextCursor(w)
    <3>1. next = c /\ c \in items /\ \A i \in items : i =< c
      BY <2>3, <2>7 DEF next
    <3> HIDE DEF c
    <3>2. c \in Nat /\ w.cursor < c /\ c =< w.at
      BY <1>2, <1>3, <3>1 DEF PageHolds
    <3>3. \A i \in w.seen \cup items : i =< c
      BY <1>1, <1>2, <3>1, <3>2 DEF SeenToCursor
    <3>4. ASSUME NEW i \in w.steady, i =< c PROVE i \in w.seen \cup items
      <4>1. CASE i =< w.cursor
        BY <4>1 DEF SeenToCursor
      <4>2. CASE w.cursor < i /\ i \in w.page
        BY <1>2, <3>1, <3>2, <3>4, <4>2, AnsweredIs
      <4>3. CASE w.cursor < i /\ i \notin w.page
        <5>1. i =< w.at
          BY <1>1, <1>2, <3>2, <3>4
        <5>2. \A j \in items : j < i
          BY <4>3, <5>1 DEF PageHolds
        <5> QED
          BY <1>2, <3>1, <3>2, <3>4, <5>2
      <4> QED
        BY <1>1, <1>2, <4>1, <4>2, <4>3
    <3> QED
      BY <2>8, <3>1, <3>3, <3>4 DEF SeenToCursor
  <2> QED
    BY <2>5, <2>6, <2>7, <2>8 DEF a
<1> QED
  BY <1>5, <1>6

(* A query passes over no row that stands, unless the page is full.        *)
LEMMA ReadKeeps ==
  ASSUME WalkTypeOK, walk.steady \subseteq Matching, SeenToCursor(walk), PageHolds(walk)
  PROVE  LET rows == Batch(walk.at)
             r == Read(rows)
         IN  /\ r \in Walks
             /\ r.state = walk.state
             /\ r.steady = walk.steady
             /\ SeenToCursor(r)
             /\ PageHolds(r)
             /\ Cardinality(rows) < BATCH => \A i \in Matching : i =< r.at
<1> DEFINE left == {i \in BondIds : i > walk.at /\ bond[i] # "absent"}
           rows == Batch(walk.at)
           found == rows \cap Matching
           room == Room(walk.page)
           new == LowestOf(room, found)
           page == walk.page \cup new
           r == Read(rows)
<1>1. /\ walk \in Walks /\ walk.page \in SUBSET BondIds /\ walk.seen \in SUBSET BondIds
      /\ walk.steady \in SUBSET BondIds
      /\ walk.at \in Nat /\ walk.cursor \in Nat /\ walk.more \in BOOLEAN
  BY DEF WalkTypeOK, Walks
<1>2. BATCH \in Nat \ {0} /\ PageLimit \in Nat \ {0} /\ LastBond \in Nat
  BY IntegrationAssumption
<1>3. /\ left \in SUBSET BondIds /\ rows \in SUBSET left /\ found \in SUBSET rows
      /\ new \in SUBSET found
  BY DEF Batch, LowestOf
<1>4. /\ \A i \in left : i \in Nat /\ i =< LastBond /\ walk.at < i
      /\ Cardinality(walk.page) \in Nat
      /\ \A i \in walk.page : i \in Nat
      /\ \A i \in walk.steady : i \in Nat
  BY <1>1, <1>2, <1>3, IdsAreNumbers DEF BondIds
<1>5. rows = LowestOf(BATCH, left)
  BY DEF Batch
<1>6. ASSUME NEW i \in Matching, walk.at < i PROVE i \in left
  BY <1>6 DEF Matching
<1>7. /\ left \in SUBSET Nat /\ IsFiniteSet(left) /\ Cardinality(left) \in Nat
      /\ found \in SUBSET Nat /\ IsFiniteSet(found)
      /\ new \in SUBSET BondIds /\ page \in SUBSET BondIds
      /\ Cardinality(page) \in Nat /\ Cardinality(new) \in Nat /\ Cardinality(rows) \in Nat
      /\ IsFiniteSet(page) /\ IsFiniteSet(walk.page) /\ IsFiniteSet(new)
  <2>1. /\ found \in SUBSET BondIds /\ new \in SUBSET BondIds /\ page \in SUBSET BondIds
        /\ rows \in SUBSET BondIds
    BY <1>1, <1>3
  <2> HIDE DEF left, rows, found, new, page
  <2> QED
    BY <1>1, <1>3, <2>1, IdsAreNumbers
<1>8. room \in Nat \ {0}
  BY <1>2, <1>4 DEF Room
<1> HIDE DEF left, room
<1>9. ASSUME Cardinality(rows) < BATCH PROVE rows = left
  <2>1. Cardinality(left) < BATCH
    BY <1>2, <1>5, <1>7, <1>9, LowestMany
  <2> QED
    BY <1>2, <1>5, <1>7, <2>1, LowestAll
<1>10. CASE rows = {}
  <2>1. r = walk
    BY <1>10 DEF Read
  <2>2. left = {}
    BY <1>2, <1>5, <1>7, <1>10, LowestExists
  <2>3. ASSUME NEW i \in Matching PROVE i =< walk.at
    <3>1. i \in Nat
      BY <1>2 DEF Matching, BondIds
    <3> QED
      BY <1>1, <1>6, <2>2, <3>1
  <2> QED
    BY <1>1, <2>1, <2>3
<1>11. CASE rows # {}
  <2> DEFINE m == Max(rows)
             full == walk.more \/ (found # {} /\ Cardinality(page) >= PageLimit)
             out == Cardinality(rows) < BATCH
             q == walk.queries + 1
  <2>1. m \in rows /\ \A i \in rows : i =< m
    <3>1. rows \in SUBSET Nat
      BY <1>3, <1>7
    <3>2. \A i \in rows : i =< LastBond
      BY <1>3, <1>4
    <3> QED
      BY <1>2, <1>11, <3>1, <3>2, GreatestExists
  <2>2. m \in Nat /\ walk.at < m
    BY <1>3, <1>4, <2>1
  <2>3. r = [walk EXCEPT !.at = m, !.page = page, !.queries = q, !.more = full, !.exhausted = out]
    BY <1>11 DEF Read, Collected, room
  <2>4. full \in BOOLEAN /\ out \in BOOLEAN /\ q \in Nat
    BY <1>1 DEF Walks
  <2> HIDE DEF m, full, out, q, page, r
  <2>5. /\ r \in Walks /\ r.state = walk.state /\ r.steady = walk.steady /\ r.seen = walk.seen
        /\ r.repeated = walk.repeated /\ r.cursor = walk.cursor
        /\ r.at = m /\ r.page = page /\ r.more = full
    BY <1>1, <1>7, <2>2, <2>3, <2>4 DEF Walks
  <2>6. SeenToCursor(r)
    BY <2>5 DEF SeenToCursor
  <2>7. ASSUME NEW i \in Matching, walk.at < i, i =< m PROVE i \in found
    <3>1. i \in left /\ m \in LowestOf(BATCH, left)
      BY <1>5, <1>6, <2>1, <2>7
    <3>2. i = m \/ i < m
      BY <1>4, <2>2, <2>7, <3>1
    <3>3. i \in rows
      BY <1>2, <1>5, <1>7, <3>1, <3>2, LowestClosed
    <3> QED
      BY <2>7, <3>3
  <2>8. Cardinality(walk.page) =< Cardinality(page)
    BY <1>7, FS_Subset DEF page
  <2>9. full <=> Cardinality(page) >= PageLimit
    <3>1. walk.more => Cardinality(page) >= PageLimit
      BY <1>2, <1>4, <1>7, <2>8 DEF PageHolds
    <3>2. found = {} => page = walk.page
      BY <1>3 DEF page
    <3> QED
      BY <1>1, <3>1, <3>2 DEF full, PageHolds
  <2>10. \A i \in page : i \in Nat /\ walk.cursor < i /\ i =< m
    <3>1. \A i \in walk.page : walk.cursor < i /\ i =< walk.at
      BY DEF PageHolds
    <3>2. \A i \in new : i \in Nat /\ walk.at < i /\ i =< m
      BY <1>3, <1>4, <2>1
    <3>3. walk.cursor =< walk.at
      BY DEF PageHolds
    <3> QED
      BY <1>1, <1>4, <2>2, <3>1, <3>2, <3>3 DEF page
  <2>11. ASSUME NEW i \in walk.steady, walk.cursor < i, i =< m
         PROVE  i \in page \/ (full /\ \A j \in Answered(r) : j < i)
    <3>0. i \in Matching /\ i \in Nat /\ Answered(r) \subseteq page
      BY <1>1, <1>4, <2>5, AnsweredIs
    <3>1. CASE i =< walk.at /\ i \in walk.page
      BY <3>1 DEF page
    <3>2. CASE i =< walk.at /\ i \notin walk.page
      <4>1. walk.more /\ \A j \in Answered(walk) : j < i
        BY <2>11, <3>2 DEF PageHolds
      <4>2. Cardinality(walk.page) >= PageLimit
        BY <4>1 DEF PageHolds
      <4>3. ASSUME NEW j \in Answered(r) PROVE j < i
        <5>1. j \in page /\ j \in Nat /\ Cardinality(Below(j, page)) < PageLimit
          BY <1>2, <2>5, <2>10, <3>0, LowestIs DEF Answered
        <5>2. CASE j \in walk.page
          <6>1. Below(j, walk.page) \subseteq Below(j, page)
            BY DEF Below, page
          <6>2. /\ Cardinality(Below(j, walk.page)) =< Cardinality(Below(j, page))
                /\ Cardinality(Below(j, walk.page)) \in Nat
                /\ Cardinality(Below(j, page)) \in Nat
            <7>1. page \in SUBSET Nat /\ walk.page \in SUBSET Nat
              BY <1>4, <2>10
            <7> QED
              BY <1>7, <5>1, <6>1, <7>1, BelowCounted, FS_Subset
          <6>3. Cardinality(Below(j, walk.page)) < PageLimit
            BY <1>2, <5>1, <6>2
          <6>4. j \in Answered(walk)
            BY <5>2, <6>3, LowestIs DEF Answered
          <6> QED
            BY <4>1, <6>4
        <5>3. CASE j \notin walk.page
          <6>1. j \in new
            BY <5>1, <5>3 DEF page
          <6>2. walk.at < j
            BY <1>3, <1>4, <6>1
          <6>3. \A k \in walk.page : k < j
            BY <1>1, <1>4, <5>1, <6>2 DEF PageHolds
          <6>4. walk.page \subseteq Below(j, page)
            BY <6>3 DEF Below, page
          <6>5. /\ Cardinality(walk.page) =< Cardinality(Below(j, page))
                /\ Cardinality(Below(j, page)) \in Nat
            <7>1. page \in SUBSET Nat
              BY <2>10
            <7> QED
              BY <1>7, <5>1, <6>4, <7>1, BelowCounted, FS_Subset
          <6> QED
            BY <1>2, <1>4, <4>2, <5>1, <6>5
        <5> QED
          BY <5>2, <5>3
      <4>4. full
        BY <4>1 DEF full
      <4> QED
        BY <4>3, <4>4
    <3>3. CASE walk.at < i
      <4>1. i \in found
        BY <2>7, <2>11, <3>0, <3>3
      <4>2. SUFFICES ASSUME i \notin new
                     PROVE  full /\ \A j \in page : j < i
        BY <3>0 DEF page
      <4>3. ASSUME NEW j \in page PROVE j < i
        <5>1. CASE j \in walk.page
          BY <1>1, <1>4, <3>0, <3>3, <5>1 DEF PageHolds
        <5>2. CASE j \in new
          <6>1. j \in Nat /\ j # i /\ ~ (i < j)
            BY <1>7, <1>8, <2>10, <4>1, <4>2, <5>2, LowestClosed
          <6> QED
            BY <3>0, <6>1
        <5> QED
          BY <5>1, <5>2 DEF page
      <4>4. Cardinality(Below(i, found)) >= room /\ Cardinality(Below(i, found)) \in Nat
        <5>1. Cardinality(Below(i, found)) \in Nat
          BY <1>7, <3>0, BelowCounted
        <5> QED
          BY <1>8, <4>1, <4>2, <5>1, LowestIs
      <4>5. Cardinality(found) >= room
        BY <1>7, <1>8, <3>0, <4>4, BelowCounted, FS_CardinalityType
      <4>6. Cardinality(new) >= room
        BY <1>7, <1>8, <4>5, LowestMany
      <4>7. Cardinality(page) = Cardinality(walk.page) + Cardinality(new)
        <5>1. walk.page \cap new = {}
          <6>1. \A k \in new : walk.at < k /\ k \in Nat
            BY <1>3, <1>4
          <6>2. \A k \in walk.page : k =< walk.at
            BY DEF PageHolds
          <6> QED
            BY <1>1, <6>1, <6>2
        <5>2. Cardinality(walk.page \cap new) = 0
          BY <5>1, FS_EmptySet
        <5>3. Cardinality(page) = Cardinality(walk.page) + Cardinality(new)
                                    - Cardinality(walk.page \cap new)
          BY <1>7, FS_Union DEF page
        <5> QED
          BY <1>4, <1>7, <5>2, <5>3
      <4>8. Cardinality(page) >= PageLimit
        BY <1>2, <1>4, <1>7, <4>6, <4>7 DEF room, Room
      <4> QED
        BY <2>9, <4>3, <4>8
    <3> QED
      BY <1>1, <3>0, <3>1, <3>2, <3>3
  <2>12. PageHolds(r)
    <3>1. r.cursor =< r.at
      BY <1>1, <2>2, <2>5 DEF PageHolds
    <3> QED
      BY <2>5, <2>9, <2>10, <2>11, <3>1 DEF PageHolds
  <2>13. ASSUME Cardinality(rows) < BATCH, NEW i \in Matching PROVE i =< r.at
    <3>1. i \in Nat
      BY <1>2 DEF Matching, BondIds
    <3>2. walk.at < i => i =< m
      BY <1>6, <1>9, <2>1, <2>13
    <3> QED
      BY <1>1, <2>2, <2>5, <3>1, <3>2
  <2> QED
    BY <2>5, <2>6, <2>12, <2>13 DEF r
<1> QED
  BY <1>10, <1>11

IntegrationWalkInv == WalkTypeOK /\ WalkInv

LEMMA WalkInit ==
  IntegrationInit => IntegrationWalkInv
<1> SUFFICES ASSUME IntegrationInit PROVE IntegrationWalkInv
  OBVIOUS
<1>1. Matching \in SUBSET BondIds
  BY DEF Matching
<1>2. walk = NewWalk /\ bond \in [BondIds -> {"absent", "match", "other"}]
  BY DEF IntegrationInit
<1>3. /\ walk \in Walks /\ walk.state = "ready" /\ walk.steady = Matching /\ walk.repeated = {}
      /\ walk.seen = {} /\ walk.cursor = 0
  BY <1>1, <1>2 DEF NewWalk, Walks
<1>4. \A i \in Matching : ~ (i =< 0)
  BY <1>1, IdsAreNumbers, IntegrationAssumption DEF BondIds
<1> QED
  BY <1>2, <1>3, <1>4 DEF IntegrationWalkInv, WalkTypeOK, WalkInv, SeenToCursor, WalkComplete

LEMMA WalkStays ==
  ASSUME IntegrationWalkInv, bond' = bond, walk' = walk
  PROVE  IntegrationWalkInv'
BY DEF IntegrationWalkInv, WalkTypeOK, WalkInv, SeenToCursor, PageHolds, WalkComplete, Answered, Matching

LEMMA ScrapeKeeps ==
  ASSUME IntegrationWalkInv, NEW i \in BondIds, NEW b \in {"match", "other"}, ScrapeBond(i, b)
  PROVE  IntegrationWalkInv'
<1>1. /\ walk \in Walks /\ bond \in [BondIds -> {"absent", "match", "other"}]
      /\ bond' = [bond EXCEPT ![i] = b]
      /\ walk' = [walk EXCEPT !.steady = walk.steady \ {i}]
  BY DEF IntegrationWalkInv, WalkTypeOK, ScrapeBond
<1>2. walk.steady \ {i} \in SUBSET BondIds
  BY <1>1 DEF Walks
<1>3. /\ walk' \in Walks /\ walk'.state = walk.state /\ walk'.steady = walk.steady \ {i}
      /\ walk'.cursor = walk.cursor /\ walk'.at = walk.at /\ walk'.page = walk.page
      /\ walk'.more = walk.more /\ walk'.seen = walk.seen /\ walk'.repeated = walk.repeated
  BY <1>1, <1>2 DEF Walks
<1>4. bond' \in [BondIds -> {"absent", "match", "other"}]
  BY <1>1
<1>5. Matching \ {i} \subseteq Matching'
  BY <1>1 DEF Matching
<1>6. Answered(walk)' = Answered(walk)
  BY <1>3 DEF Answered
<1>7. SeenToCursor(walk) => SeenToCursor(walk)'
  BY <1>3 DEF SeenToCursor
<1>8. PageHolds(walk) => PageHolds(walk)'
  BY <1>3, <1>6 DEF PageHolds
<1>9. WalkComplete'
  BY <1>3 DEF IntegrationWalkInv, WalkInv, WalkComplete
<1> QED
  BY <1>3, <1>4, <1>5, <1>7, <1>8, <1>9 DEF IntegrationWalkInv, WalkTypeOK, WalkInv

LEMMA AskKeeps ==
  ASSUME IntegrationWalkInv, AskForPage
  PROVE  IntegrationWalkInv'
<1>1. /\ walk \in Walks /\ walk.state = "ready" /\ bond' = bond
      /\ walk' = [walk EXCEPT !.state = "reading", !.at = walk.cursor, !.page = {}, !.queries = 0,
                              !.more = FALSE, !.exhausted = TRUE]
  BY DEF IntegrationWalkInv, WalkTypeOK, AskForPage
<1>2. /\ walk' \in Walks /\ walk'.state = "reading" /\ walk'.steady = walk.steady
      /\ walk'.cursor = walk.cursor /\ walk'.at = walk.cursor /\ walk'.page = {}
      /\ walk'.more = FALSE /\ walk'.seen = walk.seen /\ walk'.repeated = walk.repeated
  BY <1>1 DEF Walks
<1>3. SeenToCursor(walk)'
  BY <1>1, <1>2 DEF IntegrationWalkInv, WalkInv, SeenToCursor
<1>4. PageHolds(walk)'
  <2>1. ~ (Cardinality({}) >= PageLimit)
    BY FS_EmptySet, IntegrationAssumption
  <2>2. walk.cursor \in Nat /\ \A i \in walk.steady : i \in Nat
    <3>1. walk.steady \in SUBSET BondIds
      BY <1>1 DEF Walks
    <3> QED
      BY <1>1, <3>1, IdsAreNumbers DEF Walks
  <2> QED
    BY <1>2, <2>1, <2>2 DEF PageHolds
<1> QED
  BY <1>1, <1>2, <1>3, <1>4
  DEF IntegrationWalkInv, WalkTypeOK, WalkInv, WalkComplete, SeenToCursor, Matching

LEMMA RetryKeeps ==
  ASSUME IntegrationWalkInv, RetryPage
  PROVE  IntegrationWalkInv'
<1>1. /\ walk \in Walks /\ walk.state = "failed" /\ bond' = bond
      /\ walk' = [walk EXCEPT !.state = "ready"]
  BY DEF IntegrationWalkInv, WalkTypeOK, RetryPage
<1>2. /\ walk' \in Walks /\ walk'.state = "ready" /\ walk'.steady = walk.steady
      /\ walk'.cursor = walk.cursor /\ walk'.seen = walk.seen /\ walk'.repeated = walk.repeated
  BY <1>1 DEF Walks
<1> QED
  BY <1>1, <1>2 DEF IntegrationWalkInv, WalkTypeOK, WalkInv, WalkComplete, SeenToCursor, Matching

LEMMA ReadBatchKeeps ==
  ASSUME IntegrationWalkInv, ReadBatch
  PROVE  IntegrationWalkInv'
<1> DEFINE rows == Batch(walk.at)
           r == Read(rows)
           a == AnswerPage(r)
           short == Cardinality(rows) < BATCH
           ends == short \/ r.queries = BATCHES
<1>1. /\ walk.state = "reading" /\ bond' = bond
      /\ walk' = IF ends THEN a ELSE r
  BY DEF ReadBatch
<1>2. /\ WalkTypeOK /\ walk.steady \subseteq Matching /\ SeenToCursor(walk) /\ PageHolds(walk)
  BY <1>1 DEF IntegrationWalkInv, WalkInv
<1>3. /\ r \in Walks /\ r.state = "reading" /\ r.steady = walk.steady
      /\ SeenToCursor(r) /\ PageHolds(r)
      /\ short => \A i \in Matching : i =< r.at
  BY <1>1, <1>2, ReadKeeps
<1>4. CASE ~ ends
  <2>1. walk' = r
    BY <1>1, <1>4
  <2> HIDE DEF r
  <2>2. SeenToCursor(walk)' /\ PageHolds(walk)' /\ WalkComplete'
    BY <1>3, <2>1 DEF SeenToCursor, PageHolds, WalkComplete, Answered
  <2> QED
    BY <1>1, <1>2, <1>3, <2>1, <2>2 DEF IntegrationWalkInv, WalkTypeOK, WalkInv, Matching
<1>5. CASE ends
  <2>1. walk' = a
    BY <1>1, <1>5
  <2>2. r.exhausted => short
    <3>1. CASE rows = {}
      BY <3>1, FS_EmptySet, IntegrationAssumption
    <3>2. CASE rows # {}
      <4>1. r.exhausted = short
        BY <1>2, <3>2 DEF Read, WalkTypeOK, Walks
      <4> QED
        BY <4>1
    <3> QED
      BY <3>1, <3>2
  <2>3. r.exhausted => \A i \in r.steady : i =< r.at
    BY <1>2, <1>3, <2>2
  <2> HIDE DEF r, a
  <2>4. /\ a \in Walks /\ a.steady = r.steady /\ a.state \in {"ready", "failed", "done"}
        /\ a.repeated = {}
        /\ a.state # "done" => SeenToCursor(a)
        /\ a.state = "done" => a.steady \subseteq a.seen
        /\ a.state = "failed" => \A i \in a.steady : i =< a.cursor \/ i > a.at
    BY <1>3, <2>3, AnswerKeeps DEF a
  <2>5. /\ walk'.state # "done" => SeenToCursor(walk)'
        /\ WalkComplete' /\ walk'.state # "reading"
    BY <2>1, <2>4 DEF SeenToCursor, WalkComplete
  <2> QED
    BY <1>1, <1>2, <1>3, <2>1, <2>4, <2>5 DEF IntegrationWalkInv, WalkTypeOK, WalkInv, Matching
<1> QED
  BY <1>4, <1>5

-----------------------------------------------------------------------------
(* The instrument map.                                                     *)

Versions == [target : BondIds, open : BOOLEAN]
Upserts == [state : {"idle", "write"}, over : Nat, changed : BOOLEAN, target : BondIds \cup {NoBond},
            retired : BOOLEAN]

(* An upsert that is under way alone builds upon the version that answers. *)
MapInv ==
  /\ versions \in Seq(Versions)
  /\ mapper \in [Mappers -> Upserts]
  /\ \A m \in Mappers : mapper[m].state = "write" => mapper[m].target \in BondIds
  /\ mixed \in BOOLEAN
  /\ ~ mixed => \A m \in Mappers : mapper[m].state = "write" =>
       /\ \A other \in Mappers \ {m} : mapper[other].state = "idle"
       /\ mapper[m].over = Resolved
       /\ mapper[m].changed => Resolved # 0
  /\ MapFollowsUpserts

(* `n` is the newest open version of a table, or 0.                        *)
IsNewest(n, table) ==
  \/ n = 0 /\ \A v \in DOMAIN table : ~ table[v].open
  \/ n \in DOMAIN table /\ table[n].open /\ \A v \in DOMAIN table : table[v].open => v =< n

ResolvedOf(table) ==
  LET open == {v \in DOMAIN table : table[v].open} IN IF open = {} THEN 0 ELSE Max(open)

LEMMA RowReplaced ==
  ASSUME NEW S, NEW table \in Seq(S), NEW n, NEW row \in S
  PROVE  LET after == [table EXCEPT ![n] = row]
         IN  /\ after \in Seq(S) /\ Len(after) = Len(table) /\ DOMAIN after = DOMAIN table
             /\ \A v \in DOMAIN table : v # n => after[v] = table[v]
             /\ n \in DOMAIN table => after[n] = row
<1> DEFINE after == [table EXCEPT ![n] = row]
<1>1. table \in [1 .. Len(table) -> S] /\ Len(table) \in Nat
  OBVIOUS
<1>2. after \in [1 .. Len(table) -> S]
  BY <1>1
<1>3. after \in Seq(S) /\ Len(after) = Len(table)
  BY <1>1, <1>2
<1> QED
  BY <1>1, <1>3

LEMMA RowClosed ==
  ASSUME NEW row \in Versions
  PROVE  [row EXCEPT !.open = FALSE] \in Versions /\ [row EXCEPT !.open = FALSE].open = FALSE
BY DEF Versions

LEMMA ResolvedIsNewest ==
  ASSUME NEW table \in Seq(Versions)
  PROVE  /\ IsNewest(ResolvedOf(table), table)
         /\ \A n \in Nat : IsNewest(n, table) => ResolvedOf(table) = n
<1> DEFINE open == {v \in DOMAIN table : table[v].open}
<1>1. DOMAIN table = 1 .. Len(table) /\ Len(table) \in Nat
  OBVIOUS
<1>2. open \in SUBSET Nat /\ \A v \in open : v =< Len(table)
  BY <1>1
<1>3. open # {} => Max(open) \in open /\ \A v \in open : v =< Max(open)
  <2> HIDE DEF open
  <2> QED
    BY <1>1, <1>2, GreatestExists
<1>4. ResolvedOf(table) = IF open = {} THEN 0 ELSE Max(open)
  BY DEF ResolvedOf
<1>5. IsNewest(ResolvedOf(table), table)
  BY <1>3, <1>4 DEF IsNewest
<1>6. ASSUME NEW n \in Nat, IsNewest(n, table) PROVE ResolvedOf(table) = n
  <2>1. ResolvedOf(table) \in Nat
    BY <1>2, <1>3, <1>4
  <2> QED
    BY <1>1, <1>5, <1>6, <2>1 DEF IsNewest
<1> QED
  BY <1>5, <1>6

LEMMA ResolvedHere ==
  /\ Resolved = ResolvedOf(versions)
  /\ (versions' = versions) => Resolved' = Resolved
  /\ Resolved' = ResolvedOf(versions')
BY DEF Resolved, ResolvedOf

LEMMA MapStays ==
  ASSUME MapInv, versions' = versions, mapper' = mapper, told' = told, mixed' = mixed
  PROVE  MapInv'
<1>1. Resolved' = Resolved
  BY ResolvedHere
<1> QED
  BY <1>1 DEF MapInv, MapFollowsUpserts

LEMMA ReadMappingKeeps ==
  ASSUME MapInv, NEW m \in Mappers, NEW target \in MapTargets, NEW newVersion \in BOOLEAN,
         NEW retired \in BOOLEAN, ReadMapping(m, target, newVersion, retired)
  PROVE  MapInv'
<1> DEFINE w == [state |-> "write", over |-> Resolved, target |-> target, retired |-> retired,
                 changed |-> newVersion /\ Resolved # 0 /\ versions[Resolved].target # target]
<1>1. /\ mapper' = [mapper EXCEPT ![m] = w]
      /\ versions' = versions /\ told' = told
      /\ mixed' = (mixed \/ \E other \in Mappers \ {m} : mapper[other].state = "write")
      /\ mapper[m].state = "idle"
  BY DEF ReadMapping, mapVars
<1>2. Resolved' = Resolved
  BY <1>1, ResolvedHere
<1>3. Resolved \in Nat
  <2>1. versions \in Seq(Versions)
    BY DEF MapInv
  <2>2. IsNewest(Resolved, versions)
    BY <2>1, ResolvedHere, ResolvedIsNewest
  <2> QED
    BY <2>1, <2>2 DEF IsNewest
<1>4. target \in BondIds
  BY IntegrationAssumption DEF BondIds
<1>5. /\ w \in Upserts /\ w.state = "write" /\ w.target = target /\ w.over = Resolved
      /\ w.changed => Resolved # 0
  BY <1>3, <1>4 DEF Upserts
<1> HIDE DEF w
<1>6. mapper' \in [Mappers -> Upserts]
  BY <1>1, <1>5 DEF MapInv
<1>7. \A n \in Mappers : mapper'[n] = IF n = m THEN w ELSE mapper[n]
  BY <1>1 DEF MapInv
<1>8. \A n \in Mappers : mapper'[n].state = "write" => mapper'[n].target \in BondIds
  BY <1>4, <1>5, <1>7 DEF MapInv
<1>9. mixed' \in BOOLEAN /\ (~ mixed' => ~ mixed)
  BY <1>1 DEF MapInv
<1>10. MapFollowsUpserts'
  BY <1>1, <1>2, <1>9 DEF MapInv, MapFollowsUpserts
<1>11. ASSUME ~ mixed', NEW n \in Mappers, mapper'[n].state = "write"
       PROVE  /\ \A other \in Mappers \ {n} : mapper'[other].state = "idle"
              /\ mapper'[n].over = Resolved'
              /\ mapper'[n].changed => Resolved' # 0
  <2>1. \A other \in Mappers \ {m} : mapper[other].state = "idle"
    <3>1. \A other \in Mappers : mapper[other].state \in {"idle", "write"}
      BY DEF MapInv, Upserts
    <3> QED
      BY <1>1, <1>11, <3>1
  <2>2. n = m
    BY <1>7, <1>11, <2>1
  <2> QED
    BY <1>2, <1>5, <1>7, <2>1, <2>2
<1> QED
  BY <1>1, <1>6, <1>8, <1>9, <1>10, <1>11 DEF MapInv

LEMMA WriteMappingKeeps ==
  ASSUME MapInv, NEW m \in Mappers, WriteMapping(m)
  PROVE  MapInv'
<1> DEFINE w == mapper[m]
           row == [target |-> w.target, open |-> w.changed \/ ~w.retired]
           before == IF w.changed THEN [versions EXCEPT ![w.over].open = FALSE] ELSE versions
           n == w.over + 1
<1>1. /\ w.state = "write"
      /\ versions' = IF n \in DOMAIN before THEN [before EXCEPT ![n] = row] ELSE Append(before, row)
      /\ told' = IF row.open THEN w.target ELSE told
      /\ mapper' = [mapper EXCEPT ![m] = NoUpsert]
      /\ mixed' = mixed
  BY DEF WriteMapping, mapVars
<1>2. /\ w \in Upserts /\ w.target \in BondIds /\ w.over \in Nat /\ n \in Nat /\ n # 0
      /\ w.changed \in BOOLEAN /\ w.retired \in BOOLEAN
  BY <1>1 DEF MapInv, Upserts
<1>3. versions \in Seq(Versions) /\ DOMAIN versions = 1 .. Len(versions) /\ Len(versions) \in Nat
  BY DEF MapInv
<1>4. row \in Versions /\ row.open = (w.changed \/ ~ w.retired) /\ row.target = w.target
  BY <1>2 DEF Versions
<1>5. /\ before \in Seq(Versions) /\ Len(before) = Len(versions) /\ DOMAIN before = 1 .. Len(versions)
      /\ ~ w.changed => before = versions
      /\ \A v \in DOMAIN versions : v # w.over => before[v] = versions[v]
      /\ w.changed /\ w.over \in DOMAIN versions => before[w.over].open = FALSE
  <2>1. CASE ~ w.changed
    BY <1>2, <1>3, <2>1
  <2>2. CASE w.changed
    <3> DEFINE x == [versions[w.over] EXCEPT !.open = FALSE]
    <3>1. before = [versions EXCEPT ![w.over] = x]
      BY <2>2
    <3>2. CASE w.over \in DOMAIN versions
      <4>1. versions[w.over] \in Versions
        BY <1>3, <3>2
      <4>2. x \in Versions /\ x.open = FALSE
        BY <4>1, RowClosed
      <4> HIDE DEF x
      <4> QED
        BY <1>3, <2>2, <3>1, <3>2, <4>2, RowReplaced
    <3>3. CASE w.over \notin DOMAIN versions
      <4> HIDE DEF x
      <4>1. before = versions
        BY <1>3, <3>1, <3>3
      <4> QED
        BY <1>3, <2>2, <3>3, <4>1
    <3> QED
      BY <3>2, <3>3
  <2> QED
    BY <1>2, <2>1, <2>2
<1> HIDE DEF w, row, before, n
<1>6. versions' \in Seq(Versions)
  <2>1. [before EXCEPT ![n] = row] \in Seq(Versions)
    BY <1>4, <1>5, RowReplaced
  <2>2. Append(before, row) \in Seq(Versions)
    BY <1>4, <1>5
  <2> QED
    BY <1>1, <2>1, <2>2
<1>7. NoUpsert \in Upserts /\ NoUpsert.state = "idle"
  BY DEF NoUpsert, Upserts
<1>8. mapper' \in [Mappers -> Upserts]
  BY <1>1, <1>7 DEF MapInv
<1>9. \A k \in Mappers : mapper'[k] = IF k = m THEN NoUpsert ELSE mapper[k]
  BY <1>1 DEF MapInv
<1>10. ASSUME ~ mixed
       PROVE  /\ \A k \in Mappers : mapper'[k].state = "idle"
              /\ MapFollowsUpserts'
  <2>1. /\ \A other \in Mappers \ {m} : mapper[other].state = "idle"
        /\ w.over = Resolved /\ (w.changed => Resolved # 0)
    BY <1>1, <1>10 DEF MapInv, w
  <2>2. \A k \in Mappers : mapper'[k].state = "idle"
    BY <1>7, <1>9, <2>1
  <2>3. IsNewest(w.over, versions)
    BY <1>3, <2>1, ResolvedHere, ResolvedIsNewest
  <2>4. w.over =< Len(versions) /\ (w.over # 0 => w.over \in DOMAIN versions)
    BY <1>2, <1>3, <2>3 DEF IsNewest
  <2>5. /\ DOMAIN versions' = DOMAIN versions \cup {n} /\ versions'[n] = row
        /\ \A v \in DOMAIN versions : v # n => versions'[v] = before[v]
    <3>1. CASE n \in DOMAIN before
      <4>1. versions' = [before EXCEPT ![n] = row]
        BY <1>1, <3>1
      <4> QED
        BY <1>3, <1>5, <3>1, <4>1
    <3>2. CASE n \notin DOMAIN before
      <4>1. n = Len(versions) + 1
        BY <1>2, <1>3, <1>5, <2>4, <3>2 DEF n
      <4>2. versions' = Append(before, row)
        BY <1>1, <3>2
      <4> QED
        BY <1>3, <1>4, <1>5, <4>1, <4>2
    <3> QED
      BY <3>1, <3>2
  <2>6. \A v \in DOMAIN versions : v # n /\ v # w.over => versions'[v] = versions[v]
    BY <1>5, <2>5
  <2>7. CASE row.open
    <3>1. ASSUME NEW v \in DOMAIN versions', versions'[v].open PROVE v =< n
      <4>1. CASE v = n
        BY <1>2, <4>1
      <4>2. CASE v = w.over
        BY <1>2, <4>2 DEF n
      <4>3. CASE v # n /\ v # w.over
        <5>1. v \in DOMAIN versions /\ versions[v].open
          BY <2>5, <2>6, <3>1, <4>3
        <5>2. v =< w.over
          BY <2>3, <5>1 DEF IsNewest
        <5> QED
          BY <1>2, <1>3, <5>1, <5>2 DEF n
      <4> QED
        BY <4>1, <4>2, <4>3
    <3>2. IsNewest(n, versions')
      BY <2>5, <2>7, <3>1 DEF IsNewest
    <3>3. Resolved' = n
      BY <1>2, <1>6, <3>2, ResolvedHere, ResolvedIsNewest
    <3>4. told' = w.target /\ w.target # NoBond
      BY <1>1, <1>2, <2>7, IntegrationAssumption DEF NoBond, BondIds
    <3> QED
      BY <1>2, <1>4, <2>2, <2>5, <3>3, <3>4 DEF MapFollowsUpserts
  <2>8. CASE ~ row.open
    <3>1. ~ w.changed
      BY <1>2, <1>4, <2>8
    <3>2. \A v \in DOMAIN versions : v # n => versions'[v] = versions[v]
      BY <1>5, <2>5, <3>1
    <3>3. w.over # n
      BY <1>2 DEF n
    <3>4. IsNewest(w.over, versions')
      BY <2>3, <2>4, <2>5, <2>8, <3>2, <3>3 DEF IsNewest
    <3>5. Resolved' = w.over
      BY <1>2, <1>6, <3>4, ResolvedHere, ResolvedIsNewest
    <3>6. Resolved # 0 => versions'[Resolved] = versions[Resolved]
      BY <2>1, <2>4, <3>2, <3>3
    <3>7. told' = told
      BY <1>1, <2>8
    <3> QED
      BY <1>10, <2>1, <2>2, <3>5, <3>6, <3>7 DEF MapInv, MapFollowsUpserts
  <2> QED
    BY <1>2, <1>4, <2>7, <2>8
<1>11. mixed' => MapFollowsUpserts'
  BY DEF MapFollowsUpserts
<1>12. \A k \in Mappers : mapper'[k].state = "write" => mapper'[k].target \in BondIds
  BY <1>7, <1>9 DEF MapInv
<1> QED
  BY <1>1, <1>6, <1>8, <1>10, <1>11, <1>12 DEF MapInv

-----------------------------------------------------------------------------
(* The alerts of create_alert.                                             *)

Posts == [state : {"idle", "look", "insert"}, key : PostKeys \cup {NoKey},
          about : BondIds \cup {NoBond}, looked : Nat]
Signals == [key : PostKeys \cup {NoKey}, about : BondIds \cup {NoBond}, looked : Nat]

(* A call that is about to insert found no row of its key.                 *)
PostInv ==
  /\ post \in [Posters -> Posts]
  /\ signals \in Seq(Signals)
  /\ \A c \in Posters : post[c].looked =< Len(signals)
  /\ \A c \in Posters : post[c].state = "insert" /\ post[c].key # NoKey =>
       \A s \in DOMAIN signals : signals[s].key = post[c].key => post[c].looked < s
  /\ OneRowPerKey

LEMMA PostStays ==
  ASSUME PostInv, post' = post, signals' = signals
  PROVE  PostInv'
BY DEF PostInv, OneRowPerKey

(* A call that leaves the table alone, and goes on to insert only from     *)
(* what it has looked up.                                                  *)
LEMMA CallKeeps ==
  ASSUME PostInv, signals' = signals, NEW c \in Posters, NEW p \in Posts,
         post' = [post EXCEPT ![c] = p], p.looked =< Len(signals),
         p.state = "insert" /\ p.key # NoKey =>
           \A s \in DOMAIN signals : signals[s].key = p.key => p.looked < s
  PROVE  PostInv'
BY DEF PostInv, OneRowPerKey

LEMMA PostAlertKeeps ==
  ASSUME PostInv, WalkTypeOK, MapInv, NEW c \in Posters, NEW key \in PostKeys \cup {NoKey},
         NEW id \in MapTargets, PostAlert(c, key, id)
  PROVE  PostInv'
<1> DEFINE p == [state |-> "look", key |-> key, about |-> LoadBond(id), looked |-> 0]
<1>1. LoadBond(id) \in BondIds \cup {NoBond}
  <2>1. id \in BondIds
    BY IntegrationAssumption DEF BondIds
  <2>2. Resolved # 0 => versions[Resolved].target \in BondIds
    <3>1. versions \in Seq(Versions)
      BY DEF MapInv
    <3>2. IsNewest(Resolved, versions)
      BY <3>1, ResolvedHere, ResolvedIsNewest
    <3>3. Resolved # 0 => versions[Resolved] \in Versions
      BY <3>1, <3>2 DEF IsNewest
    <3> QED
      BY <3>3 DEF Versions
  <2> QED
    BY <2>1, <2>2 DEF LoadBond
<1>2. p \in Posts /\ p.state = "look" /\ p.looked =< Len(signals)
  BY <1>1 DEF Posts, PostInv
<1>3. post' = [post EXCEPT ![c] = p] /\ signals' = signals
  BY DEF PostAlert
<1> HIDE DEF p
<1> QED
  BY <1>2, <1>3, CallKeeps

LEMMA IdleKeeps ==
  ASSUME PostInv, signals' = signals, NEW c \in Posters, post' = [post EXCEPT ![c] = NoPost]
  PROVE  PostInv'
<1>1. NoPost \in Posts /\ NoPost.state = "idle" /\ NoPost.looked =< Len(signals)
  BY DEF NoPost, Posts, PostInv
<1> QED
  BY <1>1, CallKeeps

LEMMA LookUpKeeps ==
  ASSUME PostInv, NEW c \in Posters, LookUpKey(c)
  PROVE  PostInv'
<1>1. signals' = signals /\ post[c] \in Posts
  BY DEF LookUpKey, PostInv
<1>2. CASE post[c].key # NoKey /\ WithKey(post[c].key) # {}
  <2>1. post' = [post EXCEPT ![c] = NoPost]
    BY <1>2 DEF LookUpKey
  <2> QED
    BY <1>1, <2>1, IdleKeeps
<1>3. CASE ~ (post[c].key # NoKey /\ WithKey(post[c].key) # {})
  <2> DEFINE p == [post[c] EXCEPT !.state = "insert", !.looked = Len(signals)]
  <2>1. post' = [post EXCEPT ![c] = p]
    BY <1>3 DEF LookUpKey
  <2>2. Len(signals) \in Nat
    BY DEF PostInv
  <2> DEFINE n == Len(signals)
  <2>3. p \in Posts /\ p.key = post[c].key /\ p.looked = n
    <3> HIDE DEF n
    <3> QED
      BY <1>1, <2>2 DEF Posts, n
  <2>4. p.key # NoKey => \A s \in DOMAIN signals : signals[s].key # p.key
    BY <1>3, <2>3 DEF WithKey
  <2>5. /\ p.looked =< Len(signals)
        /\ p.state = "insert" /\ p.key # NoKey =>
             \A s \in DOMAIN signals : signals[s].key = p.key => p.looked < s
    <3> HIDE DEF p
    <3> QED
      BY <2>2, <2>3, <2>4
  <2> HIDE DEF p
  <2> QED
    BY <1>1, <2>1, <2>3, <2>5, CallKeeps
<1> QED
  BY <1>2, <1>3

LEMMA InsertKeeps ==
  ASSUME PostInv, NEW c \in Posters, InsertPosted(c)
  PROVE  PostInv'
<1> DEFINE row == [key |-> post[c].key, about |-> post[c].about, looked |-> post[c].looked]
           n == Len(signals)
<1>1. /\ signals' = Append(signals, row) /\ post' = [post EXCEPT ![c] = NoPost]
      /\ post[c].state = "insert" /\ post[c] \in Posts
  BY DEF InsertPosted, PostInv
<1>2. row \in Signals /\ row.key = post[c].key /\ row.looked = post[c].looked
  BY <1>1 DEF Posts, Signals
<1>3. signals \in Seq(Signals) /\ n \in Nat /\ DOMAIN signals = 1 .. n
  BY DEF PostInv
<1> HIDE DEF row, n
<1>4. /\ signals' \in Seq(Signals) /\ DOMAIN signals' = 1 .. n + 1
      /\ signals'[n + 1] = row
      /\ \A s \in 1 .. n : signals'[s] = signals[s]
  BY <1>1, <1>2, <1>3 DEF n
<1>5. NoPost \in Posts /\ NoPost.state = "idle" /\ NoPost.looked = 0
  BY DEF NoPost, Posts
<1>6. post' \in [Posters -> Posts] /\ \A d \in Posters : post'[d] = IF d = c THEN NoPost ELSE post[d]
  BY <1>1, <1>5 DEF PostInv
<1>7. OneRowPerKey'
  <2>1. SUFFICES ASSUME NEW s \in DOMAIN signals', NEW t \in DOMAIN signals',
                        s < t, signals'[s].key = signals'[t].key, signals'[s].key # NoKey
                 PROVE  signals'[t].looked < s
    BY DEF OneRowPerKey
  <2>2. s \in DOMAIN signals /\ signals'[s] = signals[s]
    BY <1>3, <1>4, <2>1
  <2>3. CASE t \in DOMAIN signals
    BY <1>3, <1>4, <2>1, <2>2, <2>3 DEF PostInv, OneRowPerKey
  <2>4. CASE t \notin DOMAIN signals
    <3>1. signals'[t] = row
      BY <1>3, <1>4, <2>4
    <3> QED
      BY <1>1, <1>2, <2>1, <2>2, <3>1 DEF PostInv
  <2> QED
    BY <2>3, <2>4
<1>8. ASSUME NEW d \in Posters, post'[d].state = "insert", post'[d].key # NoKey,
             NEW s \in DOMAIN signals', signals'[s].key = post'[d].key
      PROVE  post'[d].looked < s
  <2>1. d # c /\ post'[d] = post[d] /\ post[d] \in Posts
    BY <1>5, <1>6, <1>8 DEF PostInv
  <2>2. post[d].looked =< n
    BY DEF PostInv, n
  <2>3. CASE s \in DOMAIN signals
    BY <1>3, <1>4, <1>8, <2>1, <2>3 DEF PostInv
  <2>4. CASE s = n + 1
    BY <1>3, <2>1, <2>2, <2>4 DEF Posts
  <2> QED
    BY <1>3, <1>4, <2>3, <2>4
<1>9. ASSUME NEW d \in Posters PROVE post'[d].looked =< Len(signals')
  <2>1. post[d].looked =< n /\ post[d].looked \in Nat /\ Len(signals') = n + 1
    BY <1>3, <1>4 DEF PostInv, Posts, n
  <2> QED
    BY <1>3, <1>5, <1>6, <2>1
<1> QED
  BY <1>4, <1>6, <1>7, <1>8, <1>9 DEF PostInv

-----------------------------------------------------------------------------
(* Integration: the theorem.                                               *)

IntegrationInv == IntegrationWalkInv /\ MapInv /\ PostInv

LEMMA IntegrationInvInit ==
  IntegrationInit => IntegrationInv
<1> SUFFICES ASSUME IntegrationInit PROVE IntegrationInv
  OBVIOUS
<1>1. NoUpsert \in Upserts /\ NoUpsert.state = "idle"
  BY DEF NoUpsert, Upserts
<1>2. NoPost \in Posts /\ NoPost.state = "idle" /\ NoPost.looked = 0
  BY DEF NoPost, Posts
<1>3. versions = << >> /\ signals = << >> /\ told = NoBond /\ mixed = FALSE
      /\ mapper = [m \in Mappers |-> NoUpsert] /\ post = [c \in Posters |-> NoPost]
  BY DEF IntegrationInit
<1>4. Resolved = 0
  BY <1>3 DEF Resolved
<1>5. MapInv
  <2>1. /\ mapper \in [Mappers -> Upserts]
        /\ \A m \in Mappers : mapper[m].state = "idle"
    BY <1>1, <1>3
  <2>2. versions \in Seq(Versions) /\ MapFollowsUpserts
    BY <1>3, <1>4 DEF MapFollowsUpserts
  <2> QED
    BY <1>3, <2>1, <2>2 DEF MapInv
<1>6. PostInv
  BY <1>2, <1>3 DEF PostInv, OneRowPerKey
<1> QED
  BY <1>5, <1>6, WalkInit DEF IntegrationInv

LEMMA IntegrationInvStep ==
  IntegrationInv /\ [IntegrationNext]_integrationVars => IntegrationInv'
<1> SUFFICES ASSUME IntegrationInv, [IntegrationNext]_integrationVars PROVE IntegrationInv'
  OBVIOUS
<1> USE DEF IntegrationInv
<1>1. CASE walkVars' = walkVars /\ mapVars' = mapVars /\ postVars' = postVars
  BY <1>1, WalkStays, MapStays, PostStays DEF walkVars, mapVars, postVars
<1>2. CASE ListingNext
  <2>1. MapInv' /\ PostInv'
    BY <1>2, MapStays, PostStays
    DEF ListingNext, AskForPage, ReadBatch, RetryPage, ScrapeBond, mapVars, postVars
  <2> QED
    BY <1>2, <2>1, AskKeeps, ReadBatchKeeps, RetryKeeps, ScrapeKeeps DEF ListingNext
<1>3. CASE MappingNext
  <2>1. IntegrationWalkInv' /\ PostInv'
    BY <1>3, WalkStays, PostStays DEF MappingNext, ReadMapping, WriteMapping, walkVars, postVars
  <2> QED
    BY <1>3, <2>1, ReadMappingKeeps, WriteMappingKeeps DEF MappingNext
<1>4. CASE SignalsNext
  <2>1. IntegrationWalkInv' /\ MapInv'
    BY <1>4, WalkStays, MapStays
    DEF SignalsNext, PostAlert, LookUpKey, InsertPosted, PostFails, walkVars, mapVars
  <2>2. PostInv'
    <3>1. ASSUME NEW c \in Posters, PostFails(c) PROVE PostInv'
      BY <3>1, IdleKeeps DEF PostFails
    <3> QED
      BY <1>4, <3>1, PostAlertKeeps, LookUpKeeps, InsertKeeps DEF SignalsNext, IntegrationWalkInv
  <2> QED
    BY <2>1, <2>2
<1>5. CASE SsoStep
  BY <1>1, <1>5 DEF SsoStep, Refused, RotateKeys, RestartApi
<1> QED
  BY <1>1, <1>2, <1>3, <1>4, <1>5 DEF IntegrationNext, integrationVars

(* A client that follows the cursors of list_bonds gets every bond that    *)
(* stood all the while, once; a row of an idempotency key that is there    *)
(* twice comes from calls that overlapped; the map answers with the last   *)
(* upsert.                                                                 *)
THEOREM IntegrationHolds ==
  IntegrationSpec => []IntegrationSound
<1>1. IntegrationInv => IntegrationSound
  BY DEF IntegrationInv, IntegrationWalkInv, WalkInv, MapInv, PostInv, IntegrationSound
<1> QED
  BY <1>1, IntegrationInvInit, IntegrationInvStep, PTL DEF IntegrationSpec

-----------------------------------------------------------------------------
(* The pages: the inductive invariant of the snapshot cache.               *)
Bodies == [read : Nat, stored : Int]
Flights == [state : {"open", "set", "failed", "gone"}, body : Bodies]
Absent == [step : {"away"}]
Reading == [step : {"read"}, key : Questions, asked : Nat, flight : Nat \ {0}]
BuildingNow == [step : {"build"}, key : Questions, asked : Nat, flight : Nat \ {0}, read : Nat]
Waiting == [step : {"wait"}, key : Questions, asked : Nat, flight : Nat \ {0}]
Served == [step : {"answered"}, key : Questions, asked : Nat, body : Bodies]
TurnedAway == [step : {"failed"}, key : Questions]
Visits == Absent \cup Reading \cup BuildingNow \cup Waiting \cup Served \cup TurnedAway

SnapshotTypeOK ==
  /\ minute \in Nat
  /\ kept \in [Questions -> Bodies]
  /\ inflight \in [Questions -> Nat]
  /\ flights \in Seq(Flights)
  /\ visit \in [Visitors -> Visits]

Builds(v) == visit[v].step \in {"read", "build"}

\* A build has an open flight of its own, and it is the one its page is in.
BuildsFly ==
  \A v \in Visitors : Builds(v) =>
    /\ visit[v].flight \in DOMAIN flights /\ flights[visit[v].flight].state = "open"
    /\ inflight[visit[v].key] = visit[v].flight
    /\ visit[v].asked =< minute /\ (visit[v].step = "build" => visit[v].read =< minute)
    /\ \A w \in Visitors : Builds(w) /\ visit[w].flight = visit[v].flight => w = v

\* A page that is in flight is being built.
FlightsManned ==
  \A q \in Questions : inflight[q] # 0 =>
    \E v \in Visitors : Builds(v) /\ visit[v].key = q /\ visit[v].flight = inflight[q]

\* Who waits asked before the flight landed.
WaitersAboard ==
  \A w \in Visitors : visit[w].step = "wait" =>
    LET flight == flights[visit[w].flight] IN
    /\ visit[w].flight \in DOMAIN flights /\ visit[w].asked =< minute /\ flight.state # "gone"
    /\ flight.state = "open" => inflight[visit[w].key] = visit[w].flight
    /\ flight.state = "set" => visit[w].asked =< flight.body.stored /\ flight.body.read =< flight.body.stored
    /\ flight.state = "failed" => w \in failedWhile

KeptInOrder == \A q \in Questions : kept[q] # NotKept => kept[q].read =< kept[q].stored /\ kept[q].stored =< minute

SnapshotInv ==
  /\ SnapshotTypeOK /\ BuildsFly /\ FlightsManned /\ WaitersAboard /\ KeptInOrder
  /\ BuiltOnce /\ AnswersFresh /\ FailuresForgotten

\* One request takes a step: the others are where they were.
LEMMA VisitMoves ==
    ASSUME visit \in [Visitors -> Visits], NEW v \in Visitors, NEW t \in Visits, visit' = [visit EXCEPT ![v] = t]
    PROVE  visit'[v] = t /\ (\A w \in Visitors : w # v => visit'[w] = visit[w]) /\ visit' \in [Visitors -> Visits]
  OBVIOUS

\* Where a request is tells which fields its record has.
LEMMA VisitKinds ==
    ASSUME SnapshotTypeOK, NEW v \in Visitors
    PROVE  /\ visit[v] \in Visits
           /\ visit[v].step = "away" => visit[v] \in Absent
           /\ visit[v].step = "read" => visit[v] \in Reading
           /\ visit[v].step = "build" => visit[v] \in BuildingNow
           /\ visit[v].step = "wait" => visit[v] \in Waiting
           /\ visit[v].step = "answered" => visit[v] \in Served
           /\ visit[v].step = "failed" => visit[v] \in TurnedAway
<1>1. visit[v] \in Visits
  BY DEF SnapshotTypeOK
<1> QED
  BY <1>1 DEF Visits, Absent, Reading, BuildingNow, Waiting, Served, TurnedAway

\* A request that builds nothing has its answer, fails or leaves.
LEMMA VisitSettles ==
    ASSUME SnapshotInv, NEW v \in Visitors, NEW t \in Absent \cup Served \cup TurnedAway,
           visit' = [visit EXCEPT ![v] = t], ~Builds(v), UNCHANGED <<minute, kept, inflight, flights, crowded>>,
           failedWhile \ {v} \subseteq failedWhile',
           t.step = "answered" => t.asked - t.body.stored < Ttl /\ t.body.read =< t.body.stored,
           t.step = "failed" => v \in failedWhile'
    PROVE  SnapshotInv'
<1>1. /\ SnapshotTypeOK /\ BuildsFly /\ FlightsManned /\ WaitersAboard /\ KeptInOrder
      /\ BuiltOnce /\ AnswersFresh /\ FailuresForgotten
  BY DEF SnapshotInv
<1>2. t \in Visits /\ t.step \in {"away", "answered", "failed"}
  BY DEF Visits, Absent, Served, TurnedAway
<1>3. visit'[v] = t /\ (\A w \in Visitors : w # v => visit'[w] = visit[w]) /\ visit' \in [Visitors -> Visits]
  BY <1>1, <1>2, VisitMoves DEF SnapshotTypeOK
<1>4. SnapshotTypeOK'
  BY <1>1, <1>3 DEF SnapshotTypeOK
<1>5. \A w \in Visitors : Builds(w)' => w # v /\ Builds(w)
  BY <1>2, <1>3 DEF Builds
<1>6. \A w \in Visitors : Builds(w) => Builds(w)' /\ visit'[w] = visit[w]
  BY <1>3 DEF Builds
<1>7. BuildsFly'
  BY <1>1, <1>3, <1>5 DEF BuildsFly
<1>8. FlightsManned'
  BY <1>1, <1>6 DEF FlightsManned
<1>9. WaitersAboard'
  BY <1>1, <1>2, <1>3 DEF WaitersAboard
<1>10. KeptInOrder' /\ BuiltOnce'
  BY <1>1 DEF KeptInOrder, BuiltOnce
<1>11. AnswersFresh'
  BY <1>1, <1>3 DEF AnswersFresh
<1>12. FailuresForgotten'
  BY <1>1, <1>3 DEF FailuresForgotten
<1> QED
  BY <1>4, <1>7, <1>8, <1>9, <1>10, <1>11, <1>12 DEF SnapshotInv

\* A question whose fresh body is kept is answered at once.
LEMMA AskKeptKeeps ==
    ASSUME SnapshotInv, NEW v \in Visitors, NEW q \in Questions, Ask(v, q), Fresh(q)
    PROVE  SnapshotInv'
<1> DEFINE t == [step |-> "answered", key |-> q, asked |-> minute, body |-> kept[q]]
<1>1. kept[q] \in Bodies /\ minute \in Nat
  BY DEF SnapshotInv, SnapshotTypeOK
<1>2. t \in Served
  BY <1>1 DEF Served
<1>3. t.asked - t.body.stored < Ttl /\ t.body.read =< t.body.stored
  BY DEF SnapshotInv, KeptInOrder, Fresh
<1>4. /\ visit' = [visit EXCEPT ![v] = t] /\ UNCHANGED <<minute, kept, inflight, flights, crowded>>
      /\ failedWhile' = failedWhile \ {v} /\ ~Builds(v)
  BY DEF Ask, Builds
<1> HIDE DEF t
<1> QED
  BY <1>2, <1>3, <1>4, VisitSettles DEF Served

\* A question whose page is in flight waits for it.
LEMMA AskJoinsKeeps ==
    ASSUME SnapshotInv, NEW v \in Visitors, NEW q \in Questions, Ask(v, q), ~Fresh(q), Flying(q)
    PROVE  SnapshotInv'
<1> DEFINE t == [step |-> "wait", key |-> q, asked |-> minute, flight |-> inflight[q]]
<1>1. /\ SnapshotTypeOK /\ BuildsFly /\ FlightsManned /\ WaitersAboard /\ KeptInOrder
      /\ BuiltOnce /\ AnswersFresh /\ FailuresForgotten
  BY DEF SnapshotInv
<1>2. /\ visit' = [visit EXCEPT ![v] = t] /\ UNCHANGED <<minute, kept, inflight, flights, crowded>>
      /\ failedWhile' = failedWhile \ {v} /\ ~Builds(v)
  BY DEF Ask, Builds
<1>3. minute \in Nat /\ inflight[q] \in Nat \ {0} /\ flights[inflight[q]].state = "open"
  BY <1>1 DEF SnapshotTypeOK, Flying
<1>4. inflight[q] \in DOMAIN flights
  BY <1>1, <1>3 DEF FlightsManned, BuildsFly
<1>5. t \in Visits /\ t.step = "wait" /\ t.key = q /\ t.asked = minute /\ t.flight = inflight[q]
  BY <1>3 DEF Visits, Waiting
<1> HIDE DEF t
<1>6. visit'[v] = t /\ (\A w \in Visitors : w # v => visit'[w] = visit[w]) /\ visit' \in [Visitors -> Visits]
  BY <1>1, <1>2, <1>5, VisitMoves DEF SnapshotTypeOK
<1>7. SnapshotTypeOK'
  BY <1>1, <1>2, <1>6 DEF SnapshotTypeOK
<1>8. \A w \in Visitors : Builds(w)' => w # v /\ Builds(w)
  BY <1>5, <1>6 DEF Builds
<1>9. \A w \in Visitors : Builds(w) => Builds(w)' /\ visit'[w] = visit[w]
  BY <1>2, <1>6 DEF Builds
<1>10. BuildsFly'
  BY <1>1, <1>2, <1>6, <1>8 DEF BuildsFly
<1>11. FlightsManned'
  BY <1>1, <1>2, <1>9 DEF FlightsManned
<1>12. WaitersAboard'
  BY <1>1, <1>2, <1>3, <1>4, <1>5, <1>6 DEF WaitersAboard
<1>13. KeptInOrder' /\ BuiltOnce' /\ AnswersFresh' /\ FailuresForgotten'
  BY <1>1, <1>2, <1>5, <1>6 DEF KeptInOrder, BuiltOnce, AnswersFresh, FailuresForgotten
<1> QED
  BY <1>7, <1>10, <1>11, <1>12, <1>13 DEF SnapshotInv

\* A question that nobody builds opens a flight.
LEMMA AskBuildsKeeps ==
    ASSUME SnapshotInv, NEW v \in Visitors, NEW q \in Questions, Ask(v, q), ~Fresh(q), ~Flying(q)
    PROVE  SnapshotInv'
<1> DEFINE n == Len(flights) + 1
           t == [step |-> "read", key |-> q, asked |-> minute, flight |-> n]
           open == [state |-> "open", body |-> NotKept]
<1>1. /\ SnapshotTypeOK /\ BuildsFly /\ FlightsManned /\ WaitersAboard /\ KeptInOrder
      /\ BuiltOnce /\ AnswersFresh /\ FailuresForgotten
  BY DEF SnapshotInv
<1>2. flights \in Seq(Flights) /\ minute \in Nat /\ Len(flights) \in Nat /\ DOMAIN flights = 1 .. Len(flights)
  BY <1>1 DEF SnapshotTypeOK
<1>3. open \in Flights
  BY DEF Flights, Bodies, NotKept
<1>4. flights' = Append(flights, open) /\ Len(flights') = n
  BY <1>2, <1>3 DEF Ask
<1>5. /\ visit' = [visit EXCEPT ![v] = t] /\ inflight' = [inflight EXCEPT ![q] = n]
      /\ UNCHANGED <<minute, kept>> /\ failedWhile' = failedWhile \ {v} /\ ~Builds(v)
      /\ crowded' = crowded \cup (IF Building(q) # {} THEN {q} ELSE {})
  BY <1>4 DEF Ask, Builds
<1>6. /\ flights' \in Seq(Flights) /\ DOMAIN flights' = 1 .. n /\ flights'[n].state = "open"
      /\ \A i \in DOMAIN flights : i # n /\ i \in DOMAIN flights' /\ flights'[i] = flights[i]
  BY <1>2, <1>3, <1>4
<1>7. n \in Nat \ {0} /\ t \in Visits /\ t.step = "read" /\ t.key = q /\ t.asked = minute /\ t.flight = n
  BY <1>2 DEF Visits, Reading
<1> HIDE DEF t, n, open
<1>8. visit'[v] = t /\ (\A w \in Visitors : w # v => visit'[w] = visit[w]) /\ visit' \in [Visitors -> Visits]
  BY <1>1, <1>5, <1>7, VisitMoves DEF SnapshotTypeOK
<1>9. /\ inflight' \in [Questions -> Nat] /\ inflight'[q] = n
      /\ \A p \in Questions : p # q => inflight'[p] = inflight[p]
  BY <1>1, <1>5, <1>7 DEF SnapshotTypeOK
<1>10. SnapshotTypeOK'
  BY <1>1, <1>5, <1>6, <1>8, <1>9 DEF SnapshotTypeOK
<1>11. \A w \in Visitors : Builds(w) => visit[w].key # q /\ visit[w].flight # n
  <2> SUFFICES ASSUME NEW w \in Visitors, Builds(w) PROVE visit[w].key # q /\ visit[w].flight # n
    OBVIOUS
  <2>1. /\ visit[w].flight \in DOMAIN flights /\ flights[visit[w].flight].state = "open"
        /\ inflight[visit[w].key] = visit[w].flight
    BY <1>1 DEF BuildsFly
  <2> QED
    BY <1>2, <1>6, <2>1 DEF Flying
<1>12. Building(q) = {}
  BY <1>11 DEF Building, Builds
<1>13. \A w \in Visitors : Builds(w)' => w = v \/ (w # v /\ Builds(w))
  BY <1>8 DEF Builds
<1>14. \A w \in Visitors : Builds(w) => w # v /\ Builds(w)' /\ visit'[w] = visit[w]
  BY <1>5, <1>8 DEF Builds
<1>15. BuildsFly'
  <2> SUFFICES ASSUME NEW w \in Visitors, Builds(w)'
               PROVE  /\ visit'[w].flight \in DOMAIN flights' /\ flights'[visit'[w].flight].state = "open"
                      /\ inflight'[visit'[w].key] = visit'[w].flight
                      /\ visit'[w].asked =< minute' /\ (visit'[w].step = "build" => visit'[w].read =< minute')
                      /\ \A x \in Visitors : Builds(x)' /\ visit'[x].flight = visit'[w].flight => x = w
    BY DEF BuildsFly
  <2>1. CASE w = v
    <3>1. \A x \in Visitors : Builds(x)' /\ visit'[x].flight = n => x = v
      BY <1>8, <1>11, <1>13
    <3>2. n \in DOMAIN flights'
      BY <1>6, <1>7
    <3> QED
      BY <1>2, <1>5, <1>6, <1>7, <1>8, <1>9, <2>1, <3>1, <3>2
  <2>2. CASE w # v
    <3>1. Builds(w) /\ visit'[w] = visit[w]
      BY <1>8, <1>13, <2>2
    <3>2. visit[w].key \in Questions
      BY <1>1, <3>1, VisitKinds DEF Builds, Reading, BuildingNow
    <3>3. \A x \in Visitors : Builds(x)' /\ visit'[x].flight = visit[w].flight => x = w
      BY <1>1, <1>7, <1>8, <1>11, <1>13, <3>1 DEF BuildsFly
    <3> QED
      BY <1>1, <1>5, <1>6, <1>9, <1>11, <3>1, <3>2, <3>3 DEF BuildsFly
  <2> QED
    BY <2>1, <2>2
<1>16. FlightsManned'
  <2> SUFFICES ASSUME NEW p \in Questions, inflight'[p] # 0
               PROVE  \E w \in Visitors : Builds(w)' /\ visit'[w].key = p /\ visit'[w].flight = inflight'[p]
    BY DEF FlightsManned
  <2>1. CASE p = q
    <3>1. Builds(v)'
      BY <1>7, <1>8 DEF Builds
    <3> QED
      BY <1>7, <1>8, <1>9, <2>1, <3>1
  <2>2. CASE p # q
    BY <1>1, <1>9, <1>14, <2>2 DEF FlightsManned
  <2> QED
    BY <2>1, <2>2
<1>17. WaitersAboard'
  <2> SUFFICES ASSUME NEW w \in Visitors, visit'[w].step = "wait"
               PROVE  LET flight == flights'[visit'[w].flight] IN
                      /\ visit'[w].flight \in DOMAIN flights' /\ visit'[w].asked =< minute' /\ flight.state # "gone"
                      /\ flight.state = "open" => inflight'[visit'[w].key] = visit'[w].flight
                      /\ flight.state = "set" => visit'[w].asked =< flight.body.stored /\ flight.body.read =< flight.body.stored
                      /\ flight.state = "failed" => w \in failedWhile'
    BY DEF WaitersAboard
  <2>1. w # v /\ visit'[w] = visit[w] /\ visit[w].step = "wait"
    BY <1>7, <1>8
  <2>2. visit[w].flight \in DOMAIN flights /\ flights'[visit[w].flight] = flights[visit[w].flight]
    BY <1>1, <1>6, <2>1 DEF WaitersAboard
  <2>3. visit[w] \in Waiting
    BY <1>1, <2>1, VisitKinds
  <2>4. flights[visit[w].flight].state = "open" => visit[w].key # q
    <3> SUFFICES ASSUME flights[visit[w].flight].state = "open", visit[w].key = q PROVE FALSE
      OBVIOUS
    <3>1. inflight[q] = visit[w].flight
      BY <1>1, <2>1 DEF WaitersAboard
    <3> QED
      BY <2>3, <3>1 DEF Flying, Waiting
  <2> QED
    BY <1>1, <1>5, <1>6, <1>9, <2>1, <2>2, <2>3, <2>4 DEF WaitersAboard, Waiting
<1>18. KeptInOrder' /\ BuiltOnce' /\ AnswersFresh' /\ FailuresForgotten'
  BY <1>1, <1>5, <1>7, <1>8, <1>12 DEF KeptInOrder, BuiltOnce, AnswersFresh, FailuresForgotten
<1> QED
  BY <1>10, <1>15, <1>16, <1>17, <1>18 DEF SnapshotInv

\* A build reads its rows.
LEMMA ReadRowsKeeps ==
    ASSUME SnapshotInv, NEW v \in Visitors, ReadRows(v)
    PROVE  SnapshotInv'
<1> DEFINE t == [step |-> "build", key |-> visit[v].key, asked |-> visit[v].asked, flight |-> visit[v].flight,
                 read |-> minute]
<1>1. /\ SnapshotTypeOK /\ BuildsFly /\ FlightsManned /\ WaitersAboard /\ KeptInOrder
      /\ BuiltOnce /\ AnswersFresh /\ FailuresForgotten
  BY DEF SnapshotInv
<1>2. visit[v].step = "read" /\ UNCHANGED <<minute, kept, inflight, flights, failedWhile, crowded>>
      /\ visit' = [visit EXCEPT ![v] = t]
  BY DEF ReadRows
<1>3. visit[v] \in Reading /\ minute \in Nat
  BY <1>1, <1>2, VisitKinds DEF SnapshotTypeOK
<1>4. t \in Visits /\ t.step = "build" /\ t.key = visit[v].key /\ t.asked = visit[v].asked
      /\ t.flight = visit[v].flight /\ t.read = minute
  BY <1>3 DEF Visits, BuildingNow, Reading
<1> HIDE DEF t
<1>5. visit'[v] = t /\ (\A w \in Visitors : w # v => visit'[w] = visit[w]) /\ visit' \in [Visitors -> Visits]
  BY <1>1, <1>2, <1>4, VisitMoves DEF SnapshotTypeOK
<1>6. \A w \in Visitors : /\ Builds(w)' <=> Builds(w)
                          /\ Builds(w) => visit'[w].key = visit[w].key /\ visit'[w].flight = visit[w].flight
                                       /\ visit'[w].asked = visit[w].asked
  BY <1>2, <1>4, <1>5 DEF Builds
<1>7. SnapshotTypeOK'
  BY <1>1, <1>2, <1>5 DEF SnapshotTypeOK
<1>8. \A w \in Visitors : Builds(w)' /\ visit'[w].step = "build" => visit'[w].read =< minute
  BY <1>1, <1>3, <1>4, <1>5, <1>6 DEF BuildsFly
<1>9. BuildsFly'
  BY <1>1, <1>2, <1>6, <1>8 DEF BuildsFly
<1>10. FlightsManned'
  BY <1>1, <1>2, <1>6 DEF FlightsManned
<1>11. WaitersAboard'
  BY <1>1, <1>2, <1>4, <1>5 DEF WaitersAboard
<1>12. KeptInOrder' /\ BuiltOnce' /\ AnswersFresh' /\ FailuresForgotten'
  BY <1>1, <1>2, <1>4, <1>5 DEF KeptInOrder, BuiltOnce, AnswersFresh, FailuresForgotten
<1> QED
  BY <1>7, <1>9, <1>10, <1>11, <1>12 DEF SnapshotInv

\* A build ends: its flight lands with an answer or with a failure.
LEMMA Landing ==
    ASSUME SnapshotInv, NEW v \in Visitors, Builds(v), NEW t \in Served \cup TurnedAway,
           NEW state \in {"set", "failed"}, NEW body \in Bodies,
           visit' = [visit EXCEPT ![v] = t], Lands(v, state, body),
           kept' \in [Questions -> Bodies], KeptInOrder', failedWhile \subseteq failedWhile',
           state = "set" => body.stored = minute /\ body.read =< minute,
           state = "failed" => \A w \in Visitors : visit[w].step = "wait" /\ visit[w].key = visit[v].key => w \in failedWhile',
           t.step = "answered" => t.asked - t.body.stored < Ttl /\ t.body.read =< t.body.stored,
           t.step = "failed" => v \in failedWhile'
    PROVE  SnapshotInv'
<1> DEFINE n == visit[v].flight
           k == visit[v].key
           landed == [state |-> state, body |-> body]
<1>1. /\ SnapshotTypeOK /\ BuildsFly /\ FlightsManned /\ WaitersAboard /\ KeptInOrder
      /\ BuiltOnce /\ AnswersFresh /\ FailuresForgotten
  BY DEF SnapshotInv
<1>2. flights' = [flights EXCEPT ![n] = landed] /\ inflight' = [inflight EXCEPT ![k] = 0] /\ UNCHANGED <<minute, crowded>>
  BY DEF Lands
<1>3. /\ n \in DOMAIN flights /\ flights[n].state = "open" /\ inflight[k] = n
      /\ \A w \in Visitors : Builds(w) /\ visit[w].flight = n => w = v
  BY <1>1 DEF BuildsFly
<1>4. k \in Questions /\ n \in Nat \ {0}
  BY <1>1, VisitKinds DEF Builds, Reading, BuildingNow
<1>5. landed \in Flights /\ landed.state = state /\ landed.body = body
  BY DEF Flights
<1>6. t \in Visits /\ t.step \in {"answered", "failed"}
  BY DEF Visits, Served, TurnedAway
<1> HIDE DEF n, k, landed
<1>7. visit'[v] = t /\ (\A w \in Visitors : w # v => visit'[w] = visit[w]) /\ visit' \in [Visitors -> Visits]
  BY <1>1, <1>6, VisitMoves DEF SnapshotTypeOK
<1>8. flights \in Seq(Flights)
  BY <1>1 DEF SnapshotTypeOK
<1>9. /\ flights' \in Seq(Flights) /\ DOMAIN flights' = DOMAIN flights /\ flights'[n] = landed
      /\ \A i \in DOMAIN flights : i # n => flights'[i] = flights[i]
  BY <1>2, <1>3, <1>5, <1>8
<1>10. /\ inflight' \in [Questions -> Nat] /\ inflight'[k] = 0
       /\ \A p \in Questions : p # k => inflight'[p] = inflight[p]
  BY <1>1, <1>2, <1>4 DEF SnapshotTypeOK
<1>11. SnapshotTypeOK'
  BY <1>1, <1>2, <1>7, <1>9, <1>10 DEF SnapshotTypeOK
<1>12. \A w \in Visitors : Builds(w)' => w # v /\ Builds(w) /\ visit'[w] = visit[w]
  BY <1>6, <1>7 DEF Builds
<1>13. \A w \in Visitors : w # v /\ Builds(w) => Builds(w)' /\ visit'[w] = visit[w]
  BY <1>7 DEF Builds
<1>14. \A w \in Visitors : w # v /\ Builds(w) => visit[w].flight # n /\ visit[w].key # k /\ visit[w].key \in Questions
  <2> SUFFICES ASSUME NEW w \in Visitors, w # v, Builds(w)
               PROVE  visit[w].flight # n /\ visit[w].key # k /\ visit[w].key \in Questions
    OBVIOUS
  <2>1. visit[w].flight # n /\ inflight[visit[w].key] = visit[w].flight
    BY <1>1, <1>3 DEF BuildsFly
  <2>2. visit[w].key \in Questions
    BY <1>1, VisitKinds DEF Builds, Reading, BuildingNow
  <2> QED
    BY <1>3, <2>1, <2>2
<1>15. BuildsFly'
  <2> SUFFICES ASSUME NEW w \in Visitors, Builds(w)'
               PROVE  /\ visit'[w].flight \in DOMAIN flights' /\ flights'[visit'[w].flight].state = "open"
                      /\ inflight'[visit'[w].key] = visit'[w].flight
                      /\ visit'[w].asked =< minute' /\ (visit'[w].step = "build" => visit'[w].read =< minute')
                      /\ \A x \in Visitors : Builds(x)' /\ visit'[x].flight = visit'[w].flight => x = w
    BY DEF BuildsFly
  <2>1. w # v /\ Builds(w) /\ visit'[w] = visit[w]
    BY <1>12
  <2>2. visit[w].flight # n /\ visit[w].key # k /\ visit[w].key \in Questions
    BY <1>14, <2>1
  <2>3. /\ visit[w].flight \in DOMAIN flights /\ flights[visit[w].flight].state = "open"
        /\ inflight[visit[w].key] = visit[w].flight
        /\ visit[w].asked =< minute /\ (visit[w].step = "build" => visit[w].read =< minute)
        /\ \A x \in Visitors : Builds(x) /\ visit[x].flight = visit[w].flight => x = w
    BY <1>1, <2>1 DEF BuildsFly
  <2>4. \A x \in Visitors : Builds(x)' /\ visit'[x].flight = visit'[w].flight => x = w
    BY <1>12, <2>1, <2>3
  <2> QED
    BY <1>2, <1>9, <1>10, <2>1, <2>2, <2>3, <2>4
<1>16. FlightsManned'
  <2> SUFFICES ASSUME NEW p \in Questions, inflight'[p] # 0
               PROVE  \E w \in Visitors : Builds(w)' /\ visit'[w].key = p /\ visit'[w].flight = inflight'[p]
    BY DEF FlightsManned
  <2>1. p # k /\ inflight'[p] = inflight[p]
    BY <1>10
  <2>2. PICK w \in Visitors : Builds(w) /\ visit[w].key = p /\ visit[w].flight = inflight[p]
    BY <1>1, <2>1 DEF FlightsManned
  <2>3. w # v
    BY <2>1, <2>2 DEF k
  <2> QED
    BY <1>13, <2>1, <2>2, <2>3
<1>17. WaitersAboard'
  <2> SUFFICES ASSUME NEW w \in Visitors, visit'[w].step = "wait"
               PROVE  LET flight == flights'[visit'[w].flight] IN
                      /\ visit'[w].flight \in DOMAIN flights' /\ visit'[w].asked =< minute' /\ flight.state # "gone"
                      /\ flight.state = "open" => inflight'[visit'[w].key] = visit'[w].flight
                      /\ flight.state = "set" => visit'[w].asked =< flight.body.stored /\ flight.body.read =< flight.body.stored
                      /\ flight.state = "failed" => w \in failedWhile'
    BY DEF WaitersAboard
  <2>1. w # v /\ visit'[w] = visit[w] /\ visit[w].step = "wait"
    BY <1>6, <1>7
  <2>2. visit[w] \in Waiting /\ visit[w].key \in Questions
    BY <1>1, <2>1, VisitKinds DEF Waiting
  <2>3. visit[w].flight \in DOMAIN flights /\ visit[w].asked =< minute
    BY <1>1, <2>1 DEF WaitersAboard
  <2>4. CASE visit[w].flight = n
    <3>1. inflight[visit[w].key] = n
      BY <1>1, <1>3, <2>1, <2>4 DEF WaitersAboard
    <3>2. PICK x \in Visitors : Builds(x) /\ visit[x].key = visit[w].key /\ visit[x].flight = n
      BY <1>1, <1>4, <2>2, <3>1 DEF FlightsManned
    <3>3. visit[w].key = visit[v].key
      BY <1>3, <3>2
    <3>4. state = "failed" => w \in failedWhile'
      BY <2>1, <3>3
    <3> QED
      BY <1>2, <1>5, <1>9, <2>1, <2>3, <2>4, <3>4
  <2>5. CASE visit[w].flight # n
    <3>1. flights'[visit[w].flight] = flights[visit[w].flight]
      BY <1>9, <2>3, <2>5
    <3>2. flights[visit[w].flight].state = "open" => visit[w].key # k /\ inflight[visit[w].key] = visit[w].flight
      BY <1>1, <1>3, <2>1, <2>5 DEF WaitersAboard
    <3> QED
      BY <1>1, <1>2, <1>9, <1>10, <2>1, <2>2, <2>3, <3>1, <3>2 DEF WaitersAboard
  <2> QED
    BY <2>4, <2>5
<1>18. BuiltOnce' /\ AnswersFresh' /\ FailuresForgotten'
  BY <1>1, <1>2, <1>6, <1>7 DEF BuiltOnce, AnswersFresh, FailuresForgotten
<1> QED
  BY <1>11, <1>15, <1>16, <1>17, <1>18 DEF SnapshotInv

\* A build stores its body and wakes who waits.
LEMMA BuildKeeps ==
    ASSUME SnapshotInv, NEW v \in Visitors, Build(v)
    PROVE  SnapshotInv'
<1> DEFINE body == [read |-> visit[v].read, stored |-> minute]
           t == [step |-> "answered", key |-> visit[v].key, asked |-> visit[v].asked, body |-> body]
<1>1. SnapshotTypeOK /\ BuildsFly /\ KeptInOrder /\ minute \in Nat
  BY DEF SnapshotInv, SnapshotTypeOK
<1>2. /\ visit[v].step = "build" /\ Builds(v) /\ kept' = [kept EXCEPT ![visit[v].key] = body]
      /\ visit' = [visit EXCEPT ![v] = t] /\ Lands(v, "set", body) /\ failedWhile' = failedWhile /\ minute' = minute
  BY DEF Build, Builds, Lands
<1>3. visit[v] \in BuildingNow
  BY <1>1, <1>2, VisitKinds
<1>4. /\ body \in Bodies /\ body.read = visit[v].read /\ body.stored = minute
      /\ t \in Served /\ t.asked = visit[v].asked /\ t.body = body /\ t.step = "answered"
  BY <1>1, <1>3 DEF Bodies, Served, BuildingNow
<1>5. visit[v].read =< minute /\ visit[v].asked =< minute
  BY <1>1, <1>2 DEF BuildsFly
<1>6. t.asked - t.body.stored < Ttl /\ t.body.read =< t.body.stored
  BY <1>1, <1>3, <1>4, <1>5, SnapshotAssumption DEF BuildingNow
<1> HIDE DEF body, t
<1>7. kept' \in [Questions -> Bodies]
  BY <1>1, <1>2, <1>4 DEF SnapshotTypeOK
<1>8. KeptInOrder'
  BY <1>1, <1>2, <1>4, <1>5 DEF KeptInOrder, SnapshotTypeOK
<1> QED
  BY <1>2, <1>4, <1>5, <1>6, <1>7, <1>8, Landing

\* A build fails, and so does who waits for it.
LEMMA BuildFailsKeeps ==
    ASSUME SnapshotInv, NEW v \in Visitors, BuildFails(v)
    PROVE  SnapshotInv'
<1> DEFINE t == [step |-> "failed", key |-> visit[v].key]
<1>1. SnapshotTypeOK /\ KeptInOrder
  BY DEF SnapshotInv
<1>2. /\ visit[v].step = "read" /\ Builds(v) /\ UNCHANGED <<kept, minute>> /\ visit' = [visit EXCEPT ![v] = t]
      /\ Lands(v, "failed", NotKept) /\ failedWhile' = failedWhile \cup Asking(visit[v].key)
  BY DEF BuildFails, Builds, Lands
<1>3. visit[v] \in Reading
  BY <1>1, <1>2, VisitKinds
<1>4. t \in TurnedAway /\ t.step = "failed" /\ NotKept \in Bodies
  BY <1>3 DEF TurnedAway, Reading, NotKept, Bodies
<1>5. v \in Asking(visit[v].key) /\ \A w \in Visitors : visit[w].step = "wait" /\ visit[w].key = visit[v].key => w \in failedWhile'
  BY <1>2 DEF Asking
<1> HIDE DEF t
<1>6. kept' \in [Questions -> Bodies] /\ KeptInOrder'
  BY <1>1, <1>2 DEF SnapshotTypeOK, KeptInOrder
<1> QED
  BY <1>2, <1>4, <1>5, <1>6, Landing

\* Who waited has the body of the flight, or its failure.
LEMMA WakesKeeps ==
    ASSUME SnapshotInv, NEW v \in Visitors, Wakes(v)
    PROVE  SnapshotInv'
<1> DEFINE flight == flights[visit[v].flight]
           t == IF flight.state = "failed" THEN [step |-> "failed", key |-> visit[v].key]
                ELSE [step |-> "answered", key |-> visit[v].key, asked |-> visit[v].asked, body |-> flight.body]
<1>1. SnapshotTypeOK /\ WaitersAboard /\ visit[v].step = "wait" /\ flight.state # "open" /\ ~Builds(v)
  BY DEF SnapshotInv, Wakes, Builds
<1>2. visit[v] \in Waiting
  BY <1>1, VisitKinds
<1>3. /\ visit[v].flight \in DOMAIN flights /\ flight.state # "gone"
      /\ flight.state = "set" => visit[v].asked =< flight.body.stored /\ flight.body.read =< flight.body.stored
      /\ flight.state = "failed" => v \in failedWhile
  BY <1>1 DEF WaitersAboard
<1>4. flight \in Flights
  BY <1>1, <1>3 DEF SnapshotTypeOK
<1>5. visit' = [visit EXCEPT ![v] = t] /\ UNCHANGED <<minute, kept, inflight, flights, crowded, failedWhile>>
  BY DEF Wakes
<1>6. CASE flight.state = "failed"
  <2>1. t \in TurnedAway /\ t.step = "failed"
    BY <1>2, <1>6 DEF TurnedAway, Waiting
  <2> HIDE DEF t
  <2> QED
    BY <1>1, <1>3, <1>5, <1>6, <2>1, VisitSettles
<1>7. CASE flight.state = "set"
  <2>1. t \in Served /\ t.step = "answered" /\ t.asked = visit[v].asked /\ t.body = flight.body
    BY <1>2, <1>4, <1>7 DEF Served, Waiting, Flights
  <2>2. t.asked - t.body.stored < Ttl /\ t.body.read =< t.body.stored
    BY <1>2, <1>3, <1>4, <1>7, <2>1, SnapshotAssumption DEF Waiting, Flights, Bodies
  <2> HIDE DEF t
  <2> QED
    BY <1>1, <1>5, <2>1, <2>2, VisitSettles
<1> QED
  BY <1>1, <1>3, <1>4, <1>6, <1>7 DEF Flights

\* An answered request leaves.
LEMMA LeavesKeeps ==
    ASSUME SnapshotInv, NEW v \in Visitors, Leaves(v)
    PROVE  SnapshotInv'
<1>1. Away \in Absent /\ Away.step = "away"
  BY DEF Away, Absent
<1> QED
  BY <1>1, VisitSettles DEF Leaves, Builds

\* The process restarts: nothing is kept and nobody waits.
LEMMA WorkerRestartsKeeps ==
    ASSUME SnapshotInv, WorkerRestarts
    PROVE  SnapshotInv'
<1>1. SnapshotTypeOK /\ BuiltOnce
  BY DEF SnapshotInv
<1>2. /\ kept' = [q \in Questions |-> NotKept] /\ inflight' = [q \in Questions |-> 0]
      /\ visit' = [v \in Visitors |-> Away] /\ UNCHANGED <<minute, crowded>>
      /\ flights' = [i \in DOMAIN flights |-> [flights[i] EXCEPT !.state = IF @ = "open" THEN "gone" ELSE @]]
  BY DEF WorkerRestarts
<1>3. Away \in Visits /\ NotKept \in Bodies /\ Away.step = "away"
  BY DEF Away, Visits, Absent, NotKept, Bodies
<1>4. flights' \in Seq(Flights)
  <2>1. flights \in Seq(Flights) /\ Len(flights) \in Nat /\ DOMAIN flights = 1 .. Len(flights)
    BY <1>1 DEF SnapshotTypeOK
  <2>2. \A i \in 1 .. Len(flights) :
          [flights[i] EXCEPT !.state = IF flights[i].state = "open" THEN "gone" ELSE flights[i].state] \in Flights
    <3> SUFFICES ASSUME NEW f \in Flights
                 PROVE [f EXCEPT !.state = IF f.state = "open" THEN "gone" ELSE f.state] \in Flights
      BY <2>1
    <3>1. CASE f.state = "open"
      BY <3>1 DEF Flights
    <3>2. CASE f.state # "open"
      BY <3>2 DEF Flights
    <3> QED
      BY <3>1, <3>2
  <2> QED
    BY <1>2, <2>1, <2>2
<1>5. SnapshotTypeOK'
  BY <1>1, <1>2, <1>3, <1>4 DEF SnapshotTypeOK
<1>6. \A v \in Visitors : visit'[v].step = "away"
  BY <1>2, <1>3
<1> QED
  BY <1>1, <1>2, <1>5, <1>6 DEF SnapshotInv, BuildsFly, Builds, FlightsManned, WaitersAboard, KeptInOrder, BuiltOnce,
     AnswersFresh, FailuresForgotten

\* The time of day moves on.
LEMMA MinutePassesKeeps ==
    ASSUME SnapshotInv, MinutePasses
    PROVE  SnapshotInv'
<1>1. /\ SnapshotTypeOK /\ BuildsFly /\ FlightsManned /\ WaitersAboard /\ KeptInOrder
      /\ BuiltOnce /\ AnswersFresh /\ FailuresForgotten
  BY DEF SnapshotInv
<1>2. minute' = minute + 1 /\ minute \in Nat /\ UNCHANGED <<kept, inflight, flights, visit, failedWhile, crowded>>
  BY <1>1 DEF MinutePasses, SnapshotTypeOK
<1>3. SnapshotTypeOK' /\ FlightsManned' /\ BuiltOnce' /\ AnswersFresh' /\ FailuresForgotten'
  BY <1>1, <1>2 DEF SnapshotTypeOK, FlightsManned, Builds, BuiltOnce, AnswersFresh, FailuresForgotten
<1>4. \A v \in Visitors : /\ Builds(v) => visit[v].asked \in Nat /\ (visit[v].step = "build" => visit[v].read \in Nat)
                          /\ visit[v].step = "wait" => visit[v].asked \in Nat
  BY <1>1, VisitKinds DEF Builds, Reading, BuildingNow, Waiting
<1>5. BuildsFly'
  BY <1>1, <1>2, <1>4 DEF BuildsFly, Builds
<1>6. WaitersAboard'
  BY <1>1, <1>2, <1>4 DEF WaitersAboard
<1>7. KeptInOrder'
  BY <1>1, <1>2 DEF KeptInOrder, SnapshotTypeOK, Bodies
<1> QED
  BY <1>3, <1>5, <1>6, <1>7 DEF SnapshotInv

\* Every step of the cache keeps the invariant.
LEMMA SnapshotStep ==
    ASSUME SnapshotInv, [SnapshotNext]_snapshotVars
    PROVE  SnapshotInv'
<1>1. CASE UNCHANGED snapshotVars
  BY <1>1 DEF snapshotVars, SnapshotInv, SnapshotTypeOK, BuildsFly, Builds, FlightsManned, WaitersAboard, KeptInOrder,
     BuiltOnce, AnswersFresh, FailuresForgotten
<1>2. ASSUME NEW v \in Visitors, NEW q \in Questions, Ask(v, q) PROVE SnapshotInv'
  BY <1>2, AskKeptKeeps, AskJoinsKeeps, AskBuildsKeeps
<1> QED
  BY <1>1, <1>2, ReadRowsKeeps, BuildKeeps, BuildFailsKeeps, WakesKeeps, LeavesKeeps, WorkerRestartsKeeps,
     MinutePassesKeeps DEF SnapshotNext

\* An empty cache satisfies the invariant.
LEMMA SnapshotBegins == SnapshotInit => SnapshotInv
<1> SUFFICES ASSUME SnapshotInit PROVE SnapshotInv
  OBVIOUS
<1>1. Away \in Visits /\ Away.step = "away" /\ NotKept \in Bodies
  BY DEF Away, Visits, Absent, NotKept, Bodies
<1>2. SnapshotTypeOK
  BY <1>1 DEF SnapshotTypeOK, SnapshotInit
<1>3. \A v \in Visitors : visit[v].step = "away"
  BY <1>1 DEF SnapshotInit
<1> QED
  BY <1>2, <1>3 DEF SnapshotInit, SnapshotInv, BuildsFly, Builds, FlightsManned, WaitersAboard, KeptInOrder,
     BuiltOnce, AnswersFresh, FailuresForgotten

\* The invariant implies what the runs check.
LEMMA SnapshotSound == SnapshotInv => SnapshotsHold
<1> SUFFICES ASSUME SnapshotInv PROVE NobodyStranded
  BY DEF SnapshotInv, SnapshotsHold
<1> SUFFICES ASSUME NEW v \in Visitors, visit[v].step = "wait", flights[visit[v].flight].state = "open"
             PROVE  Building(visit[v].key) # {}
  BY DEF NobodyStranded
<1>1. SnapshotTypeOK /\ FlightsManned /\ WaitersAboard
  BY DEF SnapshotInv
<1>2. visit[v].key \in Questions /\ visit[v].flight # 0
  BY <1>1, VisitKinds DEF Waiting
<1>3. inflight[visit[v].key] = visit[v].flight
  BY <1>1 DEF WaitersAboard
<1>4. PICK w \in Visitors : Builds(w) /\ visit[w].key = visit[v].key
  BY <1>1, <1>2, <1>3 DEF FlightsManned
<1> QED
  BY <1>4 DEF Building, Builds

(* A page of the market is built by one request at a time, for all others. *)
THEOREM SnapshotsAlwaysHold == SnapshotInit /\ [][SnapshotNext]_snapshotVars => []SnapshotsHold
<1>1. SnapshotInit => SnapshotInv
  BY SnapshotBegins
<1>2. SnapshotInv /\ [SnapshotNext]_snapshotVars => SnapshotInv'
  BY SnapshotStep
<1>3. SnapshotInv => SnapshotsHold
  BY SnapshotSound
<1> QED
  BY <1>1, <1>2, <1>3, PTL

=============================================================================

------------------------------- MODULE Partners -------------------------------
(***************************************************************************)
(* Partner keys and webhooks (api/partner/router.py, security.py,          *)
(* webhooks.py, orm/partner.py; the key issued by the form of              *)
(* api/seo/partners.py).                                                   *)
(*                                                                         *)
(* A request authenticates its key in one transaction and works in others. *)
(* Every event is delivered to every hook by a task of its own: it posts,  *)
(* and then reads the hook's row and commits what changed in it, so two    *)
(* deliveries of one hook may write over each other.                       *)
(***************************************************************************)
EXTENDS Naturals, FiniteSets, Sequences

CONSTANTS
  PartnerKeys,    \* rows partner_api_keys may hold; a row is never deleted
  Hooks,          \* rows partner_webhooks may hold; an id is used once
  EventTypes,     \* SUPPORTED_EVENTS
  TestEvent,      \* "bond.updated"
  PartnerCalls,   \* requests of partners
  MaxEmits,       \* bound on the events emitted
  MaxApiStops     \* bound on restarts of the process that delivers

ASSUME PartnersAssumption ==
  /\ TestEvent \in EventTypes
  /\ MaxEmits \in Nat /\ MaxApiStops \in Nat

VARIABLES
  keyRow,      \* "none", or the tier and whether the key is active
  hookRow,     \* [Hooks -> row]
  partnerCall, \* the requests in progress
  delivery,    \* [event number and hook -> the delivery's state]
  emitted,     \* history: the events, with the hooks they went to
  received,    \* history: <<event, hook>> that reached the partner's server
  answered,    \* history: what keys were used for after they were revoked
  recorded,    \* history: deliveries whose outcome was committed
  earlier,     \* history: <<d, e>>: d had been committed when e read the row
  apiStops

partnerVars == <<keyRow, hookRow, partnerCall, delivery, emitted, received,
                 answered, recorded, earlier, apiStops>>

Revocable == {"partner"}       \* a key of the form has no owner
NoHook == [state |-> "unused", key |-> "none", events |-> {}, error |-> FALSE, delivered |-> 0]
NoCall == [pc |-> "idle", key |-> "none", stale |-> FALSE]

PartnersInit ==
  /\ keyRow = [k \in PartnerKeys |-> "none"]
  /\ hookRow = [h \in Hooks |-> NoHook]
  /\ partnerCall = [c \in PartnerCalls |-> NoCall]
  /\ delivery = << >>
  /\ emitted = << >>
  /\ received = {}
  /\ answered = {}
  /\ recorded = {}
  /\ earlier = {}
  /\ apiStops = 0

-----------------------------------------------------------------------------
(* Keys.                                                                   *)

\* create_partner_key, and _issue_partner_key of the public form.
IssueKey(k, tier) ==
  /\ keyRow[k] = "none"
  /\ keyRow' = [keyRow EXCEPT ![k] = tier]
  /\ UNCHANGED <<hookRow, partnerCall, delivery, emitted, received, answered,
                 recorded, earlier, apiStops>>

\* revoke_partner_key finds only keys with an owner.  The hooks stay.
RevokeKey(k) ==
  /\ keyRow[k] \in Revocable
  /\ keyRow' = [keyRow EXCEPT ![k] = "revoked"]
  /\ partnerCall' = [c \in PartnerCalls |->
       IF partnerCall[c].key = k THEN [partnerCall[c] EXCEPT !.stale = TRUE]
       ELSE partnerCall[c]]
  /\ UNCHANGED <<hookRow, delivery, emitted, received, answered, recorded, earlier, apiStops>>

\* verify_api_key; the quota is RequestBudgets.
Authenticate(c, k) ==
  /\ partnerCall[c].pc = "idle"
  /\ keyRow[k] \in {"partner", "trial"}
  /\ partnerCall' = [partnerCall EXCEPT ![c] = [pc |-> "work", key |-> k, stale |-> FALSE]]
  /\ UNCHANGED <<keyRow, hookRow, delivery, emitted, received, answered, recorded, earlier, apiStops>>

\* What the request leaves behind, if its key was revoked meanwhile.
CallEnds(c, what) ==
  /\ partnerCall' = [partnerCall EXCEPT ![c] = NoCall]
  /\ answered' = IF keyRow[partnerCall[c].key] = "revoked"
                 THEN answered \cup {[what |-> what, stale |-> partnerCall[c].stale]} ELSE answered

\* create_webhook: https and known events only.
RegisterHook(c, h, types) ==
  /\ partnerCall[c].pc = "work"
  /\ hookRow[h].state = "unused"
  /\ hookRow' = [hookRow EXCEPT ![h] =
       [NoHook EXCEPT !.state = "live", !.key = partnerCall[c].key, !.events = types]]
  /\ CallEnds(c, "register")
  /\ UNCHANGED <<keyRow, delivery, emitted, received, recorded, earlier, apiStops>>

\* delete_webhook: only a hook of the key itself, otherwise 404.
DeleteHook(c, h) ==
  /\ partnerCall[c].pc = "work"
  /\ hookRow[h].state = "live"
  /\ hookRow' = IF hookRow[h].key = partnerCall[c].key
                THEN [hookRow EXCEPT ![h].state = "deleted"] ELSE hookRow
  /\ CallEnds(c, "delete")
  /\ UNCHANGED <<keyRow, delivery, emitted, received, recorded, earlier, apiStops>>

\* The data endpoints; a trial key is refused the analysis with 402.
ReadData(c) ==
  /\ partnerCall[c].pc = "work"
  /\ CallEnds(c, "read")
  /\ UNCHANGED <<keyRow, hookRow, delivery, emitted, received, recorded, earlier, apiStops>>

-----------------------------------------------------------------------------
(* Events.                                                                 *)

\* emit_webhook_event: the rows whose `active` is set, which nothing clears.
Subscribed(type) == {h \in Hooks : hookRow[h].state = "live" /\ type \in hookRow[h].events}

NewDelivery == [pc |-> "resolve", ok |-> FALSE, seenError |-> FALSE]

Dispatch(type) ==
  LET n == Len(emitted) + 1
      new == {n} \X Subscribed(type)
  IN /\ n =< MaxEmits
     /\ emitted' = Append(emitted, [type |-> type, to |-> Subscribed(type)])
     /\ delivery' = [d \in DOMAIN delivery \cup new |->
                       IF d \in new THEN NewDelivery ELSE delivery[d]]

\* A price alert, a change of a bond (emit_partner_alert).
Emit(type) ==
  /\ Dispatch(type)
  /\ UNCHANGED <<keyRow, hookRow, partnerCall, received, answered, recorded, earlier, apiStops>>

\* test_event: a key that has subscribed itself sends a test to every hook
\* that subscribes to bond.updated, also to those of other partners.
SendTest(c) ==
  /\ partnerCall[c].pc = "work"
  /\ \E h \in Subscribed(TestEvent) : hookRow[h].key = partnerCall[c].key
  /\ Dispatch(TestEvent)
  /\ CallEnds(c, "test")
  /\ UNCHANGED <<keyRow, hookRow, received, recorded, earlier, apiStops>>

Goes(d, to) == delivery' = [delivery EXCEPT ![d] = to]

\* _pin_public_ip: a host without a public address ends the delivery; the
\* row does not learn of it.
Resolve(d, public) ==
  /\ delivery[d].pc = "resolve"
  /\ Goes(d, [delivery[d] EXCEPT !.pc = IF public THEN "post" ELSE "unsent"])
  /\ UNCHANGED <<keyRow, hookRow, partnerCall, emitted, received, answered, recorded, earlier, apiStops>>

\* The POST reaches the partner or not, and its answer counts if it is < 300;
\* one that arrived may still end in a timeout.
Post(d, arrives, ok) ==
  /\ delivery[d].pc = "post"
  /\ ok => arrives
  /\ received' = IF arrives THEN received \cup {d} ELSE received
  /\ Goes(d, [delivery[d] EXCEPT !.pc = "load", !.ok = ok])
  /\ UNCHANGED <<keyRow, hookRow, partnerCall, emitted, answered, recorded, earlier, apiStops>>

\* session.get: a deleted row ends the delivery.
LoadRow(d) ==
  /\ delivery[d].pc = "load"
  /\ IF hookRow[d[2]].state = "live"
     THEN /\ Goes(d, [delivery[d] EXCEPT !.pc = "store", !.seenError = hookRow[d[2]].error])
          /\ earlier' = earlier \cup {<<e, d>> : e \in {f \in recorded : f[2] = d[2]}}
     ELSE /\ Goes(d, [delivery[d] EXCEPT !.pc = "done"])
          /\ UNCHANGED earlier
  /\ UNCHANGED <<keyRow, hookRow, partnerCall, emitted, received, answered, recorded, apiStops>>

\* A mistake: a success leaves the error of the failure before it.
MutErrorKept(d) == ~delivery[d].ok

\* The UPDATE has only the columns that changed against what was loaded: an
\* error over the same error, or no error over none, is not written.
ErrorWritten(d) == delivery[d].seenError # ~delivery[d].ok

\* The commit; for a row deleted meanwhile it fails and _safe_deliver logs it.
StoreRow(d) ==
  LET h == d[2]
  IN /\ delivery[d].pc = "store"
     /\ Goes(d, [delivery[d] EXCEPT !.pc = "done"])
     /\ IF hookRow[h].state = "live"
        THEN /\ hookRow' = [hookRow EXCEPT
                  ![h].error = IF ErrorWritten(d) THEN ~delivery[d].ok ELSE @,
                  ![h].delivered = IF delivery[d].ok THEN d[1] ELSE @]
             /\ recorded' = recorded \cup {d}
        ELSE UNCHANGED <<hookRow, recorded>>
     /\ UNCHANGED <<keyRow, partnerCall, emitted, received, answered, earlier, apiStops>>

\* The process ends with the deliveries and requests it was running.
ApiStops ==
  /\ apiStops < MaxApiStops
  /\ apiStops' = apiStops + 1
  /\ partnerCall' = [c \in PartnerCalls |-> NoCall]
  /\ delivery' = [d \in DOMAIN delivery |->
       IF delivery[d].pc \in {"unsent", "done"} THEN delivery[d]
       ELSE [delivery[d] EXCEPT !.pc = "lost"]]
  /\ UNCHANGED <<keyRow, hookRow, emitted, received, answered, recorded, earlier>>

PartnersNext ==
  \/ \E k \in PartnerKeys : \/ \E tier \in {"partner", "trial"} : IssueKey(k, tier)
                            \/ RevokeKey(k)
  \/ \E c \in PartnerCalls :
       \/ \E k \in PartnerKeys : Authenticate(c, k)
       \/ ReadData(c) \/ SendTest(c)
       \/ \E h \in Hooks : DeleteHook(c, h) \/ \E types \in SUBSET EventTypes : RegisterHook(c, h, types)
  \/ \E type \in EventTypes : Emit(type)
  \/ \E d \in DOMAIN delivery :
       \/ \E public \in BOOLEAN : Resolve(d, public)
       \/ \E arrives, ok \in BOOLEAN : Post(d, arrives, ok)
       \/ LoadRow(d) \/ StoreRow(d)
  \/ ApiStops

PartnersSpec == PartnersInit /\ [][PartnersNext]_partnerVars

-----------------------------------------------------------------------------
(* Properties.                                                             *)

\* The deliveries to a hook that were posted and have ended, by their outcome.
Posted(h, ok) == {d \in DOMAIN delivery : d[2] = h /\ delivery[d].pc = "done" /\ delivery[d].ok = ok}

\* What a partner can tell from the row of a hook: without an error, every
\* failed post was followed, or overlapped, by a successful one; with an error,
\* some failed post was not followed by a successful one.  A delivery that found
\* no public address was never posted and leaves no error, nor does one that a
\* restart cut off.
RowTellsFailedPosts(h) ==
  IF hookRow[h].error
  THEN \E f \in Posted(h, FALSE) : \A s \in Posted(h, TRUE) : <<f, s>> \notin earlier
  ELSE \A f \in Posted(h, FALSE) : \E s \in Posted(h, TRUE) : <<s, f>> \notin earlier

\* Deliveries that overlap, fail, are cut off or meet a deletion: the row of a
\* hook tells at any time of the posts that failed, none of them forgotten, an
\* event reaches only hooks that were there and subscribed when it was emitted,
\* and a revoked key is served only in a request authenticated before.
PartnersServed ==
  /\ \A h \in Hooks : hookRow[h].state = "live" => RowTellsFailedPosts(h)
  /\ \A d \in received : d[2] \in emitted[d[1]].to /\ emitted[d[1]].type \in hookRow[d[2]].events
  /\ \A a \in answered : a.stale
=============================================================================

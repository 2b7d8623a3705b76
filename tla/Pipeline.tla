----------------------------- MODULE Pipeline -----------------------------
(***************************************************************************)
(* The scraping pipeline of the Aigenis source (scraper/pipeline.py) over  *)
(* its client: listing per currency, a detail per bond, history backfill,  *)
(* XLSX enrichment, scoring, the lineage record.  One run at a time, as    *)
(* the leadership lock orders the scheduler's runs; inside a run the       *)
(* listings, and then the bonds, are coroutines that share the client, its *)
(* breaker and its map from internal to API ids.                           *)
(*                                                                         *)
(* Of a bond's columns the model keeps the status, whether the coupon rate *)
(* is known (the source may leave it out, the XLSX fills it in) and        *)
(* fetched_at, as the number of the run.                                   *)
(***************************************************************************)
EXTENDS SourceClient

CONSTANTS
    Bonds, Currencies,
    CurrencyOf,         \* Bonds -> Currencies
    MaxConcurrency,     \* settings.max_concurrency
    BackfillDays,       \* settings.history_backfill_days
    LastDay,            \* bound: days 1 .. LastDay
    RunDays,            \* bound: the days on which something runs
    MaxRuns             \* bound: runs that are started

ASSUME PipelineAssumption ==
    /\ Calls = Bonds \cup Currencies
    /\ Bonds \cap Currencies = {}
    /\ CurrencyOf \in [Bonds -> Currencies]
    /\ MaxConcurrency \in Nat \ {0}
    /\ BackfillDays \in Nat /\ LastDay \in Nat \ {0} /\ MaxRuns \in Nat
    /\ RunDays \subseteq 1 .. LastDay

VARIABLES
    onSale,     \* the bonds the source lists (a bond leaves once)
    today,
    bonds,      \* Bonds -> row of table bonds
    history,    \* Bonds -> days with a row in bond_history
    scored,     \* Bonds -> the coupon its row in bond_scores was computed from
    lineage,    \* the latest row of snapshot_lineage
    run         \* the run under way

tables == <<bonds, history, scored, lineage>>
vars == <<clientVars, onSale, today, tables, run>>

Days == 1 .. LastDay
RunNumbers == 0 .. MaxRuns

NoCoupon == "null"
Coupons == {NoCoupon, "known"}

NoBond == [status |-> "none", coupon |-> NoCoupon, fetched |-> 0]
BondRow == {NoBond} \cup
    [status: {"active", "delisted"}, coupon: Coupons, fetched: RunNumbers]

NotScored == "never"
NoLineage == [number |-> 0, quality |-> "none"]

---------------------------------------------------------------------------
(* A run: what run_once holds in its locals.  `idMap` is                   *)
(* client._id_by_internal, `page` what each listing has collected.         *)

Phases == {"idle", "listing", "details", "history", "enrich", "score", "record"}

Run == [number: RunNumbers, kind: {"full", "history"}, phase: Phases,
        idMap: SUBSET Bonds, page: [Currencies -> SUBSET Bonds],
        listing: [Currencies -> {"running", "ok", "failed"}],
        ids: SUBSET Bonds, failed: SUBSET Bonds,
        task: [Bonds -> {"todo", "calling", "done"}], asof: Days]

AllTodo == [b \in Bonds |-> "todo"]

NewRun(n, kind, phase, ids) ==
    [number |-> n, kind |-> kind, phase |-> phase, idMap |-> {},
     page |-> [c \in Currencies |-> {}],
     listing |-> [c \in Currencies |-> "running"],
     ids |-> ids, failed |-> {}, task |-> AllTodo, asof |-> today]

NoRun(n) == [NewRun(n, "full", "idle", {}) EXCEPT !.asof = 1]

Init ==
    /\ breaker = Untripped
    /\ call = [c \in Calls |-> NoCall]
    /\ onSale = Bonds
    /\ today = 1
    /\ bonds = [b \in Bonds |-> NoBond]
    /\ history = [b \in Bonds |-> {}]
    /\ scored = [b \in Bonds |-> NotScored]
    /\ lineage = NoLineage
    /\ run = NoRun(0)

---------------------------------------------------------------------------
(* The world: days end, a bond leaves the source.  Both are restricted to  *)
(* the phases where a run can tell: `today` is read once in a run, the     *)
(* bonds on sale only by listing and details.                              *)

DaysEnd == /\ run.phase = "idle"
           /\ today' \in {d \in RunDays : d > today}
           /\ UNCHANGED <<clientVars, onSale, tables, run>>

LeavesSale(b) == /\ b \in onSale /\ run.phase \in {"listing", "details"}
                 /\ onSale' = onSale \ {b}
                 /\ UNCHANGED <<clientVars, today, tables, run>>

---------------------------------------------------------------------------
(* Starting.  Every run has a client of its own.  collect_listing gathers  *)
(* one listing per currency; the history job backfills the active bonds.   *)

StartFull ==
    /\ run.phase = "idle" /\ run.number < MaxRuns
    /\ run' = NewRun(run.number + 1, "full", "listing", {})
    /\ breaker' = Untripped
    /\ call' = [c \in Calls |-> IF c \in Currencies THEN Placed ELSE NoCall]
    /\ UNCHANGED <<onSale, today, tables>>

StartHistory ==
    /\ run.phase = "idle" /\ run.number < MaxRuns
    /\ run' = NewRun(run.number + 1, "history", "history",
                     {b \in Bonds : bonds[b].status = "active"})
    /\ breaker' = Untripped
    /\ call' = [c \in Calls |-> NoCall]
    /\ UNCHANGED <<onSale, today, tables>>

\* The run is over and its client closed.
Closes ==
    /\ run' = NoRun(run.number)
    /\ breaker' = Untripped
    /\ call' = [c \in Calls |-> NoCall]

\* The process stops, or an exception leaves the run: committed rows stay.
Abort ==
    /\ run.phase # "idle"
    /\ Closes
    /\ UNCHANGED <<onSale, today, tables>>

\* The client's own steps: what a call may be answered depends on whether
\* the source still has the bond.
ClientStep(c) ==
    /\ \/ Enter(c)
       \/ Unanswered(c)
       \/ Answered(c, "fatal")
       \/ c \in Bonds \ onSale /\ Answered(c, "missing")
       \/ c \notin Bonds \ onSale /\ Answered(c, "ok")
    /\ UNCHANGED <<onSale, today, tables, run>>

---------------------------------------------------------------------------
(* Listing.  The source lists all currencies page by page; each listing    *)
(* keeps its own currency's bonds and enters their ids into the shared     *)
(* map.  A listing that fails keeps what it entered into the map only.     *)

Selling(c) == {b \in onSale : CurrencyOf[b] = c}

\* Mutant: the listing clears the map it shares with the other currencies.
MutListPageClears(c) ==
    /\ run.phase = "listing" /\ call[c].pc = "done" /\ call[c].result = "ok"
    /\ LET found == Selling(c) IN
         run' = [run EXCEPT !.idMap = found, !.page[c] = found, !.listing[c] = "ok"]
    /\ call' = [call EXCEPT ![c] = NoCall]
    /\ UNCHANGED <<breaker, onSale, today, tables>>

ListPage(c) ==
    /\ run.phase = "listing" /\ call[c].pc = "done" /\ call[c].result = "ok"
    /\ \E found \in SUBSET (Selling(c) \ run.page[c]), last \in BOOLEAN :
         /\ last <=> found = Selling(c) \ run.page[c]
         /\ last \/ found # {}
         /\ run' = [run EXCEPT !.idMap = @ \cup found,
                               !.page[c] = @ \cup found,
                               !.listing[c] = IF last THEN "ok" ELSE @]
         /\ call' = [call EXCEPT ![c] = IF last THEN NoCall ELSE Placed]
    /\ UNCHANGED <<breaker, onSale, today, tables>>

\* The call failed, or the items do not validate.
ListFails(c) ==
    /\ run.phase = "listing" /\ call[c].pc = "done"
    /\ run' = [run EXCEPT !.listing[c] = "failed"]
    /\ call' = [call EXCEPT ![c] = NoCall]
    /\ UNCHANGED <<breaker, onSale, today, tables>>

Listed(r) == {c \in Currencies : r.listing[c] = "ok"}

\* gather returns exceptions as results: a failed listing is logged.
ListingDone ==
    /\ run.phase = "listing"
    /\ \A c \in Currencies : run.listing[c] # "running"
    /\ run' = [run EXCEPT !.phase = "details",
                          !.ids = UNION {run.page[c] : c \in Listed(run)},
                          !.page = [c \in Currencies |-> {}]]
    /\ UNCHANGED <<clientVars, onSale, today, tables>>

---------------------------------------------------------------------------
(* The coroutines per bond, at most MaxConcurrency under the semaphore.    *)

Permit == Cardinality({b \in Bonds : run.task[b] = "calling"}) < MaxConcurrency

TaskStarts(b, phase) ==
    run.phase = phase /\ b \in run.ids /\ run.task[b] = "todo" /\ Permit

TaskResult(b, phase, results) ==
    /\ run.phase = phase /\ run.task[b] = "calling"
    /\ call[b].pc = "done" /\ call[b].result \in results

Calling(b) ==
    /\ run' = [run EXCEPT !.task[b] = "calling"]
    /\ call' = [call EXCEPT ![b] = Placed]
    /\ UNCHANGED <<breaker, onSale, today, tables>>

\* The coroutine returns; `failed` is what the caller counts as an error.
TaskEnds(b, failed) ==
    /\ run' = [run EXCEPT !.task[b] = "done", !.failed = @ \cup failed]
    /\ call' = [call EXCEPT ![b] = NoCall]
    /\ UNCHANGED <<breaker, onSale, today, scored, lineage>>

AllDone == \A b \in run.ids : run.task[b] = "done"

---------------------------------------------------------------------------
(* Details.  upsert_bond keeps what the payload leaves out (merge_missing).*)

\* Mutant: the upsert writes every column of the payload.
MutMergeOverwrites(row, status, coupon) ==
    [status |-> status, coupon |-> coupon, fetched |-> run.number]

Merge(row, status, coupon) ==
    [status |-> status,
     coupon |-> IF coupon = NoCoupon THEN row.coupon ELSE coupon,
     fetched |-> run.number]

\* An id the map does not know is taken for a bond that is gone.
DetailStarts(b) ==
    /\ TaskStarts(b, "details")
    /\ IF b \in run.idMap THEN Calling(b)
       ELSE /\ bonds' = [bonds EXCEPT ![b] = Merge(@, "delisted", NoCoupon)]
            /\ UNCHANGED history
            /\ TaskEnds(b, {})

DetailSaved(b) ==
    /\ TaskResult(b, "details", {"ok"})
    /\ \E coupon \in Coupons :
         bonds' = [bonds EXCEPT ![b] = Merge(@, "active", coupon)]
    /\ UNCHANGED history
    /\ TaskEnds(b, {})

DetailMissing(b) ==
    /\ TaskResult(b, "details", {"missing"})
    /\ bonds' = [bonds EXCEPT ![b] = Merge(@, "delisted", NoCoupon)]
    /\ UNCHANGED history
    /\ TaskEnds(b, {})

\* Mutants: an error counts as done; an open breaker is not handled.
MutFailureCountsAsOk(b) ==
    /\ TaskResult(b, "details", Results \ {"missing"})
    /\ UNCHANGED <<bonds, history>>
    /\ TaskEnds(b, {})
MutRefusalNotHandled(b) ==
    /\ TaskResult(b, "details", Results \ {"missing", "refused"})
    /\ UNCHANGED <<bonds, history>>
    /\ TaskEnds(b, {b})

\* A failed call, or a payload that does not parse.
DetailFails(b) ==
    /\ TaskResult(b, "details", Results \ {"missing"})
    /\ UNCHANGED <<bonds, history>>
    /\ TaskEnds(b, {b})

DetailsDone ==
    /\ run.phase = "details" /\ AllDone
    /\ run' = [run EXCEPT !.phase = "history", !.task = AllTodo, !.asof = today]
    /\ UNCHANGED <<clientVars, onSale, today, tables>>

---------------------------------------------------------------------------
(* History backfill, from the day after the last stored one.  In API mode  *)
(* every failure is a HistoryUnavailable, which the coroutine swallows.    *)

Last(days) == CHOOSE d \in days : \A e \in days : e <= d

\* Mutant: the backfill looks back BackfillDays at most, whatever is stored.
MutSinceClipped(b) ==
    LET earliest == IF run.asof > BackfillDays THEN run.asof - BackfillDays ELSE 1
        next == IF history[b] # {} THEN Last(history[b]) + 1 ELSE 1
    IN  IF next > earliest THEN next ELSE earliest

Since(b) ==
    IF history[b] # {} THEN Last(history[b]) + 1
    ELSE IF run.asof > BackfillDays THEN run.asof - BackfillDays ELSE 1

\* Up to date, or not in the map of this run's client.
HistorySkips(b) ==
    /\ TaskStarts(b, "history")
    /\ Since(b) > run.asof \/ b \notin run.idMap
    /\ UNCHANGED <<bonds, history>>
    /\ TaskEnds(b, {})

HistoryCalls(b) ==
    /\ TaskStarts(b, "history")
    /\ Since(b) <= run.asof /\ b \in run.idMap
    /\ Calling(b)

\* The source has quotes up to some day of the interval, or none.
HistorySaved(b) ==
    /\ TaskResult(b, "history", {"ok"})
    /\ \E latest \in (Since(b) - 1) .. run.asof :
         history' = [history EXCEPT ![b] = @ \cup Since(b) .. latest]
    /\ UNCHANGED bonds
    /\ TaskEnds(b, {})

HistoryFails(b) ==
    /\ TaskResult(b, "history", Results)
    /\ UNCHANGED <<bonds, history>>
    /\ TaskEnds(b, {})

\* `ok` and `err` only count.  The history job ends here, a full run goes on.
HistoryDone ==
    /\ run.phase = "history" /\ AllDone
    /\ IF run.kind = "full"
       THEN /\ run' = [run EXCEPT !.phase = "enrich"]
            /\ UNCHANGED clientVars
       ELSE Closes
    /\ UNCHANGED <<onSale, today, tables>>

---------------------------------------------------------------------------
(* Enrichment fills the coupon rates that are still unknown from the XLSX  *)
(* calculator, unless its download failed; then every bond is scored and   *)
(* the run recorded.                                                       *)

Enrich ==
    /\ run.phase = "enrich"
    /\ \E known \in SUBSET Bonds :
         bonds' = [b \in Bonds |->
            IF b \in known /\ bonds[b] # NoBond /\ bonds[b].coupon = NoCoupon
            THEN [bonds[b] EXCEPT !.coupon = "known"] ELSE bonds[b]]
    /\ run' = [run EXCEPT !.phase = "score"]
    /\ UNCHANGED <<clientVars, onSale, today, history, scored, lineage>>

\* Mutant: delisted bonds keep their old score.
MutRecomputeActive ==
    /\ run.phase = "score"
    /\ scored' = [b \in Bonds |->
          IF bonds[b].status = "active" THEN bonds[b].coupon ELSE scored[b]]
    /\ run' = [run EXCEPT !.phase = "record"]
    /\ UNCHANGED <<clientVars, onSale, today, bonds, history, lineage>>

RecomputeAll ==
    /\ run.phase = "score"
    /\ scored' = [b \in Bonds |->
                    IF bonds[b] # NoBond THEN bonds[b].coupon ELSE scored[b]]
    /\ run' = [run EXCEPT !.phase = "record"]
    /\ UNCHANGED <<clientVars, onSale, today, bonds, history, lineage>>

Quality == IF run.failed = {} THEN "ok" ELSE "warning"

Record ==
    /\ run.phase = "record"
    /\ lineage' = [number |-> run.number, quality |-> Quality]
    /\ Closes
    /\ UNCHANGED <<onSale, today, bonds, history, scored>>

---------------------------------------------------------------------------
BondStep(b) ==
    \/ DetailStarts(b) \/ DetailSaved(b) \/ DetailMissing(b) \/ DetailFails(b)
    \/ HistorySkips(b) \/ HistoryCalls(b) \/ HistorySaved(b) \/ HistoryFails(b)

RunStep ==
    \/ \E c \in Calls : ClientStep(c)
    \/ \E c \in Currencies : ListPage(c) \/ ListFails(c)
    \/ \E b \in Bonds : BondStep(b)
    \/ ListingDone \/ DetailsDone \/ HistoryDone
    \/ Enrich \/ RecomputeAll \/ Record

Next ==
    \/ RunStep
    \/ StartFull \/ StartHistory \/ Abort
    \/ DaysEnd
    \/ \E b \in Bonds : LeavesSale(b)
    \/ CoolDown /\ UNCHANGED <<onSale, today, tables, run>>

Spec == Init /\ [][Next]_vars

---------------------------------------------------------------------------
TypeOK ==
    /\ ClientTypeOK
    /\ onSale \in SUBSET Bonds /\ today \in Days
    /\ bonds \in [Bonds -> BondRow]
    /\ history \in [Bonds -> SUBSET Days]
    /\ scored \in [Bonds -> {NotScored} \cup Coupons]
    /\ lineage \in {NoLineage} \cup [number: RunNumbers, quality: {"ok", "warning"}]
    /\ run \in Run

\* A bond is marked as delisted only when the source no longer has it: not
\* because its listing failed or overlapped another currency's, not because
\* a call timed out or the breaker refused it (pipeline.py:93-106,
\* client.py:726-731).
DelistedOnlyWhenGone ==
    \A b \in Bonds : bonds[b].status = "delisted" => b \notin onSale

\* A coupon rate that is known stays known, through partial payloads and
\* through delisting (bonds.py:185-204).
KnownCouponKept ==
    [][\A b \in Bonds : bonds[b].coupon # NoCoupon => bonds'[b].coupon # NoCoupon]_vars

\* Between the first and the last stored day of a bond no day is missing,
\* however long it failed, was skipped or the runs were stopped
\* (pipeline.py:176-197).
HistoryHasNoHoles ==
    \A b \in Bonds : \A d, e \in history[b] : d .. e \subseteq history[b]

RunRecorded == lineage' # lineage

\* A run recorded as "ok" refreshed every bond it listed, in that run
\* (pipeline.py:125-129, 897-905).
OkMeansRefreshed ==
    [][RunRecorded /\ lineage'.quality = "ok" =>
          \A b \in run.ids : bonds[b].fetched = run.number]_vars

\* When a run is recorded, every score is that of the enriched row
\* (pipeline.py:884-886).
ScoresReflectRows ==
    [][RunRecorded => \A b \in Bonds :
          bonds[b] # NoBond => scored[b] = bonds[b].coupon]_vars

\* The nightly job passes over a bond only when its history is up to date:
\* it "refreshes price/YTM candles ... so charts are fresh by market open"
\* (scheduler.py:39-42).
JobSkipsOnlyFresh ==
    [][\A b \in Bonds :
          run.kind = "history" /\ run.task[b] = "todo" /\ run'.task[b] = "done"
          => Since(b) > run.asof]_vars

\* A run under way can always go on: a call that failed, was refused or is
\* retried gives the semaphore back, and no listing waits for another.  As
\* retries are bounded, every run ends (pipeline.py:60, 88-131, 172-199).
RunNeverStuck == run.phase # "idle" => ENABLED RunStep
===========================================================================

---------------------------- MODULE BrowserClient ----------------------------
(***************************************************************************)
(* The browser of the Aigenis client (scraper/sources/aigenis/client.py):  *)
(* operations of one run that share a Playwright driver, a browser, its    *)
(* context and an HTTP session.  An operation checks the context first and *)
(* restarts everything when it is dead; nothing keeps two operations from  *)
(* restarting at once.  `fetch_history` needs the HTTP session, the legacy *)
(* `fetch_listing` and `fetch_detail` a page, and after it the HTML of the *)
(* catalogue, which is fetched once for all of them.                       *)
(*                                                                         *)
(* A step is what a coroutine does between two awaits.  What the n-th      *)
(* start makes (driver, browser, context, session) has the number n.       *)
(***************************************************************************)
EXTENDS Integers, Sequences, FiniteSets, FiniteSetsExt

CONSTANTS
  Fetchers,       \* coroutines of the run
  MaxPages,       \* settings.max_concurrency
  MaxFetches,     \* bound on the operations
  MaxCrashes,     \* bound on the crashes of a browser
  MaxBadLaunches  \* bound on the launches that fail

ASSUME BrowserAssumption ==
  /\ MaxPages \in Nat \ {0}
  /\ MaxFetches \in Nat /\ MaxCrashes \in Nat /\ MaxBadLaunches \in Nat

VARIABLES
  client,     \* the fields of AigenisClient, and whether it is started; 0 is None
  launches,   \* how many starts there were
  live,       \* what lives: numbers of drivers, browsers, contexts, sessions
  fetcher,    \* what every coroutine does
  pages,      \* holders of the semaphore
  futures,    \* the futures of the HTML cache, in the order of their creation
  cached,     \* _html_cache: the future of the catalogue, 0 without one
  cacheLock,  \* _html_cache_lock: {} or its holder
  fetches, crashes, badLaunches,
  restartsMet,  \* history: two restarts were in progress at once
  failedStarts, \* history: starts that raised
  disturbed,    \* history: operations that met a restart of another one
  orphaned      \* history: an operation that met none found a field missing

resources == <<client, launches, live>>
htmlVars == <<futures, cached, cacheLock>>
counters == <<fetches, crashes, badLaunches>>
histories == <<restartsMet, failedStarts, disturbed, orphaned>>
browserVars == <<resources, fetcher, pages, htmlVars, counters, histories>>

NoFetch == [pc |-> "resting"]
Fields == <<"context", "browser", "driver", "http">>
Starting == {"start", "launch", "new_context", "stealth"}
Restarting == {f \in Fetchers : fetcher[f].pc \in {"close"} \cup Starting}

\* aigenis_client starts the client before anyone uses it.
BrowserInit ==
  /\ client = [started |-> TRUE, driver |-> 1, browser |-> 1, context |-> 1, http |-> 1]
  /\ launches = 1
  /\ live = [driver |-> {1}, browser |-> {1}, context |-> {1}, http |-> {1}]
  /\ fetcher = [f \in Fetchers |-> NoFetch]
  /\ pages = {} /\ futures = << >> /\ cached = 0 /\ cacheLock = {}
  /\ fetches = 0 /\ crashes = 0 /\ badLaunches = 0
  /\ restartsMet = FALSE /\ failedStarts = 0 /\ disturbed = {} /\ orphaned = FALSE

At(f, pc) == fetcher[f].pc = pc
Continues(f, pc) == fetcher' = [fetcher EXCEPT ![f].pc = pc]
ContinuesWith(f, pc, n) == fetcher' = [fetcher EXCEPT ![f].pc = pc, ![f].uses = n]
Rests(f) == fetcher' = [fetcher EXCEPT ![f] = NoFetch]

\* The operation is over; whether it met a restart is forgotten.
Ends(f) ==
  /\ Rests(f)
  /\ disturbed' = disturbed \ {f}
  /\ UNCHANGED <<restartsMet, failedStarts, orphaned>>

\* It is over because what it needs was taken from the client.
EndsOrphaned(f) ==
  /\ Rests(f)
  /\ disturbed' = disturbed \ {f}
  /\ orphaned' = (orphaned \/ f \notin disturbed)
  /\ UNCHANGED <<restartsMet, failedStarts>>

\* Without its browser a context is of no use.
Works(context) == context \in live.context /\ context \in live.browser

-----------------------------------------------------------------------------
(* _ensure_browser: check_health, close, start.                            *)

Begin(f, kind) ==
  /\ At(f, "resting") /\ fetches < MaxFetches
  /\ fetches' = fetches + 1
  /\ fetcher' = [fetcher EXCEPT ![f] = [pc |-> "ensure", kind |-> kind, uses |-> 0]]
  /\ disturbed' = IF Restarting = {} THEN disturbed ELSE disturbed \cup {f}
  /\ UNCHANGED <<resources, htmlVars, pages, crashes, badLaunches, restartsMet, failedStarts, orphaned>>

\* check_health opens a page; without a context there is none, and all is well.
Probe(f) ==
  /\ At(f, "ensure")
  /\ IF client.started THEN ContinuesWith(f, "probe", client.context) /\ UNCHANGED histories
     ELSE EndsOrphaned(f)
  /\ UNCHANGED <<resources, htmlVars, pages, counters>>

Healthy(f) ==
  /\ At(f, "probe")
  /\ fetcher[f].uses = 0 \/ Works(fetcher[f].uses)
  /\ Continues(f, IF fetcher[f].kind = "history" THEN "request" ELSE "page")
  /\ UNCHANGED <<resources, htmlVars, pages, counters, histories>>

\* A mistake: the client counts as started although all is closed.
MutClosed(c) == c

Closed(c) == [c EXCEPT !.started = FALSE]

\* close goes through the fields that are not None; when all are, start
\* begins, and it returns at once when the client counts as started.
CloseFrom(f, now, i) ==
  LET rest == {j \in i .. Len(Fields) : now[Fields[j]] # 0} IN
  IF rest # {}
  THEN /\ client' = now
       /\ fetcher' = [fetcher EXCEPT ![f] = [pc |-> "close", kind |-> @.kind, field |-> Min(rest),
                                             uses |-> now[Fields[Min(rest)]]]]
       /\ UNCHANGED <<launches, cached>>
  ELSE /\ client' = Closed(now)
       /\ cached' = 0
       /\ IF client'.started
          THEN Continues(f, "page") /\ UNCHANGED launches
          ELSE /\ launches' = launches + 1
               /\ fetcher' = [fetcher EXCEPT ![f] = [pc |-> "start", kind |-> @.kind, uses |-> launches']]

Unhealthy(f) ==
  /\ At(f, "probe")
  /\ fetcher[f].uses # 0 /\ ~Works(fetcher[f].uses)
  /\ CloseFrom(f, client, 1)
  /\ restartsMet' = (restartsMet \/ Restarting # {})
  /\ disturbed' = disturbed \cup {g \in Fetchers : g # f /\ ~At(g, "resting")}
                            \cup (IF Restarting = {} THEN {} ELSE {f})
  /\ UNCHANGED <<live, futures, cacheLock, pages, counters, failedStarts, orphaned>>

\* The field is emptied whatever it holds by now; a driver takes its browser
\* with it.
CloseField(f) ==
  LET t == fetcher[f]
      field == Fields[t.field]
  IN /\ t.pc = "close"
     /\ live' = [k \in DOMAIN live |->
                   IF k = field \/ (field = "driver" /\ k = "browser") THEN live[k] \ {t.uses}
                   ELSE live[k]]
     /\ CloseFrom(f, [client EXCEPT ![field] = 0], t.field + 1)
     /\ UNCHANGED <<futures, cacheLock, pages, counters, histories>>

Makes(field, n) == live' = [live EXCEPT ![field] = @ \cup {n}]

\* An exception in start: the operation ends, the fields stay as they are.
StartRaises(f) ==
  /\ Rests(f)
  /\ failedStarts' = failedStarts + 1
  /\ disturbed' = disturbed \ {f}
  /\ UNCHANGED <<resources, restartsMet, orphaned>>

StartDriver(f) ==
  /\ At(f, "start")
  /\ Makes("driver", fetcher[f].uses)
  /\ client' = [client EXCEPT !.driver = fetcher[f].uses]
  /\ Continues(f, "launch")
  /\ UNCHANGED <<launches, htmlVars, pages, counters, histories>>

LaunchBrowser(f) ==
  LET n == fetcher[f].uses IN
  /\ At(f, "launch")
  /\ IF n \in live.driver
     THEN /\ Makes("browser", n)
          /\ client' = [client EXCEPT !.browser = n]
          /\ Continues(f, "new_context")
          /\ UNCHANGED <<launches, histories>>
     ELSE StartRaises(f)
  /\ UNCHANGED <<htmlVars, pages, counters>>

LaunchFails(f) ==
  /\ At(f, "launch") /\ badLaunches < MaxBadLaunches
  /\ badLaunches' = badLaunches + 1
  /\ StartRaises(f)
  /\ UNCHANGED <<htmlVars, pages, fetches, crashes>>

NewContext(f) ==
  LET n == fetcher[f].uses IN
  /\ At(f, "new_context")
  /\ IF n \in live.browser
     THEN /\ Makes("context", n)
          /\ client' = [client EXCEPT !.context = n]
          /\ Continues(f, "stealth")
          /\ UNCHANGED <<launches, histories>>
     ELSE StartRaises(f)
  /\ UNCHANGED <<htmlVars, pages, counters>>

Started(f) ==
  /\ At(f, "stealth")
  /\ Makes("http", fetcher[f].uses)
  /\ client' = [client EXCEPT !.started = TRUE, !.http = fetcher[f].uses]
  /\ Continues(f, IF fetcher[f].kind = "history" THEN "request" ELSE "page")
  /\ UNCHANGED <<launches, htmlVars, pages, counters, histories>>

-----------------------------------------------------------------------------
(* The HTTP session: fetch_history.                                        *)

Request(f) ==
  /\ At(f, "request")
  /\ IF client.http = 0 THEN EndsOrphaned(f)
     ELSE ContinuesWith(f, "reply", client.http) /\ UNCHANGED histories
  /\ UNCHANGED <<resources, htmlVars, pages, counters>>

Reply(f) ==
  /\ At(f, "reply")
  /\ IF fetcher[f].uses \in live.http THEN Ends(f) ELSE EndsOrphaned(f)
  /\ UNCHANGED <<resources, htmlVars, pages, counters>>

-----------------------------------------------------------------------------
(* Pages.                                                                  *)

\* _fetch_json: a page in the semaphore; without a context the HTML is tried.
OpenPage(f) ==
  /\ At(f, "page")
  /\ \/ client.context = 0 /\ Continues(f, "html") /\ UNCHANGED pages
     \/ /\ client.context # 0 /\ Cardinality(pages) < MaxPages
        /\ ContinuesWith(f, "load", client.context)
        /\ pages' = pages \cup {f}
  /\ UNCHANGED <<resources, htmlVars, counters, histories>>

\* A page or a 404 ends the operation, any other failure leads to the HTML.
PageLoads(f) ==
  /\ At(f, "load") /\ Works(fetcher[f].uses)
  /\ Ends(f)
  /\ pages' = pages \ {f}
  /\ UNCHANGED <<resources, htmlVars, counters>>

PageFails(f) ==
  /\ At(f, "load")
  /\ Continues(f, "html")
  /\ pages' = pages \ {f}
  /\ UNCHANGED <<resources, htmlVars, counters, histories>>

\* _fetch_html_cached, under the lock: the first makes the future; who finds
\* one waits for it and keeps the lock.
LookInCache(f) ==
  /\ At(f, "html") /\ cacheLock = {}
  /\ IF cached = 0
     THEN /\ futures' = Append(futures, "pending")
          /\ cached' = Len(futures')
          /\ fetcher' = [fetcher EXCEPT ![f] = [pc |-> "fetch_html", kind |-> "page", uses |-> 0,
                                                future |-> Len(futures')]]
          /\ UNCHANGED <<cacheLock, histories>>
     ELSE /\ IF futures[cached] = "pending"
             THEN /\ cacheLock' = {f}
                  /\ fetcher' = [fetcher EXCEPT ![f] = [pc |-> "await", kind |-> "page", uses |-> 0,
                                                        future |-> cached]]
                  /\ UNCHANGED histories
             ELSE Ends(f) /\ UNCHANGED cacheLock
          /\ UNCHANGED <<futures, cached>>
  /\ UNCHANGED <<resources, pages, counters>>

Awaited(f) ==
  /\ At(f, "await") /\ futures[fetcher[f].future] # "pending"
  /\ cacheLock' = {}
  /\ Ends(f)
  /\ UNCHANGED <<resources, pages, counters, futures, cached>>

OpenHtml(f) ==
  /\ At(f, "fetch_html") /\ client.context # 0 /\ Cardinality(pages) < MaxPages
  /\ ContinuesWith(f, "load_html", client.context)
  /\ pages' = pages \cup {f}
  /\ UNCHANGED <<resources, htmlVars, counters, histories>>

HtmlLoads(f) ==
  /\ At(f, "load_html") /\ Works(fetcher[f].uses)
  /\ futures' = [futures EXCEPT ![fetcher[f].future] = "done"]
  /\ pages' = pages \ {f}
  /\ Ends(f)
  /\ UNCHANGED <<resources, counters, cached, cacheLock>>

HtmlFails(f) ==
  /\ \/ At(f, "load_html")
     \/ At(f, "fetch_html") /\ client.context = 0
  /\ futures' = [futures EXCEPT ![fetcher[f].future] = "failed"]
  /\ pages' = pages \ {f}
  /\ Continues(f, "pop")
  /\ UNCHANGED <<resources, counters, cached, cacheLock, histories>>

\* The future is taken from the cache by its URL, whoever's it is by now.
PopHtml(f) ==
  /\ At(f, "pop") /\ cacheLock = {}
  /\ cached' = 0
  /\ Ends(f)
  /\ UNCHANGED <<resources, pages, counters, futures, cacheLock>>

-----------------------------------------------------------------------------

BrowserCrashes ==
  /\ crashes < MaxCrashes
  /\ \E b \in live.browser : live' = [live EXCEPT !.browser = @ \ {b}]
  /\ crashes' = crashes + 1
  /\ UNCHANGED <<client, launches, fetcher, pages, htmlVars, fetches, badLaunches, histories>>

BrowserNext ==
  \/ \E f \in Fetchers :
       \/ \E kind \in {"history", "page"} : Begin(f, kind)
       \/ Probe(f) \/ Healthy(f) \/ Unhealthy(f) \/ CloseField(f)
       \/ StartDriver(f) \/ LaunchBrowser(f) \/ LaunchFails(f) \/ NewContext(f) \/ Started(f)
       \/ Request(f) \/ Reply(f)
       \/ OpenPage(f) \/ PageLoads(f) \/ PageFails(f)
       \/ LookInCache(f) \/ Awaited(f) \/ OpenHtml(f) \/ HtmlLoads(f) \/ HtmlFails(f) \/ PopHtml(f)
  \/ BrowserCrashes

BrowserSpec == BrowserInit /\ [][BrowserNext]_browserVars

-----------------------------------------------------------------------------
(* Properties.                                                             *)

\* Operations that find the browser dead at the same time restart it one
\* over the other.  Once nobody restarts, and no start raised, the client is
\* started and has its context and its session; a browser that nobody will
\* close is left only when restarts met; a start raises for want of a driver
\* or a browser only when restarts met or the browser failed; an operation
\* ends for a missing field only if it met a restart or a start had raised;
\* who waits for the catalogue waits for one who is fetching it, and it is
\* fetched twice at once only after a restart.
ClientRecovers ==
  /\ Restarting = {} /\ failedStarts = 0 =>
       /\ client.started /\ client.http \in live.http
       /\ client.context \in live.context
       /\ restartsMet \/ client.browser = client.context
  /\ Restarting = {} /\ ~restartsMet => live.browser \subseteq {client.browser}
  /\ failedStarts > 0 => restartsMet \/ badLaunches > 0 \/ crashes > 1
  /\ orphaned => failedStarts > 0
  /\ \A f \in Fetchers :
       At(f, "await") /\ futures[fetcher[f].future] = "pending" =>
         \E g \in Fetchers : /\ fetcher[g].pc \in {"fetch_html", "load_html"}
                             /\ fetcher[g].future = fetcher[f].future
  /\ launches = 1 => Cardinality({f \in Fetchers : fetcher[f].pc \in {"fetch_html", "load_html"}}) <= 1
=============================================================================

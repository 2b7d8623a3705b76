----------------------------- MODULE Integration -----------------------------
(***************************************************************************)
(* The Aigenis integration API (api/aigenis): a client that reads the list *)
(* of bonds page by page while the scraper writes, alerts created with an  *)
(* idempotency key, and the versions of the instrument map that turn the   *)
(* client's ids into ours (scraper/instrument_map.py).  Every request      *)
(* passes the check of its SSO token, whose keys a process loads once.     *)
(***************************************************************************)
EXTENDS Integers, Sequences, FiniteSets, FiniteSetsExt

CONSTANTS
  LastBond,         \* internal ids of one market, numbered in their order
  MappedId,         \* the id of the client whose rows of the map are modelled
  MapTargets,       \* ids that the map leads to and that clients name
  BATCH,            \* rows that a query of list_bonds asks for
  BATCHES,          \* queries of one request at most
  PageLimit,        \* rows of a page
  Posters,          \* POST /alerts under way
  PostKeys, NoKey,  \* idempotency keys of the client
  Mappers,          \* upsert_mapping_db under way
  MaxScrapes, MaxPosts, MaxUpserts, MaxRotations

ASSUME IntegrationAssumption ==
  /\ LastBond \in Nat
  /\ BATCH \in Nat \ {0} /\ BATCHES \in Nat \ {0} /\ PageLimit \in Nat \ {0}
  /\ NoKey \notin PostKeys /\ MappedId \in 1 .. LastBond /\ MapTargets \subseteq 1 .. LastBond

BondIds == 1 .. LastBond

VARIABLES
  bond,      \* id -> "absent", or whether it passes the filter of the client
  walk,      \* the client that follows next_cursor
  scrapes,
  post,      \* a call of create_alert
  signals,   \* rows of alerts, in the order of their ids
  posts,
  versions,  \* rows of instrument_map of MappedId, by version
  mapper,    \* a call of upsert_mapping_db
  told,      \* the target of the last upsert that did not only retire
  upserts, mixed,
  sso        \* keys of the identity provider, and those the process loaded

walkVars == <<bond, walk, scrapes>>
postVars == <<post, signals, posts>>
mapVars == <<versions, mapper, told, upserts, mixed>>
integrationVars == <<walkVars, postVars, mapVars, sso>>

-----------------------------------------------------------------------------
(* verify_sso_token and require_scope.                                     *)

\* _load_jwks is cached whatever it returns: a set that could not be loaded
\* stays empty, and a key published later stays unknown.
KeysAfter(reachable) ==
  IF sso.asked THEN sso.loaded
  ELSE IF reachable THEN {sso.published} ELSE {}

\* A request whose token is signed by `key` and holds the scope or not.
Admitted(key, scoped, reachable) ==
  /\ sso' = [sso EXCEPT !.asked = TRUE, !.loaded = KeysAfter(reachable)]
  /\ key \in KeysAfter(reachable) /\ scoped

Refused(key, scoped, reachable) ==
  /\ sso' = [sso EXCEPT !.asked = TRUE, !.loaded = KeysAfter(reachable)]
  /\ ~(key \in KeysAfter(reachable) /\ scoped)
  /\ UNCHANGED <<walkVars, postVars, mapVars>>

Enters == \E key \in 1 .. sso.published, reachable \in BOOLEAN : Admitted(key, TRUE, reachable)

RotateKeys ==
  /\ sso.published <= MaxRotations
  /\ sso' = [sso EXCEPT !.published = @ + 1]
  /\ UNCHANGED <<walkVars, postVars, mapVars>>

RestartApi ==
  /\ sso.asked /\ walk.state # "reading"
  /\ \A c \in Posters : post[c].state = "idle"
  /\ sso' = [sso EXCEPT !.asked = FALSE, !.loaded = {}]
  /\ UNCHANGED <<walkVars, postVars, mapVars>>

SsoStep ==
  \/ \E key \in 1 .. sso.published, scoped, reachable \in BOOLEAN : Refused(key, scoped, reachable)
  \/ RotateKeys
  \/ RestartApi

-----------------------------------------------------------------------------
(* GET /bonds: list_bonds.                                                 *)

Matching == {i \in BondIds : bond[i] = "match"}

\* The rows found so far and the rows answered are sets: queries go by id.
\* What does not come in that order on the pages is in `repeated`.
NewWalk == [state |-> "ready", cursor |-> 0, at |-> 0, page |-> {}, queries |-> 0, more |-> FALSE,
            exhausted |-> TRUE, seen |-> {}, repeated |-> {}, steady |-> Matching]

AskForPage ==
  /\ walk.state = "ready" /\ Enters
  /\ walk' = [walk EXCEPT !.state = "reading", !.at = walk.cursor, !.page = {}, !.queries = 0,
                          !.more = FALSE, !.exhausted = TRUE]
  /\ UNCHANGED <<bond, scrapes, postVars, mapVars>>

LowestOf(n, ids) == {i \in ids : Cardinality({j \in ids : j < i}) < n}

Batch(from) == LowestOf(BATCH, {i \in BondIds : i > from /\ bond[i] # "absent"})

\* The inner loop appends before it looks at the limit, and its `break`
\* leaves only itself: every later batch may add one more row.
Room(page) == IF Cardinality(page) < PageLimit THEN PageLimit - Cardinality(page) ELSE 1
Collected(page, found) == page \cup LowestOf(Room(page), found)

Answered(w) == LowestOf(PageLimit, w.page)

\* A mistake: the cursor of the next page is where the reading stopped.
MutNextCursor(w) == w.at

\* page[-1].internal_id
NextCursor(w) == Max(Answered(w))

\* The end of the request.  With more to come and nothing found page[-1]
\* raises: the client gets an error, and the same one when it retries.
AnswerPage(w) ==
  LET hasNext == w.more \/ ~w.exhausted
  IN IF hasNext /\ w.page = {} THEN [w EXCEPT !.state = "failed"]
     ELSE [w EXCEPT !.state = IF hasNext THEN "ready" ELSE "done",
                    !.cursor = IF hasNext THEN NextCursor(w) ELSE @,
                    !.seen = @ \cup Answered(w),
                    !.repeated = @ \cup {i \in Answered(w) : \E j \in w.seen : i <= j},
                    !.at = 0, !.page = {}, !.queries = 0, !.more = FALSE, !.exhausted = TRUE]

\* One query, and the rows of its answer that pass the filter.
Read(rows) ==
  LET found == rows \cap Matching
      page == Collected(walk.page, found)
  IN IF rows = {} THEN walk
     ELSE [walk EXCEPT !.at = Max(rows), !.page = page, !.queries = @ + 1,
                       !.more = @ \/ (found # {} /\ Cardinality(page) >= PageLimit),
                       !.exhausted = Cardinality(rows) < BATCH]

ReadBatch ==
  /\ walk.state = "reading"
  /\ LET rows == Batch(walk.at)
         read == Read(rows)
     IN walk' = IF Cardinality(rows) < BATCH \/ read.queries = BATCHES THEN AnswerPage(read) ELSE read
  /\ UNCHANGED <<bond, scrapes, postVars, mapVars, sso>>

RetryPage ==
  /\ walk.state = "failed"
  /\ walk' = [walk EXCEPT !.state = "ready"]
  /\ UNCHANGED <<bond, scrapes, postVars, mapVars, sso>>

\* The scraper adds a bond, or changes what the filter looks at.
ScrapeBond(i, b) ==
  /\ scrapes < MaxScrapes /\ scrapes' = scrapes + 1
  /\ bond[i] # b
  /\ bond' = [bond EXCEPT ![i] = b]
  /\ walk' = [walk EXCEPT !.steady = @ \ {i}]
  /\ UNCHANGED <<postVars, mapVars, sso>>

ListingNext ==
  \/ AskForPage
  \/ ReadBatch
  \/ RetryPage
  \/ \E i \in BondIds, b \in {"match", "other"} : ScrapeBond(i, b)

-----------------------------------------------------------------------------
(* The instrument map.                                                     *)

NoBond == 0

\* resolve_aigenis_id_db: the newest version that is not closed, whatever
\* its status.
Resolved ==
  LET open == {v \in DOMAIN versions : versions[v].open}
  IN IF open = {} THEN 0 ELSE Max(open)

\* _load_bond: an id without a row in the map is an internal id.
LoadBond(id) ==
  IF id = MappedId /\ Resolved # 0 /\ bond[versions[Resolved].target] # "absent"
  THEN versions[Resolved].target
  ELSE IF bond[id] # "absent" THEN id
  ELSE NoBond

NoUpsert == [state |-> "idle", over |-> 0, changed |-> FALSE, target |-> NoBond, retired |-> FALSE]

\* upsert_mapping_db reads the version it builds upon ...
ReadMapping(m, target, newVersion, retired) ==
  /\ upserts < MaxUpserts /\ upserts' = upserts + 1
  /\ mapper[m].state = "idle"
  /\ mapper' = [mapper EXCEPT ![m] =
       [state |-> "write", over |-> Resolved, target |-> target, retired |-> retired,
        changed |-> newVersion /\ Resolved # 0 /\ versions[Resolved].target # target]]
  /\ mixed' = (mixed \/ \E other \in Mappers \ {m} : mapper[other].state = "write")
  /\ UNCHANGED <<versions, told, walkVars, postVars, sso>>

\* ... and writes the one after it, over the row that may be there.  Only a
\* changed target closes the version before, and then the new one is open
\* whatever the caller says.
WriteMapping(m) ==
  LET w == mapper[m]
      row == [target |-> w.target, open |-> w.changed \/ ~w.retired]
      before == IF w.changed THEN [versions EXCEPT ![w.over].open = FALSE] ELSE versions
  IN /\ w.state = "write"
     /\ versions' = IF w.over + 1 \in DOMAIN before THEN [before EXCEPT ![w.over + 1] = row]
                    ELSE Append(before, row)
     /\ told' = IF row.open THEN w.target ELSE told
     /\ mapper' = [mapper EXCEPT ![m] = NoUpsert]
     /\ UNCHANGED <<upserts, mixed, walkVars, postVars, sso>>

MappingNext ==
  \/ \E m \in Mappers, target \in MapTargets, newVersion, retired \in BOOLEAN :
       ReadMapping(m, target, newVersion, retired)
  \/ \E m \in Mappers : WriteMapping(m)

-----------------------------------------------------------------------------
(* POST /alerts: create_alert.                                             *)

NoPost == [state |-> "idle", key |-> NoKey, about |-> NoBond, looked |-> 0]

PostAlert(c, key, id) ==
  /\ post[c].state = "idle" /\ posts < MaxPosts /\ posts' = posts + 1
  /\ LoadBond(id) # NoBond
  /\ Enters
  /\ post' = [post EXCEPT ![c] = [state |-> "look", key |-> key, about |-> LoadBond(id), looked |-> 0]]
  /\ UNCHANGED <<signals, walkVars, mapVars>>

WithKey(key) == {s \in DOMAIN signals : signals[s].key = key}

\* One row with the key is answered as a duplicate; more than one raises.
LookUpKey(c) ==
  /\ post[c].state = "look"
  /\ post' = [post EXCEPT ![c] =
       IF post[c].key # NoKey /\ WithKey(post[c].key) # {} THEN NoPost
       ELSE [post[c] EXCEPT !.state = "insert", !.looked = Len(signals)]]
  /\ UNCHANGED <<signals, posts, walkVars, mapVars, sso>>

InsertPosted(c) ==
  /\ post[c].state = "insert"
  /\ signals' = Append(signals, [key |-> post[c].key, about |-> post[c].about, looked |-> post[c].looked])
  /\ post' = [post EXCEPT ![c] = NoPost]
  /\ UNCHANGED <<posts, walkVars, mapVars, sso>>

PostFails(c) ==
  /\ post[c].state = "insert"
  /\ post' = [post EXCEPT ![c] = NoPost]
  /\ UNCHANGED <<signals, posts, walkVars, mapVars, sso>>

SignalsNext ==
  \/ \E c \in Posters, key \in PostKeys \cup {NoKey}, id \in MapTargets : PostAlert(c, key, id)
  \/ \E c \in Posters : LookUpKey(c) \/ InsertPosted(c) \/ PostFails(c)

-----------------------------------------------------------------------------

IntegrationInit ==
  /\ bond \in [BondIds -> {"absent", "match", "other"}]
  /\ walk = NewWalk /\ scrapes = 0
  /\ post = [c \in Posters |-> NoPost] /\ signals = << >> /\ posts = 0
  /\ versions = << >> /\ mapper = [m \in Mappers |-> NoUpsert]
  /\ told = NoBond /\ upserts = 0 /\ mixed = FALSE
  /\ sso = [published |-> 1, asked |-> FALSE, loaded |-> {}]

IntegrationNext == ListingNext \/ MappingNext \/ SignalsNext \/ SsoStep

IntegrationSpec == IntegrationInit /\ [][IntegrationNext]_integrationVars

-----------------------------------------------------------------------------
(* Properties.                                                             *)

\* A bond that was there, and matched, all the while is on exactly one page;
\* a request fails only where it passed over none of them.
WalkComplete ==
  /\ walk.state = "done" => walk.steady \subseteq walk.seen
  /\ walk.repeated = {}
  /\ walk.state = "failed" => \A i \in walk.steady : i <= walk.cursor \/ i > walk.at

\* Two rows of one key come from calls that overlapped.
OneRowPerKey ==
  \A s, t \in DOMAIN signals :
    s < t /\ signals[s].key = signals[t].key /\ signals[s].key # NoKey => signals[t].looked < s

\* Upserts one after another: the id leads to what was last said, and what
\* was once mapped stays so.
MapFollowsUpserts ==
  ~mixed => IF told = NoBond THEN Resolved = 0
            ELSE Resolved # 0 /\ versions[Resolved].target = told

\* The client that follows the cursors misses no bond and sees none twice,
\* though the scraper writes between its queries; a retried POST adds no row
\* unless it overlapped the first; the map answers with the last upsert.
IntegrationSound ==
  /\ WalkComplete
  /\ OneRowPerKey
  /\ MapFollowsUpserts
=============================================================================

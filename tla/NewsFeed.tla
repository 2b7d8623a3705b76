------------------------------ MODULE NewsFeed ------------------------------
(***************************************************************************)
(* The news of the exchange, asked for page by page while new ones push    *)
(* the older ones to the next pages, and kept for a quarter of an hour     *)
(* (api/news.py).  An item is known by its number, the newest is the       *)
(* highest.                                                                *)
(***************************************************************************)
EXTENDS Integers, Sequences, FiniteSets, SequencesExt

CONSTANTS
  Askers,        \* requests at once
  PageLength, FeedPages,
  NewsTtl,       \* CACHE_TTL_S
  Relevant,      \* items that a question is about: of those its keywords match
  NewsLimit,
  FirstItems, MaxItems,
  LastQuarter, MaxPageFailures

VARIABLES
  published,     \* how many the exchange has published
  quarter,
  newsCache,
  asker,         \* what every request is at
  pageFailures

newsVars == <<published, quarter, newsCache, asker, pageFailures>>

NothingCached == [at |-> -1, feed |-> << >>, from |-> 0, to |-> 0]
Elsewhere == [step |-> "away"]

NewsInit ==
  /\ published \in FirstItems /\ quarter = 0 /\ newsCache = NothingCached
  /\ asker = [r \in Askers |-> Elsewhere] /\ pageFailures = 0

\* Page k of what is published now, the newest first.
NewsPage(k) ==
  SelectSeq([i \in 1 .. PageLength |-> published + 1 - (k - 1) * PageLength - i], LAMBDA n : n > 0)

\* The first of those with one number.
Deduped(s) == FoldLeft(LAMBDA kept, n : IF n \in ToSet(kept) THEN kept ELSE Append(kept, n), << >>, s)

\* Without keywords a question is about everything.
Picked(feed, about) ==
  LET found == SelectSeq(feed, LAMBDA n : about = {} \/ n \in about)
  IN SubSeq(found, 1, IF Len(found) < NewsLimit THEN Len(found) ELSE NewsLimit)

AskNews(r) ==
  /\ asker[r].step = "away"
  /\ asker' = [asker EXCEPT ![r] =
       IF newsCache # NothingCached /\ quarter - newsCache.at < NewsTtl
       THEN [step |-> "cached", asked |-> quarter, cached |-> newsCache]
       ELSE [step |-> "fetch", asked |-> quarter, page |-> 1, got |-> << >>, from |-> published]]
  /\ UNCHANGED <<published, quarter, newsCache, pageFailures>>

\* The time the feed is kept from is that of the question.
FetchPage(r) ==
  LET got == asker[r].got \o NewsPage(asker[r].page)
      last == NewsPage(asker[r].page) = << >> \/ asker[r].page = FeedPages
      cached == [at |-> asker[r].asked, feed |-> Deduped(got), from |-> asker[r].from, to |-> published]
  IN /\ asker[r].step = "fetch"
     /\ IF last
        THEN /\ newsCache' = cached
             /\ asker' = [asker EXCEPT ![r] = [step |-> "cached", asked |-> @.asked, cached |-> cached]]
        ELSE /\ asker' = [asker EXCEPT ![r].page = @ + 1, ![r].got = got] /\ UNCHANGED newsCache
     /\ UNCHANGED <<published, quarter, pageFailures>>

\* One page that does not come loses the others: the answer is empty.
PageFails(r) ==
  /\ asker[r].step = "fetch" /\ pageFailures < MaxPageFailures /\ pageFailures' = pageFailures + 1
  /\ asker' = [asker EXCEPT ![r] = [step |-> "empty"]]
  /\ UNCHANGED <<published, quarter, newsCache>>

PickNews(r) ==
  /\ asker[r].step = "cached"
  /\ \E about \in Relevant :
       asker' = [asker EXCEPT ![r] = [step |-> "answered", asked |-> @.asked, cached |-> @.cached, about |-> about,
                                      shown |-> Picked(@.cached.feed, about)]]
  /\ UNCHANGED <<published, quarter, newsCache, pageFailures>>

GoAway(r) ==
  /\ asker[r].step \in {"answered", "empty"} /\ asker' = [asker EXCEPT ![r] = Elsewhere]
  /\ UNCHANGED <<published, quarter, newsCache, pageFailures>>

Publishes == published < MaxItems /\ published' = published + 1 /\ UNCHANGED <<quarter, newsCache, asker, pageFailures>>

QuarterPasses ==
  quarter < LastQuarter /\ quarter' = quarter + 1 /\ UNCHANGED <<published, newsCache, asker, pageFailures>>

NewsNext ==
  \/ \E r \in Askers : AskNews(r) \/ FetchPage(r) \/ PageFails(r) \/ PickNews(r) \/ GoAway(r)
  \/ Publishes \/ QuarterPasses

-----------------------------------------------------------------------------
\* However the pages move while they are read, the kept feed has no item
\* twice; it misses of those published before at most as many of the oldest as
\* came in between; and unless that was more than a page, it goes from the
\* newest to the oldest.
FeedComplete ==
  LET feed == newsCache.feed
      moved == newsCache.to - newsCache.from
  IN newsCache # NothingCached =>
       /\ Cardinality(ToSet(feed)) = Len(feed)
       /\ \A n \in 1 .. newsCache.from :
            n > newsCache.from - (PageLength * FeedPages - moved) => n \in ToSet(feed)
       /\ moved <= PageLength => \A i, j \in DOMAIN feed : i < j => feed[i] > feed[j]

\* An answer is of a feed that was asked for less than its time before, and
\* leaves out no relevant item that the feed has before one it shows.
NewsInOrder ==
  \A r \in Askers :
    asker[r].step = "answered" =>
      /\ asker[r].asked - asker[r].cached.at < NewsTtl
      /\ \A i, j \in DOMAIN asker[r].cached.feed :
           LET newer == asker[r].cached.feed[i]
           IN i < j /\ asker[r].cached.feed[j] \in ToSet(asker[r].shown)
                /\ (asker[r].about = {} \/ newer \in asker[r].about) => newer \in ToSet(asker[r].shown)

NewsHold == FeedComplete /\ NewsInOrder
=============================================================================

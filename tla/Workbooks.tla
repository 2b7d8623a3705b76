----------------------------- MODULE Workbooks -----------------------------
(***************************************************************************)
(* Where the terms of a bond come from when the interface of the broker's  *)
(* site keeps them to itself: the blocks of its page                       *)
(* (aigenis/parsers/listing.py, detail.py) and its workbooks for investors *)
(* (parsers/xlsx.py, pipeline.enrich_from_xlsx).  Both are matched to the  *)
(* rows by the numbers in ids, codes and names, as text: 5 is found in 51. *)
(*                                                                         *)
(* Coupon, frequency and schedule stand for all that is filled in where it *)
(* is missing.  Coupons are percents, periods days; a schedule is known by *)
(* the bond it belongs to, a name by the issue number in it.  Numbers have *)
(* at most two digits, 0 is none.                                          *)
(***************************************************************************)
EXTENDS Integers, Sequences, FiniteSets, SequencesExt

CONSTANTS
  Issued,       \* bonds, with the numbers of their ids and the coupons they pay a year
  IdNumber, Yearly,
  FirstNames,   \* BOND_NAME_MAP, as far as it is written in the code
  SitePages,    \* what the page may show
  Workbook,     \* sequence of editions of the workbooks
  Scrapers,     \* processes that scrape and enrich: the scheduler and the bot
  BookToday, Face,
  MaxTurns,     \* listings, details and enrichments
  MaxBookUpsets \* pages and editions that follow, broken downloads, restarts

Untold == -1
NoOwner == "none"
NoName == [op |-> FALSE, number |-> 0]

BlockType(x) == x.of \in Issued /\ x.id \in 1 .. 99 /\ x.code \in 0 .. 99 /\ x.shown \in {Untold} \cup Nat

ASSUME WorkbookAssumption ==
  /\ IdNumber \in [Issued -> 1 .. 99] /\ IsInjective(IdNumber) /\ Yearly \in [Issued -> 1 .. 12]
  /\ \A page \in SitePages : \A i \in DOMAIN page.blocks : BlockType(page.blocks[i])
  /\ \A e \in DOMAIN Workbook : Workbook[e].columns \in Seq([of : Issued, number : 0 .. 99, coupon : {Untold} \cup Nat])

VARIABLES
  sitePage,     \* what the page shows now, and the edition that is published
  edition,
  bookFile,     \* the downloaded workbooks of every process
  issueRow,     \* rows of the bonds
  accrued,      \* accruals: <<row, bond that they are of>>
  nameMap,      \* BOND_NAME_MAP of every process
  listedIds,    \* ids that the last listing of a process has found
  enriching,    \* enrich_from_xlsx of every process
  met,          \* history: bonds stored while an enrichment was under way
  overwritten,  \* history: bonds of which an enrichment replaced a known coupon
  turns, bookUpsets

bookVars == <<sitePage, edition, bookFile, issueRow, accrued, nameMap, listedIds, enriching, met, overwritten,
              turns, bookUpsets>>

First(S) == CHOOSE i \in S : \A j \in S : i <= j
Last1(S) == CHOOSE i \in S : \A j \in S : i >= j

-----------------------------------------------------------------------------
(* Numbers as text.                                                        *)

\* "OP-5" in "OP-51"
Prefixed(k, n) == n = k \/ n \div 10 = k

\* str(5) in "51", in "15"
Within(k, n) == Prefixed(k, n) \/ n % 10 = k

-----------------------------------------------------------------------------
(* The blocks of the page.                                                 *)

Missing(v) == v <= 0

OfMonths == [n \in {1, 2, 3, 4, 6, 12} |-> 12 \div n]

\* "n times a year", "once a quarter" or "once in n months": what ends in
\* "2 times" is twice.
FrequencyTold(per) ==
  IF per[1] = "year" THEN (IF per[2] % 10 = 2 THEN 2 ELSE per[2])
  ELSE IF per[1] = "quarter" THEN 4
  ELSE IF per[1] = "months" /\ per[2] \in DOMAIN OfMonths THEN OfMonths[per[2]] ELSE Untold

Or(v, otherwise) == IF v # Untold THEN v ELSE otherwise

\* A section of a block.  The way of payment counts only while no coupon is
\* known.  The first text below any title with "coupon" in it becomes the
\* description, also that of the schedule, and only the description is asked
\* for the rate.
Took(got, s) ==
  IF s.kind = "main"
  THEN IF Missing(got.coupon)
       THEN [got EXCEPT !.coupon = Or(s.rate, @), !.freq = Or(FrequencyTold(s.per), @)]
       ELSE got
  ELSE [coupon |-> IF got.described THEN got.coupon ELSE Or(s.rate, got.coupon),
        freq |-> IF got.described THEN got.freq ELSE Or(FrequencyTold(s.per), got.freq),
        described |-> TRUE, schedule |-> got.schedule \/ s.kind = "schedule"]

\* The column of the yield becomes the coupon, whatever its comment says.
ParsedBlock(x) ==
  FoldLeft(Took, [coupon |-> IF x.shown > 0 THEN x.shown ELSE Untold, freq |-> Untold,
                  described |-> FALSE, schedule |-> FALSE], x.sections)

NoAnswer == [valid |-> FALSE]

Payload(coupon, freq, schedule, number) ==
  [valid |-> TRUE, coupon |-> IF Missing(coupon) THEN Untold ELSE coupon, freq |-> freq,
   schedule |-> schedule, number |-> number]

OwnerIf(given, x) == IF given THEN x.of ELSE NoOwner

\* The digits of a block, or none, in those of the id or around them.
Loose(b, x) ==
  \/ x.code = 0
  \/ \E n \in {x.id, x.code} : Within(IdNumber[b], n) \/ Within(n, IdNumber[b])

\* The last resort walks over the labels of the whole page.  What stands next
\* to "yield" or "coupon" is no number, and spoils the answer, unless the
\* coupon is taken from a block after all: that of the first loose match.
Walked(page, b) ==
  LET blocks == page.blocks
      loose == {i \in DOMAIN blocks : Loose(b, blocks[i])}
      titled == \E i \in DOMAIN blocks : \E j \in DOMAIN blocks[i].sections : blocks[i].sections[j].kind # "main"
      texts == IF loose = {} THEN << >> ELSE SelectSeq(blocks[First(loose)].sections, LAMBDA s : s.kind # "main")
      rate == IF texts = << >> THEN Untold ELSE texts[1].rate
      per == IF texts = << >> THEN <<"none", 0>> ELSE texts[1].per
  IN IF (\E i \in DOMAIN blocks : blocks[i].shown # Untold) \/ (titled /\ rate = Untold)
     THEN NoAnswer
     ELSE Payload(rate, IF per[1] \in {"year", "quarter"} \/ per = <<"months", 1>> THEN FrequencyTold(per) ELSE Untold,
                  IF loose = {} THEN NoOwner
                  ELSE OwnerIf(\E i \in DOMAIN texts : texts[i].kind = "schedule", blocks[First(loose)]),
                  IF loose = {} THEN 0 ELSE blocks[First(loose)].code)

\* parse_detail_html: the first block whose id begins with the one asked for,
\* else the data of the page, else the walk.
DetailAnswer(page, b) ==
  LET hits == {i \in DOMAIN page.blocks : page.blocks[i].told /\ Prefixed(IdNumber[b], page.blocks[i].id)}
      data == {i \in DOMAIN page.data : page.data[i].id = IdNumber[b]}
  IN IF hits # {}
     THEN LET x == page.blocks[First(hits)]
              got == ParsedBlock(x)
          IN Payload(got.coupon, got.freq, OwnerIf(got.schedule, x), x.code)
     ELSE IF data # {}
     THEN LET x == page.data[First(data)] IN Payload(x.coupon, x.freq, NoOwner, x.code)
     ELSE Walked(page, b)

\* parse_listing_html
ListedOn(page) ==
  LET ids == {page.blocks[i].id : i \in {j \in DOMAIN page.blocks : page.blocks[j].told}}
      data == {page.data[i].id : i \in DOMAIN page.data}
  IN {b \in Issued : IdNumber[b] \in (IF ids # {} THEN ids ELSE IF data # {} THEN data ELSE page.links)}

-----------------------------------------------------------------------------
(* The workbooks.                                                          *)

\* Of the columns with one number the last, of the sheets whose name holds
\* the number the first.
ColumnNumbered(book, k) ==
  book.columns[Last1({i \in DOMAIN book.columns : book.columns[i].number = k})]

SheetFor(book, k) ==
  LET found == {i \in DOMAIN book.sheets : Within(k, book.sheets[i].number)}
  IN IF found = {} THEN [of |-> NoOwner, periods |-> << >>] ELSE book.sheets[First(found)]

OpSheetFor(book, k) ==
  LET found == {i \in DOMAIN book.opSheets : book.opSheets[i].number = k}
  IN IF found = {} THEN [of |-> NoOwner, periods |-> << >>] ELSE book.opSheets[First(found)]

\* _periods_to_frequency: the day a year after the first counts, too.
FrequencyFrom(periods) ==
  LET starts == {periods[i].start : i \in DOMAIN periods}
      n == Cardinality({s \in starts : s < First(starts) + 366})
  IN IF n > 12 THEN 12 ELSE n

\* _current_period_coupon_rate
CurrentRate(periods) ==
  LET running == {i \in DOMAIN periods : BookToday \in periods[i].start .. periods[i].start + periods[i].days}
      paying == {i \in DOMAIN periods : periods[i].amount > 0}
      current == IF running # {} THEN running ELSE paying
      p == periods[First(current)]
      rate == (p.amount * 36500) \div (Face * p.days)
  IN IF current # {} /\ p.amount > 0 /\ rate \in 1 .. 100 THEN rate ELSE Untold

Scheduled(row, sheet) ==
  IF sheet.periods = << >> THEN row
  ELSE [row EXCEPT !.schedule = IF @ = NoOwner THEN sheet.of ELSE @,
                   !.freq = IF Missing(@) THEN FrequencyFrom(sheet.periods) ELSE @]

\* By the issue number, of whichever issuer.
ByNumber(row, book) ==
  IF \A i \in DOMAIN book.columns : book.columns[i].number # row.number \/ row.number = 0 THEN row
  ELSE [Scheduled(row, SheetFor(book, row.number)) EXCEPT
          !.coupon = IF Missing(@) THEN Or(ColumnNumbered(book, row.number).coupon, @) ELSE @,
          !.name = [op |-> FALSE, number |-> row.number]]

\* The indexed ones by their name: ids are in Latin letters and never match.
ByName(row, book) ==
  LET found == {i \in DOMAIN book.indexed : row.name = [op |-> TRUE, number |-> book.indexed[i].number]}
      sheet == OpSheetFor(book, row.name.number)
      rate == Or(CurrentRate(sheet.periods), book.indexed[First(found)].coupon)
  IN IF found = {} THEN row
     ELSE [Scheduled(row, sheet) EXCEPT !.coupon = IF Missing(@) /\ rate > 0 THEN rate ELSE @]

Enriched(row, book) == ByName(ByNumber(row, book), book)

Priced(book) == {n \in {p.number : p \in book.prices} : \E i \in DOMAIN book.columns : book.columns[i].number = n}

-----------------------------------------------------------------------------
(* The processes.                                                          *)

NoIssueRow == [kept |-> FALSE, coupon |-> Untold, freq |-> Untold, schedule |-> NoOwner, number |-> 0, name |-> NoName]
NotEnriching == [step |-> "rest"]
NoBookFile == [state |-> "absent", edition |-> 0]

WorkbooksInit ==
  /\ sitePage \in SitePages /\ edition = 1
  /\ bookFile = [p \in Scrapers |-> NoBookFile] /\ issueRow = [b \in Issued |-> NoIssueRow] /\ accrued = {}
  /\ nameMap = [p \in Scrapers |-> FirstNames] /\ listedIds = [p \in Scrapers |-> {}]
  /\ enriching = [p \in Scrapers |-> NotEnriching] /\ met = {} /\ overwritten = {} /\ turns = 0 /\ bookUpsets = 0

Turn == turns < MaxTurns /\ turns' = turns + 1
Upset == bookUpsets < MaxBookUpsets /\ bookUpsets' = bookUpsets + 1

ListPage(p) ==
  /\ Turn /\ listedIds' = [listedIds EXCEPT ![p] = ListedOn(sitePage)]
  /\ UNCHANGED <<sitePage, edition, bookFile, issueRow, accrued, nameMap, enriching, met, overwritten, bookUpsets>>

\* Processes that have read the rows and not written them yet.
Reading == {q \in Scrapers : enriching[q].step = "write"}

\* A frequency that Bond does not know spoils the whole answer.
ScrapeDetail(p, b) ==
  LET got == DetailAnswer(sitePage, b)
      row == issueRow[b]
  IN /\ b \in listedIds[p] /\ Turn
     /\ got.valid /\ got.freq \in {Untold, 1, 2, 4, 12}
     /\ issueRow' = [issueRow EXCEPT ![b] =
          [kept |-> TRUE, coupon |-> Or(got.coupon, row.coupon), freq |-> Or(got.freq, row.freq),
           schedule |-> IF got.schedule = NoOwner THEN row.schedule ELSE got.schedule,
           number |-> IF got.number = 0 THEN row.number ELSE got.number,
           name |-> IF nameMap[p][b] # NoName THEN nameMap[p][b] ELSE [op |-> FALSE, number |-> got.number]]]
     /\ met' = met \cup (IF Reading # {} THEN {b} ELSE {})
     /\ UNCHANGED <<sitePage, edition, bookFile, accrued, nameMap, listedIds, enriching, overwritten, bookUpsets>>

\* What has been downloaded once is never downloaded again; what was cut
\* short cannot be read, now or ever after, and nothing is enriched.
OpenWorkbook(p) ==
  /\ enriching[p].step = "rest" /\ Turn
  /\ \/ bookFile[p].state = "absent" /\ bookFile' = [bookFile EXCEPT ![p] = [state |-> "whole", edition |-> edition]]
     \/ bookFile[p].state = "whole" /\ UNCHANGED bookFile
  /\ enriching' = [enriching EXCEPT ![p] = [step |-> "read", book |-> bookFile'[p].edition]]
  /\ UNCHANGED <<sitePage, edition, issueRow, accrued, nameMap, listedIds, met, overwritten, bookUpsets>>

DownloadBreaks(p) ==
  /\ enriching[p].step = "rest" /\ bookFile[p].state = "absent" /\ Upset
  /\ bookFile' = [bookFile EXCEPT ![p] = [state |-> "cut", edition |-> edition]]
  /\ UNCHANGED <<sitePage, edition, issueRow, accrued, nameMap, listedIds, enriching, met, overwritten, turns>>

ReadIssues(p) ==
  /\ enriching[p].step = "read"
  /\ enriching' = [enriching EXCEPT ![p] = [step |-> "write", book |-> @.book, rows |-> issueRow]]
  /\ UNCHANGED <<sitePage, edition, bookFile, issueRow, accrued, nameMap, listedIds, met, overwritten, turns, bookUpsets>>

\* Only what differs from the rows that were read is written.
WriteEnriched(p) ==
  LET old == enriching[p].rows
      book == Workbook[enriching[p].book]
      new == [b \in Issued |-> IF old[b].kept THEN Enriched(old[b], book) ELSE old[b]]
      numbers == {n \in Priced(book) : \E b \in Issued : old[b].number = n}
  IN /\ enriching[p].step = "write"
     /\ issueRow' = [b \in Issued |-> [f \in DOMAIN NoIssueRow |->
          IF new[b][f] # old[b][f] THEN new[b][f] ELSE issueRow[b][f]]]
     /\ nameMap' = [nameMap EXCEPT ![p] = [b \in Issued |-> IF new[b].name # old[b].name THEN new[b].name ELSE @[b]]]
     /\ \E row \in [numbers -> Issued] :
          /\ \A n \in numbers : old[row[n]].number = n
          /\ accrued' = accrued \cup {<<row[x.number], x.of>> : x \in {y \in book.prices : y.number \in numbers}}
     /\ overwritten' = overwritten \cup
          {b \in Issued : new[b].coupon # old[b].coupon /\ ~Missing(issueRow[b].coupon)}
     /\ enriching' = [enriching EXCEPT ![p] = NotEnriching]
     /\ met' = met \cup (IF Reading \ {p} # {} THEN {b \in Issued : new[b] # old[b]} ELSE {})
     /\ UNCHANGED <<sitePage, edition, bookFile, listedIds, turns, bookUpsets>>

SiteRepublishes ==
  /\ Upset
  /\ \/ sitePage' \in SitePages \ {sitePage} /\ UNCHANGED edition
     \/ edition < Len(Workbook) /\ edition' = edition + 1 /\ UNCHANGED sitePage
  /\ UNCHANGED <<bookFile, issueRow, accrued, nameMap, listedIds, enriching, met, overwritten, turns>>

\* A new container has no files; a restarted process still has them.
ScraperRestarts(p) ==
  /\ Upset
  /\ bookFile' \in {bookFile, [bookFile EXCEPT ![p] = NoBookFile]}
  /\ nameMap' = [nameMap EXCEPT ![p] = FirstNames] /\ listedIds' = [listedIds EXCEPT ![p] = {}]
  /\ enriching' = [enriching EXCEPT ![p] = NotEnriching]
  /\ UNCHANGED <<sitePage, edition, issueRow, accrued, met, overwritten, turns>>

WorkbooksNext ==
  \/ \E p \in Scrapers :
       \/ ListPage(p) \/ OpenWorkbook(p) \/ DownloadBreaks(p) \/ ReadIssues(p) \/ WriteEnriched(p)
       \/ ScraperRestarts(p)
       \/ \E b \in Issued : ScrapeDetail(p, b)
  \/ SiteRepublishes

-----------------------------------------------------------------------------
(* Properties.                                                             *)

Blocks == UNION {{page.blocks[i] : i \in DOMAIN page.blocks} : page \in SitePages}
Data == UNION {{page.data[i] : i \in DOMAIN page.data} : page \in SitePages}
Books == {Workbook[e] : e \in DOMAIN Workbook}
Codes(b) == {x.code : x \in {y \in Blocks \cup Data : y.of = b}} \ {0}

\* Nothing else on any page or in any workbook can be taken for the bond's.
Unmistakable ==
  {b \in Issued :
     /\ \A x \in Blocks : x.of # b => ~Prefixed(IdNumber[b], x.id) /\ ~Loose(b, x)
     /\ \A x \in Data : x.of # b => x.id # IdNumber[b]
     /\ \A book \in Books, k \in Codes(b) :
          /\ \A i \in DOMAIN book.columns : book.columns[i].of # b => book.columns[i].number # k
          /\ \A i \in DOMAIN book.sheets : book.sheets[i].of # b => ~Within(k, book.sheets[i].number)
          /\ \A x \in book.prices : x.of # b => x.number # k
     /\ FirstNames[b] # NoName => FirstNames[b].number = IdNumber[b]
     /\ \A book \in Books : \A i \in DOMAIN book.opSheets :
          book.opSheets[i].of # b => book.opSheets[i].number # IdNumber[b]}

OwnCoupons ==
  [b \in Issued |->
     UNION {{x.shown} \cup {x.sections[i].rate : i \in DOMAIN x.sections} : x \in {y \in Blocks : y.of = b}}
     \cup {x.coupon : x \in {y \in Data : y.of = b}}
     \cup UNION {{book.columns[i].coupon : i \in {j \in DOMAIN book.columns : book.columns[j].of = b}}
                 \cup {book.indexed[i].coupon : i \in {j \in DOMAIN book.indexed : book.indexed[j].of = b}}
                 \cup {CurrentRate(book.opSheets[i].periods) :
                         i \in {j \in DOMAIN book.opSheets : book.opSheets[j].of = b}} : book \in Books}]

\* The coupon, the schedule and the accruals of a bond that cannot be mistaken
\* are its own, of whatever edition and by whichever way they came.
FiguresOwn(b) ==
  b \in Unmistakable =>
    /\ issueRow[b].coupon \in {Untold} \cup OwnCoupons[b] /\ issueRow[b].schedule \in {NoOwner, b}
    /\ \A a \in accrued : a[1] = b => a[2] = b

\* Its frequency is the true one, or one more, when it is counted in the
\* workbook; twelve a year in figures is read as two.
FrequencyNear(b) ==
  (b \in Unmistakable /\ \A x \in Blocks : \A i \in DOMAIN x.sections : x.sections[i].per # <<"year", 12>>)
    => issueRow[b].freq \in {Untold, Yearly[b], Yearly[b] + 1}

\* An enrichment replaces a coupon only when it was stored after the rows had
\* been read.
FilledOnlyMissing == overwritten \subseteq met

WorkbooksSound == FilledOnlyMissing /\ \A b \in Issued : FiguresOwn(b) /\ FrequencyNear(b)

=============================================================================

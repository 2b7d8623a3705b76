-------------------------- MODULE TrainingSamples --------------------------
(***************************************************************************)
(* What the models learn from: the samples that ml/features.py cuts from   *)
(* the history of the bonds, how ml/engine.py splits them, and how labels  *)
(* and forecasts become decisions.  Days are whole units; a history is the *)
(* sequence of its rows, oldest first, of which some have no yield.        *)
(***************************************************************************)
EXTENDS Integers, Sequences, FiniteSets, SequencesExt, FiniteSetsExt, Functions

CONSTANTS
  Horizon, Tolerance, CursorStep, MinSpan,  \* build_training_samples
  AvgTolerance,                             \* avg_asof(tol)
  Histories,      \* the pairs of histories to cut
  Moves           \* yield moves, in quarters of a point

ASSUME SamplesAssumption ==
  /\ {Horizon, CursorStep, MinSpan} \subseteq Nat \ {0} /\ {Tolerance, AvgTolerance} \subseteq Nat
  /\ 2 * Tolerance < Horizon

VARIABLE lesson   \* the histories of two bonds of a currency, and the samples cut from them

NoYieldYet == -1
Gap(row, day) == IF row.day > day THEN row.day - day ELSE day - row.day

\* _nearest_future_row: of two rows as near, the first is kept, which is the
\* older one.
Near(hist, day, tolerance) == {i \in DOMAIN hist : Gap(hist[i], day) <= tolerance}
NearestRow(hist, day) ==
  CHOOSE i \in Near(hist, day, Tolerance) :
    \A j \in Near(hist, day, Tolerance) :
      Gap(hist[i], day) < Gap(hist[j], day) \/ (Gap(hist[i], day) = Gap(hist[j], day) /\ i <= j)

\* avg_asof: of each bond the nearest yield around the day; of two as near the
\* older.  The answer is what the mean is taken of.
PeerYields(hists, day) ==
  LET Priced(h) == SelectSeq(h, LAMBDA r : r.ytm # NoYieldYet)
      Around(h) == Near(h, day, AvgTolerance)
      Peer(h) == CHOOSE i \in Around(h) : \A j \in Around(h) :
                   Gap(h[i], day) < Gap(h[j], day) \/ (Gap(h[i], day) = Gap(h[j], day) /\ i <= j)
  IN {[of |-> b, row |-> Priced(hists[b])[Peer(Priced(hists[b]))]] :
        b \in {c \in DOMAIN hists : Around(Priced(hists[c])) # {}}}

\* The days on which a bond is looked at.
Cursors(hist) ==
  IF Len(hist) < 2 \/ Last(hist).day - Head(hist).day < MinSpan THEN << >>
  ELSE LET last == Last(hist).day - Horizon
       IN [k \in 1 .. Max({0, (last - Head(hist).day) \div CursorStep}) |-> Head(hist).day + k * CursorStep]

SampleAt(hists, b, d) ==
  LET h == hists[b]
      Found(day) == Near(h, day, Tolerance) # {} /\ h[NearestRow(h, day)].ytm # NoYieldYet
  IN IF Found(d) /\ Found(d + Horizon)
     THEN <<[bond |-> b, asof |-> d, seen |-> h[NearestRow(h, d)],
            future |-> h[NearestRow(h, d + Horizon)], peers |-> PeerYields(hists, d)]>>
     ELSE << >>

\* build_training_samples: bond by bond, cursor by cursor.
SamplesOf(hists) ==
  FlattenSeq([b \in DOMAIN hists |->
    FlattenSeq([k \in DOMAIN Cursors(hists[b]) |-> SampleAt(hists, b, Cursors(hists[b])[k])])])

-----------------------------------------------------------------------------
(* The split for validation.                                               *)

\* sorted is stable: samples of one day stay in the order of their bonds.
ByDay(samples) ==
  [k \in DOMAIN samples |->
     samples[CHOOSE i \in DOMAIN samples :
       k = 1 + Cardinality({j \in DOMAIN samples :
             samples[j].asof < samples[i].asof \/ (samples[j].asof = samples[i].asof /\ j < i)})]]

CutAt(s, cut) == [train |-> SubSeq(s, 1, cut), test |-> SubSeq(s, cut + 1, Len(s))]

\* _time_split(test_fraction = 1/4)
TimeSplit(samples) ==
  LET n == Len(samples) IN CutAt(ByDay(samples), Max({1, Min({(3 * n) \div 4, n - 1})}))

\* _rolling_windows
Windows(samples, folds) ==
  LET n == Len(samples)
      step == n \div folds
      Cuts == {i \in 1 .. folds - 1 : n - i * step >= step \div 2}
  IN IF n < 2 * folds THEN {TimeSplit(samples)}
     ELSE {CutAt(ByDay(samples), i * step) : i \in Cuts}

-----------------------------------------------------------------------------
(* Moves of the yield, in quarters of a point.                             *)

\* _outcome_label, with the names of _DECISION_FROM_CLASS.
Outcome(move) == IF move <= -1 THEN "buy" ELSE IF move >= 2 THEN "avoid" ELSE "hold"

NoForecast == 1000

\* _decide
Decision(score, move) ==
  CASE score < 40 -> "avoid"
    [] score >= 40 /\ move # NoForecast /\ move <= -1 -> "buy"
    [] score >= 40 /\ move # NoForecast /\ move >= 2 -> "wait"
    [] OTHER -> IF score >= 75 THEN "buy" ELSE "hold"

\* predict_one: the classifier's word replaces the regressor's, and the row is
\* of the kind of whatever was used.
Predicted(score, ytm, regressor, classifier) ==
  [kind |-> IF regressor # NoForecast /\ classifier # "none" THEN "combined"
            ELSE IF classifier # "none" THEN "buy_classifier" ELSE "ytm_regression",
   decision |-> IF classifier # "none" THEN classifier
                ELSE Decision(score, IF regressor = NoForecast THEN NoForecast ELSE regressor - ytm)]

LessonInit == lesson \in [histories : Histories, samples : {<< >>}, cut : {FALSE}]

LessonNext ==
  /\ ~ lesson.cut
  /\ lesson' = [lesson EXCEPT !.cut = TRUE, !.samples = SamplesOf(lesson.histories)]

LessonSpec == LessonInit /\ [][LessonNext]_lesson

-----------------------------------------------------------------------------
\* The answer to a sample is observed after everything its features show, the
\* peers' yields among them where the tolerances allow, and after the day it
\* is filed under.
AnswersAreLater ==
  \A s \in Range(lesson.samples) :
    /\ s.future.day > s.asof /\ s.future.day > s.seen.day
    /\ \A p \in s.peers : AvgTolerance + Tolerance < Horizon => s.future.day > p.row.day

\* No row but the nearest is taken: each is within its tolerance, and no row
\* with or without a yield is nearer.
NearestTaken ==
  \A s \in Range(lesson.samples) :
    LET h == lesson.histories[s.bond] IN
    /\ \A r \in Range(h) : Gap(s.seen, s.asof) <= Gap(r, s.asof)
    /\ \A r \in Range(h) : Gap(s.future, s.asof + Horizon) <= Gap(r, s.asof + Horizon)

\* Validation is out of time: in every split both parts are there, together
\* they are the samples, and no sample to learn from is newer than one to be
\* tested on; the windows of the cross validation only grow.
SplitsInTime ==
  LET samples == lesson.samples
      splits == {TimeSplit(samples)} \cup Windows(samples, 2) \cup Windows(samples, 3)
  IN Len(samples) >= 2 =>
       /\ \A s \in splits :
            /\ s.train # << >> /\ s.test # << >>
            /\ Len(s.train) + Len(s.test) = Len(samples)
            /\ Range(s.train) \cup Range(s.test) = Range(samples)
            /\ \A a \in Range(s.train), b \in Range(s.test) : a.asof <= b.asof
       /\ \A s, t \in splits : IsPrefix(s.train, t.train) \/ IsPrefix(t.train, s.train)

\* "the regressor-only and classifier paths agree": for a bond whose score
\* alone decides nothing, a regressor that forecasts what happens and a
\* classifier that says how it is labelled decide alike, "wait" standing for
\* "avoid"; and rows of the two paths and of both are told apart.
PathsAgree ==
  \A move \in Moves, score \in {40, 74} :
    LET alone == Predicted(score, 5, 5 + move, "none")
        labelled == Predicted(score, 5, NoForecast, Outcome(move))
        both == Predicted(score, 5, 5 + move, Outcome(move))
    IN /\ labelled.decision = IF alone.decision = "wait" THEN "avoid" ELSE alone.decision
       /\ both.decision = labelled.decision
       /\ Cardinality({alone.kind, labelled.kind, both.kind}) = 3

SamplesSound == AnswersAreLater /\ NearestTaken /\ SplitsInTime /\ PathsAgree
=============================================================================

---------------------------- MODULE OutcomeScore ----------------------------
(***************************************************************************)
(* The report card of a matured signal (internal/outcome/outcome.go,       *)
(* ScoreOutcome): how the buckets after the signal compare with the median  *)
(* of those before it.  A score is a fraction num / den with den > 0; the   *)
(* code computes in floats, which agree up to rounding.                     *)
(***************************************************************************)
EXTENDS Integers, Sequences, FiniteSets, FlowScoring

CONSTANT minPreBuckets

ASSUME OutcomeScoreAssumption == minPreBuckets \in Nat \ {0}

(* The metric a signal is graded by: sizes, never the signed flow. *)
measuredMetric(metric) ==
    CASE metric \in {"netflow0", "whale_swap"} -> "vol0"
      [] metric = "netflow1" -> "vol1"
      [] OTHER -> metric

isNetflow(metric) == metric \in {"netflow0", "netflow1"}

Score(num, den) == [num |-> num, den |-> den]

clamp(s) == IF s.num < 0 THEN Score(0, 1)
            ELSE IF s.num > 100 * s.den THEN Score(100, 1) ELSE s

Total(xs) == FoldLeft(+, 0, xs)

ProductOf(subs) ==
    MapThenFoldSet(LAMBDA x, y : x * y, 1, LAMBDA s : s.score.den, LAMBDA S : CHOOSE s \in S : TRUE, subs)

(* Mean, peak and persistence of the values after, against twice the median *)
(* of those before: 100 is earned by twice the baseline on average, three    *)
(* times at the peak, and never below it.                                    *)
ftSub(post, median2)  == clamp(Score(100 * (2 * Total(post) - Len(post) * median2), Len(post) * median2))
escSub(post, median2) == clamp(Score(100 * (2 * Ranked(post, Len(post)) - median2), 2 * median2))
perSub(post, median2) ==
    Score(100 * Cardinality({i \in DOMAIN post : 2 * post[i] >= median2}), Len(post))

(* The flow after the signal against the flow that raised it, in sign too. *)
dcSub(nets, latest) ==
    IF latest > 0 THEN clamp(Score(100 * Total(nets), Len(nets) * latest))
                  ELSE clamp(Score(-100 * Total(nets), -(Len(nets) * latest)))

(* The weighted mean of the sub-scores that there are, rounded.  A          *)
(* sub-score of the set subs has a weight and a score; common is a           *)
(* denominator of all of them.                                              *)
WeightedMean(subs, weights) ==
    LET common == ProductOf(subs)
        sum == MapThenSumSet(LAMBDA s : s.weight * s.score.num * (common \div s.score.den), subs) IN
    (2 * sum + weights * common) \div (2 * weights * common)

\* Fault: without a direction the other three weights are left as they are.
compositeGradeOfFour(subs) == WeightedMean(subs, 100)

compositeGrade(subs) == WeightedMean(subs, MapThenSumSet(LAMBDA s : s.weight, subs))

letterFor(grade) == CASE grade >= 85 -> "A"
                      [] grade >= 70 /\ grade < 85 -> "B"
                      [] grade >= 55 /\ grade < 70 -> "C"
                      [] grade >= 40 /\ grade < 55 -> "D"
                      [] grade < 40 -> "F"

Status(grade) == IF grade >= 55 THEN "confirmed" ELSE "transient"

(* There is enough to grade: a baseline that is deep enough and not zero,   *)
(* and something after it.                                                  *)
Gradeable(pre, post) == Len(pre) >= minPreBuckets /\ Len(post) > 0 /\ Median2(pre) > 0

(* The grade from the values themselves; the direction counts when the flow *)
(* that raised the signal is known, which it is when it is not 0.           *)
Grade(pre, post, nets, latest) ==
    LET median2 == Median2(pre) IN
    compositeGrade({[weight |-> 40, facet |-> "ft", score |-> ftSub(post, median2)],
                    [weight |-> 30, facet |-> "per", score |-> perSub(post, median2)],
                    [weight |-> 20, facet |-> "esc", score |-> escSub(post, median2)]}
                   \union IF latest = 0 THEN {}
                          ELSE {[weight |-> 10, facet |-> "dc", score |-> dcSub(nets, latest)]})

ScoreOutcome(metric, latest, pre, post) ==
    LET mm == measuredMetric(metric)
        grade == Grade(Sample(pre, mm), Sample(post, mm),
                       IF isNetflow(metric) THEN Sample(post, metric) ELSE <<>>,
                       IF isNetflow(metric) THEN latest ELSE 0) IN
    [grade |-> grade, letter |-> letterFor(grade), status |-> Status(grade)]
=============================================================================

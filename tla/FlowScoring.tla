---------------------------- MODULE FlowScoring ----------------------------
(***************************************************************************)
(* The robust statistics of the flow detector and what it decides with     *)
(* them (internal/detect/zscore.go, detector.go): median and median        *)
(* absolute deviation, the modified z-score, the score of a bucket against  *)
(* its baseline, the newest bucket as the live loop judges it, and the      *)
(* buckets that Replay picks from a pool's history.  Halves are avoided by  *)
(* carrying twice the median and four times the deviation; scores are       *)
(* exact fractions where the code has floats.                               *)
(***************************************************************************)
EXTENDS Integers, Sequences, FiniteSets, SequencesExt

CONSTANTS BaselineBuckets, Warmup, CooldownSlots, ZThreshold, swapCountFloor

ASSUME ScoringAssumption ==
    /\ {BaselineBuckets, Warmup, ZThreshold} \subseteq Nat \ {0}
    /\ {CooldownSlots, swapCountFloor} \subseteq Nat

(* The k-th smallest of the values xs. *)
Ranked(xs, k) ==
    CHOOSE v \in {xs[i] : i \in DOMAIN xs} :
        /\ Cardinality({i \in DOMAIN xs : xs[i] < v}) < k
        /\ k <= Cardinality({i \in DOMAIN xs : xs[i] <= v})

(* Twice the median. *)
Median2(xs) ==
    LET n == Len(xs) IN
    IF n % 2 = 1 THEN 2 * Ranked(xs, (n + 1) \div 2)
                 ELSE Ranked(xs, n \div 2) + Ranked(xs, n \div 2 + 1)

(* Twice the distance of v from a median given twice, and four times the    *)
(* median of those distances.                                               *)
Distance2(v, median2) == IF 2 * v < median2 THEN median2 - 2 * v ELSE 2 * v - median2

MAD4(xs) == Median2([i \in DOMAIN xs |-> Distance2(xs[i], Median2(xs))])

metricNames == <<"swap_count", "vol0", "vol1", "netflow0", "netflow1">>

Sample(baseline, metric) == [i \in DOMAIN baseline |-> baseline[i][metric]]

(* The modified z-score of a value is 0.6745 (v - median) / MAD, here as    *)
(* the fraction num / den, and 0 for a baseline without spread.             *)
ModifiedZ(v, xs) ==
    IF MAD4(xs) > 0
    THEN [num |-> 13490 * (2 * v - Median2(xs)), den |-> 10000 * MAD4(xs)]
    ELSE [num |-> 0, den |-> 1]

Size(z) == IF z.num < 0 THEN -z.num ELSE z.num

absFloorOK(metric, latest, median2) ==
    IF metric = "swap_count" THEN latest >= swapCountFloor ELSE median2 > 0 /\ latest > 0

(* The metrics on which a bucket is an outlier of its baseline. *)
Outlying(latest, baseline) ==
    {m \in {metricNames[i] : i \in DOMAIN metricNames} :
        LET xs == Sample(baseline, m)
            z  == ModifiedZ(latest[m], xs) IN
        /\ Len(xs) > 0
        /\ Size(z) >= ZThreshold * z.den
        /\ absFloorOK(m, latest[m], Median2(xs))}

scoreBucket(latest, baseline) == Outlying(latest, baseline) # {}

(* The newest bucket and its baseline, as ScanOnce reads them: it wants     *)
(* Warmup buckets with the candidate among them.                            *)
Newest(history) ==
    SubSeq(history, IF Len(history) > BaselineBuckets THEN Len(history) - BaselineBuckets ELSE 1,
           Len(history))

Live(history) ==
    LET recent == Newest(history) IN
    IF Len(recent) >= Warmup THEN Outlying(Last(recent), Front(recent)) ELSE {}

(* The buckets before the i-th, as Replay reads them. *)
Baseline(history, i) ==
    SubSeq(history, IF i - 1 > BaselineBuckets THEN i - BaselineBuckets ELSE 1, i - 1)

(* In cooldown since a bucket that fired; times are bucket times. *)
Cooling(history, fired, i) ==
    \E f \in fired : \A g \in fired : f >= g /\ history[i].ts - history[f].ts < CooldownSlots

(* Enough buckets before the i-th: in the history, and in what is read of   *)
(* it, which a short baseline window keeps below the warmup for good.       *)
Warm(history, i) == i > Warmup /\ Len(Baseline(history, i)) >= Warmup

Fires(history, fired, i) ==
    /\ Warm(history, i)
    /\ scoreBucket(history[i], Baseline(history, i))
    /\ ~Cooling(history, fired, i)

\* Fault: the baseline ends with the candidate itself.
selectReplayWithCandidate(history) ==
    FoldLeft(LAMBDA fired, i :
                 IF /\ Warm(history, i)
                    /\ scoreBucket(history[i], Append(Baseline(history, i), history[i]))
                    /\ ~Cooling(history, fired, i)
                 THEN fired \union {i} ELSE fired,
             {}, [i \in DOMAIN history |-> i])

(* The buckets of a history that Replay picks: outliers of the buckets      *)
(* before them, from the first with Warmup buckets before it, and none      *)
(* within the cooldown of the last picked.                                  *)
selectReplay(history) ==
    FoldLeft(LAMBDA fired, i : IF Fires(history, fired, i) THEN fired \union {i} ELSE fired,
             {}, [i \in DOMAIN history |-> i])
=============================================================================

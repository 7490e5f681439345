---------------------------- MODULE FlowHistory ----------------------------
(***************************************************************************)
(* A pool's life as the numbers see it: swaps come in, the aggregator       *)
(* buckets them, the flow detector judges the newest bucket while it is     *)
(* still filling, Replay judges the history, and a signal is graded by the   *)
(* buckets around it.  A step is a swap, in the newest window or in a later  *)
(* one; buckets, signals and cards are functions of the swaps so far.        *)
(***************************************************************************)
EXTENDS Integers, Sequences, SwapDecoding, FlowScoring, OutcomeScore

CONSTANTS
    Trades,         \* swaps: records of what went in and what came out, <<token 0, token 1>>
    Gaps,           \* how many slots later the next window with a swap may start
    Horizon,        \* slots before and after a signal that its card looks at
    MaxSwaps,       \* swaps in all
    MaxInWindow     \* swaps in one window

(* An amount fits half a word, and a token goes one way in a swap: a pool   *)
(* that reports signed amounts reports no more than the difference.         *)
Amount == 0..(Half - 1)

ASSUME TradesAssumption ==
    /\ Trades \subseteq [kind : {"swap"}, in : Amount \X Amount, out : Amount \X Amount]
    /\ \A swap \in Trades, t \in 1..2 : swap.in[t] = 0 \/ swap.out[t] = 0
    /\ Gaps \subseteq Nat

VARIABLES
    topic,          \* the Swap event of the pool
    windows         \* the windows with swaps: when, and the swaps in order

flowVars == <<topic, windows>>

(* A swap that is in the log with too few words, and a log of another event. *)
Cut == [kind |-> "cut", in |-> <<0, 0>>, out |-> <<0, 0>>]
Sync == [kind |-> "sync", in |-> <<0, 0>>, out |-> <<0, 0>>]

(* A negative number as a word. *)
Signed(x) == IF x < 0 THEN x + Word ELSE x
Packed(pair) == pair[2] * Half + pair[1]

(* The words in which a pool of each type reports a swap. *)
Words(swap) ==
    CASE topic = "v2" -> <<swap.in[1], swap.in[2], swap.out[1], swap.out[2]>>
      [] topic \in {"v3", "agni"} -> <<Signed(swap.in[1] - swap.out[1]), Signed(swap.in[2] - swap.out[2])>>
      [] topic = "lb" -> <<0, Packed(swap.in), Packed(swap.out)>>

Log(swap) == CASE swap.kind = "swap" -> [topic |-> topic, words |-> Words(swap)]
               [] swap.kind = "cut" -> [topic |-> topic, words |-> <<0>>]
               [] swap.kind = "sync" -> [topic |-> "sync", words |-> <<0, 0>>]

RawLogs(swaps) == [i \in DOMAIN swaps |-> Log(swaps[i])]

(* The rows of the bucket table; a window without a Swap event has none. *)
BucketAt(window) ==
    LET b == bucketize(RawLogs(window.swaps)) IN
    [ts |-> window.ts, swap_count |-> b.swap_count, vol0 |-> b.vol0, vol1 |-> b.vol1,
     netflow0 |-> b.netflow0, netflow1 |-> b.netflow1]

History(ws) ==
    FoldLeft(LAMBDA rows, w : IF BucketAt(w).swap_count > 0 THEN Append(rows, BucketAt(w)) ELSE rows,
             <<>>, ws)

Seen == FoldLeft(LAMBDA n, w : n + Len(w.swaps), 0, windows)

FlowInit == topic \in SwapTopics /\ windows = <<>>

(* A log in the newest window. *)
Fill ==
    /\ windows # <<>> /\ Seen < MaxSwaps /\ Len(Last(windows).swaps) < MaxInWindow
    /\ \E swap \in Trades \union {Cut, Sync} :
        windows' = [windows EXCEPT ![Len(windows)].swaps = Append(@, swap)]
    /\ UNCHANGED topic

(* A log in a window of its own, some time after the last one. *)
Open ==
    /\ Seen < MaxSwaps
    /\ \E swap \in Trades \union {Cut, Sync}, gap \in Gaps :
        windows' = Append(windows, [ts |-> (IF windows = <<>> THEN 0 ELSE Last(windows).ts) + gap,
                                    swaps |-> <<swap>>])
    /\ UNCHANGED topic

FlowNext == Fill \/ Open

FlowSpec == FlowInit /\ [][FlowNext]_flowVars

(***************************************************************************)
(* Properties.                                                             *)
(***************************************************************************)
(* Whatever the type of the pool, a bucket says what its traders paid and   *)
(* got: the swaps are all counted, the net flow is what came out less what   *)
(* went in, the volume is both together (aggregate.go, DecodeSwap and        *)
(* bucketize).                                                              *)
SumOf(swaps, f(_)) == Total([i \in DOMAIN swaps |-> f(swaps[i])])

BucketsHonest ==
    \A i \in DOMAIN windows :
        LET swaps == windows[i].swaps
            b == BucketAt(windows[i]) IN
        /\ b.swap_count = Cardinality({j \in DOMAIN swaps : swaps[j].kind # "sync"})
        /\ b.netflow0 = SumOf(swaps, LAMBDA s : s.out[1] - s.in[1])
        /\ b.netflow1 = SumOf(swaps, LAMBDA s : s.out[2] - s.in[2])
        /\ b.vol0 = SumOf(swaps, LAMBDA s : s.out[1] + s.in[1])
        /\ b.vol1 = SumOf(swaps, LAMBDA s : s.out[2] + s.in[2])

(* An alarm that the live loop raises on a count or a volume that is above   *)
(* the baseline while the bucket is still filling is no false start: when    *)
(* the bucket is complete, Replay picks it too, or the pool was in cooldown  *)
(* since a bucket that Replay picked (detector.go, ScanOnce and Replay).     *)
(* The one difference is the first bucket that is judged at all: ScanOnce    *)
(* counts the candidate among the Warmup buckets, Replay does not.           *)
Growing == {"swap_count", "vol0", "vol1"}

Partial(k) == [windows EXCEPT ![Len(windows)].swaps = SubSeq(@, 1, k)]

Upward(history) ==
    \E m \in Live(history) \intersect Growing :
        Last(history)[m] * 2 > Median2(Sample(Front(Newest(history)), m))

ReplayAgrees ==
    windows # <<>> =>
        LET full == History(windows)
            fired == selectReplay(full) IN
        \A k \in 1..Len(Last(windows).swaps) :
            LET early == History(Partial(k)) IN
            (Len(early) = Len(full) /\ Len(early) > Warmup /\ Upward(early)) =>
                Len(full) \in fired \/ Cooling(full, fired \ {Len(full)}, Len(full))

(* A grade says how a signal held up.  A confirmed signal saw a bucket above  *)
(* its baseline; three times the baseline throughout earns the full hundred,  *)
(* whether or not the signal has a direction that counts.  More activity in a  *)
(* window that has some already never makes the grade worse.  Nor does a      *)
(* further window with as much as the busiest and the baseline, where no      *)
(* direction counts; one with less pulls the mean down, and may (outcome.go,   *)
(* ScoreOutcome).                                                            *)
Between(history, from, to) ==
    FoldLeft(LAMBDA bs, b : IF b.ts > from /\ b.ts < to THEN Append(bs, b) ELSE bs, <<>>, history)

Raised(bs, i, metric) == [bs EXCEPT ![i][metric] = @ + 1]

Busiest(bs, i, metric) == \A j \in DOMAIN bs : bs[j][metric] <= bs[i][metric]

GradeHonest ==
    LET history == History(windows) IN
    \A i \in DOMAIN history, metric \in {"swap_count", "vol0", "netflow0", "netflow1", "whale_swap"} :
        LET T == history[i].ts
            mm == measuredMetric(metric)
            latest == IF metric = "whale_swap" THEN 0 ELSE history[i][metric]
            pre == Between(history, T - Horizon, T)
            post == Between(history, T, T + Horizon + 1)
            card == ScoreOutcome(metric, latest, pre, post) IN
        Gradeable(Sample(pre, mm), post) =>
            LET median2 == Median2(Sample(pre, mm)) IN
            /\ card.grade \in 0..100
            /\ card.status = "confirmed" => \E j \in DOMAIN post : 2 * post[j][mm] > median2
            /\ \A j \in DOMAIN post :
                    card.grade <= ScoreOutcome(metric, latest, pre, Raised(post, j, mm)).grade
            /\ \A j \in DOMAIN post :
                    Busiest(post, j, mm) /\ 2 * post[j][mm] >= median2
                    /\ (isNetflow(metric) => latest = 0) =>
                        card.grade <= ScoreOutcome(metric, latest, pre, Append(post, post[j])).grade
            /\ (\A j \in DOMAIN post : 2 * post[j][mm] >= 3 * median2) =>
                    \/ card.grade = 100
                    \/ isNetflow(metric) /\ latest # 0 /\ card.grade >= 90
=============================================================================

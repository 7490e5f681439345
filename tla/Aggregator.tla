----------------------------- MODULE Aggregator -----------------------------
(***************************************************************************)
(* Aggregation (internal/aggregate/aggregate.go): the rows of raw_logs are *)
(* rolled up into buckets of fixed width, pool by pool, from the pool's    *)
(* last bucket on, and old rows are pruned.                                *)
(*                                                                         *)
(* raw_logs and the clock change around the aggregator; a module that      *)
(* composes it says how. A row is <<block, pool>>, its time the block.     *)
(***************************************************************************)
EXTENDS Integers, FiniteSetsExt

CONSTANTS
    Pools,          \* enabled pools
    Times,          \* the times rows may have
    Width,          \* BucketMin: the width of a bucket
    RowCap,         \* rawLogsSinceCap
    Retention,      \* rawLogsRetention
    Aggregators,    \* aggregators that run the loop (Run)
    MaxFaults       \* bound: statements that fail

\* What the composing module assumes of the constants.
AggregatorAssumption ==
    /\ Times \subseteq Nat
    /\ Width \in Nat \ {0} /\ RowCap \in Nat /\ Retention \in Nat /\ MaxFaults \in Nat

VARIABLES
    raw,        \* the raw_logs table
    deleted,    \* history: rows pruned from raw_logs
    now,        \* the time
    buckets,    \* the buckets table: per pool and bucket the swap count
    agg,        \* per aggregator: its sweep
    cut,        \* history: buckets that lost a row before they were closed
    faults      \* failures so far

aggregatorVars == <<raw, deleted, now, buckets, agg, cut, faults>>

Bucket(time) == time \div Width
BucketIds == {Bucket(t) : t \in Times}
NoBucket == -1
Absent == 0         \* no row; a row has swap_count > 0

NoBuckets == [b \in BucketIds |-> Absent]
AnyPool == CHOOSE p \in Pools : TRUE
Idle == [left |-> {}, pool |-> AnyPool, pending |-> NoBuckets]

AggregatorTypeOK ==
    /\ buckets \in [Pools -> [BucketIds -> Nat]]
    /\ agg \in [Aggregators -> [left : SUBSET Pools, pool : Pools \cup {AnyPool},
                                pending : [BucketIds -> Nat]]]
    /\ cut \in SUBSET (Pools \X BucketIds)

AggregatorInit ==
    /\ buckets = [p \in Pools |-> NoBuckets]
    /\ agg = [a \in Aggregators |-> Idle]
    /\ cut = {}

Present(counts) == {b \in BucketIds : counts[b] # Absent}

\* LastBucketTime
LastBucket(p) == IF Present(buckets[p]) = {} THEN NoBucket ELSE Max(Present(buckets[p]))

\* RawLogsSince: the pool's rows from the start of a bucket on, the oldest up to
\* the cap.
RawLogsSince(p, bucket) ==
    LET since == {l \in raw : l[2] = p /\ Bucket(l[1]) >= bucket}
    IN  {l \in since : Cardinality({m \in since : m[1] < l[1]}) < RowCap}

CountIn(logs, p, b) == Cardinality({l \in logs : l[2] = p /\ Bucket(l[1]) = b})

bucketize(logs, p) == [b \in BucketIds |-> CountIn(logs, p, b)]

-----------------------------------------------------------------------------
(* A sweep. The pools still to do are left, the buckets of the current one *)
(* still to write are pending.                                             *)

Writing(a) == Present(agg[a].pending) # {}

\* RunOnce lists the enabled pools.
StartSweep(a) ==
    /\ agg[a].left = {} /\ ~Writing(a)
    /\ raw # {}
    /\ agg' = [agg EXCEPT ![a].left = Pools]
    /\ UNCHANGED <<raw, deleted, now, buckets, cut, faults>>

\* processPool reads the rows and puts them into buckets.
ReadPool(a, p) ==
    /\ p \in agg[a].left /\ ~Writing(a)
    /\ agg' = [agg EXCEPT ![a] =
          [left |-> @.left \ {p}, pool |-> p,
           pending |-> bucketize(RawLogsSince(p, LastBucket(p)), p)]]
    /\ UNCHANGED <<raw, deleted, now, buckets, cut, faults>>

\* Fault: the newest bucket goes first.
NextBucketNewest(pending) == Max(Present(pending))

\* UpsertBucket replaces the row, oldest bucket first.
UpsertBucket(p, b, count) == buckets' = [buckets EXCEPT ![p][b] = count]
NextBucket(pending) == Min(Present(pending))

WriteBucket(a) ==
    LET b == NextBucket(agg[a].pending) IN
    /\ Writing(a)
    /\ UpsertBucket(agg[a].pool, b, agg[a].pending[b])
    /\ agg' = [agg EXCEPT ![a].pending[b] = Absent]
    /\ UNCHANGED <<raw, deleted, now, cut, faults>>

\* A statement fails: the sweep goes on with the next pool.
PoolFails(a) ==
    /\ Writing(a)
    /\ faults < MaxFaults
    /\ faults' = faults + 1
    /\ agg' = [agg EXCEPT ![a].pending = NoBuckets, ![a].pool = AnyPool]
    /\ UNCHANGED <<raw, deleted, now, buckets, cut>>

\* The process dies and is started again.
AggregatorDies(a) ==
    /\ agg[a] # Idle
    /\ faults < MaxFaults
    /\ faults' = faults + 1
    /\ agg' = [agg EXCEPT ![a] = Idle]
    /\ UNCHANGED <<raw, deleted, now, buckets, cut>>

\* pruneRawLogs, after one sweep in pruneEveryIterations.
PruneRawLogs(a) ==
    LET old == {l \in raw : l[1] < now - Retention} IN
    /\ agg[a].left = {} /\ ~Writing(a)
    /\ old # {}
    /\ raw' = raw \ old
    /\ deleted' = deleted \cup old
    /\ cut' = cut \cup {<<l[2], Bucket(l[1])>> :
                           l \in {m \in old : Bucket(m[1]) >= LastBucket(m[2])}}
    /\ UNCHANGED <<now, buckets, agg, faults>>

Sweep(a) ==
    \/ StartSweep(a)
    \/ \E p \in Pools : ReadPool(a, p)
    \/ WriteBucket(a)

AggregatorStep ==
    \E a \in Aggregators : Sweep(a) \/ PoolFails(a) \/ AggregatorDies(a) \/ PruneRawLogs(a)

=============================================================================

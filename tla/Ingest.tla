------------------------------- MODULE Ingest -------------------------------
(***************************************************************************)
(* Ingestion as the supervisor runs it: the collector writes raw_logs, the *)
(* aggregator reads and prunes them, each in its own goroutine and neither *)
(* waiting for the other; a backfill command may run beside them.          *)
(***************************************************************************)
EXTENDS Collector

CONSTANTS
    Width, RowCap, Retention, Aggregators   \* of Aggregator

VARIABLES
    buckets, agg, cut                       \* of Aggregator

\* Rows are as old as their block, and the newest block is of now.
A == INSTANCE Aggregator WITH Times <- Blocks, now <- head

ASSUME IngestAssumption == A!AggregatorAssumption

aggregatorOnly == <<buckets, agg, cut>>
collectorOnly == <<chain, cursor, worker, origin, jumped>>
vars == <<head, chain, raw, deleted, cursor, worker, origin, jumped, faults, buckets, agg, cut>>

TypeOK == CollectorTypeOK /\ A!AggregatorTypeOK

Init == CollectorInit /\ A!AggregatorInit

Collect == CollectorStep /\ UNCHANGED aggregatorOnly
Aggregate == A!AggregatorStep /\ UNCHANGED collectorOnly

Next == Collect \/ Aggregate

Spec == Init /\ [][Next]_vars

\* The stages run forever and failures are finitely many. The node catches up
\* with the chain: one scan in many sees the newest block.
Fairness ==
    /\ WF_vars(RunOnce(Live) /\ UNCHANGED aggregatorOnly)
    /\ SF_vars(LatestBlock(Live, head) /\ UNCHANGED aggregatorOnly)
    /\ \A a \in Aggregators : WF_vars(A!Sweep(a) /\ UNCHANGED collectorOnly)

FairSpec == Spec /\ Fairness

-----------------------------------------------------------------------------
(* Properties of the two together.                                         *)

Stored == raw \cup deleted
LastBucket(p) == A!LastBucket(p)

\* A bucket the pool has left behind is exact: it counts every row that was ever
\* stored for it, although sweeps fail half way, stop at the row cap and read
\* while the collector writes. Rows pruned before their bucket was closed excepted.
ClosedExact ==
    \A p \in Pools : \A b \in A!BucketIds :
        b < LastBucket(p) /\ <<p, b>> \notin cut => buckets[p][b] = A!CountIn(Stored, p, b)

\* No swap is counted twice, whatever is read again or retried.
NoOvercount ==
    \A p \in Pools : \A b \in A!BucketIds : buckets[p][b] <= A!CountIn(Stored, p, b)

\* A bucket counts the rows of its window, never more and in the end all of them
\* (processPool, bucketize, UpsertBucket).
BucketsRight == ClosedExact /\ NoOvercount

\* In the end every final log from the origin on is stored, and every stored one
\* is in its bucket.
Converges ==
    <>[]( /\ LogsIn(origin, head - Confirmations) \subseteq Stored
          /\ \A p \in Pools : \A b \in A!BucketIds :
                buckets[p][b] = A!CountIn(Stored, p, b) \/ <<p, b>> \in cut)
=============================================================================

---------------------------- MODULE IngestProofs ----------------------------
(***************************************************************************)
(* Proofs about Ingest, for any pools, depths, chunks, backfills and       *)
(* faults: raw_logs says what the final chain says, and a bucket never     *)
(* counts a row twice; where the loops of the supervisor run alone and the *)
(* node does not fall back, a bucket left behind is exact.                 *)
(***************************************************************************)
EXTENDS Ingest, FiniteSetTheorems, WellFoundedInduction, TLAPS

\* A block no reorganisation reaches any more.
Final(b) == b <= head - Confirmations

\* One all of whose logs have been stored.
Held(b) == Final(b) /\ \A p \in chain[b] : <<b, p>> \in Stored

\* What the cursor may stand for.
Covered(b) == b \in jumped \/ Held(b)
CoverInv == \A b \in origin..cursor : Covered(b)

\* No row is of a block that may still be replaced.
FinalInv == OnlyFinal /\ \A l \in raw : Final(l[1])

\* A scan: it ends at a final block,
Bounded(w) ==
    /\ worker[w].from \in Blocks
    /\ worker[w].pc \in {"insert", "advance"} =>
          worker[w].next <= worker[w].to /\ Final(worker[w].to)

\* began after a cursor that was covered, unless there was none,
Begun(w) ==
    worker[w].pc \in {"head", "insert", "advance"} /\ ~worker[w].cold =>
        cursor # NoCursor /\ \A b \in origin..(worker[w].next - 1) : Covered(b)

\* and has stored its chunk before it moves the cursor.
ChunkStored(w) ==
    worker[w].pc = "advance" => \A b \in worker[w].next..ChunkEnd(w) : Held(b)

ScanInv(w) == Bounded(w) /\ Begun(w) /\ ChunkStored(w)

RawInv == CollectorTypeOK /\ FinalInv /\ CoverInv /\ \A w \in Workers : ScanInv(w)

-----------------------------------------------------------------------------
(* The collector's side.                                                   *)

\* The aggregator moves rows from raw_logs to its history and leaves the collector alone.
LEMMA AggregateKeeps ==
    ASSUME Aggregate
    PROVE  /\ UNCHANGED <<head, chain, cursor, worker, origin, jumped>>
           /\ raw' \subseteq raw /\ Stored' = Stored
           /\ faults' = faults \/ (faults < MaxFaults /\ faults' = faults + 1)
  <1>1. UNCHANGED <<chain, cursor, worker, origin, jumped>>
    BY DEF Aggregate, collectorOnly
  <1>2. PICK a \in Aggregators :
           A!Sweep(a) \/ A!PoolFails(a) \/ A!AggregatorDies(a) \/ A!PruneRawLogs(a)
    BY DEF Aggregate, A!AggregatorStep
  <1>3. CASE A!Sweep(a)
    BY <1>1, <1>3 DEF A!Sweep, A!StartSweep, A!ReadPool, A!WriteBucket, Stored
  <1>4. CASE A!PoolFails(a)
    BY <1>1, <1>4 DEF A!PoolFails, Stored
  <1>5. CASE A!AggregatorDies(a)
    BY <1>1, <1>5 DEF A!AggregatorDies, Stored
  <1>6. CASE A!PruneRawLogs(a)
    BY <1>1, <1>6 DEF A!PruneRawLogs, Stored
  <1> QED
    BY <1>2, <1>3, <1>4, <1>5, <1>6

\* The last block of a chunk is of the scan.
LEMMA ChunkIs ==
    ASSUME CollectorTypeOK, NEW w \in Workers, worker[w].next <= worker[w].to
    PROVE  /\ ChunkEnd(w) \in Nat
           /\ worker[w].next <= ChunkEnd(w) /\ ChunkEnd(w) <= worker[w].to
  BY CollectorAssumption DEF CollectorTypeOK, Scan, ChunkEnd

\* What a scan starts and ends with are block numbers.
LEMMA HeadIs ==
    ASSUME CollectorTypeOK, NEW w \in Workers, NEW latest \in Latest
    PROVE  /\ FinalHead(latest) \in Int /\ FinalHead(latest) <= head - Confirmations
           /\ FirstBlock(w, FinalHead(latest)) \in Nat
  BY CollectorAssumption
     DEF CollectorTypeOK, Scan, Latest, FinalHead, FirstBlock, Blocks

\* Starting afresh at a block of the chain, or right after it.
LEMMA StartsAtType ==
    ASSUME CollectorTypeOK, NEW block \in Nat, block - 1 <= MaxBlock, StartsAt(block)
    PROVE  origin' \in Nat /\ jumped' \in SUBSET Blocks
  <1>1. cursor \in Int /\ cursor >= -1 /\ origin \in Nat /\ jumped \in SUBSET Blocks
    BY CollectorAssumption DEF CollectorTypeOK, Blocks, NoCursor
  <1>2. (cursor + 1)..(block - 1) \subseteq Blocks
    BY <1>1, CollectorAssumption DEF Blocks
  <1> QED
    BY <1>1, <1>2 DEF StartsAt

\* Every step of the collector keeps its types.
LEMMA CollectorTypeStep ==
    ASSUME CollectorTypeOK, \A w \in Workers : Bounded(w), CollectorStep
    PROVE  CollectorTypeOK'
  <1> USE CollectorAssumption DEF CollectorTypeOK
  <1>1. CASE MineBlock
    BY <1>1 DEF MineBlock, Blocks, history
  <1>2. ASSUME NEW b \in 1..head, Reorg(b) PROVE CollectorTypeOK'
    BY <1>2 DEF Reorg, Blocks, history
  <1>3. ASSUME NEW w \in Workers, GetCursor(w) PROVE CollectorTypeOK'
    <2> DEFINE next == [worker[w] EXCEPT !.pc = "head", !.cold = (cursor = NoCursor),
                                         !.next = cursor + 1]
    <2>1. worker[w] \in Scan /\ cursor + 1 \in Nat
      BY DEF Blocks, NoCursor
    <2>2. next \in Scan
      BY <2>1 DEF Scan, WorkerPc
    <2>3. worker' = [worker EXCEPT ![w] = next]
      BY <1>3 DEF GetCursor
    <2>4. worker' \in [Workers -> Scan]
      <3> HIDE DEF next
      <3> QED
        BY <2>2, <2>3
    <2> QED
      BY <1>3, <2>4 DEF GetCursor, chainVars, history
  <1>4. ASSUME NEW w \in Workers, NEW latest \in Latest, LatestBlock(w, latest)
        PROVE  CollectorTypeOK'
    <2> DEFINE to == FinalHead(latest)
               from == FirstBlock(w, to)
               next == IF to < 0 THEN Returned(w)
                       ELSE IF from > to THEN [Returned(w) EXCEPT !.to = to]
                       ELSE [worker[w] EXCEPT !.pc = "insert", !.next = from, !.to = to]
    <2>1. to \in Int /\ from \in Nat
      BY HeadIs
    <2>2. worker[w] \in Scan
      OBVIOUS
    <2>6. Returned(w) \in Scan
      BY <2>2 DEF Returned, Scan, WorkerPc
    <2>3. next \in Scan
      <3>1. CASE to < 0
        BY <2>6, <3>1
      <3>2. CASE to >= 0 /\ from > to
        <4>1. to \in Nat /\ next = [Returned(w) EXCEPT !.to = to]
          BY <2>1, <3>2
        <4> HIDE DEF next, to
        <4> QED
          BY <2>6, <4>1 DEF Scan
      <3>3. CASE to >= 0 /\ from <= to
        <4>1. to \in Nat /\ next = [worker[w] EXCEPT !.pc = "insert", !.next = from, !.to = to]
          BY <2>1, <3>3
        <4> HIDE DEF next, to, from
        <4> QED
          BY <2>1, <2>2, <4>1 DEF Scan, WorkerPc
      <3> HIDE DEF from, to
      <3> QED
        BY <2>1, <3>1, <3>2, <3>3
    <2>4. worker' = [worker EXCEPT ![w] = next]
      BY <1>4 DEF LatestBlock
    <2>5. worker' \in [Workers -> Scan]
      <3> HIDE DEF next
      <3> QED
        BY <2>3, <2>4
    <2> QED
      BY <1>4, <2>5 DEF LatestBlock, chainVars, history
  <1>5. ASSUME NEW w \in Workers, InsertRawLogs(w) PROVE CollectorTypeOK'
    BY <1>5 DEF InsertRawLogs, LogsIn, Scan, WorkerPc, chainVars, history
  <1>6. ASSUME NEW w \in Workers, AdvanceCursor(w) PROVE CollectorTypeOK'
    <2>1. worker[w].next \in Nat /\ worker[w].to \in Nat /\ worker[w].next <= worker[w].to
          /\ worker[w].to <= head
      BY <1>6 DEF AdvanceCursor, Bounded, Scan, Blocks, Final
    <2>2. /\ ChunkEnd(w) \in Nat /\ worker[w].next <= ChunkEnd(w)
          /\ ChunkEnd(w) <= worker[w].to
      BY <2>1, ChunkIs
    <2>3. cursor' \in Blocks
      BY <1>6, <2>1, <2>2 DEF AdvanceCursor, Blocks
    <2>8. worker[w] \in Scan
      OBVIOUS
    <2>4. Returned(w) \in Scan
      BY <2>8 DEF Returned, Scan, WorkerPc
    <2>5. [worker[w] EXCEPT !.pc = "insert", !.next = ChunkEnd(w) + 1, !.cold = FALSE] \in Scan
      <3> DEFINE n == ChunkEnd(w) + 1
      <3>1. n \in Nat
        BY <2>2
      <3> HIDE DEF n
      <3>2. [worker[w] EXCEPT !.pc = "insert", !.next = n, !.cold = FALSE] \in Scan
        BY <2>8, <3>1 DEF Scan, WorkerPc
      <3> QED
        BY <3>2 DEF n
    <2>6. worker' \in [Workers -> Scan]
      BY <1>6, <2>4, <2>5 DEF AdvanceCursor, NextChunk
    <2>7. origin' \in Nat /\ jumped' \in SUBSET Blocks
      <3>1. worker[w].next - 1 <= MaxBlock
        BY <2>1 DEF Blocks
      <3> QED
        BY <1>6, <2>1, <3>1, StartsAtType DEF AdvanceCursor, history
    <2> QED
      BY <1>6, <2>3, <2>6, <2>7 DEF AdvanceCursor, chainVars
  <1>7. ASSUME NEW w \in Workers, ScanFails(w) PROVE CollectorTypeOK'
    <2>1. Rest \in Scan /\ [Rest EXCEPT !.pc = "failed"] \in Scan
      BY DEF Rest, Scan, WorkerPc
    <2>2. worker' \in [Workers -> Scan]
      BY <1>7, <2>1 DEF ScanFails
    <2> QED
      BY <1>7, <2>2 DEF ScanFails, chainVars, history
  <1>8. ASSUME NEW w \in Backfills, BackfillLatest(w) PROVE CollectorTypeOK'
    <2>1. PICK latest \in Latest :
             LET from == IF latest > Lookback THEN latest - Lookback ELSE 0 IN
             worker' = [worker EXCEPT ![w] = [Rest EXCEPT !.pc = "seed", !.from = from]]
      BY <1>8 DEF BackfillLatest
    <2> DEFINE from == IF latest > Lookback THEN latest - Lookback ELSE 0
    <2>2. from \in Nat
      BY DEF Latest, Blocks
    <2>3. [Rest EXCEPT !.pc = "seed", !.from = from] \in Scan
      BY <2>2 DEF Rest, Scan, WorkerPc
    <2>4. worker' \in [Workers -> Scan]
      BY <2>1, <2>3
    <2> QED
      BY <1>8, <2>4 DEF BackfillLatest, chainVars, history
  <1>9. ASSUME NEW w \in Backfills, BackfillSeed(w) PROVE CollectorTypeOK'
    <2> DEFINE seed == IF worker[w].from > 0 THEN worker[w].from - 1 ELSE 0
    <2>1. w \in Workers /\ seed \in Blocks
      BY DEF Workers, Bounded, Blocks
    <2>2. cursor' = seed
      BY <1>9 DEF BackfillSeed
    <2>3. origin' \in Nat /\ jumped' \in SUBSET Blocks
      <3>1. seed + 1 \in Nat /\ (seed + 1) - 1 <= MaxBlock
        BY <2>1 DEF Blocks
      <3>2. StartsAt(seed + 1)
        BY <1>9 DEF BackfillSeed
      <3> HIDE DEF seed
      <3> QED
        BY <3>1, <3>2, StartsAtType
    <2>4. worker' \in [Workers -> Scan]
      <3>1. [worker[w] EXCEPT !.pc = "cursor"] \in Scan
        BY <2>1 DEF Scan, WorkerPc
      <3> QED
        BY <1>9, <2>1, <3>1 DEF BackfillSeed
    <2> QED
      BY <1>9, <2>1, <2>2, <2>3, <2>4 DEF BackfillSeed, chainVars
  <1> QED
    BY <1>1, <1>2, <1>3, <1>4, <1>5, <1>6, <1>7, <1>8, <1>9
       DEF CollectorStep, RunOnce, Backfill

-----------------------------------------------------------------------------
\* What no step takes back: the height of the chain, its final blocks, what has been
\* stored, what has been jumped over, and the origin once there is a cursor.
LEMMA Grows ==
    ASSUME RawInv, CollectorTypeOK', [Next]_vars
    PROVE  /\ head' = head \/ head' = head + 1
           /\ \A b \in Blocks : Final(b) => chain'[b] = chain[b]
           /\ Stored \subseteq Stored' /\ jumped \subseteq jumped'
           /\ cursor # NoCursor => cursor' # NoCursor /\ origin' = origin
  <1> USE CollectorAssumption DEF CollectorTypeOK
  <1>0. CollectorTypeOK /\ \A w \in Workers : ScanInv(w)
    BY DEF RawInv
  <1> USE <1>0
  <1>1. CASE CollectorStep
    <2>1. CASE MineBlock
      BY <2>1 DEF MineBlock, Stored, Blocks, Final, history
    <2>2. ASSUME NEW b \in 1..head, Reorg(b)
          PROVE  /\ head' = head
                 /\ \A c \in Blocks : Final(c) => chain'[c] = chain[c]
                 /\ Stored \subseteq Stored' /\ jumped \subseteq jumped'
                 /\ cursor # NoCursor => cursor' # NoCursor /\ origin' = origin
      BY <2>2 DEF Reorg, Stored, Blocks, Final, history
    <2>3. ASSUME NEW w \in Workers, RunOnce(w) \/ ScanFails(w)
          PROVE  /\ UNCHANGED <<head, chain>>
                 /\ Stored \subseteq Stored' /\ jumped \subseteq jumped'
                 /\ cursor # NoCursor => cursor' # NoCursor /\ origin' = origin
      <3>1. CASE AdvanceCursor(w)
        <4>1. ChunkEnd(w) # NoCursor
          BY <3>1, ChunkIs DEF AdvanceCursor, ScanInv, Bounded, NoCursor
        <4> QED
          BY <3>1, <4>1 DEF AdvanceCursor, StartsAt, Stored, chainVars, history
      <3>2. CASE InsertRawLogs(w)
        BY <3>2 DEF InsertRawLogs, Stored, chainVars, history
      <3>3. CASE GetCursor(w)
        BY <3>3 DEF GetCursor, Stored, chainVars, history
      <3>4. CASE \E latest \in Latest : LatestBlock(w, latest)
        BY <3>4 DEF LatestBlock, Stored, chainVars, history
      <3>5. CASE ScanFails(w)
        BY <3>5 DEF ScanFails, Stored, chainVars, history
      <3> QED
        BY <2>3, <3>1, <3>2, <3>3, <3>4, <3>5 DEF RunOnce
    <2>4. ASSUME NEW w \in Backfills, Backfill(w)
          PROVE  /\ UNCHANGED <<head, chain>>
                 /\ Stored \subseteq Stored' /\ jumped \subseteq jumped'
                 /\ cursor # NoCursor => cursor' # NoCursor /\ origin' = origin
      <3>1. CASE BackfillLatest(w)
        BY <3>1 DEF BackfillLatest, Stored, chainVars, history
      <3>2. CASE BackfillSeed(w)
        <4>1. cursor' # NoCursor
          BY <3>2 DEF BackfillSeed, Scan, NoCursor, Workers
        <4> QED
          BY <3>2, <4>1 DEF BackfillSeed, StartsAt, Stored, chainVars
      <3> QED
        BY <2>4, <3>1, <3>2 DEF Backfill
    <2>5. head \in Int
      BY DEF Blocks
    <2> QED
      BY <1>1, <2>1, <2>2, <2>3, <2>4, <2>5 DEF CollectorStep, Blocks
  <1>2. CASE Aggregate
    BY <1>2, AggregateKeeps DEF Blocks
  <1>3. CASE UNCHANGED vars
    BY <1>3 DEF vars, Stored, Blocks
  <1> QED
    BY <1>1, <1>2, <1>3 DEF Next, Collect

\* What was final stays final.
LEMMA StaysFinal ==
    ASSUME RawInv, CollectorTypeOK', [Next]_vars
    PROVE  /\ head <= head'
           /\ \A b \in Int : Final(b) => Final(b)'
  <1> DEFINE h == head
             i == head'
  <1>1. h \in Int /\ i \in Int /\ (i = h \/ i = h + 1)
    BY Grows DEF RawInv, CollectorTypeOK, Blocks
  <1> HIDE DEF h, i
  <1>2. h <= i /\ \A b \in Int : b <= h - Confirmations => b <= i - Confirmations
    BY <1>1, CollectorAssumption
  <1> QED
    BY <1>2 DEF h, i, Final

\* A block once held stays so, and one once covered.
LEMMA HeldStays ==
    ASSUME RawInv, CollectorTypeOK', [Next]_vars, NEW b \in Nat
    PROVE  /\ Held(b) => Held(b)'
           /\ Covered(b) => Covered(b)'
  <1>1. head \in Int /\ head' \in Int /\ head <= MaxBlock
    BY CollectorAssumption DEF RawInv, CollectorTypeOK, Blocks
  <1>2. Final(b) => b \in Blocks /\ Final(b)'
    <2>1. Final(b) => b <= MaxBlock
      BY <1>1, CollectorAssumption DEF Final
    <2> QED
      BY <2>1, StaysFinal, CollectorAssumption DEF Blocks
  <1>3. Final(b) => chain'[b] = chain[b]
    BY <1>2, Grows
  <1> QED
    BY <1>2, <1>3, Grows DEF Held, Covered

\* What holds of a scan stays while the scan itself does not move.
LEMMA ScanStays ==
    ASSUME RawInv, CollectorTypeOK', [Next]_vars, NEW w \in Workers,
           worker'[w] = worker[w]
    PROVE  ScanInv(w)'
  <1> USE CollectorAssumption
  <1>0. CollectorTypeOK /\ ScanInv(w)
    BY DEF RawInv
  <1> USE <1>0
  <1>1. head \in Int /\ head' \in Int /\ worker[w] \in Scan
    BY DEF CollectorTypeOK, Blocks
  <1>2. Bounded(w)'
    BY <1>1, StaysFinal DEF ScanInv, Bounded, Scan
  <1>3. Begun(w)'
    <2>1. origin \in Nat
      BY DEF CollectorTypeOK
    <2>2. \A b \in Nat : Covered(b) => Covered(b)'
      BY HeldStays
    <2> QED
      BY <2>1, <2>2, <1>1, Grows DEF ScanInv, Begun, Scan
  <1>4. ChunkStored(w)'
    <2>1. ChunkEnd(w)' = ChunkEnd(w)
      BY DEF ChunkEnd
    <2>2. \A b \in Nat : Held(b) => Held(b)'
      BY HeldStays
    <2> QED
      BY <2>1, <2>2, <1>1 DEF ScanInv, ChunkStored, Scan
  <1> QED
    BY <1>2, <1>3, <1>4 DEF ScanInv

\* No step leaves a row in raw_logs that the chain may still take back.
LEMMA FinalStep ==
    ASSUME RawInv, CollectorTypeOK', [Next]_vars
    PROVE  FinalInv'
  <1> USE CollectorAssumption
  <1>1. /\ head \in Int /\ head' \in Int /\ raw \subseteq Logs
        /\ \A l \in Logs : l[1] \in Blocks
    BY DEF RawInv, CollectorTypeOK, Blocks, Logs
  <1>2. \A l \in raw : /\ l[2] \in chain'[l[1]]
                       /\ Final(l[1])'
    <2> SUFFICES ASSUME NEW l \in raw
                 PROVE  l[2] \in chain'[l[1]] /\ Final(l[1])'
      OBVIOUS
    <2>1. l[1] \in Blocks /\ l[2] \in chain[l[1]] /\ Final(l[1])
      BY <1>1 DEF RawInv, FinalInv, OnlyFinal
    <2>2. chain'[l[1]] = chain[l[1]]
      BY <2>1, Grows
    <2>3. Final(l[1])'
      BY <1>1, <2>1, StaysFinal DEF Blocks
    <2> QED
      BY <2>1, <2>2, <2>3
  <1>3. ASSUME NEW w \in Workers, InsertRawLogs(w)
        PROVE  FinalInv'
    <2>1. /\ raw' = raw \cup LogsIn(worker[w].next, ChunkEnd(w))
          /\ UNCHANGED <<head, chain>>
      BY <1>3 DEF InsertRawLogs, chainVars
    <2>2. ChunkEnd(w) \in Nat /\ \A b \in Int : b <= ChunkEnd(w) => Final(b)
      <3>1. /\ worker[w].next <= worker[w].to /\ Final(worker[w].to)
            /\ worker[w] \in Scan
        BY <1>3 DEF InsertRawLogs, RawInv, ScanInv, Bounded, CollectorTypeOK
      <3> QED
        <4>1. worker[w].to \in Nat /\ ChunkEnd(w) \in Nat /\ ChunkEnd(w) <= worker[w].to
          BY <3>1, ChunkIs DEF RawInv, Scan
        <4> QED
          BY <1>1, <3>1, <4>1 DEF Final
    <2>3. worker[w].next \in Nat
      BY DEF RawInv, CollectorTypeOK, Scan
    <2>4. \A l \in LogsIn(worker[w].next, ChunkEnd(w)) :
             l[2] \in chain[l[1]] /\ Final(l[1])
      BY <1>1, <2>2, <2>3 DEF LogsIn
    <2>5. \A b : Final(b)' <=> Final(b)
      BY <2>1 DEF Final
    <2> QED
      BY <1>2, <2>1, <2>4, <2>5 DEF FinalInv, OnlyFinal
  <1>4. CASE raw' \subseteq raw
    BY <1>2, <1>4 DEF FinalInv, OnlyFinal
  <1>5. CASE CollectorStep
    BY <1>3, <1>4, <1>5
       DEF CollectorStep, MineBlock, Reorg, RunOnce, GetCursor, LatestBlock, AdvanceCursor,
           ScanFails, Backfill, BackfillLatest, BackfillSeed
  <1>6. CASE Aggregate
    BY <1>4, <1>6, AggregateKeeps
  <1>7. CASE UNCHANGED vars
    BY <1>4, <1>7 DEF vars
  <1> QED
    BY <1>5, <1>6, <1>7 DEF Next, Collect

\* A cursor that starts afresh covers what it covered before, and jumps over the rest.
LEMMA StartsAtCovers ==
    ASSUME RawInv, CollectorTypeOK', [Next]_vars, NEW block \in Nat, StartsAt(block)
    PROVE  \A b \in origin'..(block - 1) : Covered(b)'
  <1>1. /\ cursor \in Int /\ cursor >= -1 /\ origin \in Nat /\ origin' \in Nat
        /\ CoverInv
    BY CollectorAssumption DEF RawInv, CollectorTypeOK, Blocks, NoCursor
  <1>2. CASE cursor = NoCursor
    <2>1. origin' = block
      BY <1>2 DEF StartsAt
    <2> QED
      BY <2>1
  <1>3. CASE cursor # NoCursor
    <2> SUFFICES ASSUME NEW b \in origin..(block - 1) PROVE Covered(b)'
      BY <1>3 DEF StartsAt
    <2>1. CASE b <= cursor
      <3>1. b \in Nat /\ Covered(b)
        BY <1>1, <2>1 DEF CoverInv
      <3> QED
        BY <3>1, HeldStays
    <2>2. CASE b > cursor
      <3>1. b \in (cursor + 1)..(block - 1)
        BY <1>1, <2>2
      <3> QED
        BY <1>3, <3>1 DEF StartsAt, Covered
    <2> QED
      BY <1>1, <2>1, <2>2
  <1> QED
    BY <1>2, <1>3

\* A scan that moves the cursor has everything covered that the cursor then stands for.
LEMMA AdvanceCovers ==
    ASSUME RawInv, CollectorTypeOK', [Next]_vars, NEW w \in Workers, AdvanceCursor(w)
    PROVE  /\ \A b \in origin'..ChunkEnd(w) : Covered(b)'
           /\ cursor' = ChunkEnd(w) /\ cursor' # NoCursor
  <1>1. /\ worker[w].next \in Nat /\ worker[w].to \in Nat /\ worker[w].pc = "advance"
        /\ worker[w].cold \in BOOLEAN /\ ScanInv(w)
        /\ ChunkEnd(w) \in Nat /\ worker[w].next <= ChunkEnd(w)
    BY ChunkIs DEF AdvanceCursor, RawInv, CollectorTypeOK, Scan, ScanInv, Bounded
  <1>2. origin' \in Nat
    BY DEF CollectorTypeOK
  <1>3. \A b \in origin'..(worker[w].next - 1) : Covered(b)'
    <2>1. CASE worker[w].cold
      BY <1>1, <2>1, StartsAtCovers DEF AdvanceCursor
    <2>2. CASE ~worker[w].cold
      <3>1. origin' = origin
        BY <2>2 DEF AdvanceCursor, history
      <3>2. \A b \in origin..(worker[w].next - 1) : Covered(b)
        BY <1>1, <2>2 DEF ScanInv, Begun
      <3> QED
        BY <1>1, <1>2, <3>1, <3>2, HeldStays
    <2> QED
      BY <1>1, <2>1, <2>2
  <1>4. \A b \in worker[w].next..ChunkEnd(w) : Covered(b)'
    <2> SUFFICES ASSUME NEW b \in worker[w].next..ChunkEnd(w) PROVE Covered(b)'
      OBVIOUS
    <2>1. b \in Nat /\ Held(b)
      BY <1>1 DEF ScanInv, ChunkStored
    <2> QED
      BY <2>1, HeldStays DEF Covered
  <1>5. \A b \in origin'..ChunkEnd(w) :
           b \in origin'..(worker[w].next - 1) \/ b \in worker[w].next..ChunkEnd(w)
    BY <1>1, <1>2
  <1>6. cursor' = ChunkEnd(w) /\ cursor' # NoCursor
    BY <1>1 DEF AdvanceCursor, NoCursor
  <1> QED
    BY <1>3, <1>4, <1>5, <1>6

\* What the cursor stands for stays covered.
LEMMA CoverStep ==
    ASSUME RawInv, CollectorTypeOK', [Next]_vars
    PROVE  CoverInv'
  <1>1. CASE cursor' = cursor /\ origin' = origin
    <2>1. origin \in Nat /\ CoverInv
      BY DEF RawInv, CollectorTypeOK
    <2>2. \A b \in Nat : Covered(b) => Covered(b)'
      BY HeldStays
    <2> QED
      BY <1>1, <2>1, <2>2 DEF CoverInv
  <1>2. ASSUME NEW w \in Workers, AdvanceCursor(w) PROVE CoverInv'
    BY <1>2, AdvanceCovers DEF CoverInv
  <1>3. ASSUME NEW w \in Backfills, BackfillSeed(w) PROVE CoverInv'
    <2> DEFINE seed == IF worker[w].from > 0 THEN worker[w].from - 1 ELSE 0
    <2>1. seed \in Nat /\ cursor' = seed /\ StartsAt(seed + 1)
      BY <1>3 DEF BackfillSeed, RawInv, CollectorTypeOK, Scan, Workers
    <2> HIDE DEF seed
    <2>2. \A b \in origin'..((seed + 1) - 1) : Covered(b)'
      BY <2>1, StartsAtCovers
    <2> QED
      BY <2>1, <2>2 DEF CoverInv
  <1>4. CASE CollectorStep
    BY <1>1, <1>2, <1>3, <1>4
       DEF CollectorStep, MineBlock, Reorg, RunOnce, GetCursor, LatestBlock, InsertRawLogs,
           ScanFails, Backfill, BackfillLatest, history
  <1>5. CASE Aggregate
    BY <1>1, <1>5, AggregateKeeps
  <1>6. CASE UNCHANGED vars
    BY <1>1, <1>6 DEF vars
  <1> QED
    BY <1>4, <1>5, <1>6 DEF Next, Collect

\* A worker that is not in a scan, and starts none beyond the chain.
LEMMA RestfulScan ==
    ASSUME NEW w \in Workers, worker[w].pc \notin {"head", "insert", "advance"},
           worker[w].from \in Blocks
    PROVE  ScanInv(w)
  BY DEF ScanInv, Bounded, Begun, ChunkStored

\* Every step keeps what holds of a scan.
LEMMA ScanStep ==
    ASSUME RawInv, CollectorTypeOK', [Next]_vars, NEW w \in Workers
    PROVE  ScanInv(w)'
  <1> USE CollectorAssumption
  <1>0. /\ CollectorTypeOK /\ ScanInv(w) /\ worker[w] \in Scan /\ worker'[w] \in Scan
        /\ worker \in [Workers -> Scan] /\ worker[w].from \in Blocks /\ 0 \in Blocks
    BY DEF RawInv, CollectorTypeOK, ScanInv, Bounded, Blocks
  <1>1. CASE worker'[w] = worker[w]
    BY <1>1, ScanStays
  <1>2. CASE worker'[w].pc \notin {"head", "insert", "advance"} /\ worker'[w].from \in Blocks
    BY <1>2 DEF ScanInv, Bounded, Begun, ChunkStored
  <1>3. CASE GetCursor(w)
    <2>1. /\ worker'[w].pc = "head" /\ worker'[w].next = cursor + 1
          /\ worker'[w].cold = (cursor = NoCursor) /\ worker'[w].from = worker[w].from
          /\ cursor' = cursor /\ origin' = origin
      BY <1>0, <1>3 DEF GetCursor, Scan, history
    <2>2. Bounded(w)' /\ ChunkStored(w)'
      BY <1>0, <2>1 DEF Bounded, ChunkStored, ScanInv
    <2>3. Begun(w)'
      <3>1. cursor \in Int /\ (cursor + 1) - 1 = cursor
        BY <1>0 DEF CollectorTypeOK, Blocks, NoCursor
      <3>2. \A b \in origin..cursor : Covered(b)'
        BY CoverStep, <2>1 DEF CoverInv
      <3> QED
        BY <2>1, <3>1, <3>2 DEF Begun
    <2> QED
      BY <2>2, <2>3 DEF ScanInv
  <1>4. ASSUME NEW latest \in Latest, LatestBlock(w, latest) PROVE ScanInv(w)'
    <2> DEFINE to == FinalHead(latest)
               from == FirstBlock(w, to)
    <2>1. /\ to \in Int /\ to <= head - Confirmations /\ from \in Nat
          /\ ~worker[w].cold => from = worker[w].next
      BY <1>0, HeadIs DEF FirstBlock
    <2>2. /\ worker[w].pc = "head" /\ UNCHANGED <<head, chain, raw, deleted, cursor, origin, jumped>>
          /\ worker' = [worker EXCEPT ![w] =
                IF to < 0 THEN Returned(w)
                ELSE IF from > to THEN [Returned(w) EXCEPT !.to = to]
                ELSE [@ EXCEPT !.pc = "insert", !.next = from, !.to = to]]
      BY <1>4 DEF LatestBlock, chainVars, history
    <2>3. CASE to >= 0 /\ from <= to
      <3>1. /\ worker'[w].pc = "insert" /\ worker'[w].next = from /\ worker'[w].to = to
            /\ worker'[w].cold = worker[w].cold /\ worker'[w].from = worker[w].from
        BY <1>0, <2>1, <2>2, <2>3 DEF Scan
      <3> HIDE DEF from, to
      <3>2. Bounded(w)'
        BY <1>0, <2>1, <2>2, <2>3, <3>1 DEF Bounded, Final
      <3>3. Begun(w)'
        <4>1. Covered(0)' = Covered(0) /\ \A b : Covered(b)' <=> Covered(b)
          BY <2>2 DEF Covered, Held, Final, Stored
        <4> QED
          BY <1>0, <2>1, <2>2, <3>1, <4>1 DEF ScanInv, Begun
      <3>4. ChunkStored(w)'
        BY <3>1 DEF ChunkStored
      <3> QED
        BY <3>2, <3>3, <3>4 DEF ScanInv
    <2>4. CASE ~(to >= 0 /\ from <= to)
      <3>1. /\ worker'[w].pc \in {"idle", "done"} /\ worker'[w].from = worker[w].from
        BY <1>0, <2>1, <2>2, <2>4 DEF Scan, Returned
      <3> QED
        BY <1>0, <1>2, <3>1
    <2> QED
      BY <2>3, <2>4
  <1>5. CASE InsertRawLogs(w)
    <2>1. /\ worker[w].pc = "insert" /\ worker'[w] = [worker[w] EXCEPT !.pc = "advance"]
          /\ raw' = raw \cup LogsIn(worker[w].next, ChunkEnd(w))
          /\ UNCHANGED <<head, chain, deleted, cursor, origin, jumped>>
      BY <1>0, <1>5 DEF InsertRawLogs, chainVars, history
    <2>2. /\ worker'[w].pc = "advance" /\ worker'[w].next = worker[w].next
          /\ worker'[w].to = worker[w].to /\ worker'[w].cold = worker[w].cold
          /\ worker'[w].from = worker[w].from
      BY <1>0, <2>1 DEF Scan
    <2>3. Bounded(w)'
      BY <1>0, <2>1, <2>2 DEF Bounded, ScanInv, Final
    <2>4. Begun(w)'
      <3>1. origin \in Nat
        BY <1>0 DEF CollectorTypeOK
      <3>2. \A b \in Nat : Covered(b) => Covered(b)'
        BY HeldStays
      <3> QED
        BY <1>0, <2>1, <2>2, <3>1, <3>2 DEF Begun, ScanInv
    <2>5. ChunkStored(w)'
      <3>1. ChunkEnd(w)' = ChunkEnd(w)
        BY <2>2 DEF ChunkEnd
      <3>2. /\ worker[w].next \in Nat /\ worker[w].to \in Nat /\ ChunkEnd(w) \in Nat
            /\ ChunkEnd(w) <= worker[w].to /\ Final(worker[w].to)
        BY <1>0, <2>1, ChunkIs DEF ScanInv, Bounded, Scan
      <3>3. head \in Int /\ head <= MaxBlock /\ chain \in [Blocks -> SUBSET Pools]
        BY <1>0 DEF CollectorTypeOK, Blocks
      <3>4. ASSUME NEW b \in worker[w].next..ChunkEnd(w) PROVE Held(b)'
        <4>1. b \in Nat /\ b <= head - Confirmations /\ b \in Blocks
          BY <3>2, <3>3, <3>4 DEF Final, Blocks
        <4>2. \A p \in chain[b] : <<b, p>> \in LogsIn(worker[w].next, ChunkEnd(w))
          BY <3>3, <3>4, <4>1 DEF LogsIn, Logs
        <4> QED
          BY <2>1, <4>1, <4>2 DEF Held, Final, Stored
      <3> QED
        BY <2>2, <3>1, <3>4 DEF ChunkStored
    <2> QED
      BY <2>3, <2>4, <2>5 DEF ScanInv
  <1>6. CASE AdvanceCursor(w)
    <2>1. CASE ChunkEnd(w) = worker[w].to
      <3>1. worker'[w] = Returned(w)
        BY <1>0, <1>6, <2>1 DEF AdvanceCursor, NextChunk
      <3>2. worker'[w].pc \in {"idle", "done"} /\ worker'[w].from = worker[w].from
        BY <1>0, <3>1 DEF Scan, Returned
      <3> QED
        BY <1>0, <1>2, <3>2
    <2>2. CASE ChunkEnd(w) # worker[w].to
      <3> DEFINE n == ChunkEnd(w)
      <3>1. /\ worker[w].pc = "advance" /\ head' = head
            /\ worker'[w] = [worker[w] EXCEPT !.pc = "insert", !.next = n + 1, !.cold = FALSE]
        BY <1>0, <1>6, <2>2 DEF AdvanceCursor, NextChunk, chainVars
      <3>2. /\ worker[w].next \in Nat /\ worker[w].to \in Nat /\ n \in Nat
            /\ n <= worker[w].to /\ Final(worker[w].to)
        BY <1>0, <3>1, ChunkIs DEF ScanInv, Bounded, Scan
      <3>3. (\A b \in origin'..n : Covered(b)') /\ cursor' # NoCursor
        BY <1>6, AdvanceCovers
      <3> HIDE DEF n
      <3>4. /\ worker'[w].pc = "insert" /\ worker'[w].next = n + 1
            /\ worker'[w].to = worker[w].to /\ worker'[w].cold = FALSE
            /\ worker'[w].from = worker[w].from
        BY <1>0, <3>1 DEF Scan
      <3>5. Bounded(w)'
        BY <1>0, <2>2, <3>1, <3>2, <3>4 DEF Bounded, Final, n
      <3>6. Begun(w)' /\ ChunkStored(w)'
        <4>1. (n + 1) - 1 = n
          BY <3>2
        <4> QED
          BY <3>3, <3>4, <4>1 DEF Begun, ChunkStored
      <3> QED
        BY <3>5, <3>6 DEF ScanInv
    <2> QED
      BY <2>1, <2>2
  <1>7. CASE ScanFails(w)
    <2>1. worker'[w] \in {Rest, [Rest EXCEPT !.pc = "failed"]}
      BY <1>0, <1>7 DEF ScanFails
    <2>2. worker'[w].pc \in {"idle", "failed"} /\ worker'[w].from = 0
      BY <2>1 DEF Rest
    <2> QED
      BY <1>0, <1>2, <2>2
  <1>8. CASE w \in Backfills /\ BackfillLatest(w)
    <2>1. PICK latest \in Latest :
             LET from == IF latest > Lookback THEN latest - Lookback ELSE 0 IN
             worker' = [worker EXCEPT ![w] = [Rest EXCEPT !.pc = "seed", !.from = from]]
      BY <1>8 DEF BackfillLatest
    <2> DEFINE from == IF latest > Lookback THEN latest - Lookback ELSE 0
    <2>2. from \in Blocks
      BY <1>0 DEF Latest, Blocks, CollectorTypeOK
    <2>3. worker'[w] = [Rest EXCEPT !.pc = "seed", !.from = from]
      BY <1>0, <2>1
    <2> HIDE DEF from
    <2>4. worker'[w].pc = "seed" /\ worker'[w].from = from
      BY <2>3 DEF Rest
    <2> QED
      BY <1>2, <2>2, <2>4
  <1>9. CASE w \in Backfills /\ BackfillSeed(w)
    <2>1. worker'[w] = [worker[w] EXCEPT !.pc = "cursor"]
      BY <1>0, <1>9 DEF BackfillSeed
    <2>2. worker'[w].pc = "cursor" /\ worker'[w].from = worker[w].from
      BY <1>0, <2>1 DEF Scan
    <2> QED
      BY <1>0, <1>2, <2>2
  <1>10. CASE CollectorStep
    <2>1. ASSUME NEW v \in Workers, v # w, RunOnce(v) \/ ScanFails(v) PROVE worker'[w] = worker[w]
      BY <1>0, <2>1 DEF RunOnce, ScanFails, GetCursor, LatestBlock, InsertRawLogs, AdvanceCursor, NextChunk
    <2>2. ASSUME NEW v \in Backfills, v # w, Backfill(v) PROVE worker'[w] = worker[w]
      BY <1>0, <2>2 DEF Backfill, BackfillLatest, BackfillSeed
    <2>3. CASE RunOnce(w)
      BY <2>3, <1>3, <1>4, <1>5, <1>6 DEF RunOnce
    <2>4. CASE w \in Backfills /\ Backfill(w)
      BY <2>4, <1>8, <1>9 DEF Backfill
    <2>5. CASE MineBlock
      BY <1>1, <2>5 DEF MineBlock
    <2>6. CASE \E b \in 1..head : Reorg(b)
      BY <1>1, <2>6 DEF Reorg
    <2> QED
      BY <1>1, <1>7, <1>10, <2>1, <2>2, <2>3, <2>4, <2>5, <2>6 DEF CollectorStep
  <1>11. CASE Aggregate
    BY <1>1, <1>11, AggregateKeeps
  <1>12. CASE UNCHANGED vars
    BY <1>1, <1>12 DEF vars
  <1> QED
    BY <1>10, <1>11, <1>12 DEF Next, Collect

\* Every step keeps it all.
LEMMA RawStep == RawInv /\ [Next]_vars => RawInv'
  <1> SUFFICES ASSUME RawInv, [Next]_vars PROVE RawInv'
    OBVIOUS
  <1>1. CollectorTypeOK'
    <2>1. CollectorTypeOK /\ \A w \in Workers : Bounded(w)
      BY DEF RawInv, ScanInv
    <2>2. CASE CollectorStep
      BY <2>1, <2>2, CollectorTypeStep
    <2>3. CASE Aggregate
      <3>1. /\ UNCHANGED <<head, chain, cursor, worker, origin, jumped>>
            /\ raw' \subseteq raw /\ Stored' = Stored
            /\ faults' = faults \/ (faults < MaxFaults /\ faults' = faults + 1)
        BY <2>3, AggregateKeeps
      <3>2. raw' \in SUBSET Logs /\ deleted' \in SUBSET Logs
        BY <2>1, <3>1 DEF CollectorTypeOK, Stored
      <3>3. faults' \in 0..MaxFaults
        BY <2>1, <3>1, CollectorAssumption DEF CollectorTypeOK
      <3> QED
        BY <2>1, <3>1, <3>2, <3>3 DEF CollectorTypeOK
    <2>4. CASE UNCHANGED vars
      BY <2>1, <2>4 DEF vars, CollectorTypeOK
    <2> QED
      BY <2>2, <2>3, <2>4 DEF Next, Collect
  <1>2. FinalInv'
    BY <1>1, FinalStep
  <1>3. CoverInv'
    BY <1>1, CoverStep
  <1>4. \A w \in Workers : ScanInv(w)'
    BY <1>1, ScanStep
  <1> QED
    BY <1>1, <1>2, <1>3, <1>4 DEF RawInv, Workers

LEMMA RawInit == Init => RawInv
  <1> SUFFICES ASSUME Init PROVE RawInv
    OBVIOUS
  <1> USE CollectorAssumption DEF Init, CollectorInit
  <1>1. Rest \in Scan
    BY DEF Rest, Scan, WorkerPc
  <1>2. CollectorTypeOK
    BY <1>1 DEF CollectorTypeOK, Blocks, Logs
  <1>3. FinalInv /\ CoverInv
    BY DEF FinalInv, OnlyFinal, CoverInv, NoCursor
  <1>4. ASSUME NEW w \in Workers PROVE ScanInv(w)
    <2>1. worker[w].pc = "idle" /\ worker[w].from = 0 /\ 0 \in Blocks
      BY DEF Rest, Blocks
    <2> QED
      BY <2>1, RestfulScan
  <1> QED
    BY <1>2, <1>3, <1>4 DEF RawInv

\* The invariant of the collector's side holds throughout.
THEOREM RawInductive == Spec => []RawInv
  BY RawInit, RawStep, PTL DEF Spec

\* raw_logs is what the final chain says, no less up to the cursor and no more, for
\* any number of backfills beside the loop, any confirmation depth, chunk and
\* lookback, and scans that fail between an insert and the cursor.
THEOREM RawLogsAreRight == Spec => []RawLogsRight
  <1>1. RawInv => RawLogsRight
    <2> SUFFICES ASSUME RawInv PROVE RawLogsRight
      OBVIOUS
    <2>1. CursorCovers
      BY DEF RawInv, CoverInv, Covered, Held, Stored, CursorCovers
    <2> QED
      BY <2>1 DEF RawInv, FinalInv, RawLogsRight
  <1> QED
    BY RawInductive, <1>1, PTL

-----------------------------------------------------------------------------
(* The aggregator's side: its buckets and rows.                            *)

\* A finite set of numbers that is not empty has a least element: of the sets of
\* elements below one of its elements one is minimal.
LEMMA Least ==
    ASSUME NEW S \in SUBSET Int, IsFiniteSet(S), S # {}
    PROVE  \E x \in S : \A y \in S : x <= y
  <1> DEFINE Below(x) == {y \in S : y < x}
             Family == {Below(x) : x \in S}
  <1>1. IsWellFoundedOn(StrictSubsetOrdering(S), SUBSET S)
    BY FS_StrictSubsetOrderingWellFounded, FS_FiniteSubsetsOfFinite
  <1>2. Family \subseteq SUBSET S /\ Family # {}
    OBVIOUS
  <1>3. PICK F \in Family : \A G \in Family : <<G, F>> \notin StrictSubsetOrdering(S)
    <2> HIDE DEF Family
    <2> QED
      BY <1>1, <1>2, WFMin
  <1>4. PICK x \in S : F = Below(x)
    BY <1>3
  <1> SUFFICES ASSUME NEW y \in S, y < x PROVE FALSE
    OBVIOUS
  <1>5. y \in Below(x) /\ y \notin Below(y)
    OBVIOUS
  <1>6. Below(y) \subseteq Below(x)
    <2> SUFFICES ASSUME NEW z \in S, z < y PROVE z < x
      OBVIOUS
    <2> QED
      OBVIOUS
  <1>7. <<Below(y), Below(x)>> \in StrictSubsetOrdering(S)
    BY <1>5, <1>6 DEF StrictSubsetOrdering
  <1> QED
    BY <1>3, <1>4, <1>7

\* And a greatest one.
LEMMA Greatest ==
    ASSUME NEW S \in SUBSET Int, IsFiniteSet(S), S # {}
    PROVE  \E x \in S : \A y \in S : x >= y
  <1> DEFINE T == {0 - x : x \in S}
  <1>1. T \in SUBSET Int /\ T # {}
    OBVIOUS
  <1>2. IsFiniteSet(T)
    <2>1. [x \in S |-> 0 - x] \in Surjection(S, T)
      BY DEF Surjection
    <2> HIDE DEF T
    <2> QED
      BY <2>1, FS_Surjection
  <1>3. PICK t \in T : \A u \in T : t <= u
    <2> HIDE DEF T
    <2> QED
      BY <1>1, <1>2, Least
  <1>4. PICK x \in S : t = 0 - x
    OBVIOUS
  <1>5. ASSUME NEW y \in S PROVE x >= y
    <2>1. 0 - x <= 0 - y
      BY <1>3, <1>4
    <2> QED
      BY <2>1
  <1> QED
    BY <1>5

\* Later rows go into later buckets.
LEMMA BucketIs ==
    /\ \A t \in Blocks : A!Bucket(t) \in A!BucketIds
    /\ \A t, u \in Blocks : t <= u => A!Bucket(t) <= A!Bucket(u)
    /\ A!BucketIds \in SUBSET Nat /\ IsFiniteSet(A!BucketIds)
  <1>1. Blocks \in SUBSET Nat /\ IsFiniteSet(Blocks)
    BY CollectorAssumption, FS_Interval DEF Blocks
  <1>2. \A t \in Nat : A!Bucket(t) \in Nat
    BY IngestAssumption DEF A!Bucket, A!AggregatorAssumption
  <1>3. \A t, u \in Nat : t <= u => A!Bucket(t) <= A!Bucket(u)
    BY IngestAssumption DEF A!Bucket, A!AggregatorAssumption
  <1>4. A!BucketIds = {A!Bucket(t) : t \in Blocks}
    BY DEF A!BucketIds
  <1>5. IsFiniteSet(A!BucketIds)
    <2>1. MaxBlock \in Blocks /\ \A t \in Blocks : t <= MaxBlock
      BY CollectorAssumption DEF Blocks
    <2>2. A!BucketIds \subseteq 0..A!Bucket(MaxBlock)
      BY <1>1, <1>2, <1>3, <1>4, <2>1
    <2>3. IsFiniteSet(0..A!Bucket(MaxBlock))
      BY <1>1, <1>2, <2>1, FS_Interval
    <2> QED
      BY <2>2, <2>3, FS_Subset
  <1> QED
    BY <1>1, <1>2, <1>3, <1>4, <1>5

\* The buckets a sweep has to write, and those a pool has, have a first and a last.
LEMMA FirstLast ==
    ASSUME NEW f, A!Present(f) # {}
    PROVE  /\ A!Min(A!Present(f)) \in A!Present(f)
           /\ \A b \in A!Present(f) : A!Min(A!Present(f)) <= b
           /\ A!Max(A!Present(f)) \in A!Present(f)
           /\ \A b \in A!Present(f) : A!Max(A!Present(f)) >= b
  <1> DEFINE P == A!Present(f)
  <1>1. P \subseteq A!BucketIds
    BY DEF A!Present
  <1>2. P \in SUBSET Int /\ IsFiniteSet(P) /\ P # {}
    <2>1. P \in SUBSET A!BucketIds /\ IsFiniteSet(A!BucketIds)
      BY <1>1, BucketIs
    <2>2. IsFiniteSet(P)
      BY <2>1, FS_Subset
    <2>3. P # {}
      OBVIOUS
    <2>4. A!BucketIds \in SUBSET Int
      BY BucketIs
    <2> HIDE DEF P
    <2> QED
      BY <2>1, <2>2, <2>3, <2>4
  <1> HIDE DEF P
  <1>3. (\E x \in P : \A y \in P : x <= y) /\ (\E x \in P : \A y \in P : x >= y)
    BY <1>2, Least, Greatest
  <1>4. A!Min(P) \in P /\ (\A b \in P : A!Min(P) <= b)
    BY <1>3 DEF A!Min
  <1>5. A!Max(P) \in P /\ (\A b \in P : A!Max(P) >= b)
    BY <1>3 DEF A!Max
  <1> QED
    BY <1>4, <1>5 DEF P

\* The library's cardinality is the one the aggregator counts with.
LEMMA SameSize == \A S : A!Cardinality(S) = Cardinality(S)
  <1>1. \A S : A!IsFiniteSet(S) <=> IsFiniteSet(S)
    BY DEF A!IsFiniteSet, IsFiniteSet
  <1> QED
    BY <1>1 DEF A!Cardinality, Cardinality

\* The rows a bucket stands for.
Rows(S, p, b) == {l \in S : l[2] = p /\ A!Bucket(l[1]) = b}

\* A count is a number, no row counts nothing, more rows count no less.
LEMMA CountIs ==
    ASSUME NEW S \in SUBSET Logs, NEW p, NEW b
    PROVE  /\ IsFiniteSet({l \in S : l[2] = p})
           /\ A!CountIn(S, p, b) \in Nat
           /\ A!CountIn(S, p, b) = Cardinality(Rows(S, p, b))
           /\ Rows(S, p, b) = {} <=> A!CountIn(S, p, b) = 0
           /\ \A T \in SUBSET S : A!CountIn(T, p, b) <= A!CountIn(S, p, b)
  <1>1. \A T : A!CountIn(T, p, b) = Cardinality(Rows(T, p, b))
    BY SameSize DEF A!CountIn, Rows
  <1>2. IsFiniteSet(Blocks \X {p})
    <2>1. IsFiniteSet(Blocks)
      BY CollectorAssumption, FS_Interval DEF Blocks
    <2>2. IsFiniteSet({p})
      BY FS_Singleton
    <2> QED
      BY <2>1, <2>2, FS_Product
  <1>3. {l \in S : l[2] = p} \subseteq Blocks \X {p}
    BY DEF Logs
  <1>4. IsFiniteSet({l \in S : l[2] = p})
    BY <1>2, <1>3, FS_Subset
  <1>5. Rows(S, p, b) \subseteq {l \in S : l[2] = p}
    BY DEF Rows
  <1>6. IsFiniteSet(Rows(S, p, b))
    BY <1>4, <1>5, FS_Subset
  <1>7. Cardinality(Rows(S, p, b)) \in Nat
    BY <1>6, FS_CardinalityType
  <1>8. Rows(S, p, b) = {} <=> Cardinality(Rows(S, p, b)) = 0
    BY <1>6, FS_EmptySet
  <1>9. ASSUME NEW T \in SUBSET S
        PROVE  Cardinality(Rows(T, p, b)) <= Cardinality(Rows(S, p, b))
    <2>1. Rows(T, p, b) \subseteq Rows(S, p, b)
      BY DEF Rows
    <2> QED
      BY <1>6, <2>1, FS_Subset
  <1> QED
    BY <1>1, <1>4, <1>7, <1>8, <1>9

-----------------------------------------------------------------------------
(* Types.                                                                  *)

\* The first bucket a sweep still has to write.
LEMMA NextIs ==
    ASSUME NEW a, A!Writing(a)
    PROVE  /\ A!NextBucket(agg[a].pending) \in A!BucketIds
           /\ agg[a].pending[A!NextBucket(agg[a].pending)] # 0
           /\ \A b \in A!BucketIds :
                 agg[a].pending[b] # 0 => A!NextBucket(agg[a].pending) <= b
  <1>1. A!Present(agg[a].pending) # {}
    BY DEF A!Writing
  <1>2. A!NextBucket(agg[a].pending) = A!Min(A!Present(agg[a].pending))
    BY DEF A!NextBucket
  <1> QED
    BY <1>1, <1>2, FirstLast DEF A!Present, A!Absent

\* Every step of a sweep keeps the types.
LEMMA AggregatorTypeStep ==
    ASSUME CollectorTypeOK, A!AggregatorTypeOK, Aggregate
    PROVE  A!AggregatorTypeOK'
  <1> DEFINE Sweeper == [left : SUBSET Pools, pool : Pools \cup {A!AnyPool},
                         pending : [A!BucketIds -> Nat]]
  <1>0. /\ agg \in [Aggregators -> Sweeper]
        /\ buckets \in [Pools -> [A!BucketIds -> Nat]] /\ cut \in SUBSET (Pools \X A!BucketIds)
        /\ raw \in SUBSET Logs
    BY DEF A!AggregatorTypeOK, CollectorTypeOK
  <1>1. PICK a \in Aggregators :
           A!Sweep(a) \/ A!PoolFails(a) \/ A!AggregatorDies(a) \/ A!PruneRawLogs(a)
    BY DEF Aggregate, A!AggregatorStep
  <1>a. agg[a] \in Sweeper /\ A!NoBuckets \in [A!BucketIds -> Nat] /\ A!Idle \in Sweeper
    BY <1>0 DEF A!NoBuckets, A!Absent, A!Idle
  <1>2. CASE A!StartSweep(a)
    <2>1. [agg[a] EXCEPT !.left = Pools] \in Sweeper
      BY <1>a
    <2>2. agg' \in [Aggregators -> Sweeper]
      <3> HIDE DEF Sweeper
      <3> QED
        BY <1>0, <1>2, <2>1 DEF A!StartSweep
    <2> QED
      BY <1>0, <1>2, <2>2 DEF A!StartSweep, A!AggregatorTypeOK
  <1>3. ASSUME NEW p \in Pools, A!ReadPool(a, p) PROVE A!AggregatorTypeOK'
    <2> DEFINE counts == A!bucketize(A!RawLogsSince(p, A!LastBucket(p)), p)
               next == [left |-> agg[a].left \ {p}, pool |-> p, pending |-> counts]
    <2>1. A!RawLogsSince(p, A!LastBucket(p)) \in SUBSET Logs
      BY <1>0 DEF A!RawLogsSince
    <2>2. counts \in [A!BucketIds -> Nat]
      <3> DEFINE R == A!RawLogsSince(p, A!LastBucket(p))
      <3> HIDE DEF R
      <3>1. \A b \in A!BucketIds : A!CountIn(R, p, b) \in Nat
        BY <2>1, CountIs DEF R
      <3>2. A!bucketize(R, p) \in [A!BucketIds -> Nat]
        BY <3>1 DEF A!bucketize
      <3> QED
        BY <3>2 DEF R
    <2>3. agg[a].left \in SUBSET Pools
      BY <1>a
    <2>4. next \in Sweeper
      <3> HIDE DEF counts
      <3> QED
        BY <2>2, <2>3
    <2>5. agg' = [agg EXCEPT ![a] = next]
      BY <1>3 DEF A!ReadPool
    <2>6. agg' \in [Aggregators -> Sweeper]
      <3> HIDE DEF Sweeper, next
      <3> QED
        BY <1>0, <2>4, <2>5
    <2> QED
      BY <1>0, <1>3, <2>6 DEF A!ReadPool, A!AggregatorTypeOK
  <1>4. CASE A!WriteBucket(a)
    <2> DEFINE b == A!NextBucket(agg[a].pending)
               next == [agg[a] EXCEPT !.pending[b] = A!Absent]
    <2>1. b \in A!BucketIds /\ agg[a].pending[b] \in Nat
      BY <1>4, <1>a, NextIs DEF A!WriteBucket
    <2>2. /\ buckets' = [buckets EXCEPT ![agg[a].pool][b] = agg[a].pending[b]]
          /\ agg' = [agg EXCEPT ![a] = next]
      BY <1>4 DEF A!WriteBucket, A!UpsertBucket
    <2> HIDE DEF b
    <2>3. next \in Sweeper
      BY <1>a, <2>1 DEF A!Absent
    <2>4. agg' \in [Aggregators -> Sweeper]
      <3> HIDE DEF Sweeper, next
      <3> QED
        BY <1>0, <2>2, <2>3
    <2>5. buckets' \in [Pools -> [A!BucketIds -> Nat]]
      BY <1>0, <2>1, <2>2
    <2> QED
      BY <1>0, <1>4, <2>4, <2>5 DEF A!WriteBucket, A!AggregatorTypeOK
  <1>5. CASE A!PoolFails(a)
    <2> DEFINE next == [agg[a] EXCEPT !.pending = A!NoBuckets, !.pool = A!AnyPool]
    <2>1. next \in Sweeper
      BY <1>a
    <2>2. agg' = [agg EXCEPT ![a] = next]
      BY <1>5 DEF A!PoolFails
    <2>3. agg' \in [Aggregators -> Sweeper]
      <3> HIDE DEF Sweeper, next
      <3> QED
        BY <1>0, <2>1, <2>2
    <2> QED
      BY <1>0, <1>5, <2>3 DEF A!PoolFails, A!AggregatorTypeOK
  <1>6. CASE A!AggregatorDies(a)
    <2>1. agg' \in [Aggregators -> Sweeper]
      <3> HIDE DEF Sweeper
      <3> QED
        BY <1>0, <1>a, <1>6 DEF A!AggregatorDies
    <2> QED
      BY <1>0, <1>6, <2>1 DEF A!AggregatorDies, A!AggregatorTypeOK
  <1>7. CASE A!PruneRawLogs(a)
    <2>1. \A l \in raw : l[2] \in Pools /\ A!Bucket(l[1]) \in A!BucketIds
      BY <1>0, BucketIs DEF Logs
    <2>2. cut' \in SUBSET (Pools \X A!BucketIds)
      BY <1>0, <1>7, <2>1 DEF A!PruneRawLogs
    <2> QED
      BY <1>0, <1>7, <2>2 DEF A!PruneRawLogs, A!AggregatorTypeOK
  <1> QED
    BY <1>1, <1>2, <1>3, <1>4, <1>5, <1>6, <1>7 DEF A!Sweep

\* The variables keep their types: cursors stay in the chain, counts are numbers.
THEOREM TypeCorrect == Spec => []TypeOK
  <1>1. Init => A!AggregatorTypeOK
    BY DEF Init, A!AggregatorInit, A!AggregatorTypeOK, A!Idle, A!NoBuckets, A!Absent
  <1>2. RawInv /\ A!AggregatorTypeOK /\ [Next]_vars => A!AggregatorTypeOK'
    <2> SUFFICES ASSUME RawInv, A!AggregatorTypeOK, [Next]_vars PROVE A!AggregatorTypeOK'
      OBVIOUS
    <2>1. CASE Aggregate
      BY <2>1, AggregatorTypeStep DEF RawInv
    <2>2. CASE UNCHANGED aggregatorOnly
      BY <2>2 DEF aggregatorOnly, A!AggregatorTypeOK
    <2> QED
      BY <2>1, <2>2 DEF Next, Collect, vars, aggregatorOnly
  <1>3. RawInv /\ A!AggregatorTypeOK => TypeOK
    BY DEF RawInv, TypeOK
  <1> QED
    BY <1>1, <1>2, <1>3, RawInductive, PTL DEF Spec

-----------------------------------------------------------------------------
(* No row is counted twice.                                                *)

\* What a sweep is about to write is stored, too.
PendingReal ==
    \A a \in Aggregators : \A b \in A!BucketIds :
        agg[a].pending[b] <= A!CountIn(Stored, agg[a].pool, b)

\* Rows are not forgotten, so counts do not shrink.
LEMMA CountGrows ==
    ASSUME RawInv, CollectorTypeOK', [Next]_vars
    PROVE  \A p : \A b : /\ A!CountIn(Stored, p, b) \in Nat /\ A!CountIn(Stored', p, b) \in Nat
                        /\ A!CountIn(Stored, p, b) <= A!CountIn(Stored', p, b)
  <1>1. Stored \in SUBSET Stored' /\ Stored \in SUBSET Logs /\ Stored' \in SUBSET Logs
    BY Grows DEF RawInv, CollectorTypeOK, Stored
  <1> QED
    BY <1>1, CountIs

\* No step makes a bucket count a row twice.
LEMMA CountStep ==
    ASSUME RawInv, CollectorTypeOK', A!AggregatorTypeOK, NoOvercount, PendingReal, [Next]_vars
    PROVE  NoOvercount' /\ PendingReal'
  <1> DEFINE C(p, b) == A!CountIn(Stored, p, b)
             D(p, b) == A!CountIn(Stored', p, b)
  <1>0. /\ \A p : \A b : C(p, b) \in Nat /\ D(p, b) \in Nat /\ C(p, b) <= D(p, b)
        /\ buckets \in [Pools -> [A!BucketIds -> Nat]]
        /\ agg \in [Aggregators -> [left : SUBSET Pools, pool : Pools \cup {A!AnyPool},
                                    pending : [A!BucketIds -> Nat]]]
        /\ \A p \in Pools : \A b \in A!BucketIds : buckets[p][b] <= C(p, b)
        /\ \A a \in Aggregators : \A b \in A!BucketIds : agg[a].pending[b] <= C(agg[a].pool, b)
    BY CountGrows DEF A!AggregatorTypeOK, NoOvercount, PendingReal
  <1> HIDE DEF C, D
  <1>1. \A a \in Aggregators : agg'[a] = agg[a] =>
           \A b \in A!BucketIds : agg'[a].pending[b] <= D(agg'[a].pool, b)
    BY <1>0
  <1>2. SUFFICES /\ \A p \in Pools : \A b \in A!BucketIds : buckets'[p][b] <= D(p, b)
                 /\ \A a \in Aggregators : \A b \in A!BucketIds :
                       agg'[a].pending[b] <= D(agg'[a].pool, b)
    BY DEF NoOvercount, PendingReal, D
  <1>3. CASE UNCHANGED aggregatorOnly
    BY <1>0, <1>3 DEF aggregatorOnly
  <1>4. ASSUME NEW a \in Aggregators, NEW p \in Pools, A!ReadPool(a, p)
        PROVE  /\ UNCHANGED buckets
               /\ \A c \in Aggregators : \A b \in A!BucketIds :
                    agg'[c].pending[b] <= D(agg'[c].pool, b)
    <2> DEFINE R == A!RawLogsSince(p, A!LastBucket(p))
    <2>1. /\ agg' = [agg EXCEPT ![a] = [left |-> agg[a].left \ {p}, pool |-> p,
                                       pending |-> A!bucketize(R, p)]]
          /\ UNCHANGED buckets
      BY <1>4 DEF A!ReadPool
    <2>2. R \in SUBSET Stored /\ Stored \in SUBSET Logs
      BY DEF A!RawLogsSince, RawInv, CollectorTypeOK, Stored
    <2> HIDE DEF R
    <2>3. \A b : A!CountIn(R, p, b) <= C(p, b) /\ A!CountIn(R, p, b) \in Nat
      BY <2>2, CountIs DEF C
    <2>4. \A b \in A!BucketIds : A!bucketize(R, p)[b] = A!CountIn(R, p, b)
      BY DEF A!bucketize
    <2>5. \A b \in A!BucketIds : A!bucketize(R, p)[b] <= D(p, b)
      BY <1>0, <2>3, <2>4
    <2>6. agg'[a].pool = p /\ agg'[a].pending = A!bucketize(R, p)
      BY <1>0, <2>1
    <2>7. \A c \in Aggregators : c # a => agg'[c] = agg[c]
      BY <1>0, <2>1
    <2> QED
      BY <1>1, <2>1, <2>5, <2>6, <2>7
  <1>5. ASSUME NEW a \in Aggregators, A!WriteBucket(a)
        PROVE  /\ \A p \in Pools : \A b \in A!BucketIds : buckets'[p][b] <= D(p, b)
               /\ \A c \in Aggregators : \A b \in A!BucketIds :
                    agg'[c].pending[b] <= D(agg'[c].pool, b)
    <2> DEFINE n == A!NextBucket(agg[a].pending)
    <2>1. n \in A!BucketIds
      BY <1>5, NextIs DEF A!WriteBucket
    <2>2. /\ buckets' = [buckets EXCEPT ![agg[a].pool][n] = agg[a].pending[n]]
          /\ agg' = [agg EXCEPT ![a].pending[n] = 0]
      BY <1>5 DEF A!WriteBucket, A!UpsertBucket, A!Absent
    <2> HIDE DEF n
    <2>3. ASSUME NEW p \in Pools, NEW b \in A!BucketIds PROVE buckets'[p][b] <= D(p, b)
      <3>1. CASE p = agg[a].pool /\ b = n
        <4>1. buckets'[p][b] = agg[a].pending[n]
          BY <1>0, <2>1, <2>2, <3>1
        <4>2. agg[a].pending[n] \in Nat /\ agg[a].pending[n] <= C(p, b)
          BY <1>0, <2>1, <3>1
        <4> QED
          BY <1>0, <4>1, <4>2
      <3>2. CASE ~(p = agg[a].pool /\ b = n)
        <4>1. buckets'[p][b] = buckets[p][b]
          BY <1>0, <2>1, <2>2, <3>2
        <4>2. buckets[p][b] \in Nat /\ buckets[p][b] <= C(p, b)
          BY <1>0
        <4> QED
          BY <1>0, <4>1, <4>2
      <3> QED
        BY <3>1, <3>2
    <2>4. /\ agg'[a].pool = agg[a].pool
          /\ agg'[a].pending = [agg[a].pending EXCEPT ![n] = 0]
          /\ \A c \in Aggregators : c # a => agg'[c] = agg[c]
      BY <1>0, <2>2
    <2>5. ASSUME NEW b \in A!BucketIds PROVE agg'[a].pending[b] <= D(agg'[a].pool, b)
      <3>1. agg[a].pending \in [A!BucketIds -> Nat]
        BY <1>0
      <3>2. agg'[a].pending[b] = 0 \/ agg'[a].pending[b] = agg[a].pending[b]
        BY <2>4, <3>1
      <3>3. agg[a].pending[b] \in Nat /\ agg[a].pending[b] <= C(agg[a].pool, b)
        BY <1>0, <3>1
      <3> QED
        BY <1>0, <2>4, <3>2, <3>3
    <2> QED
      BY <1>1, <2>3, <2>4, <2>5
  <1>6. ASSUME NEW a \in Aggregators,
               A!StartSweep(a) \/ A!PoolFails(a) \/ A!AggregatorDies(a) \/ A!PruneRawLogs(a)
        PROVE  /\ UNCHANGED buckets
               /\ \A c \in Aggregators : \A b \in A!BucketIds :
                    agg'[c].pending[b] <= D(agg'[c].pool, b)
    <2>1. UNCHANGED buckets /\ \A c \in Aggregators : c # a => agg'[c] = agg[c]
      BY <1>0, <1>6 DEF A!StartSweep, A!PoolFails, A!AggregatorDies, A!PruneRawLogs
    <2>2. \/ agg'[a].pool = agg[a].pool /\ agg'[a].pending = agg[a].pending
          \/ agg'[a].pending = A!NoBuckets
      BY <1>0, <1>6 DEF A!StartSweep, A!PoolFails, A!AggregatorDies, A!PruneRawLogs, A!Idle
    <2>3. \A b \in A!BucketIds : agg'[a].pending[b] <= D(agg'[a].pool, b)
      BY <1>0, <2>2 DEF A!NoBuckets, A!Absent
    <2> QED
      BY <1>1, <2>1, <2>3
  <1>7. CASE Aggregate
    BY <1>0, <1>4, <1>5, <1>6, <1>7 DEF Aggregate, A!AggregatorStep, A!Sweep
  <1> QED
    BY <1>3, <1>7 DEF Next, Collect, vars, aggregatorOnly

LEMMA CountInit == Init => NoOvercount /\ PendingReal
  <1> SUFFICES ASSUME Init PROVE NoOvercount /\ PendingReal
    OBVIOUS
  <1>1. Stored \in SUBSET Logs /\ \A p : \A b : A!CountIn(Stored, p, b) \in Nat
    BY CountIs DEF Init, CollectorInit, Stored
  <1> QED
    BY <1>1 DEF Init, A!AggregatorInit, A!Idle, A!NoBuckets, A!Absent, NoOvercount, PendingReal

\* No bucket counts a swap twice, for any number of aggregators and backfills at once,
\* whatever is read again, retried, cut off by the row cap or pruned.
THEOREM NoneCountedTwice == Spec => []NoOvercount
  <1>1. RawInv /\ RawInv' /\ TypeOK /\ NoOvercount /\ PendingReal /\ [Next]_vars
            => NoOvercount' /\ PendingReal'
    BY CountStep DEF RawInv, TypeOK
  <1> QED
    BY <1>1, CountInit, RawInductive, TypeCorrect, PTL DEF Spec

-----------------------------------------------------------------------------
(* A bucket left behind is exact, where the loops run alone.               *)

\* No backfill and no second aggregator is at work, and the node never falls back.
Alone == Backfills = {} /\ MaxLag = 0 /\ \A a, c \in Aggregators : a = c

\* The first block the next scan will ask for, or a later one.
Resume ==
    IF cursor # NoCursor THEN cursor + 1
    ELSE IF head - Confirmations > ColdStart THEN head - Confirmations - ColdStart
    ELSE 0

\* Of the blocks from this one to a stored row none is missing.
Front(n) == \A l \in Stored : \A b \in n..l[1] : Held(b)

\* The collector fills no gaps: what it asks for is stored already or newer than all
\* that is.
FrontInv ==
    /\ Front(Resume)
    /\ worker[Live].pc \in {"head", "insert", "advance"} =>
          /\ worker[Live].cold <=> cursor = NoCursor
          /\ ~worker[Live].cold => worker[Live].next = cursor + 1
    /\ worker[Live].pc \in {"insert", "advance"} =>
          worker[Live].next <= Resume /\ Front(worker[Live].next)

\* A front stays one, and holds further on.
LEMMA FrontStays ==
    ASSUME RawInv, CollectorTypeOK', [Next]_vars, NEW n \in Nat, NEW m \in Nat, n <= m,
           Front(n), Stored' = Stored
    PROVE  \A l \in Stored' : \A b \in m..l[1] : Held(b)'
  <1> SUFFICES ASSUME NEW l \in Stored, NEW b \in m..l[1] PROVE Held(b)'
    OBVIOUS
  <1>1. l[1] \in Nat
    BY DEF RawInv, CollectorTypeOK, Stored, Logs, Blocks
  <1>2. b \in Nat /\ b \in n..l[1]
    BY <1>1
  <1> QED
    BY <1>2, HeldStays DEF Front

LEMMA ResumeType == CollectorTypeOK => Resume \in Nat
  BY CollectorAssumption DEF CollectorTypeOK, Resume, Blocks, NoCursor

\* The chain's growth moves the place to resume at forward only.
LEMMA ResumeGrows ==
    ASSUME RawInv, CollectorTypeOK', [Next]_vars, UNCHANGED cursor
    PROVE  Resume <= Resume'
  <1> DEFINE h == head
             i == head'
  <1>1. h \in Int /\ i \in Int /\ (i = h \/ i = h + 1) /\ cursor \in Int
    BY Grows, CollectorAssumption DEF RawInv, CollectorTypeOK, Blocks, NoCursor
  <1>2. /\ Resume = IF cursor # NoCursor THEN cursor + 1
                     ELSE IF h - Confirmations > ColdStart THEN h - Confirmations - ColdStart ELSE 0
        /\ Resume' = IF cursor # NoCursor THEN cursor + 1
                      ELSE IF i - Confirmations > ColdStart THEN i - Confirmations - ColdStart ELSE 0
    BY DEF Resume
  <1> HIDE DEF h, i
  <1> QED
    BY <1>1, <1>2, CollectorAssumption

\* Every step keeps the front.
LEMMA FrontStep ==
    ASSUME RawInv, RawInv', FrontInv, [Next]_vars, Backfills = {}, MaxLag = 0
    PROVE  FrontInv'
  <1> USE CollectorAssumption
  <1>0. /\ CollectorTypeOK /\ CollectorTypeOK' /\ ScanInv(Live) /\ ScanInv(Live)'
        /\ Workers = {Live} /\ worker \in [Workers -> Scan] /\ worker[Live] \in Scan
        /\ Resume \in Nat /\ Resume' \in Nat /\ cursor \in Int
    <2>1. Workers = {Live} /\ Live \in Workers
      BY DEF Workers
    <2>2. CollectorTypeOK /\ CollectorTypeOK' /\ ScanInv(Live) /\ ScanInv(Live)'
      BY <2>1 DEF RawInv
    <2>3. worker \in [Workers -> Scan] /\ worker[Live] \in Scan /\ cursor \in Int
      BY <2>1, <2>2 DEF CollectorTypeOK, Blocks, NoCursor
    <2>4. Resume \in Nat
      BY <2>2, ResumeType
    <2>5. Resume' \in Nat
      <3> DEFINE i == head'
                 c == cursor'
      <3>1. i \in Int /\ c \in Int /\ (c # NoCursor => c \in Nat)
        BY <2>2 DEF CollectorTypeOK, Blocks, NoCursor
      <3>2. Resume' = IF c # NoCursor THEN c + 1
                      ELSE IF i - Confirmations > ColdStart THEN i - Confirmations - ColdStart
                      ELSE 0
        BY DEF Resume
      <3> HIDE DEF i, c
      <3> QED
        BY <3>1, <3>2
    <2> QED
      BY <2>1, <2>2, <2>3, <2>4, <2>5
  <1>1. CASE worker'[Live] = worker[Live] /\ cursor' = cursor /\ Stored' = Stored
    <2>1. Resume <= Resume'
      BY <1>0, <1>1, ResumeGrows
    <2>2. Front(Resume)'
      BY <1>0, <1>1, <2>1, FrontStays DEF FrontInv, Front
    <2>3. worker[Live].pc \in {"insert", "advance"} =>
             worker[Live].next <= Resume' /\ Front(worker[Live].next)'
      <3> SUFFICES ASSUME worker[Live].pc \in {"insert", "advance"}
                   PROVE  worker[Live].next <= Resume' /\ Front(worker[Live].next)'
        OBVIOUS
      <3>1. worker[Live].next \in Nat /\ worker[Live].next <= Resume /\ Front(worker[Live].next)
        BY <1>0 DEF FrontInv, Scan
      <3>2. \A l \in Stored' : \A b \in worker[Live].next..l[1] : Held(b)'
        BY <1>0, <1>1, <3>1, FrontStays
      <3> QED
        BY <1>0, <1>1, <2>1, <3>1, <3>2 DEF Front
    <2> QED
      BY <1>1, <2>2, <2>3 DEF FrontInv
  <1>2. CASE /\ worker'[Live].pc \notin {"head", "insert", "advance"}
             /\ UNCHANGED <<head, cursor>> /\ Stored' = Stored
    <2>1. Resume' = Resume
      BY <1>2 DEF Resume
    <2>2. \A l \in Stored' : \A b \in Resume..l[1] : Held(b)'
      BY <1>0, <1>2, FrontStays DEF FrontInv
    <2>3. Front(Resume)'
      BY <2>1, <2>2 DEF Front
    <2> QED
      BY <1>2, <2>3 DEF FrontInv
  <1>3. CASE GetCursor(Live)
    <2>1. /\ worker'[Live].pc = "head" /\ worker'[Live].next = cursor + 1
          /\ worker'[Live].cold = (cursor = NoCursor) /\ cursor' = cursor
          /\ Stored' = Stored /\ head' = head
      BY <1>0, <1>3 DEF GetCursor, Scan, Stored, chainVars
    <2>2. Front(Resume)'
      <3>1. Resume' = Resume
        BY <2>1 DEF Resume
      <3>2. \A l \in Stored' : \A b \in Resume..l[1] : Held(b)'
        BY <1>0, <2>1, FrontStays DEF FrontInv
      <3> QED
        BY <3>1, <3>2 DEF Front
    <2> QED
      BY <2>1, <2>2 DEF FrontInv
  <1>4. ASSUME NEW latest \in Latest, LatestBlock(Live, latest) PROVE FrontInv'
    <2> DEFINE to == FinalHead(latest)
               from == FirstBlock(Live, to)
    <2>1. latest = head /\ head \in Int /\ to = head - Confirmations /\ to \in Int
      BY <1>0 DEF Latest, FinalHead, CollectorTypeOK, Blocks
    <2>2. /\ worker[Live].pc = "head" /\ UNCHANGED <<head, cursor>> /\ Stored' = Stored
          /\ worker' = [worker EXCEPT ![Live] =
                IF to < 0 THEN Returned(Live)
                ELSE IF from > to THEN [Returned(Live) EXCEPT !.to = to]
                ELSE [@ EXCEPT !.pc = "insert", !.next = from, !.to = to]]
      BY <1>4 DEF LatestBlock, chainVars, Stored
    <2>3. from = Resume
      BY <2>1, <2>2 DEF FirstBlock, Resume, FrontInv
    <2>4. CASE to >= 0 /\ from <= to
      <3>1. /\ worker'[Live].pc = "insert" /\ worker'[Live].next = from
            /\ worker'[Live].cold = worker[Live].cold
        BY <1>0, <2>1, <2>2, <2>3, <2>4 DEF Scan
      <3>2. Resume' = Resume
        BY <2>2 DEF Resume
      <3>3. \A l \in Stored' : \A b \in Resume..l[1] : Held(b)'
        BY <1>0, <2>2, FrontStays DEF FrontInv
      <3>4. Front(Resume)' /\ Front(worker[Live].next)'
        BY <2>3, <3>1, <3>2, <3>3 DEF Front
      <3>5. /\ worker[Live].cold <=> cursor = NoCursor
            /\ ~worker[Live].cold => from = cursor + 1
        BY <2>2, <2>3 DEF FrontInv, Resume
      <3>6. worker'[Live].next <= Resume'
        BY <1>0, <2>3, <3>1, <3>2
      <3> QED
        BY <2>2, <3>1, <3>4, <3>5, <3>6 DEF FrontInv
    <2>5. CASE ~(to >= 0 /\ from <= to)
      <3>1. worker'[Live].pc \in {"idle", "done"}
        BY <1>0, <2>1, <2>2, <2>3, <2>5 DEF Scan, Returned
      <3> QED
        BY <1>2, <2>2, <3>1
    <2> QED
      BY <2>4, <2>5
  <1>5. CASE InsertRawLogs(Live)
    <2> DEFINE n == worker[Live].next
               e == ChunkEnd(Live)
    <2>1. /\ worker[Live].pc = "insert" /\ worker'[Live] = [worker[Live] EXCEPT !.pc = "advance"]
          /\ Stored' = Stored \cup LogsIn(n, e) /\ UNCHANGED <<head, cursor>>
      BY <1>0, <1>5 DEF InsertRawLogs, Stored, chainVars
    <2>2. /\ worker'[Live].pc = "advance" /\ worker'[Live].next = n
          /\ worker'[Live].to = worker[Live].to /\ worker'[Live].cold = worker[Live].cold
      BY <1>0, <2>1 DEF Scan
    <2>3. /\ n \in Nat /\ n <= Resume /\ Front(n) /\ worker[Live].to \in Nat
          /\ n <= worker[Live].to
      BY <1>0, <2>1 DEF FrontInv, Scan, ScanInv, Bounded
    <2>4. e \in Nat
      BY <1>0, <2>3, ChunkIs
    <2>5. \A b \in n..e : Held(b)'
      <3>1. ChunkEnd(Live)' = e
        BY <2>2 DEF ChunkEnd
      <3> QED
        BY <1>0, <2>2, <3>1 DEF ScanInv, ChunkStored
    <2>6. \A l \in Stored' : l[1] \in Nat
      BY <1>0 DEF CollectorTypeOK, Stored, Logs, Blocks
    <2> HIDE DEF n, e
    <2>7. \A l \in Stored' : \A b \in n..l[1] : Held(b)'
      <3> SUFFICES ASSUME NEW l \in Stored', NEW b \in n..l[1] PROVE Held(b)'
        OBVIOUS
      <3>1. b \in Nat /\ l[1] \in Nat
        BY <2>3, <2>6
      <3>2. CASE l \in Stored
        <4>1. Held(b)
          BY <2>3, <3>2 DEF Front
        <4> QED
          BY <1>0, <3>1, <4>1, HeldStays
      <3>3. CASE l \in LogsIn(n, e)
        <4>1. l[1] <= e
          BY <2>3, <2>4, <3>3 DEF LogsIn
        <4>2. b \in n..e
          BY <2>3, <2>4, <3>1, <4>1
        <4> QED
          BY <2>5, <4>2
      <3> QED
        BY <2>1, <3>2, <3>3
    <2>8. Resume' = Resume
      BY <2>1 DEF Resume
    <2>9. \A l \in Stored' : \A b \in Resume..l[1] : b \in n..l[1]
      BY <1>0, <2>3, <2>6
    <2>10. Front(Resume)' /\ Front(worker[Live].next)'
      BY <2>2, <2>7, <2>8, <2>9 DEF Front
    <2>11. /\ worker[Live].cold <=> cursor = NoCursor
           /\ ~worker[Live].cold => n = cursor + 1
      BY <2>1 DEF FrontInv, n
    <2> QED
      BY <2>1, <2>2, <2>3, <2>8, <2>10, <2>11 DEF FrontInv
  <1>6. CASE AdvanceCursor(Live)
    <2> DEFINE n == worker[Live].next
               e == ChunkEnd(Live)
    <2>1. /\ worker[Live].pc = "advance" /\ cursor' = e /\ Stored' = Stored
          /\ worker' = [worker EXCEPT ![Live] =
                IF e = worker[Live].to THEN Returned(Live)
                ELSE [worker[Live] EXCEPT !.pc = "insert", !.next = e + 1, !.cold = FALSE]]
      BY <1>6 DEF AdvanceCursor, NextChunk, Stored
    <2>2. /\ n \in Nat /\ Front(n) /\ worker[Live].to \in Nat /\ n <= worker[Live].to
      BY <1>0, <2>1 DEF FrontInv, Scan, ScanInv, Bounded
    <2>3. e \in Nat /\ n <= e
      BY <1>0, <2>2, ChunkIs
    <2> HIDE DEF n, e
    <2>4. e # NoCursor /\ e + 1 \in Nat /\ n <= e + 1
      BY <2>2, <2>3 DEF NoCursor
    <2>5. Resume' = e + 1
      BY <2>1, <2>4 DEF Resume
    <2>6. \A l \in Stored' : \A b \in (e + 1)..l[1] : Held(b)'
      BY <1>0, <2>1, <2>2, <2>4, FrontStays
    <2>7. Front(Resume)'
      BY <2>5, <2>6 DEF Front
    <2>8. CASE e = worker[Live].to
      <3>1. worker'[Live].pc \in {"idle", "done"}
        BY <1>0, <2>1, <2>8 DEF Returned, Scan
      <3> QED
        BY <2>7, <3>1 DEF FrontInv
    <2>9. CASE e # worker[Live].to
      <3>1. worker'[Live].pc = "insert" /\ worker'[Live].next = e + 1 /\ ~worker'[Live].cold
        BY <1>0, <2>1, <2>9 DEF Scan
      <3>2. Front(worker[Live].next)'
        BY <2>6, <3>1 DEF Front
      <3>3. worker'[Live].next <= Resume'
        BY <2>4, <2>5, <3>1
      <3>4. cursor' # NoCursor
        BY <2>1, <2>4
      <3> QED
        BY <2>1, <2>7, <3>1, <3>2, <3>3, <3>4 DEF FrontInv
    <2> QED
      BY <2>8, <2>9
  <1>7. CASE ScanFails(Live)
    <2>1. worker'[Live] = Rest /\ UNCHANGED <<head, cursor>> /\ Stored' = Stored
      BY <1>0, <1>7 DEF ScanFails, chainVars, Stored
    <2> QED
      BY <1>2, <2>1 DEF Rest
  <1>8. CASE CollectorStep
    <2>1. CASE MineBlock \/ \E b \in 1..head : Reorg(b)
      BY <1>1, <2>1 DEF MineBlock, Reorg, Stored
    <2>2. CASE RunOnce(Live) \/ ScanFails(Live)
      BY <2>2, <1>3, <1>4, <1>5, <1>6, <1>7 DEF RunOnce
    <2> QED
      BY <1>0, <1>8, <2>1, <2>2 DEF CollectorStep
  <1>9. CASE Aggregate
    BY <1>1, <1>9, AggregateKeeps
  <1>10. CASE UNCHANGED vars
    BY <1>1, <1>10 DEF vars, Stored
  <1> QED
    BY <1>8, <1>9, <1>10 DEF Next, Collect

\* So a new row is newer than all that are stored.
LEMMA NewRows ==
    ASSUME RawInv, FrontInv, [Next]_vars, Backfills = {}
    PROVE  \A l \in Stored' \ Stored : l \in Logs /\ \A s \in Stored : s[1] < l[1]
  <1>1. CASE Stored' = Stored
    BY <1>1
  <1>2. CASE InsertRawLogs(Live)
    <2> DEFINE n == worker[Live].next
    <2>1. /\ Stored' = Stored \cup LogsIn(n, ChunkEnd(Live))
          /\ worker[Live].pc = "insert"
      BY <1>2 DEF InsertRawLogs, Stored
    <2>2. n \in Nat /\ Front(n)
      BY <2>1 DEF FrontInv, RawInv, CollectorTypeOK, Workers, Scan
    <2>3. \A s \in Stored : s[1] \in Nat
      BY DEF RawInv, CollectorTypeOK, Stored, Logs, Blocks
    <2> HIDE DEF n
    <2>4. ASSUME NEW l \in LogsIn(n, ChunkEnd(Live)), l \notin Stored, NEW s \in Stored
          PROVE  s[1] < l[1]
      <3>1. l \in Logs /\ l[1] \in Nat /\ n <= l[1] /\ l[2] \in chain[l[1]]
        BY <2>2 DEF LogsIn, Logs, Blocks
      <3>2. CASE l[1] <= s[1]
        <4>1. l[1] \in n..s[1]
          BY <2>2, <2>3, <3>1, <3>2
        <4>2. Held(l[1])
          BY <2>2, <4>1 DEF Front
        <4>3. <<l[1], l[2]>> \in Stored
          BY <3>1, <4>2 DEF Held
        <4>4. l = <<l[1], l[2]>>
          BY <3>1 DEF Logs
        <4> QED
          BY <2>4, <4>3, <4>4
      <3> QED
        BY <2>3, <3>1, <3>2
    <2> QED
      BY <2>1, <2>4 DEF LogsIn
  <1>3. CASE CollectorStep
    <2>1. CASE MineBlock \/ \E b \in 1..head : Reorg(b)
      BY <1>1, <2>1 DEF MineBlock, Reorg, Stored
    <2>2. CASE GetCursor(Live)
      BY <1>1, <2>2 DEF GetCursor, Stored
    <2>3. ASSUME NEW latest \in Latest, LatestBlock(Live, latest) PROVE Stored' = Stored
      BY <2>3 DEF LatestBlock, Stored
    <2>4. CASE AdvanceCursor(Live)
      BY <1>1, <2>4 DEF AdvanceCursor, Stored
    <2>5. CASE ScanFails(Live)
      BY <1>1, <2>5 DEF ScanFails, Stored
    <2> QED
      BY <1>1, <1>2, <1>3, <2>1, <2>2, <2>3, <2>4, <2>5 DEF CollectorStep, RunOnce, Workers
  <1>4. CASE Aggregate
    BY <1>1, <1>4, AggregateKeeps
  <1>5. CASE UNCHANGED vars
    BY <1>1, <1>5 DEF vars, Stored
  <1> QED
    BY <1>3, <1>4, <1>5 DEF Next, Collect

LEMMA FrontInit == Init => FrontInv
  BY DEF Init, CollectorInit, FrontInv, Front, Stored, Rest, Workers

-----------------------------------------------------------------------------
\* Rows that were pruned are of buckets left behind or on record as cut.
CutInv ==
    \A l \in deleted :
        A!Bucket(l[1]) < LastBucket(l[2]) \/ <<l[2], A!Bucket(l[1])>> \in cut

\* What a sweep has in hand: buckets from the last one on, and below one it will write
\* each bucket is exact or about to be.
PendingExact(a) ==
    LET p == agg[a].pool IN
    p \in Pools =>
        \A b \in A!BucketIds : agg[a].pending[b] # 0 =>
            /\ LastBucket(p) <= b
            /\ \A c \in A!BucketIds :
                  LastBucket(p) <= c /\ c < b /\ <<p, c>> \notin cut =>
                      A!CountIn(Stored, p, c) =
                          IF agg[a].pending[c] = 0 THEN buckets[p][c] ELSE agg[a].pending[c]

PendingInv == \A a \in Aggregators : PendingExact(a)

ExactInv == CutInv /\ PendingInv /\ ClosedExact

\* The last bucket of a pool.
LEMMA LastIs ==
    ASSUME NEW p
    PROVE  /\ LastBucket(p) \in Int
           /\ \A b \in A!BucketIds : buckets[p][b] # 0 => b <= LastBucket(p)
           /\ \/ LastBucket(p) \in A!BucketIds /\ buckets[p][LastBucket(p)] # 0
              \/ LastBucket(p) = -1 /\ \A b \in A!BucketIds : buckets[p][b] = 0
  <1> DEFINE P == A!Present(buckets[p])
  <1>1. LastBucket(p) = IF P = {} THEN -1 ELSE A!Max(P)
    BY DEF LastBucket, A!LastBucket, A!NoBucket
  <1>2. P = {b \in A!BucketIds : buckets[p][b] # 0}
    BY DEF A!Present, A!Absent
  <1>3. P # {} => A!Max(P) \in P /\ \A b \in P : A!Max(P) >= b
    BY FirstLast
  <1>4. A!BucketIds \in SUBSET Nat
    BY BucketIs
  <1> HIDE DEF P
  <1>5. CASE P = {}
    BY <1>1, <1>2, <1>5
  <1>6. CASE P # {}
    <2>1. LastBucket(p) \in P /\ \A b \in P : LastBucket(p) >= b
      BY <1>1, <1>3, <1>6
    <2>2. \A b \in A!BucketIds : b \in Int
      BY <1>4
    <2>3. LastBucket(p) \in A!BucketIds /\ buckets[p][LastBucket(p)] # 0
      BY <1>2, <2>1
    <2>4. \A b \in A!BucketIds : buckets[p][b] # 0 => b <= LastBucket(p)
      BY <1>2, <2>1, <2>2, <2>3
    <2> QED
      BY <2>2, <2>3, <2>4
  <1> QED
    BY <1>5, <1>6

\* A bucket below one that has a row keeps its rows: new ones are later.
LEMMA BelowKept ==
    ASSUME RawInv, \A l \in Stored' \ Stored : l \in Logs /\ \A s \in Stored : s[1] < l[1],
           Stored \subseteq Stored', NEW p, NEW q, NEW b \in Int, NEW c \in Int, c < b,
           A!CountIn(Stored, q, b) # 0
    PROVE  A!CountIn(Stored', p, c) = A!CountIn(Stored, p, c)
  <1>1. Stored \in SUBSET Logs /\ \A l \in Logs : l[1] \in Blocks
    BY DEF RawInv, CollectorTypeOK, Stored, Logs
  <1>2. PICK s \in Stored : A!Bucket(s[1]) = b
    BY <1>1, CountIs DEF Rows
  <1>3. \A l \in Stored' \ Stored : A!Bucket(l[1]) # c
    <2> SUFFICES ASSUME NEW l \in Stored' \ Stored PROVE A!Bucket(l[1]) # c
      OBVIOUS
    <2>1. s[1] \in Blocks /\ l[1] \in Blocks /\ s[1] < l[1]
      BY <1>1
    <2>2. s[1] <= l[1]
      BY <2>1 DEF Blocks
    <2>3. b <= A!Bucket(l[1])
      BY <1>2, <2>1, <2>2, BucketIs
    <2> QED
      BY <2>3
  <1>4. {l \in Stored' : l[2] = p /\ A!Bucket(l[1]) = c}
           = {l \in Stored : l[2] = p /\ A!Bucket(l[1]) = c}
    BY <1>3
  <1> QED
    BY <1>4 DEF A!CountIn

\* The collector's steps keep it: what they store is newer than any bucket that counts.
LEMMA ExactCollect ==
    ASSUME RawInv, CollectorTypeOK', A!AggregatorTypeOK, FrontInv, [Next]_vars, Backfills = {},
           NoOvercount, PendingReal, ExactInv, UNCHANGED <<deleted, buckets, agg, cut>>
    PROVE  ExactInv'
  <1>1. /\ \A l \in Stored' \ Stored : l \in Logs /\ \A s \in Stored : s[1] < l[1]
        /\ Stored \subseteq Stored'
    BY NewRows, Grows
  <1>2. \A p : LastBucket(p)' = LastBucket(p)
    BY DEF LastBucket, A!LastBucket
  <1>3. CutInv'
    BY <1>2 DEF ExactInv, CutInv
  <1>4. /\ A!BucketIds \in SUBSET Nat /\ buckets \in [Pools -> [A!BucketIds -> Nat]]
        /\ \A a \in Aggregators : agg[a].pending \in [A!BucketIds -> Nat]
        /\ \A p : \A b : A!CountIn(Stored, p, b) \in Nat
    BY BucketIs, CountGrows DEF A!AggregatorTypeOK
  <1>5. ClosedExact'
    <2> SUFFICES ASSUME NEW p \in Pools, NEW b \in A!BucketIds, b < LastBucket(p), <<p, b>> \notin cut
                 PROVE  buckets[p][b] = A!CountIn(Stored', p, b)
      BY <1>2 DEF ClosedExact
    <2>1. buckets[p][b] = A!CountIn(Stored, p, b)
      BY DEF ExactInv, ClosedExact
    <2> DEFINE d == LastBucket(p)
    <2>2. d \in A!BucketIds /\ buckets[p][d] # 0 /\ d \in Int /\ b \in Int
      BY <1>4, LastIs
    <2>3. A!CountIn(Stored, p, d) # 0
      <3>1. buckets[p][d] \in Nat /\ buckets[p][d] <= A!CountIn(Stored, p, d)
        BY <1>4, <2>2 DEF NoOvercount
      <3> QED
        BY <1>4, <2>2, <3>1
    <2> HIDE DEF d
    <2>4. A!CountIn(Stored', p, b) = A!CountIn(Stored, p, b)
      BY <1>1, <2>2, <2>3, BelowKept DEF d
    <2> QED
      BY <2>1, <2>4
  <1>6. PendingInv'
    <2> SUFFICES ASSUME NEW a \in Aggregators PROVE PendingExact(a)'
      BY DEF PendingInv
    <2> DEFINE p == agg[a].pool
    <2> SUFFICES ASSUME p \in Pools, NEW b \in A!BucketIds, agg[a].pending[b] # 0
                 PROVE  /\ LastBucket(p) <= b
                        /\ \A c \in A!BucketIds :
                              LastBucket(p) <= c /\ c < b /\ <<p, c>> \notin cut =>
                                  A!CountIn(Stored', p, c) =
                                    IF agg[a].pending[c] = 0 THEN buckets[p][c] ELSE agg[a].pending[c]
      BY <1>2 DEF PendingExact
    <2>1. /\ LastBucket(p) <= b
          /\ \A c \in A!BucketIds :
                LastBucket(p) <= c /\ c < b /\ <<p, c>> \notin cut =>
                    A!CountIn(Stored, p, c) =
                      IF agg[a].pending[c] = 0 THEN buckets[p][c] ELSE agg[a].pending[c]
      BY DEF ExactInv, PendingInv, PendingExact
    <2>2. A!CountIn(Stored, p, b) # 0 /\ b \in Int
      <3>1. /\ agg[a].pending[b] \in Nat /\ A!CountIn(Stored, p, b) \in Nat
            /\ agg[a].pending[b] <= A!CountIn(Stored, p, b)
        BY <1>4 DEF PendingReal
      <3> QED
        BY <1>4, <3>1
    <2>3. \A c \in A!BucketIds : c < b => A!CountIn(Stored', p, c) = A!CountIn(Stored, p, c)
      <3> HIDE DEF p
      <3> SUFFICES ASSUME NEW c \in A!BucketIds, c < b
                   PROVE  A!CountIn(Stored', p, c) = A!CountIn(Stored, p, c)
        OBVIOUS
      <3>1. c \in Int
        BY <1>4
      <3> QED
        BY <1>1, <2>2, <3>1, BelowKept
    <2> QED
      BY <2>1, <2>3
  <1> QED
    BY <1>3, <1>5, <1>6 DEF ExactInv

\* What a sweep reads of a pool is exact below the newest bucket it reads: the row cap
\* cuts off the newest rows only, and no row of a bucket on record is missing.
LEMMA ReadExact ==
    ASSUME RawInv, CutInv, NEW p \in Pools,
           NEW b \in A!BucketIds, NEW c \in A!BucketIds,
           LastBucket(p) <= c, c < b, <<p, c>> \notin cut,
           Rows(A!RawLogsSince(p, LastBucket(p)), p, b) # {}
    PROVE  A!CountIn(A!RawLogsSince(p, LastBucket(p)), p, c) = A!CountIn(Stored, p, c)
  <1> DEFINE last == LastBucket(p)
             since == {l \in raw : l[2] = p /\ A!Bucket(l[1]) >= last}
             Before(l) == {m \in since : m[1] < l[1]}
             R == A!RawLogsSince(p, last)
  <1>1. R = {l \in since : Cardinality(Before(l)) < RowCap}
    BY SameSize DEF A!RawLogsSince
  <1>2. /\ raw \in SUBSET Logs /\ deleted \in SUBSET Logs
        /\ \A l \in Logs : l[1] \in Blocks
    BY DEF RawInv, CollectorTypeOK, Logs
  <1>3. IsFiniteSet(since)
    <2>1. IsFiniteSet({l \in raw : l[2] = p})
      BY <1>2, CountIs
    <2>2. since \in SUBSET {l \in raw : l[2] = p}
      OBVIOUS
    <2> HIDE DEF since
    <2> QED
      BY <2>1, <2>2, FS_Subset
  <1>4. PICK k \in R : k[2] = p /\ A!Bucket(k[1]) = b
    BY DEF Rows
  <1>5. k \in since /\ Cardinality(Before(k)) < RowCap /\ k[1] \in Blocks
    BY <1>1, <1>2, <1>4
  <1>6. ASSUME NEW l \in Stored, l[2] = p, A!Bucket(l[1]) = c PROVE l \in R
    <2>1. l[1] \in Blocks /\ l[1] \in Nat /\ k[1] \in Nat
      BY <1>2, <1>5 DEF Stored, Blocks
    <2>2. l \in raw
      <3>1. A!BucketIds \in SUBSET Nat /\ last \in Int
        BY BucketIs, LastIs
      <3> QED
        BY <1>6, <3>1 DEF CutInv, Stored
    <2>3. l \in since
      BY <1>6, <2>2
    <2>4. l[1] < k[1]
      <3>1. ~(k[1] <= l[1])
        <4>1. A!BucketIds \in SUBSET Nat
          BY BucketIs
        <4>2. k[1] <= l[1] => b <= c
          BY <1>4, <1>5, <1>6, <2>1, BucketIs
        <4> QED
          BY <4>1, <4>2
      <3> QED
        BY <2>1, <3>1
    <2>5. Before(l) \subseteq Before(k)
      <3> SUFFICES ASSUME NEW m \in since, m[1] < l[1] PROVE m[1] < k[1]
        OBVIOUS
      <3>1. m[1] \in Nat
        BY <1>2 DEF Blocks
      <3> QED
        BY <2>1, <2>4, <3>1
    <2>6. Cardinality(Before(l)) < RowCap
      <3>1. IsFiniteSet(Before(k))
        <4>1. Before(k) \in SUBSET since
          OBVIOUS
        <4> HIDE DEF since
        <4> QED
          BY <1>3, <4>1, FS_Subset
      <3> HIDE DEF Before
      <3>2. /\ Cardinality(Before(l)) <= Cardinality(Before(k))
            /\ Cardinality(Before(l)) \in Nat /\ Cardinality(Before(k)) \in Nat
        BY <2>5, <3>1, FS_Subset, FS_CardinalityType
      <3>3. RowCap \in Nat
        BY IngestAssumption DEF A!AggregatorAssumption
      <3> QED
        BY <1>5, <3>2, <3>3
    <2> QED
      BY <1>1, <2>3, <2>6
  <1>7. R \subseteq Stored
    BY <1>1 DEF Stored
  <1> HIDE DEF R
  <1>8. {l \in R : l[2] = p /\ A!Bucket(l[1]) = c} = {l \in Stored : l[2] = p /\ A!Bucket(l[1]) = c}
    BY <1>6, <1>7
  <1>9. A!CountIn(R, p, c) = A!CountIn(Stored, p, c)
    BY <1>8 DEF A!CountIn
  <1> QED
    BY <1>9 DEF R

\* A sweep that reads a pool has it exactly.
LEMMA ExactRead ==
    ASSUME RawInv, A!AggregatorTypeOK, NoOvercount, ExactInv,
           NEW a \in Aggregators, NEW p \in Pools, A!ReadPool(a, p)
    PROVE  PendingExact(a)'
  <1> DEFINE R == A!RawLogsSince(p, LastBucket(p))
             P == A!bucketize(R, p)
  <1>1. /\ agg' = [agg EXCEPT ![a] = [left |-> agg[a].left \ {p}, pool |-> p, pending |-> P]]
        /\ UNCHANGED <<raw, deleted, buckets, cut>>
    BY DEF A!ReadPool, LastBucket
  <1>2. agg'[a].pool = p /\ agg'[a].pending = P
    BY <1>1 DEF A!AggregatorTypeOK
  <1>3. LastBucket(p)' = LastBucket(p) /\ Stored' = Stored
    BY <1>1 DEF LastBucket, A!LastBucket, Stored
  <1>4. /\ R \in SUBSET Stored /\ Stored \in SUBSET Logs /\ R \in SUBSET Logs
        /\ A!BucketIds \in SUBSET Nat /\ LastBucket(p) \in Int
        /\ \A l \in R : A!Bucket(l[1]) >= LastBucket(p)
    BY BucketIs, LastIs DEF A!RawLogsSince, RawInv, CollectorTypeOK, Stored
  <1>5. \A c \in A!BucketIds : P[c] = A!CountIn(R, p, c)
    BY DEF A!bucketize
  <1> HIDE DEF P, R
  <1> SUFFICES ASSUME NEW b \in A!BucketIds, P[b] # 0
               PROVE  /\ LastBucket(p) <= b
                      /\ \A c \in A!BucketIds :
                            LastBucket(p) <= c /\ c < b /\ <<p, c>> \notin cut =>
                                A!CountIn(Stored, p, c) = IF P[c] = 0 THEN buckets[p][c] ELSE P[c]
    BY <1>1, <1>2, <1>3 DEF PendingExact, A!CountIn
  <1>6. Rows(R, p, b) # {}
    BY <1>4, <1>5, CountIs
  <1>7. LastBucket(p) <= b
    BY <1>4, <1>6 DEF Rows
  <1>8. ASSUME NEW c \in A!BucketIds, LastBucket(p) <= c, c < b, <<p, c>> \notin cut
        PROVE  A!CountIn(Stored, p, c) = IF P[c] = 0 THEN buckets[p][c] ELSE P[c]
    <2>1. P[c] = A!CountIn(Stored, p, c)
      BY <1>5, <1>6, <1>8, ReadExact DEF ExactInv, R
    <2>2. buckets[p][c] \in Nat /\ buckets[p][c] <= A!CountIn(Stored, p, c)
      BY DEF A!AggregatorTypeOK, NoOvercount
    <2> QED
      BY <2>1, <2>2
  <1> QED
    BY <1>7, <1>8

\* Writing the oldest bucket in hand makes it the pool's last, and leaves all before
\* it exact.
LEMMA ExactWrite ==
    ASSUME RawInv, A!AggregatorTypeOK, NoOvercount, ExactInv,
           NEW a \in Aggregators, Aggregators = {a}, A!WriteBucket(a),
           NEW p, p = agg[a].pool, NEW P, P = agg[a].pending, NEW n, n = A!NextBucket(P)
    PROVE  ExactInv'
  <1> DEFINE E(c) == A!CountIn(Stored, p, c)
  <1>1. /\ n \in A!BucketIds /\ P[n] # 0
        /\ \A b \in A!BucketIds : P[b] # 0 => n <= b
    BY NextIs DEF A!WriteBucket
  <1>2. /\ buckets' = [buckets EXCEPT ![p][n] = P[n]]
        /\ agg' = [agg EXCEPT ![a].pending[n] = 0]
        /\ UNCHANGED <<raw, deleted, cut>>
    BY DEF A!WriteBucket, A!UpsertBucket, A!Absent
  <1>3. /\ A!BucketIds \in SUBSET Nat /\ buckets \in [Pools -> [A!BucketIds -> Nat]]
        /\ P \in [A!BucketIds -> Nat] /\ n \in Nat
    BY <1>1, BucketIs DEF A!AggregatorTypeOK
  <1>4. agg'[a].pool = p /\ agg'[a].pending = [P EXCEPT ![n] = 0] /\ Stored' = Stored
    BY <1>2 DEF A!AggregatorTypeOK, Stored
  <1>5. \A q \in Pools : q # p => buckets'[q] = buckets[q] /\ LastBucket(q)' = LastBucket(q)
    BY <1>2, <1>3 DEF LastBucket, A!LastBucket
  <1>6. CASE p \notin Pools
    <2>1. \A q \in Pools : buckets'[q] = buckets[q] /\ LastBucket(q)' = LastBucket(q)
      BY <1>5, <1>6
    <2>2. \A l \in deleted : l[2] \in Pools
      BY DEF RawInv, CollectorTypeOK, Logs
    <2>3. CutInv'
      BY <1>2, <2>1, <2>2 DEF ExactInv, CutInv
    <2>4. ClosedExact'
      BY <1>2, <1>4, <2>1 DEF ExactInv, ClosedExact, A!CountIn
    <2>5. PendingInv'
      BY <1>4, <1>6 DEF PendingInv, PendingExact
    <2> QED
      BY <2>3, <2>4, <2>5 DEF ExactInv
  <1>7. CASE p \in Pools
    <2>1. \A c \in A!BucketIds : buckets'[p][c] = IF c = n THEN P[n] ELSE buckets[p][c]
      BY <1>1, <1>2, <1>3, <1>7
    <2>2. \A b \in A!BucketIds : P[b] # 0 =>
             /\ LastBucket(p) <= b
             /\ \A c \in A!BucketIds :
                   LastBucket(p) <= c /\ c < b /\ <<p, c>> \notin cut =>
                       E(c) = IF P[c] = 0 THEN buckets[p][c] ELSE P[c]
      BY <1>7 DEF ExactInv, PendingInv, PendingExact
    <2>3. LastBucket(p)' = n
      <3> DEFINE last == LastBucket(p)
                 newest == LastBucket(p)'
      <3>1. /\ last \in Int /\ last <= n
            /\ \A b \in A!BucketIds : buckets[p][b] # 0 => b <= last
        BY <1>1, <2>2, LastIs
      <3>2. /\ newest \in Int
            /\ \A b \in A!BucketIds : buckets'[p][b] # 0 => b <= newest
            /\ \/ newest \in A!BucketIds /\ buckets'[p][newest] # 0
               \/ newest = -1 /\ \A b \in A!BucketIds : buckets'[p][b] = 0
        <4> DEFINE B == A!Present(buckets'[p])
        <4>1. newest = IF B = {} THEN -1 ELSE A!Max(B)
          BY <1>4 DEF LastBucket, A!LastBucket, A!NoBucket
        <4>2. B = {b \in A!BucketIds : buckets'[p][b] # 0}
          BY DEF A!Present, A!Absent
        <4>3. B # {} => A!Max(B) \in B /\ \A b \in B : A!Max(B) >= b
          BY FirstLast
        <4>4. A!BucketIds \in SUBSET Nat
          BY <1>3
        <4> HIDE DEF B, newest
        <4>5. CASE B = {}
          BY <4>1, <4>2, <4>5
        <4>6. CASE B # {}
          BY <4>1, <4>2, <4>3, <4>4, <4>6
        <4> QED
          BY <4>5, <4>6
      <3> HIDE DEF last, newest
      <3>3. n <= newest /\ newest \in A!BucketIds /\ buckets'[p][newest] # 0
        BY <1>1, <2>1, <3>2
      <3>4. newest = n \/ newest <= last
        BY <2>1, <3>1, <3>3
      <3>5. newest = n
        <4>1. n \in Int /\ newest \in Int /\ last \in Int
          BY <1>3, <3>1, <3>2
        <4>2. newest <= n
          BY <3>1, <3>4, <4>1
        <4> QED
          BY <3>3, <4>1, <4>2
      <3> QED
        BY <3>5 DEF newest
    <2>4. LastBucket(p) \in Int /\ LastBucket(p) <= n
      BY <1>1, <2>2, LastIs
    <2>5. CutInv'
      <3> SUFFICES ASSUME NEW l \in deleted, <<l[2], A!Bucket(l[1])>> \notin cut
                   PROVE  A!Bucket(l[1]) < LastBucket(l[2])'
        BY <1>2 DEF CutInv
      <3>1. l[2] \in Pools /\ A!Bucket(l[1]) \in A!BucketIds
        BY BucketIs DEF RawInv, CollectorTypeOK, Logs
      <3>2. A!Bucket(l[1]) < LastBucket(l[2])
        BY DEF ExactInv, CutInv
      <3>3. CASE l[2] = p
        <4> DEFINE k == A!Bucket(l[1])
                   last == LastBucket(p)
        <4>1. k \in Int /\ k < last /\ last \in Int /\ last <= n /\ n \in Int
          <5>1. k \in Int
            <6>1. \A b \in A!BucketIds : b \in Int
              BY <1>3
            <6> QED
              BY <3>1, <6>1
          <5>2. k < last
            BY <3>2, <3>3
          <5> QED
            BY <1>3, <2>4, <5>1, <5>2
        <4>2. LastBucket(l[2])' = n
          BY <2>3, <3>3
        <4> HIDE DEF k, last
        <4>3. k < n
          BY <4>1
        <4> QED
          BY <4>2, <4>3 DEF k
      <3>4. CASE l[2] # p
        BY <1>5, <3>1, <3>2, <3>4
      <3> QED
        BY <3>3, <3>4
    <2>6. ClosedExact'
      <3>1. ASSUME NEW b \in A!BucketIds, b < n, <<p, b>> \notin cut
            PROVE  buckets'[p][b] = E(b)
        <4>1. b \in Int /\ b # n
          BY <1>3, <3>1
        <4>2. CASE b < LastBucket(p)
          BY <1>7, <2>1, <3>1, <4>1, <4>2 DEF ExactInv, ClosedExact
        <4>3. CASE LastBucket(p) <= b
          <5>1. P[b] = 0
            BY <1>1, <1>3, <3>1, <4>1
          <5> QED
            BY <1>1, <2>1, <2>2, <3>1, <4>1, <4>3, <5>1
        <4> QED
          BY <2>4, <4>1, <4>2, <4>3
      <3>2. ASSUME NEW q \in Pools, NEW b \in A!BucketIds, b < LastBucket(q)',
                   <<q, b>> \notin cut
            PROVE  buckets'[q][b] = A!CountIn(Stored, q, b)
        <4>1. CASE q = p
          BY <2>3, <3>1, <3>2, <4>1
        <4>2. CASE q # p
          BY <1>5, <3>2, <4>2 DEF ExactInv, ClosedExact
        <4> QED
          BY <4>1, <4>2
      <3> QED
        BY <1>2, <1>4, <3>2 DEF ClosedExact, A!CountIn
    <2>7. PendingInv'
      <3>1. \A b \in A!BucketIds : agg'[a].pending[b] = IF b = n THEN 0 ELSE P[b]
        BY <1>3, <1>4
      <3>2. ASSUME NEW b \in A!BucketIds, agg'[a].pending[b] # 0
            PROVE  /\ n <= b
                   /\ \A c \in A!BucketIds : n <= c /\ c < b /\ <<p, c>> \notin cut =>
                         E(c) = IF agg'[a].pending[c] = 0 THEN buckets'[p][c]
                                ELSE agg'[a].pending[c]
        <4>1. P[b] # 0 /\ b # n /\ n <= b
          BY <1>1, <3>1, <3>2
        <4>2. ASSUME NEW c \in A!BucketIds, n <= c, c < b, <<p, c>> \notin cut
              PROVE  E(c) = IF agg'[a].pending[c] = 0 THEN buckets'[p][c]
                            ELSE agg'[a].pending[c]
          <5>1. LastBucket(p) <= c
            <6> DEFINE last == LastBucket(p)
            <6>1. last \in Int /\ last <= n
              BY <2>4
            <6>2. n \in Int /\ \A d \in A!BucketIds : d \in Int
              BY <1>3
            <6> HIDE DEF last
            <6>3. last <= c
              BY <4>2, <6>1, <6>2
            <6> QED
              BY <6>3 DEF last
          <5>2. E(c) = IF P[c] = 0 THEN buckets[p][c] ELSE P[c]
            BY <2>2, <4>1, <4>2, <5>1
          <5> QED
            BY <1>1, <2>1, <3>1, <5>2
        <4> QED
          BY <4>1, <4>2
      <3>3. PendingExact(a)'
        BY <1>2, <1>4, <2>3, <3>2 DEF PendingExact, A!CountIn
      <3> QED
        BY <3>3 DEF PendingInv
    <2> QED
      BY <2>5, <2>6, <2>7 DEF ExactInv
  <1> QED
    BY <1>6, <1>7

\* The collector prunes nothing.
LEMMA NothingPruned ==
    ASSUME Collect \/ UNCHANGED vars PROVE UNCHANGED <<deleted, buckets, agg, cut>>
  <1>1. ASSUME NEW w, RunOnce(w) \/ ScanFails(w) PROVE deleted' = deleted
    <2>1. CASE GetCursor(w)
      BY <2>1 DEF GetCursor
    <2>2. ASSUME NEW latest \in Latest, LatestBlock(w, latest) PROVE deleted' = deleted
      BY <2>2 DEF LatestBlock
    <2>3. CASE InsertRawLogs(w)
      BY <2>3 DEF InsertRawLogs
    <2>4. CASE AdvanceCursor(w)
      BY <2>4 DEF AdvanceCursor
    <2>5. CASE ScanFails(w)
      BY <2>5 DEF ScanFails
    <2> QED
      BY <1>1, <2>1, <2>2, <2>3, <2>4, <2>5 DEF RunOnce
  <1>2. ASSUME NEW w, Backfill(w) PROVE deleted' = deleted
    <2>1. CASE BackfillLatest(w)
      BY <2>1 DEF BackfillLatest
    <2>2. CASE BackfillSeed(w)
      BY <2>2 DEF BackfillSeed
    <2> QED
      BY <1>2, <2>1, <2>2 DEF Backfill
  <1>3. MineBlock \/ (\E b \in 1..head : Reorg(b)) => deleted' = deleted
    BY DEF MineBlock, Reorg
  <1> QED
    BY <1>1, <1>2, <1>3 DEF vars, aggregatorOnly, Collect, CollectorStep
\* Neither a sweep that starts, fails or dies nor a pruning takes anything away.
LEMMA ExactRest ==
    ASSUME RawInv, A!AggregatorTypeOK, ExactInv, NEW a \in Aggregators, Aggregators = {a},
           A!StartSweep(a) \/ A!PoolFails(a) \/ A!AggregatorDies(a) \/ A!PruneRawLogs(a)
    PROVE  ExactInv'
  <1>1. /\ UNCHANGED buckets /\ cut \subseteq cut' /\ Stored' = Stored
        /\ \A q : LastBucket(q)' = LastBucket(q)
    BY DEF A!StartSweep, A!PoolFails, A!AggregatorDies, A!PruneRawLogs, Stored, LastBucket,
           A!LastBucket
  <1>2. CutInv'
    <2> SUFFICES ASSUME NEW l \in deleted'
                 PROVE  A!Bucket(l[1]) < LastBucket(l[2]) \/ <<l[2], A!Bucket(l[1])>> \in cut'
      BY <1>1 DEF CutInv
    <2>1. CASE l \in deleted
      BY <1>1, <2>1 DEF ExactInv, CutInv
    <2>2. CASE l \notin deleted
      <3>1. /\ A!PruneRawLogs(a)
            /\ l \in raw /\ l[1] < head - Retention
        BY <2>2 DEF A!StartSweep, A!PoolFails, A!AggregatorDies, A!PruneRawLogs
      <3>2. A!Bucket(l[1]) >= LastBucket(l[2]) => <<l[2], A!Bucket(l[1])>> \in cut'
        BY <3>1 DEF A!PruneRawLogs, LastBucket
      <3>3. A!Bucket(l[1]) \in Int /\ LastBucket(l[2]) \in Int
        <4>1. A!Bucket(l[1]) \in A!BucketIds
          BY <3>1, BucketIs DEF RawInv, CollectorTypeOK, Logs
        <4>2. \A b \in A!BucketIds : b \in Int
          BY BucketIs
        <4>3. A!Bucket(l[1]) \in Int
          BY <4>1, <4>2
        <4> QED
          BY <4>3, LastIs
      <3> QED
        BY <3>2, <3>3
    <2> QED
      BY <2>1, <2>2
  <1>3. ClosedExact'
    BY <1>1 DEF ExactInv, ClosedExact, A!CountIn
  <1>4. PendingExact(a)'
    <2>1. \/ agg'[a].pool = agg[a].pool /\ agg'[a].pending = agg[a].pending
          \/ agg'[a].pending = A!NoBuckets
      BY DEF A!AggregatorTypeOK, A!StartSweep, A!PoolFails, A!AggregatorDies, A!PruneRawLogs,
             A!Idle
    <2>2. CASE agg'[a].pool = agg[a].pool /\ agg'[a].pending = agg[a].pending
      BY <1>1, <2>2 DEF ExactInv, PendingInv, PendingExact, A!CountIn
    <2>3. CASE agg'[a].pending = A!NoBuckets
      BY <2>3 DEF PendingExact, A!NoBuckets, A!Absent
    <2> QED
      BY <2>1, <2>2, <2>3
  <1> QED
    BY <1>2, <1>3, <1>4 DEF ExactInv, PendingInv

\* Every step keeps it.
LEMMA ExactStep ==
    ASSUME RawInv, CollectorTypeOK', A!AggregatorTypeOK, FrontInv, NoOvercount, PendingReal,
           ExactInv, Alone, [Next]_vars
    PROVE  ExactInv'
  <1>1. CASE Collect \/ UNCHANGED vars
    BY <1>1, NothingPruned, ExactCollect DEF Alone
  <1>2. CASE Aggregate
    <2>1. PICK a \in Aggregators :
             A!Sweep(a) \/ A!PoolFails(a) \/ A!AggregatorDies(a) \/ A!PruneRawLogs(a)
      BY <1>2 DEF Aggregate, A!AggregatorStep
    <2>2. Aggregators = {a}
      BY DEF Alone
    <2>3. ASSUME NEW p \in Pools, A!ReadPool(a, p) PROVE ExactInv'
      <3>1. UNCHANGED <<raw, deleted, buckets, cut>>
        BY <2>3 DEF A!ReadPool
      <3>2. PendingExact(a)'
        BY <2>3, ExactRead
      <3>3. \A q : LastBucket(q)' = LastBucket(q)
        BY <3>1 DEF LastBucket, A!LastBucket
      <3> QED
        BY <2>2, <3>1, <3>2, <3>3
           DEF ExactInv, CutInv, ClosedExact, PendingInv, Stored, A!CountIn
    <2>4. CASE A!WriteBucket(a)
      BY <2>2, <2>4, ExactWrite
    <2> QED
      BY <2>1, <2>2, <2>3, <2>4, ExactRest DEF A!Sweep
  <1> QED
    BY <1>1, <1>2 DEF Next

\* A bucket the pool has left behind counts every row ever stored for it, and none counts
\* one twice, for every chain, pool, cap, retention and fault: what processPool and
\* pruneRawLogs rely on is that rows arrive in the order of their blocks.
THEOREM BucketsAreRight == ASSUME Alone PROVE Spec => []BucketsRight
  <1>1. Init => ExactInv
    <2> SUFFICES ASSUME Init PROVE ExactInv
      OBVIOUS
    <2>1. deleted = {}
      BY DEF Init, CollectorInit
    <2>2. \A p \in Pools : LastBucket(p) = -1
      BY DEF Init, A!AggregatorInit, LastBucket, A!LastBucket, A!Present, A!NoBuckets,
             A!NoBucket, A!Absent
    <2>3. A!BucketIds \in SUBSET Nat
      BY BucketIs
    <2>4. ClosedExact
      BY <2>2, <2>3 DEF ClosedExact
    <2>5. PendingInv
      BY DEF Init, A!AggregatorInit, A!Idle, A!NoBuckets, A!Absent, PendingInv, PendingExact
    <2> QED
      BY <2>1, <2>4, <2>5 DEF ExactInv, CutInv
  <1>2. Init => FrontInv /\ NoOvercount /\ PendingReal
    BY FrontInit, CountInit
  <1>3. ( RawInv /\ RawInv' /\ TypeOK /\ FrontInv /\ NoOvercount /\ PendingReal
           /\ ExactInv /\ [Next]_vars )
        => FrontInv' /\ NoOvercount' /\ PendingReal' /\ ExactInv'
    <2> SUFFICES ASSUME RawInv, RawInv', TypeOK, FrontInv, NoOvercount, PendingReal, ExactInv,
                        [Next]_vars
                 PROVE  FrontInv' /\ NoOvercount' /\ PendingReal' /\ ExactInv'
      OBVIOUS
    <2>1. CollectorTypeOK' /\ A!AggregatorTypeOK
      BY DEF RawInv, TypeOK
    <2>2. FrontInv'
      BY FrontStep DEF Alone
    <2>3. NoOvercount' /\ PendingReal'
      BY <2>1, CountStep
    <2>4. ExactInv'
      BY <2>1, ExactStep
    <2> QED
      BY <2>2, <2>3, <2>4
  <1>4. ExactInv /\ NoOvercount => BucketsRight
    BY DEF ExactInv, BucketsRight
  <1> QED
    BY <1>1, <1>2, <1>3, <1>4, RawInductive, TypeCorrect, PTL DEF Spec

=============================================================================

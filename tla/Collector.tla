----------------------------- MODULE Collector -----------------------------
(***************************************************************************)
(* Ingestion (internal/chain/collector.go): collectors copy the logs of    *)
(* the watched pools from the chain into raw_logs, chunk by chunk, behind  *)
(* a cursor kept in Postgres. The supervisor's collector loops forever; a  *)
(* backfill command is a second process on the same cursor, which it first *)
(* sets back.                                                              *)
(*                                                                         *)
(* The chain is external. It grows by one block at a time and may replace  *)
(* its newest Confirmations blocks. Block times are block numbers.         *)
(***************************************************************************)
EXTENDS Integers, FiniteSets

CONSTANTS
    Pools,          \* watched contracts
    Live,           \* the collector of the supervisor
    Backfills,      \* backfill commands, each run once
    MaxBlock,       \* bound: height of the chain
    Confirmations,  \* blocks behind the head that count as final
    Chunk,          \* logChunkBlocks
    ColdStart,      \* coldStartLookback
    Lookback,       \* blocks a backfill goes back
    MaxLag,         \* bound: blocks the node's answer may be behind the chain
    MaxFaults       \* bound: scans that fail or die

ASSUME CollectorAssumption ==
    /\ Live \notin Backfills
    /\ MaxBlock \in Nat /\ Confirmations \in Nat /\ MaxFaults \in Nat
    /\ Chunk \in Nat \ {0}
    /\ ColdStart \in Nat /\ Lookback \in Nat /\ MaxLag \in Nat

Workers == Backfills \cup {Live}
Blocks == 0..MaxBlock
NoCursor == -1
Logs == Blocks \X Pools

VARIABLES
    head,       \* number of the newest block
    chain,      \* per block: the pools with a log in it
    raw,        \* the raw_logs table
    deleted,    \* history: rows pruned from raw_logs
    cursor,     \* last fully processed block
    worker,     \* per collector: its scan
    origin,     \* history: the first block the cursor ever stood for
    jumped,     \* history: blocks a new start moved the cursor over
    faults      \* failures so far

chainVars == <<head, chain>>
history == <<origin, jumped>>
collectorVars == <<head, chain, raw, deleted, cursor, worker, origin, jumped, faults>>

WorkerPc == {"idle", "latest", "seed", "cursor", "head", "insert", "advance", "done", "failed"}

\* cold: no cursor was found; next..to: what is left to scan; from: where a
\* backfill wants to start.
Scan == [pc : WorkerPc, cold : BOOLEAN, next : Nat, to : Nat, from : Nat]
Rest == [pc |-> "idle", cold |-> FALSE, next |-> 0, to |-> 0, from |-> 0]

CollectorTypeOK ==
    /\ head \in Blocks
    /\ chain \in [Blocks -> SUBSET Pools]
    /\ raw \in SUBSET Logs
    /\ deleted \in SUBSET Logs
    /\ cursor \in Blocks \cup {NoCursor}
    /\ worker \in [Workers -> Scan]
    /\ origin \in Nat
    /\ jumped \in SUBSET Blocks
    /\ faults \in 0..MaxFaults

CollectorInit ==
    /\ head = 0
    /\ chain = [b \in Blocks |-> {}]
    /\ raw = {}
    /\ deleted = {}
    /\ cursor = NoCursor
    /\ worker = [w \in Workers |-> Rest]
    /\ origin = 0
    /\ jumped = {}
    /\ faults = 0

-----------------------------------------------------------------------------
(* The chain.                                                              *)

MineBlock ==
    /\ head < MaxBlock
    /\ head' = head + 1
    /\ \E logs \in SUBSET Pools : chain' = [chain EXCEPT ![head + 1] = logs]
    /\ UNCHANGED <<raw, deleted, cursor, worker, history, faults>>

\* The block is replaced by another of its height.
Reorg(b) ==
    /\ b > head - Confirmations
    /\ \E logs \in SUBSET Pools : chain' = [chain EXCEPT ![b] = logs]
    /\ UNCHANGED <<head, raw, deleted, cursor, worker, history, faults>>

-----------------------------------------------------------------------------
(* RunOnce, for the loop and for a backfill.                               *)

\* The scan returns: the loop waits for its next tick, a command has ended.
Returned(w) == [worker[w] EXCEPT !.pc = IF w = Live THEN "idle" ELSE "done"]

\* GetCursor, the only time a scan looks at it.
GetCursor(w) ==
    /\ worker[w].pc = IF w = Live THEN "idle" ELSE "cursor"
    /\ worker' = [worker EXCEPT ![w].pc = "head", ![w].cold = (cursor = NoCursor),
                                ![w].next = cursor + 1]
    /\ UNCHANGED <<chainVars, raw, deleted, cursor, history, faults>>

\* Fault: the newest blocks are not held back.
FinalHeadNewest(latest) == latest

\* The last block of a scan, given the latest block the node names.
FinalHead(latest) == latest - Confirmations

\* Fault: the lookback of a cold start is subtracted unguarded.
FirstBlockUnguarded(w, to) ==
    IF ~worker[w].cold THEN worker[w].next ELSE to - ColdStart

\* The first block of a scan: after the cursor, or on a cold start a fixed
\* lookback behind the final head.
FirstBlock(w, to) ==
    IF ~worker[w].cold THEN worker[w].next
    ELSE IF to > ColdStart THEN to - ColdStart ELSE 0

\* LatestBlock: the node may be behind the chain.
LatestBlock(w, latest) ==
    LET to == FinalHead(latest)
        from == FirstBlock(w, to)
    IN
    /\ worker[w].pc = "head"
    /\ worker' = [worker EXCEPT ![w] =
          IF to < 0 THEN Returned(w)
          ELSE IF from > to THEN [Returned(w) EXCEPT !.to = to]
          ELSE [@ EXCEPT !.pc = "insert", !.next = from, !.to = to]]
    /\ UNCHANGED <<chainVars, raw, deleted, cursor, history, faults>>

ChunkEnd(w) ==
    IF worker[w].next + Chunk - 1 > worker[w].to THEN worker[w].to
    ELSE worker[w].next + Chunk - 1

\* The answers of BlockNumber.
Latest == {n \in 0..head : n + MaxLag >= head}

LogsIn(from, to) == {l \in Logs : l[1] \in from..to /\ l[2] \in chain[l[1]]}

\* GetLogs and InsertRawLogs: the rows of a chunk arrive together, those already
\* there are skipped.
InsertRawLogs(w) ==
    /\ worker[w].pc = "insert"
    /\ raw' = raw \cup LogsIn(worker[w].next, ChunkEnd(w))
    /\ worker' = [worker EXCEPT ![w].pc = "advance"]
    /\ UNCHANGED <<chainVars, deleted, cursor, history, faults>>

\* A cursor that starts afresh, not after the block it stood at: what it stands
\* for begins at this block, or leaves out the blocks up to it.
StartsAt(block) ==
    /\ origin' = IF cursor = NoCursor THEN block ELSE origin
    /\ jumped' = IF cursor = NoCursor THEN jumped ELSE jumped \cup (cursor + 1)..(block - 1)

NextChunk(w) ==
    worker' = [worker EXCEPT ![w] =
        IF ChunkEnd(w) = @.to THEN Returned(w)
        ELSE [@ EXCEPT !.pc = "insert", !.next = ChunkEnd(w) + 1, !.cold = FALSE]]

\* Fault: the cursor is set to the end of the scan, not of the chunk.
AdvanceCursorToEnd(w) ==
    /\ worker[w].pc = "advance"
    /\ cursor' = worker[w].to
    /\ IF worker[w].cold THEN StartsAt(worker[w].next) ELSE UNCHANGED history
    /\ NextChunk(w)
    /\ UNCHANGED <<chainVars, raw, deleted, faults>>

\* SetCursor at the end of a chunk.
AdvanceCursor(w) ==
    /\ worker[w].pc = "advance"
    /\ cursor' = ChunkEnd(w)
    /\ IF worker[w].cold THEN StartsAt(worker[w].next) ELSE UNCHANGED history
    /\ NextChunk(w)
    /\ UNCHANGED <<chainVars, raw, deleted, faults>>

\* An RPC or a statement fails, or the process dies: what the scan has written
\* stays. The loop scans again; a command has failed.
ScanFails(w) ==
    /\ worker[w].pc \notin {"idle", "done", "failed"}
    /\ faults < MaxFaults
    /\ faults' = faults + 1
    /\ worker' = [worker EXCEPT ![w] =
          IF w = Live THEN Rest ELSE [Rest EXCEPT !.pc = "failed"]]
    /\ UNCHANGED <<chainVars, raw, deleted, cursor, history>>

RunOnce(w) ==
    \/ GetCursor(w)
    \/ \E latest \in Latest : LatestBlock(w, latest)
    \/ InsertRawLogs(w)
    \/ AdvanceCursor(w)

-----------------------------------------------------------------------------
(* Backfill: the cursor is set before the first block, then RunOnce.       *)

BackfillLatest(w) ==
    /\ worker[w].pc = "idle"
    /\ \E latest \in Latest :
          LET from == IF latest > Lookback THEN latest - Lookback ELSE 0 IN
          worker' = [worker EXCEPT ![w] = [Rest EXCEPT !.pc = "seed", !.from = from]]
    /\ UNCHANGED <<chainVars, raw, deleted, cursor, history, faults>>

BackfillSeed(w) ==
    LET seed == IF worker[w].from > 0 THEN worker[w].from - 1 ELSE 0 IN
    /\ worker[w].pc = "seed"
    /\ cursor' = seed
    /\ worker' = [worker EXCEPT ![w].pc = "cursor"]
    /\ StartsAt(seed + 1)
    /\ UNCHANGED <<chainVars, raw, deleted, faults>>

Backfill(w) == BackfillLatest(w) \/ BackfillSeed(w)

-----------------------------------------------------------------------------

CollectorStep ==
    \/ MineBlock
    \/ \E b \in 1..head : Reorg(b)
    \/ \E w \in Workers : RunOnce(w) \/ ScanFails(w)
    \/ \E w \in Backfills : Backfill(w)

-----------------------------------------------------------------------------
(* Properties.                                                             *)

\* Every block from the first one ever processed up to the cursor has its logs in
\* raw_logs, or had them before they were pruned. Blocks are excepted that a
\* backfill or a cold start skipped by starting after the cursor it found.
CursorCovers ==
    \A b \in origin..cursor : \A p \in chain[b] :
        <<b, p>> \in raw \cup deleted \/ b \in jumped

\* Nothing stored is ever taken back by the chain: the confirmation depth keeps
\* blocks that may still be replaced out of raw_logs.
OnlyFinal == \A l \in raw : l[2] \in chain[l[1]]

\* raw_logs is what the final chain says, no less up to the cursor and no more,
\* whatever fails between an insert and the cursor (RunOnce), and however a
\* backfill and the loop overwrite each other's cursor.
RawLogsRight == CursorCovers /\ OnlyFinal
=============================================================================

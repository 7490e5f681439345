---------------------------- MODULE PoolRegistry ----------------------------
(***************************************************************************)
(* The pools table and its writers: the supervisor, which at its start     *)
(* writes the curated file over it (cmd/ocr/main.go, seedPools); the       *)
(* discover command, which proposes pools a listing service names once the *)
(* chain has confirmed them (internal/discover); the poolmeta command,     *)
(* which writes whole rows back to set one column; and an operator who     *)
(* flips enabled by hand. The poolstats stage reads the table for its      *)
(* market snapshot. They are processes of their own, every statement is a  *)
(* transaction, and none spans two of them.                                *)
(*                                                                         *)
(* Of the columns there are enabled, which stands for all that an upsert   *)
(* overwrites, and bin_step, which it does not clear.                      *)
(***************************************************************************)
EXTENDS MarketData, FiniteSets

CONSTANTS
    Curated,        \* pools of config/pools.yaml, all enabled there
    Named,          \* pools the listing service may name
    Decodable,      \* pools of a dex with a decoder: canonicalDex
    Anchored,       \* pools whose tokens on the chain are anchors
    Answering,      \* pools whose contract answers the read of a spot price
    Worth,          \* what a token is worth, for the properties
    MaxRestarts,    \* bound: starts of the supervisor
    MaxEdits,       \* bound: changes by the operator
    MaxPasses,      \* bound: passes of the poolstats stage
    MaxFaults       \* bound: statements, reads and processes that fail

ASSUME RegistryAssumption ==
    /\ Curated \cup Named \cup Decodable \cup Anchored \cup Answering \subseteq Pools
    /\ Worth \in [Tokens -> Int] /\ IsWorth(Worth)
    /\ {MaxRestarts, MaxEdits, MaxPasses, MaxFaults} \subseteq Nat

VARIABLES
    rows,       \* the pools table
    supervisor, \* its start: the rows of the file still to be written
    polled,     \* the pools the collector polls, fixed at the start
    discover,   \* the discover command
    poolmeta,   \* the poolmeta command
    stage,      \* the poolstats stage and its pass
    stats,      \* the pool_stats table
    intent,     \* history: what the file or the operator last said of enabled
    overtaken,  \* history: pools of which a command had read otherwise before that
    edits, faults

market == <<stage, stats>>
history == <<intent, overtaken>>
vars == <<rows, supervisor, polled, discover, poolmeta, stage, stats,
          intent, overtaken, edits, faults>>

\* present: the row exists. The other columns mean nothing if it does not.
Rows == [present : BOOLEAN, enabled : BOOLEAN, binStep : BOOLEAN]
NoRow == [present |-> FALSE, enabled |-> FALSE, binStep |-> FALSE]
Sayings == {"nothing", "enabled", "disabled"}

\* todo: proposals still to be written; steps: those with a bin step; known: the
\* pools the table had when it was listed.
Discovery == [pc : {"idle", "list", "write", "done"}, auto : BOOLEAN,
              todo : SUBSET Pools, steps : SUBSET Pools, known : SUBSET Pools]

\* todo: pools still to be written back, as the table had them.
Poolmeta == [pc : {"idle", "write", "done"}, todo : SUBSET Pools]

NoFigures == [priced |-> FALSE, price |-> 0, change |-> FALSE, tvl |-> FALSE, volume |-> FALSE]

\* Of the table, of its writers and of what was said. What the stage has in hand is
\* MarketData's.
TypeOK ==
    /\ rows \in [Pools -> Rows]
    /\ supervisor \in [starts : 0..MaxRestarts, up : BOOLEAN, todo : SUBSET Curated]
    /\ polled \subseteq Pools
    /\ discover \in Discovery
    /\ poolmeta \in Poolmeta
    /\ intent \in [Pools -> Sayings]
    /\ overtaken \subseteq Pools
    /\ edits \in 0..MaxEdits

Resting == [passes |-> 0, pc |-> "idle", pools |-> {}, readable |-> {}, todo |-> {},
            figures |-> [p \in Pools |-> NoFigures]]

Init ==
    /\ rows = [p \in Pools |-> NoRow]
    /\ supervisor = [starts |-> 0, up |-> FALSE, todo |-> {}]
    /\ polled = {}
    /\ discover = [pc |-> "idle", auto |-> FALSE, todo |-> {}, steps |-> {}, known |-> {}]
    /\ poolmeta = [pc |-> "idle", todo |-> {}]
    /\ stage = Resting
    /\ stats = [p \in Pools |-> NoFigures]
    /\ intent = [p \in Pools |-> "nothing"]
    /\ overtaken = {}
    /\ edits = 0
    /\ faults = 0

\* Lists of the table are worked off in the order of the addresses.
First(pools) == Head(Listed(pools))

Fault == faults < MaxFaults /\ faults' = faults + 1

-----------------------------------------------------------------------------
(* The table.                                                              *)

\* Fault: every column is overwritten.
UpsertPoolPlainly(p, enabled, binStep) ==
    rows' = [rows EXCEPT ![p] = [present |-> TRUE, enabled |-> enabled, binStep |-> binStep]]

\* UpsertPool: every column is overwritten, but bin_step not by NULL.
UpsertPool(p, enabled, binStep) ==
    rows' = [rows EXCEPT ![p] = [present |-> TRUE, enabled |-> enabled,
                                 binStep |-> binStep \/ @.binStep]]

Present == {p \in Pools : rows[p].present}
Enabled == {p \in Present : rows[p].enabled}

\* What a command is about to write from what it read before.
AboutToWrite(p, enabled) ==
    \/ discover.pc = "write" /\ p \in discover.todo \ discover.known /\ discover.auto = enabled
    \/ poolmeta.pc = "write" /\ p \in poolmeta.todo /\ enabled

\* The file or the operator says whether the pool is enabled.
Says(p, enabled) ==
    /\ intent' = [intent EXCEPT ![p] = IF enabled THEN "enabled" ELSE "disabled"]
    /\ overtaken' = IF AboutToWrite(p, ~enabled) THEN overtaken \cup {p} ELSE overtaken \ {p}

\* The operator flips a pool by hand.
OperatorFlips(p) ==
    /\ edits < MaxEdits
    /\ edits' = edits + 1
    /\ rows[p].present
    /\ rows' = [rows EXCEPT ![p].enabled = ~@]
    /\ Says(p, ~rows[p].enabled)
    /\ UNCHANGED <<supervisor, polled, discover, poolmeta, market, faults>>

-----------------------------------------------------------------------------
(* seedPools, at the start of the supervisor.                              *)

\* The supervisor starts, or it died and starts anew.
Start ==
    /\ supervisor.starts < MaxRestarts
    /\ supervisor' = [starts |-> supervisor.starts + 1, up |-> FALSE, todo |-> Curated]
    /\ stage' = [Resting EXCEPT !.passes = stage.passes]
    /\ UNCHANGED <<rows, polled, discover, poolmeta, stats, history, edits, faults>>

SeedPool(p) ==
    /\ p \in supervisor.todo
    /\ UpsertPool(p, TRUE, FALSE)
    /\ Says(p, TRUE)
    /\ supervisor' = [supervisor EXCEPT !.todo = @ \ {p}]
    /\ UNCHANGED <<polled, discover, poolmeta, market, edits, faults>>

\* The pools that are enabled now are the ones the collector polls until the next
\* start.
SeedListed ==
    /\ supervisor.starts > 0 /\ ~supervisor.up /\ supervisor.todo = {}
    /\ polled' = Enabled
    /\ supervisor' = [supervisor EXCEPT !.up = TRUE]
    /\ UNCHANGED <<rows, discover, poolmeta, market, history, edits, faults>>

-----------------------------------------------------------------------------
(* The discover command.                                                   *)

\* What the service may name: its pages in two orderings, each pool once. A page
\* that cannot be fetched fails the command before anything is written.
TopPools == SUBSET Named

\* Discover, on the candidates above a floor that the service names: those of a
\* dex with a decoder whose tokens the chain says are anchors.
Proposals(named) == named \cap Decodable \cap Anchored

\* A candidate of which a read on the chain fails is as good as not named; a bin
\* step that cannot be read is left out.
Discover ==
    /\ discover.pc = "idle"
    /\ \E auto \in BOOLEAN, named \in TopPools :
       \E steps \in SUBSET {p \in Proposals(named) : IsLB(p)} :
          discover' = [pc |-> "list", auto |-> auto, todo |-> Proposals(named),
                       steps |-> steps, known |-> {}]
    /\ UNCHANGED <<rows, supervisor, polled, poolmeta, market, history, edits, faults>>

\* Fault: only the enabled pools are known.
ListPoolAddressesEnabled ==
    /\ discover.pc = "list"
    /\ discover' = [discover EXCEPT !.pc = "write", !.known = Enabled]
    /\ UNCHANGED <<rows, supervisor, polled, poolmeta, market, history, edits, faults>>

\* ListPoolAddresses, once.
ListPoolAddresses ==
    /\ discover.pc = "list"
    /\ discover' = [discover EXCEPT !.pc = "write", !.known = Present]
    /\ UNCHANGED <<rows, supervisor, polled, poolmeta, market, history, edits, faults>>

Proposed(p) ==
    [discover EXCEPT !.todo = @ \ {p}, !.pc = IF discover.todo = {p} THEN "done" ELSE @]

\* A proposal is written unless the listing had it.
Propose(p) ==
    /\ discover.pc = "write" /\ p \in discover.todo
    /\ IF p \in discover.known THEN UNCHANGED rows
       ELSE UpsertPool(p, discover.auto, p \in discover.steps)
    /\ discover' = Proposed(p)
    /\ UNCHANGED <<supervisor, polled, poolmeta, market, history, edits, faults>>

\* The first error, or a cancellation, ends the command: the rest is not written.
DiscoverFails ==
    /\ discover.pc \in {"list", "write"}
    /\ Fault
    /\ discover' = [discover EXCEPT !.pc = "done", !.todo = {}]
    /\ UNCHANGED <<rows, supervisor, polled, poolmeta, market, history, edits>>

-----------------------------------------------------------------------------
(* The poolmeta command.                                                   *)

\* ListEnabledPools: the rows the command writes back later. Only Liquidity Book
\* pools have a bin step.
PoolmetaList ==
    /\ poolmeta.pc = "idle"
    /\ poolmeta' = [pc |-> "write", todo |-> {p \in Enabled : IsLB(p)}]
    /\ UNCHANGED <<rows, supervisor, polled, discover, market, history, edits, faults>>

WrittenBack(p) ==
    [poolmeta EXCEPT !.todo = @ \ {p}, !.pc = IF poolmeta.todo = {p} THEN "done" ELSE @]

\* The bin step is read and the row written back as it was listed.
PoolmetaWrite(p) ==
    /\ poolmeta.pc = "write" /\ p \in poolmeta.todo /\ p = First(poolmeta.todo)
    /\ UpsertPool(p, TRUE, TRUE)
    /\ poolmeta' = WrittenBack(p)
    /\ UNCHANGED <<supervisor, polled, discover, market, history, edits, faults>>

\* The bin step cannot be read: the pool is skipped.
PoolmetaSkips(p) ==
    /\ poolmeta.pc = "write" /\ p \in poolmeta.todo /\ p = First(poolmeta.todo)
    /\ Fault
    /\ poolmeta' = WrittenBack(p)
    /\ UNCHANGED <<rows, supervisor, polled, discover, market, history, edits>>

\* A row cannot be written, or the command dies: the rest is left.
PoolmetaFails ==
    /\ poolmeta.pc = "write"
    /\ Fault
    /\ poolmeta' = [pc |-> "done", todo |-> {}]
    /\ UNCHANGED <<rows, supervisor, polled, discover, market, history, edits>>

-----------------------------------------------------------------------------
(* The poolstats stage of the supervisor.                                  *)

StageList ==
    /\ supervisor.up
    /\ stage.pc = "idle" /\ stage.passes < MaxPasses
    /\ Enabled # {}
    /\ stage' = [stage EXCEPT !.passes = @ + 1, !.pc = "read", !.pools = Enabled]
    /\ UNCHANGED <<rows, supervisor, polled, discover, poolmeta, stats, history, edits, faults>>

\* The reads of a snapshot, of each pool: its spot price now and a day ago, its
\* reserves, its buckets.
Kinds == {"spot", "old", "reserves", "volume"}

\* Some reads fail; a chain may have no block a day ago.
StageReads ==
    /\ stage.pc = "read"
    /\ \E bad \in SUBSET (Kinds \X stage.pools), aged \in BOOLEAN :
          LET read(kind) == {p \in stage.pools : <<kind, p>> \notin bad}
              readable == read("spot") \cap Answering
              old == IF aged THEN read("old") \cap Answering ELSE {}
              snapshot == Snapshot(stage.pools, readable, old, read("reserves"), read("volume"))
          IN
          /\ faults + Cardinality(bad) <= MaxFaults
          /\ faults' = faults + Cardinality(bad)
          /\ stage' = [stage EXCEPT !.pc = "write", !.readable = readable, !.todo = stage.pools,
                !.figures = [p \in Pools |-> IF p \in stage.pools THEN snapshot[p] ELSE NoFigures]]
    /\ UNCHANGED <<rows, supervisor, polled, discover, poolmeta, stats, history, edits>>

\* UpsertPoolStats: every figure is overwritten, by NULL too. A row that cannot be
\* written is left as it is.
StageWrites(p) ==
    /\ stage.pc = "write" /\ p \in stage.todo /\ p = First(stage.todo)
    /\ \/ stats' = [stats EXCEPT ![p] = stage.figures[p]] /\ UNCHANGED faults
       \/ Fault /\ UNCHANGED stats
    /\ stage' = IF stage.todo = {p} THEN [Resting EXCEPT !.passes = stage.passes]
                ELSE [stage EXCEPT !.todo = @ \ {p}]
    /\ UNCHANGED <<rows, supervisor, polled, discover, poolmeta, history, edits>>

-----------------------------------------------------------------------------

Next ==
    \/ Start \/ SeedListed
    \/ Discover \/ ListPoolAddresses \/ DiscoverFails
    \/ PoolmetaList \/ PoolmetaFails
    \/ StageList \/ StageReads
    \/ \E p \in Pools :
          \/ OperatorFlips(p) \/ SeedPool(p) \/ Propose(p)
          \/ PoolmetaWrite(p) \/ PoolmetaSkips(p) \/ StageWrites(p)

Spec == Init /\ [][Next]_vars

-----------------------------------------------------------------------------
(* Properties.                                                             *)

\* Nobody's word is lost: a pool is enabled or not as the file or the operator last
\* said, whatever commands run. Except where a command had read the table before and
\* wrote its copy after: discover a pool it did not find listed, poolmeta a row it
\* listed as enabled.
IntentKept ==
    \A p \in Pools : intent[p] # "nothing" /\ p \notin overtaken =>
        rows[p].enabled = (intent[p] = "enabled")

\* A bin step once read is never cleared: not by the file, which has none, nor by a
\* discovery that could not read it (store/queries.go, UpsertPool).
BinStepKept == [][\A p \in Pools : rows[p].binStep => rows'[p].binStep]_rows

\* "Both on-chain tokens must be anchors": whatever the listing service claims, a pool
\* outside the file is in the table, and polled, only if the chain confirmed it.
OnlyVerified == (Present \cup polled) \subseteq Curated \cup (Decodable \cap Anchored)

\* Every price of a snapshot is right in a market without arbitrage, over however
\* many pools it is derived, and every token that stables reach over pools whose spot
\* price was read has one.
PricesRight ==
    /\ \A p \in Pools : stats[p].priced => stats[p].price = Worth[Token0[p]]
    /\ stage.pc = "write" =>
          \A p \in stage.todo :
              stage.figures[p].priced <=> Token0[p] \in Reached(stage.pools, stage.readable)
=============================================================================

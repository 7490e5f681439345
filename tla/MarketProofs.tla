---------------------------- MODULE MarketProofs ----------------------------
(***************************************************************************)
(* Proofs about the market side, PoolRegistry and FlowHistory, for any      *)
(* pools, tokens, restarts, edits, faults and trades.  The registry:        *)
(* nobody's word on a pool is lost but to a stale copy, bin steps stay and  *)
(* no pool is registered that the chain did not confirm.  The statistics:   *)
(* every derived price is right.  The flow: buckets say what was traded,    *)
(* an alarm on a bucket that is still filling is one of Replay's, and a     *)
(* grade says how a signal held up.  Folds are reasoned about through the   *)
(* recursion over sets that the community modules define them by: it has    *)
(* a solution where the operation is a function, and induction over the     *)
(* places of the sequence, as a set of numbers, does the rest.              *)
(***************************************************************************)
EXTENDS PoolRegistry, FlowHistory, FiniteSetTheorems, SequenceTheorems,
        WellFoundedInduction, TLAPS

-----------------------------------------------------------------------------
(* The registry.                                                           *)

\* Of a pool somebody spoke of and no stale copy is about.
Spoken(p) == intent[p] # "nothing" /\ p \notin overtaken
WantsOn(p) == intent[p] = "enabled"

\* A pool somebody spoke of is in the table as it was said, and what the commands are
\* about to write agrees.
Agrees(p) ==
    /\ intent[p] # "nothing" => rows[p].present
    /\ Spoken(p) => (rows[p].enabled <=> WantsOn(p))
    /\ Spoken(p) /\ discover.pc = "write" /\ p \in discover.todo \ discover.known =>
          (discover.auto <=> WantsOn(p))
    /\ Spoken(p) /\ poolmeta.pc = "write" /\ p \in poolmeta.todo => WantsOn(p)

AgreeInv == \A p \in Pools : Agrees(p)

\* What is proposed was confirmed, what is written back is in the table.
ConfirmedInv ==
    /\ discover.todo \subseteq Decodable \cap Anchored
    /\ poolmeta.todo \subseteq Present

IndInv == TypeOK /\ AgreeInv /\ ConfirmedInv /\ OnlyVerified

-----------------------------------------------------------------------------
\* What an upsert does to the table.
LEMMA UpsertIs ==
    ASSUME TypeOK, NEW p \in Pools, NEW e \in BOOLEAN, NEW b \in BOOLEAN, UpsertPool(p, e, b)
    PROVE  /\ rows' \in [Pools -> Rows]
           /\ rows'[p].present /\ (rows'[p].enabled <=> e)
           /\ rows[p].binStep => rows'[p].binStep
           /\ \A q \in Pools : q # p => rows'[q] = rows[q]
  <1> DEFINE step == b \/ rows[p].binStep
             row == [present |-> TRUE, enabled |-> e, binStep |-> step]
  <1>1. step \in BOOLEAN
    OBVIOUS
  <1>2. rows' = [rows EXCEPT ![p] = row]
    BY DEF UpsertPool
  <1>3. rows \in [Pools -> Rows]
    BY DEF TypeOK
  <1>4. rows[p].binStep => step
    OBVIOUS
  <1> HIDE DEF step
  <1>5. row \in Rows /\ row.present = TRUE /\ row.enabled = e /\ row.binStep = step
    BY <1>1 DEF Rows
  <1> HIDE DEF row
  <1>6. rows'[p] = row /\ rows' \in [Pools -> Rows] /\ \A q \in Pools : q # p => rows'[q] = rows[q]
    BY <1>2, <1>3, <1>5
  <1>7. rows'[p].present /\ (rows'[p].enabled <=> e)
    BY <1>5, <1>6, Zenon
  <1>8. rows[p].binStep => rows'[p].binStep
    BY <1>4, <1>5, <1>6, Zenon
  <1> QED
    BY <1>6, <1>7, <1>8

\* What the switch of a pool does to the table.
LEMMA FlipIs ==
    ASSUME TypeOK, NEW p \in Pools, rows[p].present,
           rows' = [rows EXCEPT ![p].enabled = ~@]
    PROVE  /\ rows' \in [Pools -> Rows]
           /\ rows'[p].present /\ (rows'[p].enabled <=> ~rows[p].enabled)
           /\ rows[p].binStep => rows'[p].binStep
           /\ \A q \in Pools : q # p => rows'[q] = rows[q]
  <1> DEFINE off == ~rows[p].enabled
             row == [rows[p] EXCEPT !.enabled = off]
  <1>1. rows \in [Pools -> Rows] /\ rows[p] \in Rows
    BY DEF TypeOK
  <1>2. rows' = [rows EXCEPT ![p] = row] /\ off \in BOOLEAN /\ (off <=> ~rows[p].enabled)
    BY <1>1
  <1> HIDE DEF off
  <1>3. row \in Rows /\ row.present = rows[p].present /\ row.enabled = off
        /\ row.binStep = rows[p].binStep
    BY <1>1, <1>2 DEF Rows
  <1> HIDE DEF row
  <1>4. rows'[p] = row /\ rows' \in [Pools -> Rows] /\ \A q \in Pools : q # p => rows'[q] = rows[q]
    BY <1>1, <1>2, <1>3
  <1> QED
    BY <1>2, <1>3, <1>4, Zenon

\* Whoever says whether a pool is enabled has spoken of it, and is overtaken by the
\* copies that disagree.
LEMMA SaysIs ==
    ASSUME TypeOK, NEW p \in Pools, NEW e \in BOOLEAN, Says(p, e)
    PROVE  /\ intent' \in [Pools -> Sayings] /\ overtaken' \subseteq Pools
           /\ intent'[p] # "nothing" /\ (WantsOn(p)' <=> e)
           /\ Spoken(p)' => ~AboutToWrite(p, ~e)
           /\ \A q \in Pools : q # p =>
                 /\ intent'[q] = intent[q]
                 /\ Spoken(q)' <=> Spoken(q)
                 /\ WantsOn(q)' <=> WantsOn(q)
  <1> DEFINE word == IF e THEN "enabled" ELSE "disabled"
  <1>1. word \in Sayings /\ word # "nothing" /\ (word = "enabled" <=> e)
    BY DEF Sayings
  <1>2. intent' = [intent EXCEPT ![p] = word] /\ intent \in [Pools -> Sayings]
    BY DEF Says, TypeOK
  <1> HIDE DEF word
  <1>3. /\ intent' \in [Pools -> Sayings] /\ intent'[p] = word
        /\ \A q \in Pools : q # p => intent'[q] = intent[q]
    BY <1>1, <1>2
  <1>4. /\ overtaken' \subseteq Pools /\ (p \notin overtaken' => ~AboutToWrite(p, ~e))
        /\ \A q \in Pools : q # p => (q \in overtaken' <=> q \in overtaken)
    BY DEF Says, TypeOK
  <1> QED
    BY <1>1, <1>3, <1>4 DEF Spoken, WantsOn

\* Steps that leave the table and what was said alone.
Quiet == UNCHANGED <<rows, intent, overtaken>>

\* Steps of the two commands as far as the invariant goes.
LEMMA ProposedIs ==
    ASSUME TypeOK, NEW p \in Pools, discover' = Proposed(p)
    PROVE  /\ discover' \in Discovery /\ discover'.todo = discover.todo \ {p}
           /\ discover'.known = discover.known /\ discover'.auto = discover.auto
           /\ discover'.pc \in {discover.pc, "done"}
  BY DEF Proposed, TypeOK, Discovery

\* A pool that poolmeta wrote back is off its list, and nothing else happens to it.
LEMMA WrittenBackIs ==
    ASSUME TypeOK, NEW p \in Pools, poolmeta' = WrittenBack(p)
    PROVE  /\ poolmeta' \in Poolmeta /\ poolmeta'.todo = poolmeta.todo \ {p}
           /\ poolmeta'.pc \in {poolmeta.pc, "done"}
  BY DEF WrittenBack, TypeOK, Poolmeta

\* A command that takes pools off its list, or ends, agrees with what was said all
\* the more.
LEMMA QuietAgrees ==
    ASSUME TypeOK, NEW q \in Pools, Agrees(q),
           rows'[q] = rows[q], intent'[q] = intent[q], Spoken(q)' => Spoken(q),
           \/ discover' = discover
           \/ discover'.pc # "write"
           \/ /\ discover.pc = "write" /\ discover'.auto = discover.auto
              /\ discover'.todo \subseteq discover.todo /\ discover'.known = discover.known,
           \/ poolmeta' = poolmeta
           \/ poolmeta'.pc # "write"
           \/ poolmeta.pc = "write" /\ poolmeta'.todo \subseteq poolmeta.todo
    PROVE  Agrees(q)'
  <1>1. WantsOn(q)' <=> WantsOn(q)
    BY DEF WantsOn
  <1>2. /\ intent'[q] # "nothing" => rows'[q].present
        /\ Spoken(q)' => (rows'[q].enabled <=> WantsOn(q)')
    BY <1>1 DEF Agrees
  <1>3. Spoken(q)' /\ discover'.pc = "write" /\ q \in discover'.todo \ discover'.known =>
           (discover'.auto <=> WantsOn(q)')
    BY <1>1 DEF Agrees
  <1>4. Spoken(q)' /\ poolmeta'.pc = "write" /\ q \in poolmeta'.todo => WantsOn(q)'
    BY <1>1 DEF Agrees
  <1> QED
    BY <1>2, <1>3, <1>4 DEF Agrees

\* Somebody says of a pool whether it is enabled, and the table has it.
LEMMA SaidAgrees ==
    ASSUME TypeOK, AgreeInv, NEW p \in Pools, NEW e \in BOOLEAN, Says(p, e),
           rows'[p].present, rows'[p].enabled <=> e, \A q \in Pools : q # p => rows'[q] = rows[q],
           UNCHANGED <<discover, poolmeta>>
    PROVE  AgreeInv'
  <1>1. /\ intent'[p] # "nothing" /\ (WantsOn(p)' <=> e)
        /\ Spoken(p)' => ~AboutToWrite(p, ~e)
        /\ \A q \in Pools : q # p => intent'[q] = intent[q] /\ (Spoken(q)' <=> Spoken(q))
    BY SaysIs
  <1>2. ASSUME NEW q \in Pools, q # p PROVE Agrees(q)'
    BY <1>1, <1>2, QuietAgrees DEF AgreeInv
  <1>3. ASSUME Spoken(p)', discover.pc = "write", p \in discover.todo \ discover.known
        PROVE  discover.auto <=> WantsOn(p)'
    <2>1. discover.auto # ~e /\ discover.auto \in BOOLEAN
      BY <1>1, <1>3 DEF AboutToWrite, TypeOK, Discovery
    <2> QED
      BY <1>1, <2>1
  <1>4. ASSUME Spoken(p)', poolmeta.pc = "write", p \in poolmeta.todo
        PROVE  WantsOn(p)'
    BY <1>1, <1>4 DEF AboutToWrite
  <1>5. Agrees(p)'
    BY <1>1, <1>3, <1>4 DEF Agrees
  <1> QED
    BY <1>2, <1>5 DEF AgreeInv

-----------------------------------------------------------------------------
\* Every step keeps the invariant. The steps that write to the table:
LEMMA WriteStep ==
    ASSUME IndInv, NEW p \in Pools, OperatorFlips(p) \/ SeedPool(p) \/ Propose(p) \/ PoolmetaWrite(p)
    PROVE  /\ rows' \in [Pools -> Rows] /\ intent' \in [Pools -> Sayings]
           /\ overtaken' \subseteq Pools /\ discover' \in Discovery /\ poolmeta' \in Poolmeta
           /\ AgreeInv'
           /\ rows[p].binStep => rows'[p].binStep
           /\ \A q \in Pools : q # p => rows'[q] = rows[q]
           /\ \A q \in Pools : rows[q].present => rows'[q].present
           /\ rows'[p].present => rows[p].present \/ p \in Curated \/ p \in Decodable \cap Anchored
           /\ discover'.todo \subseteq discover.todo /\ poolmeta'.todo \subseteq poolmeta.todo
  <1>1. TypeOK /\ AgreeInv /\ ConfirmedInv
    BY DEF IndInv
  <1>2. CASE OperatorFlips(p)
    <2> DEFINE e == ~rows[p].enabled
    <2>1. /\ rows[p].present /\ rows' = [rows EXCEPT ![p].enabled = ~@] /\ Says(p, e)
          /\ UNCHANGED <<discover, poolmeta>>
      BY <1>2 DEF OperatorFlips
    <2>2. e \in BOOLEAN /\ (e <=> ~rows[p].enabled)
      OBVIOUS
    <2>3. /\ rows' \in [Pools -> Rows] /\ rows'[p].present /\ (rows'[p].enabled <=> e)
          /\ rows[p].binStep => rows'[p].binStep
          /\ \A q \in Pools : q # p => rows'[q] = rows[q]
      BY <1>1, <2>1, FlipIs
    <2> HIDE DEF e
    <2>4. AgreeInv' /\ intent' \in [Pools -> Sayings] /\ overtaken' \subseteq Pools
      BY <1>1, <2>1, <2>2, <2>3, SaidAgrees, SaysIs
    <2> QED
      BY <1>1, <2>1, <2>3, <2>4 DEF TypeOK
  <1>3. CASE SeedPool(p)
    <2>1. /\ UpsertPool(p, TRUE, FALSE) /\ Says(p, TRUE) /\ p \in supervisor.todo
          /\ UNCHANGED <<discover, poolmeta>>
      BY <1>3 DEF SeedPool
    <2>2. /\ rows' \in [Pools -> Rows] /\ rows'[p].present /\ (rows'[p].enabled <=> TRUE)
          /\ rows[p].binStep => rows'[p].binStep
          /\ \A q \in Pools : q # p => rows'[q] = rows[q]
      BY <1>1, <2>1, UpsertIs
    <2>3. AgreeInv' /\ intent' \in [Pools -> Sayings] /\ overtaken' \subseteq Pools
      BY <1>1, <2>1, <2>2, SaidAgrees, SaysIs
    <2> QED
      BY <1>1, <2>1, <2>2, <2>3 DEF TypeOK
  <1>4. CASE Propose(p)
    <2>1. /\ discover.pc = "write" /\ p \in discover.todo /\ discover' = Proposed(p)
          /\ UNCHANGED <<poolmeta, intent, overtaken>>
      BY <1>4 DEF Propose, history
    <2>2. /\ discover' \in Discovery /\ discover'.todo = discover.todo \ {p}
          /\ discover'.known = discover.known /\ discover'.auto = discover.auto
      BY <1>1, <2>1, ProposedIs
    <2>3. ASSUME NEW q \in Pools, rows'[q] = rows[q] PROVE Agrees(q)'
      BY <1>1, <2>1, <2>2, <2>3, QuietAgrees DEF AgreeInv, Spoken
    <2>4. CASE p \in discover.known
      <3>1. rows' = rows
        BY <1>4, <2>4 DEF Propose
      <3> QED
        BY <1>1, <2>1, <2>2, <2>3, <3>1 DEF AgreeInv, TypeOK
    <2>5. CASE p \notin discover.known
      <3> DEFINE step == p \in discover.steps
      <3>1. UpsertPool(p, discover.auto, step)
        BY <1>4, <2>5 DEF Propose
      <3>2. discover.auto \in BOOLEAN /\ step \in BOOLEAN
        BY <1>1 DEF TypeOK, Discovery
      <3> HIDE DEF step
      <3>3. /\ rows' \in [Pools -> Rows] /\ rows'[p].present /\ (rows'[p].enabled <=> discover.auto)
            /\ rows[p].binStep => rows'[p].binStep
            /\ \A q \in Pools : q # p => rows'[q] = rows[q]
        BY <1>1, <3>1, <3>2, UpsertIs
      <3>4. Spoken(p) => (discover.auto <=> WantsOn(p))
        BY <1>1, <2>1, <2>5 DEF AgreeInv, Agrees
      <3>5. Spoken(p) /\ poolmeta.pc = "write" /\ p \in poolmeta.todo => WantsOn(p)
        BY <1>1 DEF AgreeInv, Agrees
      <3>6. (Spoken(p)' <=> Spoken(p)) /\ (WantsOn(p)' <=> WantsOn(p))
        BY <2>1 DEF Spoken, WantsOn
      <3>7. Agrees(p)'
        BY <2>1, <2>2, <3>3, <3>4, <3>5, <3>6 DEF Agrees
      <3>8. AgreeInv'
        BY <2>3, <3>3, <3>7 DEF AgreeInv
      <3> QED
        BY <1>1, <2>1, <2>2, <3>3, <3>8 DEF TypeOK, ConfirmedInv
    <2> QED
      BY <2>4, <2>5
  <1>5. CASE PoolmetaWrite(p)
    <2>1. /\ poolmeta.pc = "write" /\ p \in poolmeta.todo /\ UpsertPool(p, TRUE, TRUE)
          /\ poolmeta' = WrittenBack(p) /\ UNCHANGED <<discover, intent, overtaken>>
      BY <1>5 DEF PoolmetaWrite, history
    <2>2. poolmeta' \in Poolmeta /\ poolmeta'.todo = poolmeta.todo \ {p}
      BY <1>1, <2>1, WrittenBackIs
    <2>3. /\ rows' \in [Pools -> Rows] /\ rows'[p].present /\ (rows'[p].enabled <=> TRUE)
          /\ rows[p].binStep => rows'[p].binStep
          /\ \A q \in Pools : q # p => rows'[q] = rows[q]
      BY <1>1, <2>1, UpsertIs
    <2>4. ASSUME NEW q \in Pools, rows'[q] = rows[q] PROVE Agrees(q)'
      BY <1>1, <2>1, <2>2, <2>4, QuietAgrees DEF AgreeInv, Spoken
    <2>5. Spoken(p) => WantsOn(p)
      BY <1>1, <2>1 DEF AgreeInv, Agrees
    <2>6. Spoken(p) /\ discover.pc = "write" /\ p \in discover.todo \ discover.known =>
             (discover.auto <=> WantsOn(p))
      BY <1>1 DEF AgreeInv, Agrees
    <2>7. (Spoken(p)' <=> Spoken(p)) /\ (WantsOn(p)' <=> WantsOn(p))
      BY <2>1 DEF Spoken, WantsOn
    <2>8. Agrees(p)'
      BY <2>1, <2>2, <2>3, <2>5, <2>6, <2>7 DEF Agrees
    <2>9. AgreeInv'
      BY <2>3, <2>4, <2>8 DEF AgreeInv
    <2>10. rows[p].present
      BY <1>1, <2>1 DEF ConfirmedInv, Present
    <2> QED
      BY <1>1, <2>1, <2>2, <2>3, <2>9, <2>10 DEF TypeOK
  <1> QED
    BY <1>2, <1>3, <1>4, <1>5

\* And the others.
LEMMA QuietStep ==
    ASSUME IndInv, Next,
           ~\E p \in Pools : OperatorFlips(p) \/ SeedPool(p) \/ Propose(p) \/ PoolmetaWrite(p)
    PROVE  /\ Quiet /\ discover' \in Discovery /\ poolmeta' \in Poolmeta
           /\ AgreeInv'
           /\ discover'.todo \subseteq Decodable \cap Anchored
           /\ poolmeta'.todo \subseteq Present
  <1>1. TypeOK /\ AgreeInv /\ ConfirmedInv
    BY DEF IndInv
  <1>2. ASSUME Quiet,
               \/ discover' = discover
               \/ discover'.pc # "write"
               \/ /\ discover.pc = "write" /\ discover'.auto = discover.auto
                  /\ discover'.todo \subseteq discover.todo /\ discover'.known = discover.known,
               \/ poolmeta' = poolmeta
               \/ poolmeta'.pc # "write"
               \/ poolmeta.pc = "write" /\ poolmeta'.todo \subseteq poolmeta.todo
        PROVE  AgreeInv'
    <2> SUFFICES ASSUME NEW q \in Pools PROVE Agrees(q)'
      BY DEF AgreeInv
    <2>1. rows'[q] = rows[q] /\ intent'[q] = intent[q] /\ (Spoken(q)' => Spoken(q)) /\ Agrees(q)
      BY <1>1, <1>2 DEF Quiet, Spoken, AgreeInv
    <2> QED
      BY <1>1, <1>2, <2>1, QuietAgrees
  <1>3. CASE \/ Start \/ SeedListed \/ StageList \/ StageReads
             \/ \E p \in Pools : StageWrites(p)
    <2>1. Quiet /\ UNCHANGED <<discover, poolmeta>>
      BY <1>3 DEF Start, SeedListed, StageList, StageReads, StageWrites, Quiet, history
    <2> QED
      BY <1>1, <1>2, <2>1 DEF TypeOK, ConfirmedInv
  <1>4. CASE Discover
    <2>1. PICK auto \in BOOLEAN, named \in TopPools :
             \E steps \in SUBSET {p \in Proposals(named) : IsLB(p)} :
                discover' = [pc |-> "list", auto |-> auto, todo |-> Proposals(named),
                             steps |-> steps, known |-> {}]
      BY <1>4 DEF Discover
    <2>2. PICK steps \in SUBSET {p \in Proposals(named) : IsLB(p)} :
             discover' = [pc |-> "list", auto |-> auto, todo |-> Proposals(named),
                          steps |-> steps, known |-> {}]
      BY <2>1
    <2>3. Proposals(named) \subseteq Decodable \cap Anchored /\ Proposals(named) \subseteq Pools
      BY RegistryAssumption DEF Proposals
    <2>4. steps \in SUBSET Pools
      BY <2>3
    <2>5. /\ discover' \in Discovery /\ discover'.pc # "write"
          /\ discover'.todo \subseteq Decodable \cap Anchored
      BY <2>2, <2>3, <2>4 DEF Discovery
    <2>6. Quiet /\ UNCHANGED poolmeta
      BY <1>4 DEF Discover, Quiet, history
    <2> QED
      BY <1>1, <1>2, <2>5, <2>6 DEF TypeOK, ConfirmedInv
  <1>5. CASE ListPoolAddresses
    <2>1. /\ Quiet /\ UNCHANGED poolmeta
          /\ discover' = [discover EXCEPT !.pc = "write", !.known = Present]
      BY <1>5 DEF ListPoolAddresses, Quiet, history
    <2>2. Present \in SUBSET Pools
      BY DEF Present
    <2>3. /\ discover' \in Discovery /\ discover'.todo = discover.todo
          /\ discover'.known = Present
      BY <1>1, <2>1, <2>2 DEF TypeOK, Discovery
    <2>4. ASSUME NEW q \in Pools PROVE Agrees(q)'
      <3>1. Agrees(q) /\ (Spoken(q)' <=> Spoken(q)) /\ (WantsOn(q)' <=> WantsOn(q))
            /\ rows'[q] = rows[q] /\ intent'[q] = intent[q]
        BY <1>1, <2>1 DEF AgreeInv, Quiet, Spoken, WantsOn
      <3>2. Spoken(q) => q \in Present
        BY <3>1 DEF Agrees, Spoken, Present
      <3> QED
        BY <2>1, <2>3, <3>1, <3>2 DEF Agrees
    <2> QED
      BY <1>1, <2>1, <2>3, <2>4 DEF AgreeInv, TypeOK, ConfirmedInv
  <1>6. CASE DiscoverFails
    <2>1. /\ Quiet /\ UNCHANGED poolmeta
          /\ discover' = [discover EXCEPT !.pc = "done", !.todo = {}]
      BY <1>6 DEF DiscoverFails, Quiet, history
    <2>2. discover' \in Discovery /\ discover'.pc # "write" /\ discover'.todo = {}
      BY <1>1, <2>1 DEF TypeOK, Discovery
    <2> QED
      BY <1>1, <1>2, <2>1, <2>2 DEF TypeOK, ConfirmedInv
  <1>7. CASE PoolmetaList
    <2>1. /\ Quiet /\ UNCHANGED discover
          /\ poolmeta' = [pc |-> "write", todo |-> {p \in Enabled : IsLB(p)}]
      BY <1>7 DEF PoolmetaList, Quiet, history
    <2>2. Enabled \subseteq Pools /\ Enabled \subseteq Present
      BY DEF Enabled, Present
    <2>3. /\ poolmeta' \in Poolmeta /\ poolmeta'.todo \subseteq Enabled
          /\ poolmeta'.todo \subseteq Present
      BY <2>1, <2>2 DEF Poolmeta
    <2>4. ASSUME NEW q \in Pools PROVE Agrees(q)'
      <3>1. Agrees(q) /\ (Spoken(q)' <=> Spoken(q)) /\ (WantsOn(q)' <=> WantsOn(q))
            /\ rows'[q] = rows[q] /\ intent'[q] = intent[q]
        BY <1>1, <2>1 DEF AgreeInv, Quiet, Spoken, WantsOn
      <3>2. Spoken(q) /\ q \in Enabled => WantsOn(q)
        BY <3>1 DEF Agrees, Enabled
      <3> QED
        BY <2>1, <2>3, <3>1, <3>2 DEF Agrees
    <2> QED
      BY <1>1, <2>1, <2>3, <2>4 DEF AgreeInv, TypeOK, ConfirmedInv
  <1>8. CASE PoolmetaFails
    <2>1. Quiet /\ UNCHANGED discover /\ poolmeta' = [pc |-> "done", todo |-> {}]
      BY <1>8 DEF PoolmetaFails, Quiet, history
    <2>2. poolmeta' \in Poolmeta /\ poolmeta'.pc # "write" /\ poolmeta'.todo = {}
      BY <2>1 DEF Poolmeta
    <2> QED
      BY <1>1, <1>2, <2>1, <2>2 DEF TypeOK, ConfirmedInv
  <1>9. ASSUME NEW p \in Pools, PoolmetaSkips(p)
        PROVE  /\ Quiet /\ UNCHANGED discover /\ poolmeta' \in Poolmeta
               /\ poolmeta.pc = "write" /\ poolmeta'.todo \subseteq poolmeta.todo
    <2>1. /\ Quiet /\ UNCHANGED discover /\ poolmeta.pc = "write" /\ poolmeta' = WrittenBack(p)
      BY <1>9 DEF PoolmetaSkips, Quiet, history
    <2> QED
      BY <1>1, <2>1, WrittenBackIs
  <1>10. CASE \E p \in Pools : PoolmetaSkips(p)
    <2>1. /\ Quiet /\ UNCHANGED discover /\ poolmeta' \in Poolmeta
          /\ poolmeta.pc = "write" /\ poolmeta'.todo \subseteq poolmeta.todo
      BY <1>9, <1>10
    <2> QED
      BY <1>1, <1>2, <2>1 DEF TypeOK, ConfirmedInv
  <1> QED
    BY <1>3, <1>4, <1>5, <1>6, <1>7, <1>8, <1>10 DEF Next

\* Every step keeps the invariant.
LEMMA InvStep ==
    ASSUME IndInv, [Next]_vars
    PROVE  IndInv'
  <1>1. TypeOK /\ AgreeInv /\ ConfirmedInv /\ OnlyVerified
    BY DEF IndInv
  <1>2. CASE Next
    <2>1. /\ supervisor' \in [starts : 0..MaxRestarts, up : BOOLEAN, todo : SUBSET Curated]
          /\ edits' \in 0..MaxEdits
          /\ polled' \subseteq polled \cup Present /\ polled' \subseteq Pools
      <3>1. CASE Start
        BY <1>1, <3>1, RegistryAssumption DEF Start, TypeOK
      <3>2. CASE SeedListed
        BY <1>1, <3>2 DEF SeedListed, TypeOK, Enabled, Present
      <3>3. ASSUME NEW p \in Pools, SeedPool(p)
            PROVE  /\ supervisor' \in [starts : 0..MaxRestarts, up : BOOLEAN, todo : SUBSET Curated]
                   /\ polled' = polled /\ edits' = edits
        BY <1>1, <3>3 DEF SeedPool, TypeOK
      <3>4. CASE \E p \in Pools : SeedPool(p)
        BY <1>1, <3>3, <3>4 DEF TypeOK
      <3>6. ASSUME NEW p \in Pools, OperatorFlips(p)
            PROVE  edits' \in 0..MaxEdits /\ UNCHANGED <<supervisor, polled>>
        BY <1>1, <3>6, RegistryAssumption DEF OperatorFlips, TypeOK
      <3>7. CASE \E p \in Pools : OperatorFlips(p)
        BY <1>1, <3>6, <3>7 DEF TypeOK
      <3>5. CASE ~Start /\ ~SeedListed /\ ~\E p \in Pools : SeedPool(p) \/ OperatorFlips(p)
        <4>1. UNCHANGED <<supervisor, polled, edits>>
          BY <1>2, <3>5 DEF Next, Discover, ListPoolAddresses, DiscoverFails, PoolmetaList,
            PoolmetaFails, StageList, StageReads, Propose, PoolmetaWrite,
            PoolmetaSkips, StageWrites
        <4> QED
          BY <1>1, <4>1 DEF TypeOK
      <3> QED
        BY <3>1, <3>2, <3>4, <3>5, <3>7
    <2>2. CASE \E p \in Pools : OperatorFlips(p) \/ SeedPool(p) \/ Propose(p) \/ PoolmetaWrite(p)
      <3>1. PICK p \in Pools : OperatorFlips(p) \/ SeedPool(p) \/ Propose(p) \/ PoolmetaWrite(p)
        BY <2>2
      <3>2. TypeOK' /\ AgreeInv'
        BY <2>1, <3>1, WriteStep DEF TypeOK
      <3>3. /\ \A q \in Pools : q # p => rows'[q] = rows[q]
            /\ \A q \in Pools : rows[q].present => rows'[q].present
            /\ rows'[p].present => rows[p].present \/ p \in Curated \/ p \in Decodable \cap Anchored
            /\ discover'.todo \subseteq discover.todo /\ poolmeta'.todo \subseteq poolmeta.todo
        BY <1>1, <3>1, WriteStep
      <3>4. Present \subseteq Present'
        BY <3>3 DEF Present
      <3>5. Present' \subseteq Present \cup Curated \cup (Decodable \cap Anchored)
        <4> SUFFICES ASSUME NEW q \in Pools, rows'[q].present
                     PROVE  q \in Present \cup Curated \cup (Decodable \cap Anchored)
          BY DEF Present
        <4>1. CASE q = p
          BY <3>3, <4>1 DEF Present
        <4>2. CASE q # p
          BY <3>3, <4>2 DEF Present
        <4> QED
          BY <4>1, <4>2
      <3>6. ConfirmedInv'
        BY <1>1, <3>3, <3>4 DEF ConfirmedInv
      <3>7. OnlyVerified'
        BY <1>1, <2>1, <3>5 DEF OnlyVerified
      <3> QED
        BY <3>2, <3>6, <3>7 DEF IndInv
    <2>3. CASE ~\E p \in Pools : OperatorFlips(p) \/ SeedPool(p) \/ Propose(p) \/ PoolmetaWrite(p)
      <3>1. /\ Quiet /\ discover' \in Discovery /\ poolmeta' \in Poolmeta /\ AgreeInv'
            /\ discover'.todo \subseteq Decodable \cap Anchored
            /\ poolmeta'.todo \subseteq Present
        BY <1>2, <2>3, QuietStep
      <3>2. Present' = Present
        BY <3>1 DEF Quiet, Present
      <3>3. TypeOK'
        BY <1>1, <2>1, <3>1 DEF TypeOK, Quiet
      <3>4. ConfirmedInv' /\ OnlyVerified'
        BY <1>1, <2>1, <3>1, <3>2 DEF ConfirmedInv, OnlyVerified
      <3> QED
        BY <3>1, <3>3, <3>4 DEF IndInv
    <2> QED
      BY <2>2, <2>3
  <1>3. CASE UNCHANGED vars
    BY <1>1, <1>3 DEF vars, market, history, IndInv, TypeOK, AgreeInv, Agrees, Spoken, WantsOn,
      ConfirmedInv, OnlyVerified, Present
  <1> QED
    BY <1>2, <1>3

-----------------------------------------------------------------------------
\* It holds at first.
LEMMA InitInd == Init => IndInv
  <1> SUFFICES ASSUME Init PROVE IndInv
    OBVIOUS
  <1>1. /\ \A p \in Pools : rows[p] = NoRow /\ intent[p] = "nothing"
        /\ rows = [p \in Pools |-> NoRow] /\ intent = [p \in Pools |-> "nothing"]
        /\ supervisor = [starts |-> 0, up |-> FALSE, todo |-> {}]
        /\ polled = {} /\ overtaken = {} /\ edits = 0
        /\ discover = [pc |-> "idle", auto |-> FALSE, todo |-> {}, steps |-> {}, known |-> {}]
        /\ poolmeta = [pc |-> "idle", todo |-> {}]
    BY DEF Init
  <1>2. TypeOK
    <2>1. NoRow \in Rows /\ "nothing" \in Sayings
      BY DEF NoRow, Rows, Sayings
    <2>2. discover \in Discovery /\ poolmeta \in Poolmeta
      BY <1>1 DEF Discovery, Poolmeta
    <2>3. supervisor \in [starts : 0..MaxRestarts, up : BOOLEAN, todo : SUBSET Curated]
      BY <1>1, RegistryAssumption
    <2>4. edits \in 0..MaxEdits
      BY <1>1, RegistryAssumption
    <2> QED
      BY <1>1, <2>1, <2>2, <2>3, <2>4 DEF TypeOK
  <1>3. AgreeInv
    BY <1>1 DEF AgreeInv, Agrees, Spoken
  <1>4. Present = {}
    BY <1>1 DEF Present, NoRow
  <1>5. ConfirmedInv /\ OnlyVerified
    BY <1>1, <1>4 DEF ConfirmedInv, OnlyVerified
  <1> QED
    BY <1>2, <1>3, <1>5 DEF IndInv

\* The strengthened invariant: the table, what was said of its pools and what commands
\* are about to write agree (seedPools, discover, poolmeta).
THEOREM Inductive == Spec => []IndInv
  <1>1. IndInv /\ [Next]_vars => IndInv'
    BY InvStep
  <1> QED
    BY InitInd, <1>1, PTL DEF Spec

\* The table and its writers keep their types, for any pools and bounds.
THEOREM TypeCorrect == Spec => []TypeOK
  <1>1. IndInv => TypeOK
    BY DEF IndInv
  <1> QED
    BY Inductive, <1>1, PTL

\* Nobody's word on a pool is lost but to a copy that a command had read before, for
\* any pools and any number of restarts, edits and failures (UpsertPool's callers).
THEOREM WordsAreKept == Spec => []IntentKept
  <1>1. IndInv => IntentKept
    <2> SUFFICES ASSUME IndInv, NEW p \in Pools, intent[p] # "nothing", p \notin overtaken
                 PROVE  rows[p].enabled = (intent[p] = "enabled")
      BY DEF IntentKept
    <2>1. rows[p].enabled <=> intent[p] = "enabled"
      BY DEF IndInv, AgreeInv, Agrees, Spoken, WantsOn
    <2>2. rows[p].enabled \in BOOLEAN
      BY DEF IndInv, TypeOK, Rows
    <2> QED
      BY <2>1, <2>2
  <1> QED
    BY Inductive, <1>1, PTL

\* Whatever the listing service claims, a pool outside the file is registered and
\* polled only if the chain confirmed it (discover.Discover).
THEOREM PoolsAreConfirmed == Spec => []OnlyVerified
  <1>1. IndInv => OnlyVerified
    BY DEF IndInv
  <1> QED
    BY Inductive, <1>1, PTL

\* No statement of any writer clears a bin step (UpsertPool).
THEOREM BinStepsStay == Spec => BinStepKept
  <1>1. ASSUME IndInv, [Next]_vars
        PROVE  [\A p \in Pools : rows[p].binStep => rows'[p].binStep]_rows
    <2>1. CASE \E p \in Pools : OperatorFlips(p) \/ SeedPool(p) \/ Propose(p) \/ PoolmetaWrite(p)
      <3>1. PICK p \in Pools : OperatorFlips(p) \/ SeedPool(p) \/ Propose(p) \/ PoolmetaWrite(p)
        BY <2>1
      <3>2. /\ rows[p].binStep => rows'[p].binStep
            /\ \A q \in Pools : q # p => rows'[q] = rows[q]
        BY <1>1, <3>1, WriteStep
      <3>3. \A q \in Pools : rows[q].binStep => rows'[q].binStep
        BY <3>2
      <3> QED
        BY <3>3
    <2>2. CASE Next /\ ~\E p \in Pools : OperatorFlips(p) \/ SeedPool(p) \/ Propose(p) \/ PoolmetaWrite(p)
      BY <1>1, <2>2, QuietStep DEF Quiet
    <2>3. CASE UNCHANGED vars
      BY <2>3 DEF vars
    <2> QED
      BY <1>1, <2>1, <2>2, <2>3
  <1> QED
    BY Inductive, <1>1, PTL DEF Spec, BinStepKept

-----------------------------------------------------------------------------
(* Induction and folds.                                                    *)

\* A set of natural numbers that is not empty has a least element,
LEMMA Lowest ==
    ASSUME NEW S \in SUBSET Nat, S # {}
    PROVE  \E m \in S : \A k \in S : m <= k
  <1> DEFINE Less == OpToRel(<, Nat)
  <1>1. \A k, m \in S : k < m => <<k, m>> \in Less
    BY Zenon DEF OpToRel
  <1>2. IsWellFoundedOn(Less, Nat)
    BY NatLessThanWellFounded
  <1> HIDE DEF Less
  <1>3. PICK m \in S : \A k \in S : <<k, m>> \notin Less
    BY <1>2, WFMin
  <1>4. ASSUME NEW k \in S PROVE m <= k
    <2>1. k \in Int /\ m \in Int
      OBVIOUS
    <2>2. ~(k < m)
      BY <1>1, <1>3
    <2> QED
      BY <2>1, <2>2
  <1> QED
    BY <1>4

\* and a greatest one if it is bounded.
LEMMA Highest ==
    ASSUME NEW n \in Nat, NEW S \in SUBSET (0..n), S # {}
    PROVE  Max(S) \in S /\ \A k \in S : k <= Max(S)
  <1> DEFINE T == {n - k : k \in S}
  <1>1. T \in SUBSET Nat /\ T # {}
    <2>1. \A k \in S : k \in Int /\ n - k \in Nat
      OBVIOUS
    <2> QED
      BY <2>1
  <1>2. PICK t \in T : \A u \in T : t <= u
    <2> HIDE DEF T
    <2> QED
      BY <1>1, Lowest
  <1>3. PICK m \in S : t = n - m
    OBVIOUS
  <1>4. ASSUME NEW k \in S PROVE m >= k
    <2>1. n - m <= n - k
      BY <1>2, <1>3
    <2> QED
      BY <2>1
  <1>5. \E x \in S : \A y \in S : x >= y
    BY <1>4
  <1> QED
    BY <1>5 DEF Max

\* The greatest number of a set of them is one of the set.
LEMMA HighestOf ==
    ASSUME NEW n \in Nat, NEW t \in SUBSET (1..n), t # {}
    PROVE  Max(t) \in t /\ Max(t) \in 1..n /\ \A k \in t : k <= Max(t)
  <1>1. t \in SUBSET (0..n)
    OBVIOUS
  <1> QED
    BY <1>1, Highest

\* Induction up to a number, for the set of those that have a property.
LEMMA Induction ==
    ASSUME NEW n \in Nat, NEW S, 0 \in S, \A k \in 0..(n - 1) : k \in S => k + 1 \in S
    PROVE  \A k \in 0..n : k \in S
  <1> DEFINE Bad == {k \in 0..n : k \notin S}
  <1> SUFFICES ASSUME Bad # {} PROVE FALSE
    OBVIOUS
  <1>1. PICK m \in Bad : \A k \in Bad : m <= k
    <2>1. Bad \in SUBSET Nat
      OBVIOUS
    <2> HIDE DEF Bad
    <2> QED
      BY <2>1, Lowest
  <1>2. m # 0 /\ m - 1 \in 0..(n - 1) /\ m - 1 \notin Bad
    BY <1>1
  <1> QED
    BY <1>1, <1>2

\* The recursion over the sets of places that FoldLeft stands for has a solution, where
\* each element is a function.
Solves(h, n, base, step, s) ==
    \A t \in SUBSET (1..n) : h[t] = IF t = {} THEN base ELSE step[s[Max(t)]][h[t \ {Max(t)}]]

\* A fold by functions over a sequence has values after each of its prefixes.
LEMMA FoldExists ==
    ASSUME NEW A, NEW X, NEW step \in [X -> [A -> A]], NEW base \in A,
           NEW n \in Nat, NEW s \in [1..n -> X]
    PROVE  \E h \in [SUBSET (1..n) -> A] : Solves(h, n, base, step, s)
  <1> DEFINE D == SUBSET (1..n)
             Eq(h, t) == h[t] = IF t = {} THEN base ELSE step[s[Max(t)]][h[t \ {Max(t)}]]
             Low(k) == SUBSET (1..k)
             Good == {k \in 0..n : \E h \in [D -> A] : \A t \in Low(k) : Eq(h, t)}
  <1>1. ASSUME NEW t \in D, t # {}
        PROVE  Max(t) \in t /\ \A k \in t : k <= Max(t)
    <2>1. t \in SUBSET (0..n)
      OBVIOUS
    <2> QED
      BY <1>1, <2>1, Highest
  <1>2. 0 \in Good
    <2> DEFINE h == [t \in D |-> base]
    <2>1. Low(0) = {{}} /\ {} \in D
      OBVIOUS
    <2>2. h \in [D -> A] /\ h[{}] = base
      BY <2>1
    <2>3. \A t \in Low(0) : Eq(h, t)
      BY <2>1, <2>2
    <2> HIDE DEF h, Eq, D, Low
    <2> QED
      BY <2>2, <2>3
  <1>3. ASSUME NEW k \in 0..(n - 1), k \in Good PROVE k + 1 \in Good
    <2>1. PICK h \in [D -> A] : \A t \in Low(k) : Eq(h, t)
      BY <1>3
    <2> DEFINE g == [t \in D |-> IF t = {} THEN base ELSE step[s[Max(t)]][h[t \ {Max(t)}]]]
    <2>2. g \in [D -> A]
      <3> SUFFICES ASSUME NEW t \in D, t # {}
                   PROVE  step[s[Max(t)]][h[t \ {Max(t)}]] \in A
        OBVIOUS
      <3>1. Max(t) \in 1..n /\ t \ {Max(t)} \in D
        BY <1>1
      <3>2. s[Max(t)] \in X /\ h[t \ {Max(t)}] \in A
        BY <3>1
      <3> QED
        BY <3>2
    <2>3. Low(k) \subseteq D /\ Low(k + 1) \subseteq D
      OBVIOUS
    <2>4. \A t \in Low(k) : g[t] = h[t]
      BY <2>1, <2>3
    <2>5. ASSUME NEW t \in Low(k + 1), t # {} PROVE t \ {Max(t)} \in Low(k)
      <3>1. Max(t) \in t /\ \A j \in t : j <= Max(t)
        BY <1>1, <2>3, <2>5
      <3>2. ASSUME NEW j \in t, j # Max(t) PROVE j \in 1..k
        <4>1. j \in 1..(k + 1) /\ Max(t) \in 1..(k + 1) /\ j <= Max(t)
          BY <3>1
        <4> QED
          BY <3>2, <4>1
      <3> QED
        BY <3>2
    <2>6. ASSUME NEW t \in Low(k + 1) PROVE Eq(g, t)
      BY <2>3, <2>4, <2>5
    <2> HIDE DEF g, Eq, D
    <2> QED
      BY <2>2, <2>6
  <1>4. n \in Good
    <2>1. \A k \in 0..(n - 1) : k \in Good => k + 1 \in Good
      BY <1>3
    <2> HIDE DEF Good
    <2>2. \A k \in 0..n : k \in Good
      BY <1>2, <2>1, Induction
    <2> QED
      BY <2>2
  <1> QED
    BY <1>4 DEF Solves

\* The greatest of the first numbers is the last.
LEMMA PrefixIs ==
    ASSUME NEW k \in Nat, k # 0
    PROVE  Max(1..k) = k /\ (1..k) \ {k} = 1..(k - 1) /\ 1..k # {}
  <1>1. k \in 1..k /\ 1..k \in SUBSET (0..k)
    OBVIOUS
  <1>2. Max(1..k) \in 1..k /\ k <= Max(1..k)
    BY <1>1, Highest
  <1>3. Max(1..k) \in Nat /\ Max(1..k) <= k
    BY <1>2
  <1>4. Max(1..k) = k
    BY <1>2, <1>3
  <1>5. (1..k) \ {k} = 1..(k - 1)
    <2>1. \A j : j \in (1..k) \ {k} <=> j \in 1..(k - 1)
      OBVIOUS
    <2> QED
      BY <2>1
  <1> QED
    BY <1>1, <1>4, <1>5


\* The prices of some of the tokens.
PriceMaps == UNION {[S -> Int] : S \in SUBSET Tokens}

\* A token is given a price: the prices that there are stay.
LEMMA PricedIs ==
    ASSUME NEW prices \in PriceMaps, NEW t \in Tokens, NEW price \in Int
    PROVE  /\ Priced(prices, t, price) \in PriceMaps
           /\ DOMAIN Priced(prices, t, price) = DOMAIN prices \cup {t}
           /\ Priced(prices, t, price)[t] = price
           /\ \A u \in DOMAIN prices : u # t => Priced(prices, t, price)[u] = prices[u]
  <1>1. PICK S \in SUBSET Tokens : prices \in [S -> Int]
    BY DEF PriceMaps
  <1>2. S \cup {t} \in SUBSET Tokens /\ Priced(prices, t, price) \in [S \cup {t} -> Int]
    BY <1>1 DEF Priced
  <1> QED
    BY <1>1, <1>2 DEF PriceMaps, Priced

\* They are what the tokens are worth.
Right(prices) == \A t \in DOMAIN prices : prices[t] = Worth[t]

\* A set of tokens to which no pool adds one.
Settled(S, pools) == \A p \in pools : IsPriceable(p) => (Token0[p] \in S <=> Token1[p] \in S)

\* A pool that knows one of its tokens only.
Bridges(prices, p, readable) ==
    IsPriceable(p) /\ p \in readable /\ ~(Token0[p] \in DOMAIN prices <=> Token1[p] \in DOMAIN prices)

\* A pool that knows one of its tokens gives the other a price, and a right one.
LEMMA BridgeIs ==
    ASSUME NEW prices \in PriceMaps, NEW p \in Pools, NEW readable
    PROVE  /\ Bridge(prices, p, readable) \in PriceMaps
           /\ Right(prices) => Right(Bridge(prices, p, readable))
           /\ DOMAIN prices \subseteq DOMAIN Bridge(prices, p, readable)
           /\ ~Bridges(prices, p, readable) => Bridge(prices, p, readable) = prices
           /\ Bridges(prices, p, readable) =>
                 DOMAIN Bridge(prices, p, readable) = DOMAIN prices \cup {Token0[p], Token1[p]}
  <1>1. Token0[p] \in Tokens /\ Token1[p] \in Tokens /\ Spot[p] \in Int
    BY MarketAssumption
  <1>2. \A t \in DOMAIN prices : prices[t] \in Int
    BY DEF PriceMaps
  <1>3. CASE ~Bridges(prices, p, readable)
    BY <1>3 DEF Bridge, Bridges
  <1>4. CASE Bridges(prices, p, readable)
    <2>1. Spot[p] = Worth[Token0[p]] - Worth[Token1[p]] /\ Worth[Token0[p]] \in Int /\ Worth[Token1[p]] \in Int
      BY <1>1, RegistryAssumption DEF IsWorth
    <2>2. CASE Token0[p] \in DOMAIN prices
      <3> DEFINE price == prices[Token0[p]] - Spot[p]
      <3>1. Bridge(prices, p, readable) = Priced(prices, Token1[p], price)
        BY <1>4, <2>2 DEF Bridge, Bridges
      <3>2. price \in Int /\ (Right(prices) => price = Worth[Token1[p]])
        BY <1>1, <1>2, <2>1, <2>2 DEF Right
      <3> HIDE DEF price
      <3>3. Token1[p] \in Tokens /\ prices \in PriceMaps
        BY <1>1
      <3>4. /\ Priced(prices, Token1[p], price) \in PriceMaps
            /\ DOMAIN Priced(prices, Token1[p], price) = DOMAIN prices \cup {Token1[p]}
            /\ Priced(prices, Token1[p], price)[Token1[p]] = price
            /\ \A u \in DOMAIN prices : u # Token1[p] => Priced(prices, Token1[p], price)[u] = prices[u]
        BY <3>2, <3>3, PricedIs
      <3> QED
        BY <1>4, <2>2, <3>1, <3>2, <3>4 DEF Right
    <2>3. CASE Token0[p] \notin DOMAIN prices
      <3> DEFINE price == prices[Token1[p]] + Spot[p]
      <3>1. Bridge(prices, p, readable) = Priced(prices, Token0[p], price)
        BY <1>4, <2>3 DEF Bridge, Bridges
      <3>2. Token1[p] \in DOMAIN prices
        BY <1>4, <2>3 DEF Bridges
      <3>3. price \in Int /\ (Right(prices) => price = Worth[Token0[p]])
        BY <1>1, <1>2, <2>1, <3>2 DEF Right
      <3> HIDE DEF price
      <3>4. Token0[p] \in Tokens /\ prices \in PriceMaps
        BY <1>1
      <3>5. /\ Priced(prices, Token0[p], price) \in PriceMaps
            /\ DOMAIN Priced(prices, Token0[p], price) = DOMAIN prices \cup {Token0[p]}
            /\ Priced(prices, Token0[p], price)[Token0[p]] = price
            /\ \A u \in DOMAIN prices : u # Token0[p] => Priced(prices, Token0[p], price)[u] = prices[u]
        BY <3>3, <3>4, PricedIs
      <3> QED
        BY <1>4, <3>1, <3>2, <3>3, <3>5 DEF Right
    <2> QED
      BY <2>2, <2>3
  <1> QED
    BY <1>3, <1>4

\* The prices after each pool of a pass.
LEMMA PassIs ==
    ASSUME NEW prices \in PriceMaps, NEW readable
    PROVE  \E g : /\ g[0] = prices
                  /\ g[Len(Order)] = OnePass(prices, readable)
                  /\ \A k \in 1..Len(Order) : g[k] = Bridge(g[k - 1], Order[k], readable)
  <1> DEFINE n == Len(Order)
             step == [p \in Pools |-> [a \in PriceMaps |-> Bridge(a, p, readable)]]
  <1>1. n \in Nat /\ Order \in [1..n -> Pools] /\ DOMAIN Order = 1..n
    BY MarketAssumption
  <1>2. step \in [Pools -> [PriceMaps -> PriceMaps]] /\ \A p \in Pools, a \in PriceMaps : step[p][a] = Bridge(a, p, readable)
    <2>1. \A p \in Pools, a \in PriceMaps : Bridge(a, p, readable) \in PriceMaps
      BY BridgeIs
    <2> QED
      BY <2>1
  <1> HIDE DEF n, step
  <1>3. \E g : g = [t \in SUBSET DOMAIN Order |-> IF t = {} THEN prices ELSE Bridge(g[t \ {Max(t)}], Order[Max(t)], readable)]
    <2>1. PICK g \in [SUBSET (1..n) -> PriceMaps] : Solves(g, n, prices, step, Order)
      BY <1>1, <1>2, FoldExists, Zenon
    <2>2. ASSUME NEW t \in SUBSET (1..n), t # {} PROVE Order[Max(t)] \in Pools /\ g[t \ {Max(t)}] \in PriceMaps
      <3>1. Max(t) \in 1..n
        BY <1>1, <2>2, HighestOf
      <3> QED
        BY <1>1, <3>1
    <2>3. g = [t \in SUBSET DOMAIN Order |-> IF t = {} THEN prices ELSE Bridge(g[t \ {Max(t)}], Order[Max(t)], readable)]
      BY <1>1, <1>2, <2>1, <2>2 DEF Solves
    <2> QED
      BY <2>3
  <1> DEFINE h == CHOOSE h : h = [t \in SUBSET DOMAIN Order |-> IF t = {} THEN prices ELSE Bridge(h[t \ {Max(t)}], Order[Max(t)], readable)]
  <1>4. h = [t \in SUBSET DOMAIN Order |-> IF t = {} THEN prices ELSE Bridge(h[t \ {Max(t)}], Order[Max(t)], readable)]
    BY <1>3
  <1>8. OnePass(prices, readable) = h[DOMAIN Order]
    BY DEF OnePass, FoldLeft, MapThenFoldSet
  <1> HIDE DEF h
  <1> DEFINE g == [k \in 0..n |-> h[1..k]]
  <1>5. g[0] = prices
    <2>1. {} \in SUBSET (1..n) /\ 1..0 = {} /\ 0 \in 0..n
      BY <1>1
    <2> QED
      BY <1>1, <1>4, <2>1
  <1>6. ASSUME NEW k \in 1..n PROVE g[k] = Bridge(g[k - 1], Order[k], readable)
    <2>1. k \in Nat /\ k # 0 /\ k \in 0..n /\ k - 1 \in 0..n /\ 1..k \in SUBSET (1..n)
      BY <1>1
    <2>2. Max(1..k) = k /\ (1..k) \ {k} = 1..(k - 1) /\ 1..k # {}
      BY <2>1, PrefixIs
    <2>3. h[1..k] = Bridge(h[1..(k - 1)], Order[k], readable)
      BY <1>1, <1>4, <2>1, <2>2
    <2> QED
      BY <2>1, <2>3
  <1>7. g[n] = OnePass(prices, readable)
    BY <1>1, <1>8
  <1> HIDE DEF g
  <1> QED
    BY <1>5, <1>6, <1>7 DEF n

\* What a pass does: prices stay right, no more are there than the pools lead to, and a
\* pool of which one token had a price leaves both with one.
LEMMA PassDoes ==
    ASSUME NEW prices \in PriceMaps, NEW readable \in SUBSET Pools
    PROVE  /\ OnePass(prices, readable) \in PriceMaps
           /\ DOMAIN prices \subseteq DOMAIN OnePass(prices, readable)
           /\ Right(prices) => Right(OnePass(prices, readable))
           /\ \A S : Settled(S, readable) /\ DOMAIN prices \subseteq S =>
                 DOMAIN OnePass(prices, readable) \subseteq S
           /\ \A p \in readable : IsPriceable(p) /\ {Token0[p], Token1[p]} \cap DOMAIN prices # {} =>
                 {Token0[p], Token1[p]} \subseteq DOMAIN OnePass(prices, readable)
  <1> DEFINE n == Len(Order)
  <1>1. n \in Nat /\ \A k \in 1..n : Order[k] \in Pools
    BY MarketAssumption
  <1>2. PICK g : /\ g[0] = prices
                 /\ g[n] = OnePass(prices, readable)
                 /\ \A k \in 1..n : g[k] = Bridge(g[k - 1], Order[k], readable)
    BY PassIs
  <1> HIDE DEF n
  <1>3. ASSUME NEW k \in 0..(n - 1)
        PROVE  k + 1 \in 1..n /\ g[k + 1] = Bridge(g[k], Order[k + 1], readable) /\ Order[k + 1] \in Pools
    <2>1. k + 1 \in 1..n /\ (k + 1) - 1 = k
      BY <1>1
    <2> QED
      BY <1>1, <1>2, <2>1
  <1>9. ASSUME NEW k \in 0..(n - 1), g[k] \in PriceMaps
        PROVE  \E p \in Pools :
                 /\ p = Order[k + 1]
                 /\ g[k + 1] \in PriceMaps
                 /\ Right(g[k]) => Right(g[k + 1])
                 /\ DOMAIN g[k] \subseteq DOMAIN g[k + 1]
                 /\ ~Bridges(g[k], p, readable) => g[k + 1] = g[k]
                 /\ Bridges(g[k], p, readable) => DOMAIN g[k + 1] = DOMAIN g[k] \cup {Token0[p], Token1[p]}
    <2> DEFINE p == Order[k + 1]
               m == g[k]
    <2>1. p \in Pools /\ m \in PriceMaps /\ g[k + 1] = Bridge(m, p, readable)
      BY <1>3, <1>9
    <2> HIDE DEF p, m
    <2>2. /\ Bridge(m, p, readable) \in PriceMaps
          /\ Right(m) => Right(Bridge(m, p, readable))
          /\ DOMAIN m \subseteq DOMAIN Bridge(m, p, readable)
          /\ ~Bridges(m, p, readable) => Bridge(m, p, readable) = m
          /\ Bridges(m, p, readable) => DOMAIN Bridge(m, p, readable) = DOMAIN m \cup {Token0[p], Token1[p]}
      BY <2>1, BridgeIs
    <2> QED
      BY <2>1, <2>2 DEF p, m
  <1> DEFINE Good == {k \in 0..n : /\ g[k] \in PriceMaps /\ DOMAIN prices \subseteq DOMAIN g[k]
                                   /\ Right(prices) => Right(g[k])}
  <1>4. \A k \in 0..n : k \in Good
    <2>1. 0 \in Good
      BY <1>1, <1>2
    <2>2. ASSUME NEW k \in 0..(n - 1), k \in Good PROVE k + 1 \in Good
      <3>1. /\ g[k + 1] \in PriceMaps
            /\ Right(g[k]) => Right(g[k + 1])
            /\ DOMAIN g[k] \subseteq DOMAIN g[k + 1]
        BY <1>9, <2>2
      <3>2. k + 1 \in 0..n
        BY <1>1
      <3> QED
        BY <2>2, <3>1, <3>2
    <2> HIDE DEF Good
    <2> QED
      BY <1>1, <2>1, <2>2, Induction
  <1>5. \A k \in 0..n : g[k] \in PriceMaps /\ DOMAIN prices \subseteq DOMAIN g[k]
    BY <1>4
  <1>6. ASSUME NEW S, Settled(S, readable), DOMAIN prices \subseteq S
        PROVE  DOMAIN g[n] \subseteq S
    <2> DEFINE In == {k \in 0..n : DOMAIN g[k] \subseteq S}
    <2>1. 0 \in In
      BY <1>1, <1>2, <1>6
    <2>2. ASSUME NEW k \in 0..(n - 1), k \in In PROVE k + 1 \in In
      <3>1. DOMAIN g[k] \subseteq S /\ g[k] \in PriceMaps /\ k + 1 \in 0..n
        BY <1>1, <1>5, <2>2
      <3>2. PICK p \in Pools :
                 /\ ~Bridges(g[k], p, readable) => g[k + 1] = g[k]
                 /\ Bridges(g[k], p, readable) => DOMAIN g[k + 1] = DOMAIN g[k] \cup {Token0[p], Token1[p]}
        BY <1>9, <3>1
      <3>3. Bridges(g[k], p, readable) => Token0[p] \in S /\ Token1[p] \in S
        BY <1>6, <3>1 DEF Bridges, Settled
      <3> QED
        BY <3>1, <3>2, <3>3
    <2> HIDE DEF In
    <2>3. n \in In
      BY <1>1, <2>1, <2>2, Induction
    <2> QED
      BY <2>3 DEF In
  <1>7. ASSUME NEW p \in readable, IsPriceable(p), {Token0[p], Token1[p]} \cap DOMAIN prices # {}
        PROVE  {Token0[p], Token1[p]} \subseteq DOMAIN g[n]
    <2>0. p \in Pools
      OBVIOUS
    <2>1. PICK j \in 1..n : Order[j] = p
      BY MarketAssumption DEF ToSet, n
    <2> DEFINE Both == {k \in 0..n : k >= j => {Token0[p], Token1[p]} \subseteq DOMAIN g[k]}
    <2>2. 0 \in Both
      BY <1>1
    <2>3. ASSUME NEW k \in 0..(n - 1), k \in Both PROVE k + 1 \in Both
      <3>1. DOMAIN prices \subseteq DOMAIN g[k] /\ g[k] \in PriceMaps /\ k + 1 \in 0..n
        BY <1>1, <1>5, <2>3
      <3>5. PICK q \in Pools :
                 /\ q = Order[k + 1] /\ DOMAIN g[k] \subseteq DOMAIN g[k + 1]
                 /\ ~Bridges(g[k], q, readable) => g[k + 1] = g[k]
                 /\ Bridges(g[k], q, readable) => DOMAIN g[k + 1] = DOMAIN g[k] \cup {Token0[q], Token1[q]}
        BY <1>9, <3>1
      <3>2. CASE k >= j
        BY <2>3, <3>1, <3>2, <3>5
      <3>3. CASE k + 1 = j
        <4>1. q = p
          BY <2>1, <3>3, <3>5
        <4>2. ~Bridges(g[k], p, readable) => Token0[p] \in DOMAIN g[k] /\ Token1[p] \in DOMAIN g[k]
          BY <1>7, <3>1 DEF Bridges
        <4> QED
          BY <3>1, <3>5, <4>1, <4>2
      <3>4. CASE k + 1 < j
        BY <3>1, <3>4
      <3> QED
        BY <1>1, <3>2, <3>3, <3>4
    <2> HIDE DEF Both
    <2>4. n \in Both
      BY <1>1, <2>2, <2>3, Induction
    <2> QED
      BY <1>1, <2>1, <2>4 DEF Both
  <1>8. g[n] \in PriceMaps /\ DOMAIN prices \subseteq DOMAIN g[n] /\ (Right(prices) => Right(g[n]))
    BY <1>1, <1>4
  <1> QED
    BY <1>2, <1>6, <1>7, <1>8

\* The pools are finitely many.
LEMMA PoolsFinite ==
    ASSUME NEW pools \in SUBSET Pools
    PROVE  IsFiniteSet(pools) /\ Cardinality(pools) \in Nat
  <1>1. Order \in Seq(Pools) /\ \A p \in Pools : \E k \in 1..Len(Order) : Order[k] = p
    BY MarketAssumption DEF ToSet
  <1>2. IsFiniteSet(Pools)
    BY <1>1 DEF IsFiniteSet
  <1> QED
    BY <1>2, FS_Subset, FS_CardinalityType

\* A pass starts from the stables, whose prices are right.
LEMMA SeededIs ==
    ASSUME NEW pools \in SUBSET Pools
    PROVE  Seeded(pools) \in PriceMaps /\ Right(Seeded(pools))
  <1> DEFINE S == {t \in Stables : \E p \in pools : t \in {Token0[p], Token1[p]}}
  <1>1. S \in SUBSET Tokens /\ Seeded(pools) \in [S -> Int] /\ \A t \in S : Seeded(pools)[t] = 0
    BY MarketAssumption DEF Seeded
  <1>2. \A t \in S : Worth[t] = 0
    BY RegistryAssumption DEF IsWorth
  <1> HIDE DEF S
  <1> QED
    BY <1>1, <1>2 DEF PriceMaps, Right

\* The prices after each pass.
LEMMA PassesAre ==
    ASSUME NEW pools \in SUBSET Pools, NEW readable
    PROVE  \E g : /\ g[0] = Seeded(pools)
                  /\ g[Cardinality(pools) + 1] = DerivePrices(pools, readable)
                  /\ \A k \in 1..(Cardinality(pools) + 1) : g[k] = OnePass(g[k - 1], readable \cap pools)
  <1> DEFINE n == Cardinality(pools) + 1
             seed == Seeded(pools)
             P == readable \cap pools
             s == [i \in 1..n |-> i]
             step == [i \in 1..n |-> [a \in PriceMaps |-> OnePass(a, P)]]
  <1>1. n \in Nat
    BY PoolsFinite
  <1>2. seed \in PriceMaps /\ P \in SUBSET Pools
    BY SeededIs
  <1>3. step \in [1..n -> [PriceMaps -> PriceMaps]] /\ \A i \in 1..n, a \in PriceMaps : step[i][a] = OnePass(a, P)
    <2> HIDE DEF P, n
    <2>1. \A a \in PriceMaps : OnePass(a, P) \in PriceMaps
      BY <1>2, PassDoes
    <2> QED
      BY <2>1
  <1>4. s \in [1..n -> 1..n] /\ DOMAIN s = 1..n
    OBVIOUS
  <1> HIDE DEF n, step, s, seed, P
  <1>5. \E g : g = [t \in SUBSET DOMAIN s |-> IF t = {} THEN seed ELSE OnePass(g[t \ {Max(t)}], P)]
    <2>1. PICK g \in [SUBSET (1..n) -> PriceMaps] : Solves(g, n, seed, step, s)
      BY <1>1, <1>2, <1>3, <1>4, FoldExists, Zenon
    <2>2. ASSUME NEW t \in SUBSET (1..n), t # {} PROVE s[Max(t)] \in 1..n /\ g[t \ {Max(t)}] \in PriceMaps
      <3>1. Max(t) \in 1..n
        BY <1>1, <2>2, HighestOf
      <3> QED
        BY <1>4, <3>1
    <2>3. g = [t \in SUBSET DOMAIN s |-> IF t = {} THEN seed ELSE OnePass(g[t \ {Max(t)}], P)]
      BY <1>3, <1>4, <2>1, <2>2 DEF Solves
    <2> QED
      BY <2>3
  <1> DEFINE h == CHOOSE h : h = [t \in SUBSET DOMAIN s |-> IF t = {} THEN seed ELSE OnePass(h[t \ {Max(t)}], P)]
  <1>6. h = [t \in SUBSET DOMAIN s |-> IF t = {} THEN seed ELSE OnePass(h[t \ {Max(t)}], P)]
    BY <1>5
  <1>7. DerivePrices(pools, readable) = h[DOMAIN s]
    BY DEF DerivePrices, FoldLeft, MapThenFoldSet, s, n, seed, P
  <1> HIDE DEF h
  <1> DEFINE g == [k \in 0..n |-> h[1..k]]
  <1>8. g[0] = seed
    <2>1. {} \in SUBSET (1..n) /\ 1..0 = {} /\ 0 \in 0..n
      BY <1>1
    <2> QED
      BY <1>4, <1>6, <2>1
  <1>9. ASSUME NEW k \in 1..n PROVE g[k] = OnePass(g[k - 1], P)
    <2>1. k \in Nat /\ k # 0 /\ k \in 0..n /\ k - 1 \in 0..n /\ 1..k \in SUBSET (1..n)
      BY <1>1
    <2>2. Max(1..k) = k /\ (1..k) \ {k} = 1..(k - 1) /\ 1..k # {}
      BY <2>1, PrefixIs
    <2>3. h[1..k] = OnePass(h[1..(k - 1)], P)
      BY <1>4, <1>6, <2>1, <2>2
    <2> QED
      BY <2>1, <2>3
  <1>10. g[n] = DerivePrices(pools, readable)
    BY <1>1, <1>4, <1>7
  <1> HIDE DEF g
  <1> QED
    BY <1>8, <1>9, <1>10 DEF n, seed, P

\* What derivePrices computes, over any pools of which any were readable: the price of
\* exactly the tokens that the stables reach, and the right one.  One pass more than
\* there are pools is enough: a pass that does not settle the pools has a pool that
\* lacked a price get both, and there are that many of them (reader.go, derivePrices).
THEOREM Derived ==
    ASSUME NEW pools \in SUBSET Pools, NEW readable \in SUBSET Pools
    PROVE  /\ Right(DerivePrices(pools, readable))
           /\ DerivePrices(pools, readable) \in PriceMaps
           /\ DOMAIN DerivePrices(pools, readable) = Reached(pools, readable)
  <1> DEFINE n == Cardinality(pools) + 1
             P == readable \cap pools
             seed == Seeded(pools)
             prices == DerivePrices(pools, readable)
  <1>1. n \in Nat /\ IsFiniteSet(pools) /\ Cardinality(pools) \in Nat
    BY PoolsFinite
  <1>2. P \in SUBSET Pools /\ P \in SUBSET pools /\ seed \in PriceMaps /\ Right(seed)
    BY SeededIs
  <1>3. PICK g : /\ g[0] = seed /\ g[n] = prices
                 /\ \A k \in 1..n : g[k] = OnePass(g[k - 1], P)
    BY PassesAre
  <1> HIDE DEF n, seed, P, prices
  <1>4. ASSUME NEW k \in 0..(n - 1), g[k] \in PriceMaps
        PROVE  /\ k + 1 \in 0..n
               /\ g[k + 1] \in PriceMaps
               /\ DOMAIN g[k] \subseteq DOMAIN g[k + 1]
               /\ Right(g[k]) => Right(g[k + 1])
               /\ \A S : Settled(S, P) /\ DOMAIN g[k] \subseteq S => DOMAIN g[k + 1] \subseteq S
               /\ \A p \in P : IsPriceable(p) /\ {Token0[p], Token1[p]} \cap DOMAIN g[k] # {} =>
                     {Token0[p], Token1[p]} \subseteq DOMAIN g[k + 1]
    <2>1. k + 1 \in 1..n /\ (k + 1) - 1 = k /\ k + 1 \in 0..n
      BY <1>1
    <2>2. g[k + 1] = OnePass(g[k], P)
      BY <1>3, <2>1
    <2> DEFINE m == g[k]
               o == OnePass(m, P)
    <2>3. m \in PriceMaps
      BY <1>4
    <2> HIDE DEF m
    <2>4. /\ o \in PriceMaps
          /\ DOMAIN m \subseteq DOMAIN o
          /\ Right(m) => Right(o)
          /\ \A S : Settled(S, P) /\ DOMAIN m \subseteq S => DOMAIN o \subseteq S
          /\ \A p \in P : IsPriceable(p) /\ {Token0[p], Token1[p]} \cap DOMAIN m # {} =>
                {Token0[p], Token1[p]} \subseteq DOMAIN o
      BY <1>2, <2>3, PassDoes
    <2>5. g[k + 1] = o /\ m = g[k]
      BY <2>2 DEF m
    <2> HIDE DEF o
    <2> QED
      BY <2>1, <2>4, <2>5
  <1> DEFINE Good == {k \in 0..n : /\ g[k] \in PriceMaps /\ Right(g[k]) /\ DOMAIN seed \subseteq DOMAIN g[k]
                                   /\ \A S : Settled(S, P) /\ DOMAIN seed \subseteq S => DOMAIN g[k] \subseteq S}
  <1>5. \A k \in 0..n : k \in Good
    <2>1. 0 \in Good
      BY <1>1, <1>2, <1>3
    <2>2. ASSUME NEW k \in 0..(n - 1), k \in Good PROVE k + 1 \in Good
      BY <1>4, <2>2
    <2> HIDE DEF Good
    <2> QED
      BY <1>1, <2>1, <2>2, Induction
  <1>6. \A k \in 0..n : g[k] \in PriceMaps
    BY <1>5
  <1> DEFINE Both(k) == {p \in P : IsPriceable(p) /\ Token0[p] \in DOMAIN g[k] /\ Token1[p] \in DOMAIN g[k]}
             Enough == {k \in 0..n : Settled(DOMAIN g[k], P) \/ Cardinality(Both(k)) >= k}
  <1>7. ASSUME NEW k \in 0..n
        PROVE  IsFiniteSet(Both(k)) /\ Cardinality(Both(k)) \in Nat /\ Cardinality(Both(k)) <= Cardinality(pools)
    <2>1. Both(k) \in SUBSET pools
      BY <1>2
    <2> HIDE DEF Both
    <2> QED
      BY <1>1, <2>1, FS_Subset, FS_CardinalityType
  <1>8. n \in Enough
    <2>1. 0 \in Enough
      <3>1. 0 \in 0..n
        BY <1>1
      <3> HIDE DEF Both
      <3> QED
        BY <1>7, <3>1
    <2>2. ASSUME NEW k \in 0..(n - 1), k \in Enough PROVE k + 1 \in Enough
      <3>1. k \in 0..n /\ k + 1 \in 0..n /\ g[k] \in PriceMaps
        BY <1>1, <1>6
      <3>2. /\ DOMAIN g[k] \subseteq DOMAIN g[k + 1]
            /\ \A S : Settled(S, P) /\ DOMAIN g[k] \subseteq S => DOMAIN g[k + 1] \subseteq S
            /\ \A p \in P : IsPriceable(p) /\ {Token0[p], Token1[p]} \cap DOMAIN g[k] # {} =>
                  {Token0[p], Token1[p]} \subseteq DOMAIN g[k + 1]
        BY <1>4, <3>1
      <3>3. CASE Settled(DOMAIN g[k], P)
        <4>1. DOMAIN g[k + 1] = DOMAIN g[k]
          BY <3>2, <3>3
        <4> QED
          BY <3>1, <3>3, <4>1
      <3>4. CASE ~Settled(DOMAIN g[k], P)
        <4>1. PICK p \in P : IsPriceable(p) /\ ~(Token0[p] \in DOMAIN g[k] <=> Token1[p] \in DOMAIN g[k])
          BY <3>4 DEF Settled
        <4>2. p \in Both(k + 1) /\ p \notin Both(k) /\ Both(k) \subseteq Both(k + 1)
          BY <3>2, <4>1
        <4>3. Cardinality(Both(k)) >= k
          BY <2>2, <3>4
        <4> HIDE DEF Both
        <4>4. /\ IsFiniteSet(Both(k)) /\ Cardinality(Both(k)) \in Nat
              /\ IsFiniteSet(Both(k + 1)) /\ Cardinality(Both(k + 1)) \in Nat
          BY <1>7, <3>1
        <4>5. Cardinality(Both(k)) <= Cardinality(Both(k + 1)) /\ Cardinality(Both(k)) # Cardinality(Both(k + 1))
          BY <4>2, <4>4, FS_Subset
        <4>6. Cardinality(Both(k + 1)) >= k + 1
          BY <4>3, <4>4, <4>5
        <4> QED
          BY <3>1, <4>6
      <3> QED
        BY <3>3, <3>4
    <2> HIDE DEF Enough
    <2> QED
      BY <1>1, <2>1, <2>2, Induction
  <1>9. Settled(DOMAIN prices, P)
    <2>1. n \in 0..n /\ n > Cardinality(pools)
      BY <1>1 DEF n
    <2>2. ~(Cardinality(Both(n)) >= n)
      <3> HIDE DEF Both
      <3> QED
        BY <1>1, <1>7, <2>1
    <2> HIDE DEF Both
    <2> QED
      BY <1>3, <1>8, <2>1, <2>2
  <1>10. /\ prices \in PriceMaps /\ Right(prices) /\ DOMAIN seed \subseteq DOMAIN prices
         /\ \A S : Settled(S, P) /\ DOMAIN seed \subseteq S => DOMAIN prices \subseteq S
    <2>1. n \in 0..n
      BY <1>1
    <2> QED
      BY <1>3, <1>5, <2>1
  <1>11. DOMAIN prices \in SUBSET Tokens
    BY <1>10 DEF PriceMaps
  <1>12. P = pools \cap readable
    BY DEF P
  <1>13. \A S : Settled(S, P) <=> \A p \in pools \cap readable : IsPriceable(p) => (Token0[p] \in S <=> Token1[p] \in S)
    BY <1>12 DEF Settled
  <1>14. Reached(pools, readable) = {t \in Tokens : \A S \in SUBSET Tokens :
              DOMAIN seed \subseteq S /\ Settled(S, P) => t \in S}
    BY <1>13 DEF Reached, seed
  <1>15. DOMAIN prices = Reached(pools, readable)
    BY <1>9, <1>10, <1>11, <1>14
  <1> QED
    BY <1>10, <1>15 DEF prices

-----------------------------------------------------------------------------
(* The statistics stage.                                                   *)

\* What is written of a pool.
Figures == [priced : BOOLEAN, price : Int, change : BOOLEAN, tvl : BOOLEAN, volume : BOOLEAN]

\* The stage and its table.
Stages ==
    [passes : Int, pc : {"idle", "read", "write"}, pools : SUBSET Pools,
     readable : SUBSET Pools, todo : SUBSET Pools, figures : [Pools -> Figures]]

MarketTyped ==
    /\ stage \in Stages
    /\ stats \in [Pools -> Figures]

\* A figure with a price has the right one.
Fair(p, figures) == figures.priced => figures.price = Worth[Token0[p]]

MarketInv ==
    /\ MarketTyped
    /\ \A p \in Pools : Fair(p, stats[p]) /\ Fair(p, stage.figures[p])
    /\ stage.pc = "write" =>
          \A p \in stage.todo :
              stage.figures[p].priced <=> Token0[p] \in Reached(stage.pools, stage.readable)

\* A row of a snapshot.
LEMMA StatsAre ==
    ASSUME NEW p \in Pools, NEW now \in PriceMaps, Right(now), NEW old, NEW reserves, NEW volumes
    PROVE  /\ PoolStats(p, now, old, reserves, volumes) \in Figures
           /\ Fair(p, PoolStats(p, now, old, reserves, volumes))
           /\ PoolStats(p, now, old, reserves, volumes).priced <=> Token0[p] \in DOMAIN now
  <1> DEFINE a == Token0[p] \in DOMAIN now
             b == IF a THEN now[Token0[p]] ELSE 0
             c == a /\ Token0[p] \in DOMAIN old
             d == a /\ Token1[p] \in DOMAIN now /\ p \in reserves
             e == p \in volumes /\ ((Token0[p] \in Stables \/ Token1[p] \in Stables) \/ a)
  <1>1. PoolStats(p, now, old, reserves, volumes) =
           [priced |-> a, price |-> b, change |-> c, tvl |-> d, volume |-> e]
    BY DEF PoolStats
  <1>2. a \in BOOLEAN /\ c \in BOOLEAN /\ d \in BOOLEAN /\ e \in BOOLEAN
    OBVIOUS
  <1>3. b \in Int
    BY DEF PriceMaps
  <1>4. a => b = Worth[Token0[p]]
    BY DEF Right
  <1>5. a <=> Token0[p] \in DOMAIN now
    OBVIOUS
  <1> HIDE DEF a, b, c, d, e
  <1> DEFINE row == [priced |-> a, price |-> b, change |-> c, tvl |-> d, volume |-> e]
  <1>6. row \in Figures
    BY <1>2, <1>3 DEF Figures
  <1>7. row.priced = a /\ row.price = b
    OBVIOUS
  <1> HIDE DEF row
  <1>8. Fair(p, row) /\ (row.priced <=> Token0[p] \in DOMAIN now)
    BY <1>4, <1>5, <1>7 DEF Fair
  <1>9. PoolStats(p, now, old, reserves, volumes) = row
    BY <1>1 DEF row
  <1> QED
    BY <1>6, <1>8, <1>9

\* A snapshot, of pools of which some could be read.
LEMMA SnapshotIs ==
    ASSUME NEW pools \in SUBSET Pools, NEW readable \in SUBSET Pools,
           NEW old \in SUBSET Pools, NEW reserves, NEW volumes, NEW p \in pools
    PROVE  LET row == Snapshot(pools, readable, old, reserves, volumes)[p]
           IN  /\ row \in Figures
               /\ Fair(p, row)
               /\ row.priced <=> Token0[p] \in Reached(pools, readable)
  <1> DEFINE now == DerivePrices(pools, readable)
             past == DerivePrices(pools, old)
  <1>1. now \in PriceMaps /\ Right(now) /\ DOMAIN now = Reached(pools, readable)
    BY Derived
  <1>2. Snapshot(pools, readable, old, reserves, volumes)[p] = PoolStats(p, now, past, reserves, volumes)
    BY DEF Snapshot
  <1> HIDE DEF now, past
  <1>3. p \in Pools
    OBVIOUS
  <1> DEFINE row == PoolStats(p, now, past, reserves, volumes)
  <1>4. row \in Figures /\ Fair(p, row) /\ (row.priced <=> Token0[p] \in DOMAIN now)
    BY <1>1, <1>3, StatsAre
  <1> HIDE DEF row
  <1>5. Snapshot(pools, readable, old, reserves, volumes)[p] = row
    BY <1>2 DEF row
  <1> QED
    BY <1>1, <1>4, <1>5

\* A step of anything else leaves the stage and its table as they are.
LEMMA RestingIs ==
    ASSUME NEW n \in Int, NEW st, st = [Resting EXCEPT !.passes = n]
    PROVE  /\ st \in Stages
           /\ st.pc = "idle"
           /\ \A p \in Pools : Fair(p, st.figures[p])
  <1> DEFINE none == [p \in Pools |-> NoFigures]
  <1>1. none \in [Pools -> Figures] /\ \A p \in Pools : Fair(p, none[p])
    BY DEF NoFigures, Figures, Fair
  <1> HIDE DEF none
  <1>2. st = [passes |-> n, pc |-> "idle", pools |-> {}, readable |-> {}, todo |-> {}, figures |-> none]
    BY DEF Resting, none
  <1>5. [passes |-> n, pc |-> "idle", pools |-> {}, readable |-> {}, todo |-> {}, figures |-> none] \in Stages
    BY <1>1 DEF Stages
  <1>3. st \in Stages
    BY <1>2, <1>5, Zenon
  <1>4. st.pc = "idle" /\ st.figures = none
    BY <1>2
  <1> QED
    BY <1>1, <1>3, <1>4

\* At first no price was written.
LEMMA MarketInit == Init => MarketInv
  <1> SUFFICES ASSUME Init PROVE MarketInv
    OBVIOUS
  <1> DEFINE none == 0
  <1>1. none \in Int /\ stage = [Resting EXCEPT !.passes = none] /\ stats = [p \in Pools |-> NoFigures]
    BY DEF Init, Resting
  <1> HIDE DEF none
  <1>2. stats \in [Pools -> Figures] /\ \A p \in Pools : Fair(p, stats[p])
    BY <1>1 DEF NoFigures, Figures, Fair
  <1> QED
    BY <1>1, <1>2, RestingIs DEF MarketInv, MarketTyped

\* Only the stage's own steps, and a start of the supervisor, change any of it.
LEMMA MarketStep ==
    ASSUME MarketInv, [Next]_vars
    PROVE  MarketInv'
  <1>1. /\ stage \in Stages
        /\ stats \in [Pools -> Figures]
    BY DEF MarketInv, MarketTyped
  <1>2. CASE Start
    <2>1. stage' = [Resting EXCEPT !.passes = stage.passes] /\ stats' = stats /\ stage.passes \in Int
      BY <1>1, <1>2 DEF Start, Stages
    <2> QED
      BY <1>1, <2>1, RestingIs DEF MarketInv, MarketTyped
  <1>3. CASE StageList
    <2>1. /\ stage' = [stage EXCEPT !.passes = @ + 1, !.pc = "read", !.pools = Enabled]
          /\ stats' = stats /\ Enabled \in SUBSET Pools
      BY <1>3 DEF StageList, Enabled, Present
    <2> DEFINE E == Enabled
    <2>2. stage' = [stage EXCEPT !.passes = @ + 1, !.pc = "read", !.pools = E] /\ E \in SUBSET Pools
      BY <2>1
    <2> DEFINE next == stage.passes + 1
    <2>4. next \in Int /\ stage' = [stage EXCEPT !.passes = next, !.pc = "read", !.pools = E]
      BY <1>1, <2>2 DEF Stages
    <2> HIDE DEF E, next
    <2>3. /\ stage' \in Stages
          /\ stage'.figures = stage.figures /\ stage'.pc = "read"
      BY <1>1, <2>2, <2>4 DEF Stages
    <2> QED
      BY <1>1, <2>1, <2>3 DEF MarketInv, MarketTyped
  <1>4. CASE StageReads
    <2>1. PICK bad \in SUBSET (Kinds \X stage.pools), aged \in BOOLEAN :
             LET read(kind) == {p \in stage.pools : <<kind, p>> \notin bad}
                 readable == read("spot") \cap Answering
                 old == IF aged THEN read("old") \cap Answering ELSE {}
                 snapshot == Snapshot(stage.pools, readable, old, read("reserves"), read("volume"))
             IN stage' = [stage EXCEPT !.pc = "write", !.readable = readable, !.todo = stage.pools,
                !.figures = [p \in Pools |-> IF p \in stage.pools THEN snapshot[p] ELSE NoFigures]]
      BY <1>4 DEF StageReads
    <2> DEFINE read(kind) == {p \in stage.pools : <<kind, p>> \notin bad}
               readable == read("spot") \cap Answering
               old == IF aged THEN read("old") \cap Answering ELSE {}
               reserves == read("reserves")
               volumes == read("volume")
               snapshot == Snapshot(stage.pools, readable, old, reserves, volumes)
               figures == [p \in Pools |-> IF p \in stage.pools THEN snapshot[p] ELSE NoFigures]
    <2>2. stage' = [stage EXCEPT !.pc = "write", !.readable = readable, !.todo = stage.pools, !.figures = figures]
      BY <2>1
    <2>3. stage.pools \in SUBSET Pools /\ readable \in SUBSET Pools /\ old \in SUBSET Pools
      BY <1>1 DEF Stages
    <2> HIDE DEF readable, old, reserves, volumes
    <2>4. ASSUME NEW p \in stage.pools
          PROVE  /\ snapshot[p] \in Figures
                 /\ Fair(p, snapshot[p])
                 /\ snapshot[p].priced <=> Token0[p] \in Reached(stage.pools, readable)
      BY <2>3, SnapshotIs
    <2> HIDE DEF snapshot
    <2>5. NoFigures \in Figures /\ \A p \in Pools : Fair(p, NoFigures)
      BY DEF NoFigures, Figures, Fair
    <2>6. /\ figures \in [Pools -> Figures]
          /\ \A p \in Pools : Fair(p, figures[p])
          /\ \A p \in stage.pools : figures[p].priced <=> Token0[p] \in Reached(stage.pools, readable)
      BY <2>3, <2>4, <2>5
    <2> HIDE DEF figures
    <2>7. /\ stage' \in Stages
          /\ stage'.figures = figures /\ stage'.pools = stage.pools /\ stage'.todo = stage.pools
          /\ stage'.readable = readable
      BY <1>1, <2>2, <2>3, <2>6 DEF Stages
    <2>8. stats' = stats
      BY <1>4 DEF StageReads
    <2> QED
      BY <1>1, <2>6, <2>7, <2>8 DEF MarketInv, MarketTyped
  <1>5. ASSUME NEW p \in Pools, StageWrites(p)
        PROVE  MarketInv'
    <2>1. stats' = [stats EXCEPT ![p] = stage.figures[p]] \/ stats' = stats
      BY <1>5 DEF StageWrites
    <2>2. stats' \in [Pools -> Figures] /\ \A q \in Pools : Fair(q, stats'[q])
      <3>1. stage.figures[p] \in Figures /\ Fair(p, stage.figures[p]) /\ \A q \in Pools : Fair(q, stats[q])
        BY <1>1 DEF MarketInv, Stages
      <3> QED
        BY <1>1, <2>1, <3>1
    <2>3. CASE stage.todo = {p}
      <3>1. stage' = [Resting EXCEPT !.passes = stage.passes] /\ stage.passes \in Int
        BY <1>1, <1>5, <2>3 DEF StageWrites, Stages
      <3> QED
        BY <2>2, <3>1, RestingIs DEF MarketInv, MarketTyped
    <2>4. CASE stage.todo # {p}
      <3>1. stage' = [stage EXCEPT !.todo = @ \ {p}]
        BY <1>5, <2>4 DEF StageWrites
      <3>2. /\ stage' \in Stages
            /\ stage'.figures = stage.figures /\ stage'.pools = stage.pools
            /\ stage'.readable = stage.readable /\ stage'.pc = stage.pc
            /\ stage'.todo \subseteq stage.todo
        BY <1>1, <3>1 DEF Stages
      <3> QED
        BY <2>2, <3>2 DEF MarketInv, MarketTyped
    <2> QED
      BY <2>3, <2>4
  <1>6. ASSUME UNCHANGED market PROVE MarketInv'
    BY <1>6 DEF market, MarketInv, MarketTyped
  <1>7. CASE UNCHANGED vars
    BY <1>6, <1>7 DEF vars, market
  <1>8. CASE Next /\ ~Start /\ ~StageList /\ ~StageReads /\ ~\E p \in Pools : StageWrites(p)
    <2>1. UNCHANGED market
      BY <1>8 DEF Next, SeedListed, Discover, ListPoolAddresses, DiscoverFails, PoolmetaList,
        PoolmetaFails, OperatorFlips, SeedPool, Propose, PoolmetaWrite, PoolmetaSkips, market
    <2> QED
      BY <1>6, <2>1
  <1> QED
    BY <1>2, <1>3, <1>4, <1>5, <1>7, <1>8

\* Every price that the statistics stage derives, by however many hops from a stable and
\* over whatever pools could be read, is what the token is worth (reader.go,
\* derivePrices).
THEOREM PricesAreRight == Spec => []PricesRight
  <1>1. MarketInv => PricesRight
    BY DEF MarketInv, PricesRight, Fair
  <1>2. MarketInv /\ [Next]_vars => MarketInv'
    BY MarketStep
  <1> QED
    BY MarketInit, <1>1, <1>2, PTL DEF Spec

-----------------------------------------------------------------------------
(* Swaps and their buckets.                                                *)

\* What may be in a window.
Logged == Trades \cup {Cut, Sync}

Entries == [kind : {"swap", "cut", "sync"}, in : Amount \X Amount, out : Amount \X Amount]

\* What is in a log has amounts, and is a swap only if it is a trade.
LEMMA LoggedIs ==
    ASSUME NEW s \in Logged
    PROVE  /\ s \in Entries
           /\ s.in[1] \in Amount /\ s.in[2] \in Amount /\ s.out[1] \in Amount /\ s.out[2] \in Amount
           /\ s.in[1] = 0 \/ s.out[1] = 0
           /\ s.in[2] = 0 \/ s.out[2] = 0
           /\ s.kind # "swap" => s.in = <<0, 0>> /\ s.out = <<0, 0>>
  <1>1. 0 \in Amount
    BY HalfAssumption DEF Amount
  <1>2. s \in Entries
    BY <1>1, TradesAssumption DEF Entries, Logged, Cut, Sync
  <1>3. \A t \in 1..2 : s.in[t] = 0 \/ s.out[t] = 0
    BY TradesAssumption DEF Logged, Cut, Sync
  <1>4. s.kind # "swap" => s.in = <<0, 0>> /\ s.out = <<0, 0>>
    BY TradesAssumption DEF Logged, Cut, Sync
  <1>5. (s.in[1] = 0 \/ s.out[1] = 0) /\ (s.in[2] = 0 \/ s.out[2] = 0)
    BY <1>3
  <1> QED
    BY <1>2, <1>4, <1>5 DEF Entries

\* A difference of two amounts survives two's complement,
LEMMA SignedIs ==
    ASSUME NEW a \in Amount, NEW b \in Amount
    PROVE  decodeInt256(Signed(a - b)) = a - b
  <1>1. Half \in Int /\ Half >= 2 /\ a \in Int /\ b \in Int /\ a >= 0 /\ b >= 0 /\ a < Half /\ b < Half
    BY HalfAssumption DEF Amount
  <1>2. Half * Half >= 2 * Half /\ Half * Half \in Int
    BY <1>1
  <1> DEFINE w == Half * Half
             x == a - b
  <1>3. w \in Int /\ x \in Int /\ w >= 2 * Half /\ 2 * x < w /\ 2 * (x + w) >= w
    BY <1>1, <1>2
  <1> HIDE DEF w, x
  <1>4. decodeInt256(Signed(x)) = x
    BY <1>3 DEF decodeInt256, Signed, Word, w
  <1> QED
    BY <1>4 DEF x

\* and two amounts share a word.
LEMMA PackedIs ==
    ASSUME NEW pair \in Amount \X Amount
    PROVE  splitPackedAmounts(Packed(pair)) = pair
  <1>1. /\ Half \in Int /\ Half >= 2 /\ pair[1] \in Int /\ pair[2] \in Int
        /\ pair[1] >= 0 /\ pair[1] < Half /\ pair[2] >= 0
    BY HalfAssumption DEF Amount
  <1>2. (pair[2] * Half + pair[1]) % Half = pair[1] /\ (pair[2] * Half + pair[1]) \div Half = pair[2]
    <2> DEFINE a == pair[1]
               b == pair[2]
    <2> HIDE DEF a, b
    <2>1. a \in Int /\ b \in Int /\ a >= 0 /\ a < Half /\ b >= 0 /\ Half \in Int /\ Half >= 2
      BY <1>1 DEF a, b
    <2>2. (b * Half + a) % Half = a /\ (b * Half + a) \div Half = b
      BY <2>1
    <2> QED
      BY <2>2 DEF a, b
  <1> QED
    BY <1>2 DEF splitPackedAmounts, Packed

\* What a swap of any layout is decoded to.
LEMMA DecodedIs ==
    ASSUME topic \in SwapTopics, NEW s \in Logged, s.kind = "swap"
    PROVE  Complete(Log(s)) /\ DecodeSwap(Log(s)) = Amounts(s.in, s.out)
  <1>1. /\ s.in[1] \in Amount /\ s.in[2] \in Amount /\ s.out[1] \in Amount /\ s.out[2] \in Amount
        /\ s.in[1] = 0 \/ s.out[1] = 0
        /\ s.in[2] = 0 \/ s.out[2] = 0
        /\ s.in \in Amount \X Amount /\ s.out \in Amount \X Amount
    BY LoggedIs DEF Entries
  <1>2. Log(s) = [topic |-> topic, words |-> Words(s)]
    BY DEF Log
  <1>3. CASE topic = "v2"
    <2>1. Words(s) = <<s.in[1], s.in[2], s.out[1], s.out[2]>>
      BY <1>3 DEF Words
    <2>2. Complete(Log(s))
      BY <1>2, <1>3, <2>1 DEF Complete, Needs
    <2>3. DecodeSwap(Log(s)) = Amounts(<<s.in[1], s.in[2]>>, <<s.out[1], s.out[2]>>)
      BY <1>2, <1>3, <2>1 DEF DecodeSwap
    <2>4. s.in = <<s.in[1], s.in[2]>> /\ s.out = <<s.out[1], s.out[2]>>
      BY <1>1
    <2> QED
      BY <2>2, <2>3, <2>4
  <1>4. CASE topic \in {"v3", "agni"}
    <2> DEFINE d1 == s.in[1] - s.out[1]
               d2 == s.in[2] - s.out[2]
    <2>1. Words(s) = <<Signed(d1), Signed(d2)>>
      BY <1>4 DEF Words
    <2>2. Complete(Log(s))
      BY <1>2, <1>4, <2>1 DEF Complete, Needs
    <2>3. decodeInt256(Signed(d1)) = d1 /\ decodeInt256(Signed(d2)) = d2
      BY <1>1, SignedIs
    <2>4. /\ Magnitude(d1) = s.in[1] + s.out[1] /\ Magnitude(d2) = s.in[2] + s.out[2]
          /\ -d1 = s.out[1] - s.in[1] /\ -d2 = s.out[2] - s.in[2]
      BY <1>1, HalfAssumption DEF Magnitude, Amount
    <2> HIDE DEF d1, d2
    <2>5. DecodeSwap(Log(s)) = SignedAmounts(<<decodeInt256(Signed(d1)), decodeInt256(Signed(d2))>>)
      BY <1>2, <1>4, <2>1 DEF DecodeSwap
    <2>6. DecodeSwap(Log(s)) = SignedAmounts(<<d1, d2>>)
      BY <2>3, <2>5
    <2> QED
      BY <2>2, <2>4, <2>6 DEF SignedAmounts, Amounts
  <1>5. CASE topic = "lb"
    <2>1. Words(s) = <<0, Packed(s.in), Packed(s.out)>>
      BY <1>5 DEF Words
    <2>2. Complete(Log(s))
      BY <1>2, <1>5, <2>1 DEF Complete, Needs
    <2>3. splitPackedAmounts(Packed(s.in)) = s.in /\ splitPackedAmounts(Packed(s.out)) = s.out
      BY <1>1, PackedIs
    <2>4. DecodeSwap(Log(s)) = Amounts(splitPackedAmounts(Packed(s.in)), splitPackedAmounts(Packed(s.out)))
      BY <1>2, <1>5, <2>1 DEF DecodeSwap
    <2> QED
      BY <2>2, <2>3, <2>4
  <1> QED
    BY <1>3, <1>4, <1>5 DEF SwapTopics

Tallies == [swap_count : Nat, vol0 : Nat, vol1 : Nat, netflow0 : Int, netflow1 : Int]

\* A bucket with one more entry of a window, as it should be.
Tallied(b, s) ==
    [swap_count |-> b.swap_count + (IF s.kind = "sync" THEN 0 ELSE 1),
     vol0 |-> b.vol0 + (s.out[1] + s.in[1]), vol1 |-> b.vol1 + (s.out[2] + s.in[2]),
     netflow0 |-> b.netflow0 + (s.out[1] - s.in[1]), netflow1 |-> b.netflow1 + (s.out[2] - s.in[2])]

\* A bucket with one more entry is a bucket.
LEMMA TalliedIs ==
    ASSUME NEW b \in Tallies, NEW s \in Logged
    PROVE  /\ Tallied(b, s) \in Tallies
           /\ Tallied(b, s).swap_count >= b.swap_count /\ Tallied(b, s).vol0 >= b.vol0
           /\ Tallied(b, s).vol1 >= b.vol1
  <1>1. s.in[1] \in Nat /\ s.in[2] \in Nat /\ s.out[1] \in Nat /\ s.out[2] \in Nat
    BY LoggedIs, HalfAssumption DEF Amount
  <1> DEFINE n == IF s.kind = "sync" THEN 0 ELSE 1
             v0 == s.out[1] + s.in[1]
             v1 == s.out[2] + s.in[2]
             f0 == s.out[1] - s.in[1]
             f1 == s.out[2] - s.in[2]
  <1>2. n \in Nat /\ v0 \in Nat /\ v1 \in Nat /\ f0 \in Int /\ f1 \in Int
    BY <1>1
  <1>3. Tallied(b, s) = [swap_count |-> b.swap_count + n, vol0 |-> b.vol0 + v0, vol1 |-> b.vol1 + v1,
                         netflow0 |-> b.netflow0 + f0, netflow1 |-> b.netflow1 + f1]
    BY DEF Tallied
  <1> HIDE DEF n, v0, v1, f0, f1
  <1> QED
    BY <1>2, <1>3 DEF Tallies

\* One more log of a window makes the bucket what it should be.
LEMMA CountedIs ==
    ASSUME topic \in SwapTopics, NEW b \in Tallies, NEW s \in Logged
    PROVE  (IF IsSwapTopic(Log(s).topic) THEN Counted(b, Log(s)) ELSE b) = Tallied(b, s)
  <1>1. CASE s.kind = "swap"
    <2>1. Log(s).topic = topic
      BY <1>1 DEF Log
    <2>2. Complete(Log(s)) /\ DecodeSwap(Log(s)) = Amounts(s.in, s.out)
      BY <1>1, DecodedIs
    <2>3. s.in[1] \in Int /\ s.in[2] \in Int /\ s.out[1] \in Int /\ s.out[2] \in Int
      BY LoggedIs, HalfAssumption DEF Amount
    <2>4. Amounts(s.in, s.out) = [vol0 |-> s.out[1] + s.in[1], vol1 |-> s.out[2] + s.in[2],
             netflow0 |-> s.out[1] - s.in[1], netflow1 |-> s.out[2] - s.in[2]]
      BY <2>3 DEF Amounts
    <2>5. Counted(b, Log(s)) = Tallied(b, s)
      BY <1>1, <2>2, <2>4 DEF Counted, Tallied
    <2> QED
      BY <2>1, <2>5 DEF IsSwapTopic
  <1>2. CASE s.kind # "swap"
    <2>1. s.in = <<0, 0>> /\ s.out = <<0, 0>> /\ s \in Entries
      BY <1>2, LoggedIs
    <2>2. CASE s.kind = "cut"
      <3>1. Log(s) = [topic |-> topic, words |-> <<0>>]
        BY <2>2 DEF Log
      <3>2. ~Complete(Log(s)) /\ Log(s).topic = topic
        BY <3>1 DEF Complete, Needs, SwapTopics
      <3>3. Counted(b, Log(s)) = Tallied(b, s)
        BY <2>1, <2>2, <3>2 DEF Counted, Tallied, NoAmounts, Tallies
      <3> QED
        BY <3>2, <3>3 DEF IsSwapTopic
    <2>3. CASE s.kind = "sync"
      <3>1. Log(s).topic = "sync"
        BY <2>3 DEF Log
      <3>2. ~IsSwapTopic(Log(s).topic)
        BY <3>1 DEF IsSwapTopic, SwapTopics
      <3>3. Tallied(b, s) = b
        BY <2>1, <2>3 DEF Tallied, Tallies
      <3> QED
        BY <3>2, <3>3
    <2> QED
      BY <1>2, <2>1, <2>2, <2>3 DEF Entries
  <1> QED
    BY <1>1, <1>2

\* The bucket after each log of a window.
LEMMA BucketIs ==
    ASSUME topic \in SwapTopics, NEW swaps \in Seq(Logged)
    PROVE  \E g : /\ g[0] = NoSwaps
                  /\ g[Len(swaps)] = bucketize(RawLogs(swaps))
                  /\ \A k \in 1..Len(swaps) : g[k] \in Tallies /\ g[k] = Tallied(g[k - 1], swaps[k])
  <1> DEFINE op(b, log) == IF IsSwapTopic(log.topic) THEN Counted(b, log) ELSE b
             n == Len(swaps)
             s == RawLogs(swaps)
             X == {Log(e) : e \in Logged}
             step == [x \in X |-> [b \in Tallies |-> op(b, x)]]
  <1>1. n \in Nat /\ s \in [1..n -> X] /\ DOMAIN s = 1..n /\ \A k \in 1..n : swaps[k] \in Logged /\ s[k] = Log(swaps[k])
    BY DEF RawLogs
  <1>2. \A x \in X, b \in Tallies : op(b, x) \in Tallies
    <2> SUFFICES ASSUME NEW e \in Logged, NEW b \in Tallies PROVE op(b, Log(e)) \in Tallies
      OBVIOUS
    <2> QED
      BY CountedIs, TalliedIs
  <1>3. step \in [X -> [Tallies -> Tallies]] /\ \A x \in X, b \in Tallies : step[x][b] = op(b, x)
    <2> HIDE DEF op, X
    <2> QED
      BY <1>2
  <1>4. NoSwaps \in Tallies
    BY DEF NoSwaps, Tallies
  <1> HIDE DEF n, s, X, step
  <1>5. \E g : g = [t \in SUBSET DOMAIN s |-> IF t = {} THEN NoSwaps ELSE op(g[t \ {Max(t)}], s[Max(t)])]
    <2> HIDE DEF op
    <2>1. PICK g \in [SUBSET (1..n) -> Tallies] : Solves(g, n, NoSwaps, step, s)
      BY <1>1, <1>3, <1>4, FoldExists, Zenon
    <2>2. ASSUME NEW t \in SUBSET (1..n), t # {} PROVE s[Max(t)] \in X /\ g[t \ {Max(t)}] \in Tallies
      <3>1. Max(t) \in 1..n
        BY <1>1, <2>2, HighestOf
      <3> QED
        BY <1>1, <3>1
    <2>3. g = [t \in SUBSET DOMAIN s |-> IF t = {} THEN NoSwaps ELSE op(g[t \ {Max(t)}], s[Max(t)])]
      BY <1>1, <1>3, <2>1, <2>2 DEF Solves
    <2> QED
      BY <2>3
  <1> DEFINE h == CHOOSE h : h = [t \in SUBSET DOMAIN s |-> IF t = {} THEN NoSwaps ELSE op(h[t \ {Max(t)}], s[Max(t)])]
  <1>6. h = [t \in SUBSET DOMAIN s |-> IF t = {} THEN NoSwaps ELSE op(h[t \ {Max(t)}], s[Max(t)])]
    <2> HIDE DEF op
    <2> QED
      BY <1>5
  <1>7. bucketize(s) = h[DOMAIN s]
    BY DEF bucketize, FoldLeft, MapThenFoldSet
  <1> HIDE DEF h
  <1> DEFINE g == [k \in 0..n |-> h[1..k]]
  <1>8. g[0] = NoSwaps
    <2>1. {} \in SUBSET (1..n) /\ 1..0 = {} /\ 0 \in 0..n
      BY <1>1
    <2> HIDE DEF op
    <2> QED
      BY <1>1, <1>6, <2>1
  <1>9. ASSUME NEW k \in 1..n PROVE g[k] = op(g[k - 1], s[k])
    <2>1. k \in Nat /\ k # 0 /\ k \in 0..n /\ k - 1 \in 0..n /\ 1..k \in SUBSET (1..n)
      BY <1>1
    <2>2. Max(1..k) = k /\ (1..k) \ {k} = 1..(k - 1) /\ 1..k # {}
      BY <2>1, PrefixIs
    <2> HIDE DEF op
    <2>3. h[1..k] = op(h[1..(k - 1)], s[k])
      BY <1>1, <1>6, <2>1, <2>2
    <2> QED
      BY <2>1, <2>3
  <1>10. g[n] = bucketize(s)
    BY <1>1, <1>7
  <1> HIDE DEF g
  <1> DEFINE Good == {k \in 0..n : g[k] \in Tallies}
  <1>11. ASSUME NEW k \in 0..(n - 1), g[k] \in Tallies
         PROVE  k + 1 \in 0..n /\ g[k + 1] \in Tallies /\ g[k + 1] = Tallied(g[k], swaps[k + 1])
    <2> DEFINE e == swaps[k + 1]
               b == g[k]
    <2>1. k + 1 \in 1..n /\ (k + 1) - 1 = k /\ k + 1 \in 0..n
      BY <1>1
    <2>2. e \in Logged /\ s[k + 1] = Log(e)
      BY <1>1, <2>1
    <2>3. g[k + 1] = op(b, Log(e)) /\ b \in Tallies
      BY <1>9, <1>11, <2>1, <2>2
    <2> HIDE DEF e, b
    <2>4. op(b, Log(e)) = Tallied(b, e) /\ Tallied(b, e) \in Tallies
      BY <2>2, <2>3, CountedIs, TalliedIs
    <2> QED
      BY <2>1, <2>3, <2>4 DEF e, b
  <1>12. \A k \in 0..n : k \in Good
    <2>1. 0 \in Good
      BY <1>1, <1>4, <1>8
    <2>2. ASSUME NEW k \in 0..(n - 1), k \in Good PROVE k + 1 \in Good
      BY <1>11, <2>2
    <2> HIDE DEF Good
    <2> QED
      BY <1>1, <2>1, <2>2, Induction
  <1>13. ASSUME NEW k \in 1..n PROVE g[k] \in Tallies /\ g[k] = Tallied(g[k - 1], swaps[k])
    <2> DEFINE j == k - 1
    <2>1. j \in 0..(n - 1) /\ j + 1 = k /\ j \in 0..n
      BY <1>1
    <2> HIDE DEF j
    <2>2. g[j] \in Tallies
      BY <1>12, <2>1
    <2>3. g[j + 1] \in Tallies /\ g[j + 1] = Tallied(g[j], swaps[j + 1])
      BY <1>11, <2>1, <2>2
    <2>4. k - 1 = j
      BY <2>1
    <2> QED
      BY <2>1, <2>3, <2>4
  <1> QED
    BY <1>8, <1>10, <1>13 DEF n, s

\* What adds up step by step is the total.
LEMMA TotalIs ==
    ASSUME NEW n \in Nat, NEW xs \in [1..n -> Int], NEW v,
           v[0] = 0, \A k \in 1..n : v[k] = v[k - 1] + xs[k]
    PROVE  v[n] = Total(xs)
  <1> DEFINE step == [x \in Int |-> [a \in Int |-> a + x]]
  <1>1. step \in [Int -> [Int -> Int]] /\ \A x, a \in Int : step[x][a] = a + x
    OBVIOUS
  <1>2. 0 \in Int /\ DOMAIN xs = 1..n
    OBVIOUS
  <1> HIDE DEF step
  <1>3. \E g : g = [t \in SUBSET DOMAIN xs |-> IF t = {} THEN 0 ELSE g[t \ {Max(t)}] + xs[Max(t)]]
    <2> DEFINE zero == 0
    <2>0. zero \in Int
      OBVIOUS
    <2> HIDE DEF zero
    <2>1. PICK g \in [SUBSET (1..n) -> Int] : Solves(g, n, zero, step, xs)
      BY <1>1, <2>0, FoldExists, Zenon
    <2>2. ASSUME NEW t \in SUBSET (1..n), t # {} PROVE xs[Max(t)] \in Int /\ g[t \ {Max(t)}] \in Int
      <3>1. Max(t) \in 1..n
        BY <2>2, HighestOf
      <3> QED
        BY <3>1
    <2>3. g = [t \in SUBSET DOMAIN xs |-> IF t = {} THEN 0 ELSE g[t \ {Max(t)}] + xs[Max(t)]]
      BY <1>1, <1>2, <2>1, <2>2 DEF Solves, zero
    <2> QED
      BY <2>3
  <1> DEFINE h == CHOOSE h : h = [t \in SUBSET DOMAIN xs |-> IF t = {} THEN 0 ELSE h[t \ {Max(t)}] + xs[Max(t)]]
  <1>4. h = [t \in SUBSET DOMAIN xs |-> IF t = {} THEN 0 ELSE h[t \ {Max(t)}] + xs[Max(t)]]
    BY <1>3
  <1>5. Total(xs) = h[DOMAIN xs]
    BY DEF Total, FoldLeft, MapThenFoldSet
  <1> HIDE DEF h
  <1> DEFINE Good == {k \in 0..n : v[k] = h[1..k]}
  <1>6. 0 \in Good
    <2>1. {} \in SUBSET (1..n) /\ 1..0 = {} /\ 0 \in 0..n
      OBVIOUS
    <2> QED
      BY <1>2, <1>4, <2>1
  <1>7. ASSUME NEW k \in 0..(n - 1), k \in Good PROVE k + 1 \in Good
    <2> DEFINE j == k + 1
    <2>1. j \in Nat /\ j # 0 /\ j \in 1..n /\ j \in 0..n /\ j - 1 = k /\ 1..j \in SUBSET (1..n)
      OBVIOUS
    <2> HIDE DEF j
    <2>2. Max(1..j) = j /\ (1..j) \ {j} = 1..(j - 1) /\ 1..j # {}
      BY <2>1, PrefixIs
    <2>3. h[1..j] = h[1..(j - 1)] + xs[j]
      <3> DEFINE s == 1..j
      <3>1. s \in SUBSET DOMAIN xs /\ s # {} /\ Max(s) = j /\ s \ {j} = 1..(j - 1)
        BY <1>2, <2>1, <2>2
      <3> HIDE DEF s
      <3>2. h[s] = IF s = {} THEN 0 ELSE h[s \ {Max(s)}] + xs[Max(s)]
        BY <1>4, <3>1
      <3>3. h[s] = h[1..(j - 1)] + xs[j]
        BY <3>1, <3>2
      <3> QED
        BY <3>3 DEF s
    <2>4. v[j] = v[k] + xs[j] /\ v[k] = h[1..k]
      BY <1>7, <2>1
    <2>5. j \in Good
      BY <2>1, <2>3, <2>4
    <2> HIDE DEF Good
    <2> QED
      BY <2>5 DEF j
  <1>8. n \in Good
    <2>1. \A k \in 0..(n - 1) : k \in Good => k + 1 \in Good
      BY <1>7
    <2> HIDE DEF Good
    <2>2. \A k \in 0..n : k \in Good
      BY <1>6, <2>1, Induction
    <2> QED
      BY <2>2
  <1> QED
    BY <1>2, <1>5, <1>8

\* What is counted step by step is the number.
LEMMA NumberIs ==
    ASSUME NEW n \in Nat, NEW S \in SUBSET (1..n), NEW v,
           v[0] = 0, \A k \in 1..n : v[k] = v[k - 1] + (IF k \in S THEN 1 ELSE 0)
    PROVE  v[n] = Cardinality(S)
  <1> DEFINE Upto(k) == {i \in S : i <= k}
             Good == {k \in 0..n : IsFiniteSet(Upto(k)) /\ v[k] = Cardinality(Upto(k))}
  <1>1. 0 \in Good
    <2>1. Upto(0) = {}
      <3>1. \A i \in S : ~(i <= 0)
        OBVIOUS
      <3> QED
        BY <3>1
    <2> HIDE DEF Upto
    <2> QED
      BY <2>1, FS_EmptySet
  <1>2. ASSUME NEW k \in 0..(n - 1), k \in Good PROVE k + 1 \in Good
    <2> DEFINE j == k + 1
    <2>1. j \in 1..n /\ j \in 0..n /\ j - 1 = k
      OBVIOUS
    <2>2. Upto(j) = IF j \in S THEN Upto(k) \cup {j} ELSE Upto(k)
      <3>1. \A i \in S : i <= j <=> i <= k \/ i = j
        OBVIOUS
      <3> HIDE DEF j
      <3> QED
        BY <3>1
    <2>3. j \notin Upto(k)
      OBVIOUS
    <2>4. v[j] = v[k] + (IF j \in S THEN 1 ELSE 0)
      BY <2>1
    <2> HIDE DEF j, Upto
    <2>5. IsFiniteSet(Upto(k)) /\ v[k] = Cardinality(Upto(k)) /\ Cardinality(Upto(k)) \in Nat
      BY <1>2, FS_CardinalityType
    <2>6. IsFiniteSet(Upto(j)) /\ v[j] = Cardinality(Upto(j))
      <3>1. CASE j \in S
        BY <2>2, <2>3, <2>4, <2>5, <3>1, FS_AddElement
      <3>2. CASE j \notin S
        BY <2>2, <2>4, <2>5, <3>2
      <3> QED
        BY <3>1, <3>2
    <2>7. j \in Good
      BY <2>1, <2>6
    <2> HIDE DEF Good
    <2> QED
      BY <2>7 DEF j
  <1>3. n \in Good
    <2> HIDE DEF Good
    <2> QED
      BY <1>1, <1>2, Induction
  <1>4. Upto(n) = S
    <2>1. \A i \in S : i <= n
      OBVIOUS
    <2> QED
      BY <2>1
  <1> HIDE DEF Upto
  <1> QED
    BY <1>3, <1>4

\* A bucket is what the entries of its window add up to.
LEMMA BucketSums ==
    ASSUME topic \in SwapTopics, NEW swaps \in Seq(Logged)
    PROVE  LET b == bucketize(RawLogs(swaps)) IN
           /\ b \in Tallies
           /\ b.swap_count = Cardinality({j \in DOMAIN swaps : swaps[j].kind # "sync"})
           /\ b.netflow0 = SumOf(swaps, LAMBDA s : s.out[1] - s.in[1])
           /\ b.netflow1 = SumOf(swaps, LAMBDA s : s.out[2] - s.in[2])
           /\ b.vol0 = SumOf(swaps, LAMBDA s : s.out[1] + s.in[1])
           /\ b.vol1 = SumOf(swaps, LAMBDA s : s.out[2] + s.in[2])
  <1> DEFINE n == Len(swaps)
             b == bucketize(RawLogs(swaps))
  <1>1. n \in Nat /\ DOMAIN swaps = 1..n /\ \A k \in 1..n : swaps[k] \in Logged
    OBVIOUS
  <1>2. PICK g : /\ g[0] = NoSwaps
                 /\ g[n] = b
                 /\ \A k \in 1..n : g[k] \in Tallies /\ g[k] = Tallied(g[k - 1], swaps[k])
    BY BucketIs
  <1> HIDE DEF n, b
  <1>3. NoSwaps \in Tallies /\ NoSwaps.swap_count = 0 /\ NoSwaps.vol0 = 0 /\ NoSwaps.vol1 = 0
        /\ NoSwaps.netflow0 = 0 /\ NoSwaps.netflow1 = 0
    BY DEF NoSwaps, Tallies
  <1>4. ASSUME NEW k \in 1..n
        PROVE  /\ swaps[k].in[1] \in Int /\ swaps[k].in[2] \in Int
               /\ swaps[k].out[1] \in Int /\ swaps[k].out[2] \in Int
               /\ k \in 0..n /\ k - 1 \in 0..n
               /\ g[k].swap_count = g[k - 1].swap_count + (IF swaps[k].kind = "sync" THEN 0 ELSE 1)
               /\ g[k].vol0 = g[k - 1].vol0 + (swaps[k].out[1] + swaps[k].in[1])
               /\ g[k].vol1 = g[k - 1].vol1 + (swaps[k].out[2] + swaps[k].in[2])
               /\ g[k].netflow0 = g[k - 1].netflow0 + (swaps[k].out[1] - swaps[k].in[1])
               /\ g[k].netflow1 = g[k - 1].netflow1 + (swaps[k].out[2] - swaps[k].in[2])
    <2>1. k \in 0..n /\ k - 1 \in 0..n
      BY <1>1
    <2>2. swaps[k].in[1] \in Int /\ swaps[k].in[2] \in Int /\ swaps[k].out[1] \in Int /\ swaps[k].out[2] \in Int
      <3> DEFINE s == swaps[k]
      <3>1. s \in Logged
        BY <1>1
      <3> HIDE DEF s
      <3>2. s.in[1] \in Int /\ s.in[2] \in Int /\ s.out[1] \in Int /\ s.out[2] \in Int
        BY <3>1, LoggedIs, HalfAssumption DEF Amount
      <3> QED
        BY <3>2 DEF s
    <2>3. g[k] = Tallied(g[k - 1], swaps[k])
      BY <1>2
    <2> QED
      BY <2>1, <2>2, <2>3 DEF Tallied
  <1>5. b \in Tallies
    BY <1>1, <1>2, <1>3
  <1>6. b.swap_count = Cardinality({j \in DOMAIN swaps : swaps[j].kind # "sync"})
    <2> DEFINE S == {j \in DOMAIN swaps : swaps[j].kind # "sync"}
               v == [k \in 0..n |-> g[k].swap_count]
    <2>1. S \in SUBSET (1..n) /\ v[0] = 0 /\ v[n] = b.swap_count
      BY <1>1, <1>2, <1>3
    <2>2. \A k \in 1..n : v[k] = v[k - 1] + (IF k \in S THEN 1 ELSE 0)
      BY <1>1, <1>4
    <2> HIDE DEF S, v
    <2>3. v[n] = Cardinality(S)
      BY <1>1, <2>1, <2>2, NumberIs
    <2> QED
      BY <2>1, <2>3 DEF S
  <1>7. b.netflow0 = SumOf(swaps, LAMBDA s : s.out[1] - s.in[1])
    <2> DEFINE xs == [i \in DOMAIN swaps |-> swaps[i].out[1] - swaps[i].in[1]]
               v == [k \in 0..n |-> g[k].netflow0]
    <2>1. xs \in [1..n -> Int] /\ v[0] = 0 /\ v[n] = b.netflow0
      BY <1>1, <1>2, <1>3, <1>4
    <2>2. \A k \in 1..n : v[k] = v[k - 1] + xs[k]
      BY <1>1, <1>4
    <2>3. SumOf(swaps, LAMBDA s : s.out[1] - s.in[1]) = Total(xs)
      BY DEF SumOf
    <2> HIDE DEF xs, v
    <2>4. v[n] = Total(xs)
      BY <1>1, <2>1, <2>2, TotalIs
    <2> QED
      BY <2>1, <2>3, <2>4
  <1>8. b.netflow1 = SumOf(swaps, LAMBDA s : s.out[2] - s.in[2])
    <2> DEFINE xs == [i \in DOMAIN swaps |-> swaps[i].out[2] - swaps[i].in[2]]
               v == [k \in 0..n |-> g[k].netflow1]
    <2>1. xs \in [1..n -> Int] /\ v[0] = 0 /\ v[n] = b.netflow1
      BY <1>1, <1>2, <1>3, <1>4
    <2>2. \A k \in 1..n : v[k] = v[k - 1] + xs[k]
      BY <1>1, <1>4
    <2>3. SumOf(swaps, LAMBDA s : s.out[2] - s.in[2]) = Total(xs)
      BY DEF SumOf
    <2> HIDE DEF xs, v
    <2>4. v[n] = Total(xs)
      BY <1>1, <2>1, <2>2, TotalIs
    <2> QED
      BY <2>1, <2>3, <2>4
  <1>9. b.vol0 = SumOf(swaps, LAMBDA s : s.out[1] + s.in[1])
    <2> DEFINE xs == [i \in DOMAIN swaps |-> swaps[i].out[1] + swaps[i].in[1]]
               v == [k \in 0..n |-> g[k].vol0]
    <2>1. xs \in [1..n -> Int] /\ v[0] = 0 /\ v[n] = b.vol0
      BY <1>1, <1>2, <1>3, <1>4
    <2>2. \A k \in 1..n : v[k] = v[k - 1] + xs[k]
      BY <1>1, <1>4
    <2>3. SumOf(swaps, LAMBDA s : s.out[1] + s.in[1]) = Total(xs)
      BY DEF SumOf
    <2> HIDE DEF xs, v
    <2>4. v[n] = Total(xs)
      BY <1>1, <2>1, <2>2, TotalIs
    <2> QED
      BY <2>1, <2>3, <2>4
  <1>10. b.vol1 = SumOf(swaps, LAMBDA s : s.out[2] + s.in[2])
    <2> DEFINE xs == [i \in DOMAIN swaps |-> swaps[i].out[2] + swaps[i].in[2]]
               v == [k \in 0..n |-> g[k].vol1]
    <2>1. xs \in [1..n -> Int] /\ v[0] = 0 /\ v[n] = b.vol1
      BY <1>1, <1>2, <1>3, <1>4
    <2>2. \A k \in 1..n : v[k] = v[k - 1] + xs[k]
      BY <1>1, <1>4
    <2>3. SumOf(swaps, LAMBDA s : s.out[2] + s.in[2]) = Total(xs)
      BY DEF SumOf
    <2> HIDE DEF xs, v
    <2>4. v[n] = Total(xs)
      BY <1>1, <2>1, <2>2, TotalIs
    <2> QED
      BY <2>1, <2>3, <2>4
  <1> QED
    BY <1>5, <1>6, <1>7, <1>8, <1>9, <1>10 DEF b

\* The windows of a pool: when they begin, and the logs they have.
Windows == [ts : Int, swaps : Seq(Logged)]

FlowInv ==
    /\ topic \in SwapTopics
    /\ windows \in Seq(Windows)

\* A log in the newest window, or in a later one, leaves windows of logs.
LEMMA FlowStep ==
    ASSUME FlowInv, [FlowNext]_flowVars
    PROVE  FlowInv'
  <1>1. topic \in SwapTopics /\ windows \in Seq(Windows)
    BY DEF FlowInv
  <1>2. CASE Fill
    <2>1. PICK swap \in Logged : windows' = [windows EXCEPT ![Len(windows)].swaps = Append(@, swap)]
      BY <1>2 DEF Fill, Logged
    <2> DEFINE n == Len(windows)
               w == windows[n]
               longer == Append(w.swaps, swap)
               w2 == [w EXCEPT !.swaps = longer]
    <2>2. n \in 1..Len(windows) /\ w \in Windows
      BY <1>1, <1>2 DEF Fill
    <2>3. windows' = [windows EXCEPT ![n] = w2]
      BY <2>1
    <2>4. longer \in Seq(Logged)
      BY <2>2 DEF Windows
    <2> HIDE DEF longer
    <2>5. w2 \in Windows
      BY <2>2, <2>4 DEF Windows
    <2> HIDE DEF w2, n
    <2>6. windows' \in Seq(Windows)
      BY <1>1, <2>2, <2>3, <2>5
    <2> QED
      BY <1>1, <1>2, <2>6 DEF FlowInv, Fill
  <1>3. CASE Open
    <2>1. PICK swap \in Logged, gap \in Gaps :
             windows' = Append(windows, [ts |-> (IF windows = <<>> THEN 0 ELSE Last(windows).ts) + gap,
                                         swaps |-> <<swap>>])
      BY <1>3 DEF Open, Logged
    <2> DEFINE at == (IF windows = <<>> THEN 0 ELSE Last(windows).ts) + gap
               w == [ts |-> at, swaps |-> <<swap>>]
    <2>2. at \in Int
      <3>1. gap \in Int
        BY TradesAssumption
      <3>2. CASE windows # <<>>
        <4>1. windows[Len(windows)] \in Windows
          BY <1>1, <3>2
        <4> QED
          BY <3>1, <3>2, <4>1 DEF Last, Windows
      <3> QED
        BY <3>1, <3>2
    <2>3. windows' = Append(windows, w)
      BY <2>1
    <2> HIDE DEF at
    <2>4. w \in Windows
      BY <2>2 DEF Windows
    <2> HIDE DEF w
    <2>5. windows' \in Seq(Windows)
      BY <1>1, <2>3, <2>4
    <2> QED
      BY <1>1, <1>3, <2>5 DEF FlowInv, Open
  <1>4. CASE UNCHANGED flowVars
    BY <1>1, <1>4 DEF flowVars, FlowInv
  <1> QED
    BY <1>2, <1>3, <1>4 DEF FlowNext

\* The windows hold what a pool may log, for any trades and gaps.
THEOREM FlowInductive == FlowSpec => []FlowInv
  <1>1. FlowInit => FlowInv
    BY DEF FlowInit, FlowInv
  <1>2. FlowInv /\ [FlowNext]_flowVars => FlowInv'
    BY FlowStep
  <1> QED
    BY <1>1, <1>2, PTL DEF FlowSpec

\* A bucket counts every swap of its window, and its flows and volumes are the sums of
\* what the traders paid and got, whatever the layout of the pool's log (aggregate.go,
\* DecodeSwap and bucketize).
THEOREM BucketsAreHonest == FlowSpec => []BucketsHonest
  <1>1. FlowInv => BucketsHonest
    <2> SUFFICES ASSUME FlowInv, NEW i \in DOMAIN windows
                 PROVE  LET swaps == windows[i].swaps
                            b == BucketAt(windows[i]) IN
                        /\ b.swap_count = Cardinality({j \in DOMAIN swaps : swaps[j].kind # "sync"})
                        /\ b.netflow0 = SumOf(swaps, LAMBDA s : s.out[1] - s.in[1])
                        /\ b.netflow1 = SumOf(swaps, LAMBDA s : s.out[2] - s.in[2])
                        /\ b.vol0 = SumOf(swaps, LAMBDA s : s.out[1] + s.in[1])
                        /\ b.vol1 = SumOf(swaps, LAMBDA s : s.out[2] + s.in[2])
      BY DEF BucketsHonest
    <2> DEFINE swaps == windows[i].swaps
               b == bucketize(RawLogs(swaps))
    <2>1. topic \in SwapTopics /\ swaps \in Seq(Logged)
      <3>1. windows[i] \in Windows
        BY DEF FlowInv
      <3> QED
        BY <3>1 DEF FlowInv, Windows
    <2> HIDE DEF swaps
    <2>2. /\ b.swap_count = Cardinality({j \in DOMAIN swaps : swaps[j].kind # "sync"})
          /\ b.netflow0 = SumOf(swaps, LAMBDA s : s.out[1] - s.in[1])
          /\ b.netflow1 = SumOf(swaps, LAMBDA s : s.out[2] - s.in[2])
          /\ b.vol0 = SumOf(swaps, LAMBDA s : s.out[1] + s.in[1])
          /\ b.vol1 = SumOf(swaps, LAMBDA s : s.out[2] + s.in[2])
      BY <2>1, BucketSums
    <2>3. BucketAt(windows[i]) = [ts |-> windows[i].ts, swap_count |-> b.swap_count, vol0 |-> b.vol0,
             vol1 |-> b.vol1, netflow0 |-> b.netflow0, netflow1 |-> b.netflow1]
      BY DEF BucketAt, swaps
    <2> HIDE DEF b
    <2> DEFINE a == BucketAt(windows[i])
    <2>4. /\ a.swap_count = b.swap_count /\ a.netflow0 = b.netflow0 /\ a.netflow1 = b.netflow1
          /\ a.vol0 = b.vol0 /\ a.vol1 = b.vol1
      BY <2>3
    <2> HIDE DEF a
    <2>5. LET ss == swaps IN
          /\ a.swap_count = Cardinality({j \in DOMAIN ss : ss[j].kind # "sync"})
          /\ a.netflow0 = SumOf(ss, LAMBDA s : s.out[1] - s.in[1])
          /\ a.netflow1 = SumOf(ss, LAMBDA s : s.out[2] - s.in[2])
          /\ a.vol0 = SumOf(ss, LAMBDA s : s.out[1] + s.in[1])
          /\ a.vol1 = SumOf(ss, LAMBDA s : s.out[2] + s.in[2])
      BY <2>2, <2>4
    <2> QED
      BY <2>5 DEF a, swaps
  <1> QED
    BY FlowInductive, <1>1, PTL

-----------------------------------------------------------------------------
(* The history of a pool, and a bucket that is still filling.              *)

Buckets == [ts : Int, swap_count : Nat, vol0 : Nat, vol1 : Nat, netflow0 : Int, netflow1 : Int]

\* No growing metric of b is above that of c.
NoMore(b, c) == b.swap_count <= c.swap_count /\ b.vol0 <= c.vol0 /\ b.vol1 <= c.vol1

\* What has no more than what has no more has no more.
LEMMA NoMoreIs ==
    ASSUME NEW a \in Tallies, NEW b \in Tallies, NEW c \in Tallies, NoMore(a, b), NoMore(b, c)
    PROVE  NoMore(a, c)
  BY DEF NoMore, Tallies

\* The row of a window is a bucket with the figures of its logs.
LEMMA BucketAtIs ==
    ASSUME topic \in SwapTopics, NEW w \in Windows
    PROVE  BucketAt(w) \in Buckets /\ NoMore(bucketize(RawLogs(w.swaps)), BucketAt(w))
           /\ NoMore(BucketAt(w), bucketize(RawLogs(w.swaps)))
  <1> DEFINE b == bucketize(RawLogs(w.swaps))
  <1>1. w.swaps \in Seq(Logged) /\ w.ts \in Int
    BY DEF Windows
  <1>2. b \in Tallies
    BY <1>1, BucketSums
  <1>3. BucketAt(w) = [ts |-> w.ts, swap_count |-> b.swap_count, vol0 |-> b.vol0,
             vol1 |-> b.vol1, netflow0 |-> b.netflow0, netflow1 |-> b.netflow1]
    BY DEF BucketAt
  <1> HIDE DEF b
  <1>4. NoMore(b, BucketAt(w)) /\ NoMore(BucketAt(w), b)
    BY <1>2, <1>3 DEF NoMore, Tallies
  <1>5. BucketAt(w) \in Buckets
    BY <1>1, <1>2, <1>3 DEF Tallies, Buckets
  <1> QED
    BY <1>4, <1>5 DEF b

\* The bucket of a window that is still filling has no more than it will have.
LEMMA PartialIs ==
    ASSUME topic \in SwapTopics, NEW swaps \in Seq(Logged), NEW m \in 1..Len(swaps)
    PROVE  /\ SubSeq(swaps, 1, m) \in Seq(Logged)
           /\ NoMore(bucketize(RawLogs(SubSeq(swaps, 1, m))), bucketize(RawLogs(swaps)))
  <1> DEFINE n == Len(swaps)
             part == SubSeq(swaps, 1, m)
             b == bucketize(RawLogs(swaps))
             c == bucketize(RawLogs(part))
  <1>1. /\ n \in Nat /\ m \in Nat /\ m <= n
        /\ part \in Seq(Logged) /\ Len(part) = m /\ \A k \in 1..m : part[k] = swaps[k]
        /\ \A k \in 1..n : swaps[k] \in Logged
    OBVIOUS
  <1> HIDE DEF part
  <1>2. PICK g : /\ g[0] = NoSwaps /\ g[n] = b
                 /\ \A k \in 1..n : g[k] \in Tallies /\ g[k] = Tallied(g[k - 1], swaps[k])
    BY BucketIs
  <1>3. PICK f : /\ f[0] = NoSwaps /\ f[m] = c
                 /\ \A k \in 1..m : f[k] \in Tallies /\ f[k] = Tallied(f[k - 1], part[k])
    BY <1>1, BucketIs
  <1> HIDE DEF n, b, c
  <1>4. f[m] = g[m]
    <2> DEFINE Same == {k \in 0..m : f[k] = g[k]}
    <2>1. 0 \in Same
      BY <1>1, <1>2, <1>3
    <2>2. ASSUME NEW k \in 0..(m - 1), k \in Same PROVE k + 1 \in Same
      <3>1. k + 1 \in 1..m /\ k + 1 \in 1..n /\ (k + 1) - 1 = k /\ k + 1 \in 0..m
        BY <1>1
      <3>2. f[k + 1] = Tallied(f[k], part[k + 1]) /\ g[k + 1] = Tallied(g[k], swaps[k + 1])
        BY <1>2, <1>3, <3>1
      <3> QED
        BY <1>1, <2>2, <3>1, <3>2
    <2>3. \A k \in 0..(m - 1) : k \in Same => k + 1 \in Same
      BY <2>2
    <2> HIDE DEF Same
    <2>4. \A k \in 0..m : k \in Same
      BY <1>1, <2>1, <2>3, Induction
    <2>5. m \in Same
      BY <1>1, <2>4
    <2> QED
      BY <2>5 DEF Same
  <1>5. ASSUME NEW k \in 0..(n - 1) PROVE k + 1 \in 0..n /\ (k >= 1 => NoMore(g[k], g[k + 1]))
    <2>1. k + 1 \in 1..n /\ (k + 1) - 1 = k /\ k + 1 \in 0..n
      BY <1>1
    <2>2. ASSUME k >= 1 PROVE NoMore(g[k], g[k + 1])
      <3> DEFINE t == g[k]
                 s == swaps[k + 1]
      <3>1. t \in Tallies /\ s \in Logged /\ g[k + 1] = Tallied(t, s)
        BY <1>1, <1>2, <2>1, <2>2
      <3> HIDE DEF t, s
      <3>2. /\ Tallied(t, s) \in Tallies /\ Tallied(t, s).swap_count >= t.swap_count
            /\ Tallied(t, s).vol0 >= t.vol0 /\ Tallied(t, s).vol1 >= t.vol1
        BY <3>1, TalliedIs
      <3>3. NoMore(t, Tallied(t, s))
        BY <3>1, <3>2 DEF NoMore, Tallies
      <3> QED
        BY <3>1, <3>3 DEF t
    <2> QED
      BY <2>1, <2>2
  <1>6. NoMore(g[m], g[n])
    <2> DEFINE More == {k \in 0..n : k >= m => NoMore(g[m], g[k])}
    <2>1. 0 \in More
      BY <1>1
    <2>2. ASSUME NEW k \in 0..(n - 1), k \in More PROVE k + 1 \in More
      <3>1. k + 1 \in 0..n /\ k + 1 \in 1..n /\ m \in 1..n /\ k \in Int /\ m \in Int
        BY <1>1
      <3>2. CASE k >= m
        <4>1. k >= 1 /\ k \in 1..n
          BY <1>1, <3>1, <3>2
        <4>2. NoMore(g[m], g[k]) /\ NoMore(g[k], g[k + 1])
          BY <1>5, <2>2, <3>2, <4>1
        <4>3. g[m] \in Tallies /\ g[k] \in Tallies /\ g[k + 1] \in Tallies
          BY <1>2, <3>1, <4>1
        <4>4. NoMore(g[m], g[k + 1])
          BY <4>2, <4>3, NoMoreIs
        <4> QED
          BY <3>1, <4>4
      <3>3. CASE k + 1 = m
        <4>1. g[m] \in Tallies
          BY <1>2, <3>1
        <4> QED
          BY <3>1, <3>3, <4>1 DEF NoMore, Tallies
      <3>4. CASE k + 1 < m
        BY <3>1, <3>4
      <3> QED
        BY <3>1, <3>2, <3>3, <3>4
    <2>3. \A k \in 0..(n - 1) : k \in More => k + 1 \in More
      BY <2>2
    <2> HIDE DEF More
    <2>4. \A k \in 0..n : k \in More
      BY <1>1, <2>1, <2>3, Induction
    <2>5. n \in More
      BY <1>1, <2>4
    <2> QED
      BY <1>1, <2>5 DEF More
  <1>7. NoMore(c, b)
    BY <1>2, <1>3, <1>4, <1>6
  <1> QED
    BY <1>1, <1>7 DEF b, c, part

\* The rows after a window.
Grown(table, w) == IF BucketAt(w).swap_count > 0 THEN Append(table, BucketAt(w)) ELSE table

\* The rows after a window are rows, the new one last.
LEMMA GrownIs ==
    ASSUME topic \in SwapTopics, NEW table \in Seq(Buckets), NEW w \in Windows
    PROVE  Grown(table, w) \in Seq(Buckets)
  <1>1. BucketAt(w) \in Buckets
    BY BucketAtIs
  <1> QED
    BY <1>1 DEF Grown

\* The rows after each window.
LEMMA HistoryIs ==
    ASSUME topic \in SwapTopics, NEW ws \in Seq(Windows)
    PROVE  \E g : /\ g[0] = <<>>
                  /\ g[Len(ws)] = History(ws)
                  /\ \A k \in 0..Len(ws) : g[k] \in Seq(Buckets)
                  /\ \A k \in 1..Len(ws) : g[k] = Grown(g[k - 1], ws[k])
  <1> DEFINE n == Len(ws)
             A == Seq(Buckets)
             op(table, w) == IF BucketAt(w).swap_count > 0 THEN Append(table, BucketAt(w)) ELSE table
             step == [w \in Windows |-> [table \in A |-> op(table, w)]]
             none == <<>>
  <1>1. n \in Nat /\ ws \in [1..n -> Windows] /\ DOMAIN ws = 1..n
    OBVIOUS
  <1>2. \A w \in Windows, table \in A : op(table, w) = Grown(table, w) /\ op(table, w) \in A
    BY GrownIs DEF Grown
  <1>3. none \in A
    OBVIOUS
  <1>4. step \in [Windows -> [A -> A]] /\ \A w \in Windows, table \in A : step[w][table] = op(table, w)
    <2> HIDE DEF op, A
    <2> QED
      BY <1>2
  <1> HIDE DEF n, A, step, none
  <1>5. \E g : g = [t \in SUBSET DOMAIN ws |-> IF t = {} THEN none ELSE op(g[t \ {Max(t)}], ws[Max(t)])]
    <2> HIDE DEF op
    <2>1. PICK g \in [SUBSET (1..n) -> A] : Solves(g, n, none, step, ws)
      BY <1>1, <1>3, <1>4, FoldExists, Zenon
    <2>2. ASSUME NEW t \in SUBSET (1..n), t # {} PROVE ws[Max(t)] \in Windows /\ g[t \ {Max(t)}] \in A
      <3>1. Max(t) \in 1..n
        BY <1>1, <2>2, HighestOf
      <3> QED
        BY <1>1, <3>1
    <2>3. g = [t \in SUBSET DOMAIN ws |-> IF t = {} THEN none ELSE op(g[t \ {Max(t)}], ws[Max(t)])]
      BY <1>1, <1>4, <2>1, <2>2 DEF Solves
    <2> QED
      BY <2>3
  <1> DEFINE h == CHOOSE h : h = [t \in SUBSET DOMAIN ws |-> IF t = {} THEN none ELSE op(h[t \ {Max(t)}], ws[Max(t)])]
  <1>6. h = [t \in SUBSET DOMAIN ws |-> IF t = {} THEN none ELSE op(h[t \ {Max(t)}], ws[Max(t)])]
    <2> HIDE DEF op
    <2> QED
      BY <1>5
  <1>7. History(ws) = h[DOMAIN ws]
    BY DEF History, FoldLeft, MapThenFoldSet, none
  <1> HIDE DEF h, op
  <1> DEFINE g == [k \in 0..n |-> h[1..k]]
  <1>8. g[0] = none
    <2>1. {} \in SUBSET (1..n) /\ 1..0 = {} /\ 0 \in 0..n
      BY <1>1
    <2> QED
      BY <1>1, <1>6, <2>1
  <1>9. ASSUME NEW k \in 1..n PROVE g[k] = op(g[k - 1], ws[k])
    <2>1. k \in Nat /\ k # 0 /\ k \in 0..n /\ k - 1 \in 0..n /\ 1..k \in SUBSET (1..n)
      BY <1>1
    <2>2. Max(1..k) = k /\ (1..k) \ {k} = 1..(k - 1) /\ 1..k # {}
      BY <2>1, PrefixIs
    <2>3. h[1..k] = op(h[1..(k - 1)], ws[k])
      BY <1>1, <1>6, <2>1, <2>2
    <2> QED
      BY <2>1, <2>3
  <1>10. g[n] = History(ws)
    BY <1>1, <1>7
  <1> HIDE DEF g
  <1> DEFINE Good == {k \in 0..n : g[k] \in A}
  <1>11. ASSUME NEW k \in 0..(n - 1), g[k] \in A
         PROVE  k + 1 \in 0..n /\ g[k + 1] \in A /\ g[k + 1] = Grown(g[k], ws[k + 1])
    <2>1. k + 1 \in 1..n /\ (k + 1) - 1 = k /\ k + 1 \in 0..n
      BY <1>1
    <2>2. g[k + 1] = op(g[k], ws[k + 1]) /\ ws[k + 1] \in Windows
      BY <1>1, <1>9, <2>1
    <2> QED
      BY <1>2, <1>11, <2>1, <2>2
  <1>12. \A k \in 0..n : k \in Good
    <2>1. 0 \in Good
      BY <1>1, <1>3, <1>8
    <2>2. \A k \in 0..(n - 1) : k \in Good => k + 1 \in Good
      BY <1>11
    <2> HIDE DEF Good
    <2> QED
      BY <1>1, <2>1, <2>2, Induction
  <1>13. ASSUME NEW k \in 1..n PROVE g[k] = Grown(g[k - 1], ws[k])
    <2> DEFINE j == k - 1
    <2>1. j \in 0..(n - 1) /\ j + 1 = k /\ j \in 0..n
      BY <1>1
    <2> HIDE DEF j
    <2>2. g[j] \in A
      BY <1>12, <2>1
    <2>3. g[j + 1] = Grown(g[j], ws[j + 1])
      BY <1>11, <2>1, <2>2
    <2>4. k - 1 = j
      BY <2>1
    <2> QED
      BY <2>1, <2>3, <2>4
  <1>14. \A k \in 0..n : g[k] \in A
    BY <1>12
  <1> HIDE DEF Good
  <1> QED
    BY <1>8, <1>10, <1>13, <1>14 DEF n, A, none

\* Histories that differ in the last window only.
LEMMA HistoriesAgree ==
    ASSUME topic \in SwapTopics, NEW ws \in Seq(Windows), NEW us \in Seq(Windows),
           Len(ws) = Len(us), Len(ws) > 0, \A k \in 1..(Len(ws) - 1) : ws[k] = us[k]
    PROVE  \E table \in Seq(Buckets) : /\ History(ws) = Grown(table, ws[Len(ws)])
                                      /\ History(us) = Grown(table, us[Len(us)])
  <1> DEFINE n == Len(ws)
             m == n - 1
  <1>1. n \in Nat /\ m \in Nat /\ n \in 1..n /\ m \in 0..n /\ Len(us) = n
    OBVIOUS
  <1>2. PICK g : /\ g[0] = <<>>
                 /\ g[n] = History(ws)
                 /\ \A k \in 0..n : g[k] \in Seq(Buckets)
                 /\ \A k \in 1..n : g[k] = Grown(g[k - 1], ws[k])
    BY HistoryIs
  <1>3. PICK f : /\ f[0] = <<>>
                 /\ f[n] = History(us)
                 /\ \A k \in 1..n : f[k] = Grown(f[k - 1], us[k])
    BY <1>1, HistoryIs
  <1>4. \A k \in 1..m : ws[k] = us[k]
    OBVIOUS
  <1>5. n - 1 = m
    OBVIOUS
  <1> HIDE DEF m, n
  <1>6. g[m] = f[m]
    <2> DEFINE Same == {k \in 0..m : f[k] = g[k]}
    <2>1. 0 \in Same
      BY <1>1, <1>2, <1>3
    <2>2. ASSUME NEW k \in 0..(m - 1), k \in Same PROVE k + 1 \in Same
      <3>1. k + 1 \in 1..m /\ k + 1 \in 1..n /\ (k + 1) - 1 = k /\ k + 1 \in 0..m
        BY <1>1, <1>5
      <3>2. f[k + 1] = Grown(f[k], us[k + 1]) /\ g[k + 1] = Grown(g[k], ws[k + 1])
        BY <1>2, <1>3, <3>1
      <3> QED
        BY <1>4, <2>2, <3>1, <3>2
    <2>3. \A k \in 0..(m - 1) : k \in Same => k + 1 \in Same
      BY <2>2
    <2> HIDE DEF Same
    <2>4. \A k \in 0..m : k \in Same
      BY <1>1, <2>1, <2>3, Induction
    <2>5. m \in Same
      BY <1>1, <2>4
    <2> QED
      BY <2>5 DEF Same
  <1>7. g[n] = Grown(g[m], ws[n]) /\ f[n] = Grown(g[m], us[n]) /\ g[m] \in Seq(Buckets)
    BY <1>1, <1>2, <1>3, <1>5, <1>6
  <1> QED
    BY <1>1, <1>2, <1>3, <1>7 DEF n

-----------------------------------------------------------------------------
(* Medians, and the alarms on a bucket that grows.                         *)

\* There is a k-th smallest of natural numbers,
LEMMA RankedHas ==
    ASSUME NEW xs \in Seq(Nat), NEW k \in 1..Len(xs)
    PROVE  /\ \E i \in 1..Len(xs) : Ranked(xs, k) = xs[i]
           /\ k <= Cardinality({i \in 1..Len(xs) : xs[i] <= Ranked(xs, k)})
  <1> DEFINE n == Len(xs)
             Under(v) == {i \in 1..n : xs[i] <= v}
             C == {v \in Nat : k <= Cardinality(Under(v))}
  <1>1. n \in Nat /\ DOMAIN xs = 1..n /\ (\A i \in 1..n : xs[i] \in Nat) /\ k \in Nat /\ k >= 1 /\ k <= n
    OBVIOUS
  <1> HIDE DEF n
  <1>2. ASSUME NEW S \in SUBSET (1..n) PROVE IsFiniteSet(S) /\ Cardinality(S) \in Nat
    <2>1. IsFiniteSet(1..n)
      BY <1>1, FS_Interval
    <2>2. IsFiniteSet(S)
      BY <2>1, FS_Subset
    <2> QED
      BY <2>2, FS_CardinalityType
  <1>3. C # {}
    <2> DEFINE Bounded == {j \in 0..n : \E v \in Nat : \A i \in 1..j : xs[i] <= v}
    <2>1. 0 \in Bounded
      <3>1. 0 \in Nat /\ \A i \in 1..0 : xs[i] <= 0
        OBVIOUS
      <3> QED
        BY <1>1, <3>1
    <2>2. ASSUME NEW j \in 0..(n - 1), j \in Bounded PROVE j + 1 \in Bounded
      <3>1. PICK v \in Nat : \A i \in 1..j : xs[i] <= v
        BY <2>2
      <3>2. xs[j + 1] \in Nat /\ j + 1 \in 0..n
        BY <1>1
      <3> DEFINE w == v + xs[j + 1]
      <3>3. w \in Nat /\ v <= w /\ xs[j + 1] <= w
        BY <3>2
      <3> HIDE DEF w
      <3>4. ASSUME NEW i \in 1..(j + 1) PROVE xs[i] <= w
        <4>1. CASE i = j + 1
          BY <3>3, <4>1
        <4>2. CASE i # j + 1
          <5>1. i \in 1..j /\ i \in 1..n
            BY <1>1, <4>2
          <5> QED
            BY <1>1, <3>1, <3>3, <5>1
        <4> QED
          BY <4>1, <4>2
      <3> QED
        BY <3>2, <3>3, <3>4
    <2>3. \A j \in 0..(n - 1) : j \in Bounded => j + 1 \in Bounded
      BY <2>2
    <2> HIDE DEF Bounded
    <2>4. \A j \in 0..n : j \in Bounded
      BY <1>1, <2>1, <2>3, Induction
    <2>5. n \in Bounded
      BY <1>1, <2>4
    <2>6. PICK v \in Nat : \A i \in 1..n : xs[i] <= v
      BY <2>5 DEF Bounded
    <2>7. Under(v) = 1..n
      BY <2>6
    <2>8. Cardinality(1..n) = n
      BY <1>1, FS_Interval
    <2>9. k <= Cardinality(Under(v))
      <3> HIDE DEF Under
      <3> QED
        BY <1>1, <2>7, <2>8
    <2> QED
      BY <2>9
  <1>4. PICK v \in C : \A u \in C : v <= u
    <2>1. C \in SUBSET Nat
      OBVIOUS
    <2> HIDE DEF C
    <2> QED
      BY <1>3, <2>1, Lowest
  <1>5. v \in Nat /\ k <= Cardinality(Under(v))
    BY <1>4
  <1> DEFINE Below == {i \in 1..n : xs[i] < v}
  <1>6. Cardinality(Below) < k
    <2>1. CASE v = 0
      <3>1. Below = {}
        BY <1>1, <2>1
      <3> HIDE DEF Below
      <3> QED
        BY <1>1, <3>1, FS_EmptySet
    <2>2. CASE v # 0
      <3> DEFINE u == v - 1
      <3>1. u \in Nat /\ ~(v <= u)
        BY <1>5, <2>2
      <3>2. ~(k <= Cardinality(Under(u)))
        BY <1>4, <3>1
      <3>3. Below = Under(u)
        <4>1. \A i \in 1..n : xs[i] < v <=> xs[i] <= u
          BY <1>1, <1>5
        <4> QED
          BY <4>1
      <3>4. Under(u) \in SUBSET (1..n)
        OBVIOUS
      <3> HIDE DEF Under, Below, u
      <3>5. Cardinality(Under(u)) \in Nat
        BY <1>2, <3>4
      <3> QED
        BY <1>1, <3>2, <3>3, <3>5
    <2> QED
      BY <2>1, <2>2
  <1>7. \E i \in 1..n : xs[i] = v
    <2> SUFFICES ASSUME \A i \in 1..n : xs[i] # v PROVE FALSE
      OBVIOUS
    <2>1. Below = Under(v)
      <3>1. \A i \in 1..n : xs[i] < v <=> xs[i] <= v
        BY <1>1, <1>5
      <3> QED
        BY <3>1
    <2>2. Below \in SUBSET (1..n)
      OBVIOUS
    <2> HIDE DEF Below, Under
    <2>3. Cardinality(Below) \in Nat
      BY <1>2, <2>2
    <2> QED
      BY <1>1, <1>5, <1>6, <2>1, <2>3
  <1> DEFINE Values == {xs[i] : i \in DOMAIN xs}
             Kth(w) == /\ Cardinality({i \in DOMAIN xs : xs[i] < w}) < k
                       /\ k <= Cardinality({i \in DOMAIN xs : xs[i] <= w})
  <1>8. v \in Values /\ Kth(v)
    BY <1>1, <1>5, <1>6, <1>7
  <1>9. Ranked(xs, k) = CHOOSE w \in Values : Kth(w)
    BY DEF Ranked
  <1> HIDE DEF Values, Kth
  <1>10. Ranked(xs, k) \in Values /\ Kth(Ranked(xs, k))
    BY <1>8, <1>9
  <1> QED
    BY <1>1, <1>10 DEF Values, Kth, n

\* The k-th smallest of natural numbers is one,
LEMMA RankedIs ==
    ASSUME NEW xs \in Seq(Nat), NEW k \in 1..Len(xs)
    PROVE  Ranked(xs, k) \in Nat
  <1>1. PICK i \in 1..Len(xs) : Ranked(xs, k) = xs[i]
    BY RankedHas
  <1> QED
    BY <1>1

\* a median,
LEMMA MedianIs ==
    ASSUME NEW xs \in Seq(Nat), Len(xs) > 0
    PROVE  Median2(xs) \in Nat
  <1> DEFINE n == Len(xs)
  <1>1. n \in Nat /\ n > 0
    OBVIOUS
  <1>2. CASE n % 2 = 1
    <2> DEFINE k == (n + 1) \div 2
    <2>1. k \in 1..Len(xs)
      BY <1>1, <1>2
    <2>2. Median2(xs) = 2 * Ranked(xs, k)
      BY <1>2 DEF Median2
    <2> HIDE DEF k
    <2>3. Ranked(xs, k) \in Nat
      BY <2>1, RankedIs
    <2> QED
      BY <2>2, <2>3
  <1>3. CASE n % 2 # 1
    <2> DEFINE k == n \div 2
               l == n \div 2 + 1
    <2>1. k \in 1..Len(xs) /\ l \in 1..Len(xs)
      BY <1>1, <1>3
    <2>2. Median2(xs) = Ranked(xs, k) + Ranked(xs, l)
      BY <1>3 DEF Median2
    <2> HIDE DEF k, l
    <2>3. Ranked(xs, k) \in Nat /\ Ranked(xs, l) \in Nat
      BY <2>1, RankedIs
    <2> QED
      BY <2>2, <2>3
  <1> QED
    BY <1>2, <1>3

\* and a median of the distances from it.
LEMMA DeviationIs ==
    ASSUME NEW xs \in Seq(Nat), Len(xs) > 0
    PROVE  MAD4(xs) \in Nat
  <1> DEFINE m == Median2(xs)
             ys == [i \in DOMAIN xs |-> Distance2(xs[i], m)]
  <1>1. m \in Nat
    BY MedianIs
  <1> HIDE DEF m
  <1>2. \A i \in DOMAIN xs : Distance2(xs[i], m) \in Nat
    BY <1>1 DEF Distance2
  <1>3. ys \in Seq(Nat) /\ Len(ys) = Len(xs)
    BY <1>2
  <1>4. MAD4(xs) = Median2(ys)
    BY DEF MAD4, m
  <1> HIDE DEF ys
  <1> QED
    BY <1>3, <1>4, MedianIs

\* What is far above a baseline stays so when it grows.
LEMMA OutlierGrows ==
    ASSUME NEW b \in Buckets, NEW c \in Buckets, NoMore(b, c), NEW base \in Seq(Buckets),
           NEW m \in Growing, m \in Outlying(b, base), 2 * b[m] > Median2(Sample(base, m))
    PROVE  m \in Outlying(c, base)
  <1> DEFINE xs == Sample(base, m)
             M == Median2(xs)
             D == MAD4(xs)
  <1>1. \A r \in Buckets : r[m] \in Nat
    BY DEF Buckets, Growing
  <1>2. b[m] \in Nat /\ c[m] \in Nat /\ b[m] <= c[m]
    BY <1>1 DEF NoMore, Growing
  <1>3. xs \in Seq(Nat)
    BY <1>1 DEF Sample
  <1>4. /\ m \in {metricNames[i] : i \in DOMAIN metricNames}
        /\ Len(xs) > 0
        /\ Size(ModifiedZ(b[m], xs)) >= ZThreshold * ModifiedZ(b[m], xs).den
        /\ absFloorOK(m, b[m], M)
    BY DEF Outlying
  <1>5. M \in Nat /\ D \in Nat /\ 2 * b[m] > M
    BY <1>3, <1>4, MedianIs, DeviationIs
  <1>6. absFloorOK(m, c[m], M)
    BY <1>2, <1>4, <1>5, ScoringAssumption DEF absFloorOK
  <1>7. Size(ModifiedZ(c[m], xs)) >= ZThreshold * ModifiedZ(c[m], xs).den
    <2> DEFINE v == b[m]
               w == c[m]
               e == ZThreshold * (10000 * D)
    <2>1. v \in Nat /\ w \in Nat /\ v <= w /\ 2 * v > M /\ ZThreshold \in Nat /\ ZThreshold > 0 /\ e \in Nat
      BY <1>2, <1>5, ScoringAssumption
    <2>2. CASE D > 0
      <3>1. /\ ModifiedZ(v, xs) = [num |-> 13490 * (2 * v - M), den |-> 10000 * D]
            /\ ModifiedZ(w, xs) = [num |-> 13490 * (2 * w - M), den |-> 10000 * D]
        BY <2>2 DEF ModifiedZ
      <3>2. Size(ModifiedZ(v, xs)) = 13490 * (2 * v - M) /\ Size(ModifiedZ(w, xs)) = 13490 * (2 * w - M)
        <4> DEFINE a == 13490 * (2 * v - M)
                   d == 13490 * (2 * w - M)
        <4>1. a \in Int /\ a >= 0 /\ d \in Int /\ d >= 0
          <5> HIDE DEF v, w, M
          <5> QED
            BY <1>5, <2>1
        <4>2. ModifiedZ(v, xs).num = a /\ ModifiedZ(w, xs).num = d
          BY <3>1
        <4> HIDE DEF a, d
        <4>3. Size(ModifiedZ(v, xs)) = a /\ Size(ModifiedZ(w, xs)) = d
          BY <4>1, <4>2 DEF Size
        <4> QED
          BY <4>3 DEF a, d
      <3>3. ZThreshold * ModifiedZ(v, xs).den = e /\ ZThreshold * ModifiedZ(w, xs).den = e
        BY <3>1
      <3>4. 13490 * (2 * v - M) >= e
        BY <1>4, <3>2, <3>3
      <3> HIDE DEF e
      <3>5. 13490 * (2 * w - M) >= e
        BY <1>5, <2>1, <3>4
      <3> QED
        BY <3>2, <3>3, <3>5
    <2>3. CASE ~(D > 0)
      <3>1. ModifiedZ(v, xs) = [num |-> 0, den |-> 1]
        BY <2>3 DEF ModifiedZ
      <3> QED
        BY <1>4, <2>1, <3>1 DEF Size
    <2> QED
      BY <2>2, <2>3
  <1> QED
    BY <1>4, <1>6, <1>7 DEF Outlying

\* The live loop and Replay judge the newest row by the same rows before it.
LEMMA SameBaseline ==
    ASSUME NEW table \in Seq(Buckets), Len(table) > 0
    PROVE  /\ Last(Newest(table)) = table[Len(table)]
           /\ Front(Newest(table)) = Baseline(table, Len(table))
           /\ Baseline(table, Len(table)) \in Seq(Buckets)
  <1> DEFINE n == Len(table)
             B == BaselineBuckets
             s == IF n > B THEN n - B ELSE 1
             t == IF n - 1 > B THEN n - B ELSE 1
  <1>1. n \in Nat /\ n > 0 /\ B \in Nat /\ B > 0
    BY ScoringAssumption
  <1>2. s = t /\ s \in 1..n
    BY <1>1
  <1>3. Newest(table) = SubSeq(table, s, n) /\ Baseline(table, n) = SubSeq(table, s, n - 1)
    BY <1>2 DEF Newest, Baseline
  <1> HIDE DEF s, t, B
  <1> DEFINE new == SubSeq(table, s, n)
             old == SubSeq(table, s, n - 1)
  <1>4. /\ new \in Seq(Buckets) /\ Len(new) = n - s + 1 /\ \A i \in 1..(n - s + 1) : new[i] = table[s + i - 1]
        /\ old \in Seq(Buckets) /\ Len(old) = n - s /\ \A i \in 1..(n - s) : old[i] = table[s + i - 1]
    BY <1>1, <1>2
  <1> HIDE DEF new, old
  <1>5. Last(new) = table[n]
    <2>1. n - s + 1 \in 1..(n - s + 1) /\ s + (n - s + 1) - 1 = n
      BY <1>1, <1>2
    <2> QED
      BY <1>4, <2>1 DEF Last
  <1>6. Front(new) = old
    <2>1. Front(new) = [i \in 1..(n - s) |-> table[s + i - 1]]
      <3>1. Front(new) = SubSeq(new, 1, n - s)
        BY <1>1, <1>2, <1>4 DEF Front
      <3>2. SubSeq(new, 1, n - s) = [i \in 1..(n - s) |-> new[i]]
        BY <1>1, <1>2, <1>4
      <3>3. \A i \in 1..(n - s) : new[i] = table[s + i - 1]
        BY <1>1, <1>2, <1>4
      <3> QED
        BY <3>1, <3>2, <3>3
    <2>2. old = [i \in 1..(n - s) |-> table[s + i - 1]]
      BY <1>1, <1>2, <1>4
    <2> QED
      BY <2>1, <2>2
  <1> QED
    BY <1>3, <1>4, <1>5, <1>6 DEF new, old

\* And that does not depend on the newest row.
LEMMA BaselineKept ==
    ASSUME NEW table \in Seq(Buckets), NEW b \in Buckets, NEW c \in Buckets
    PROVE  Baseline(Append(table, b), Len(table) + 1) = Baseline(Append(table, c), Len(table) + 1)
  <1> DEFINE n == Len(table)
             s == IF n > BaselineBuckets THEN n + 1 - BaselineBuckets ELSE 1
  <1>1. n \in Nat /\ BaselineBuckets \in Nat /\ BaselineBuckets > 0
    BY ScoringAssumption
  <1>2. s \in 1..(n + 1) /\ (n + 1) - 1 = n
    BY <1>1
  <1>3. \A d \in Buckets : Baseline(Append(table, d), n + 1) = SubSeq(Append(table, d), s, n)
    BY <1>1, <1>2 DEF Baseline
  <1> HIDE DEF s
  <1>4. ASSUME NEW d \in Buckets
        PROVE  SubSeq(Append(table, d), s, n) = [i \in 1..(n - s + 1) |-> table[s + i - 1]]
    <2> DEFINE q == Append(table, d)
    <2>1. q \in Seq(Buckets) /\ Len(q) = n + 1 /\ \A i \in 1..n : q[i] = table[i]
      OBVIOUS
    <2> HIDE DEF q
    <2>2. SubSeq(q, s, n) = [i \in 1..(n - s + 1) |-> q[s + i - 1]]
      BY <1>1, <1>2, <2>1
    <2>3. \A i \in 1..(n - s + 1) : s + i - 1 \in 1..n
      BY <1>1, <1>2
    <2>4. \A i \in 1..(n - s + 1) : q[s + i - 1] = table[s + i - 1]
      BY <2>1, <2>3
    <2> QED
      BY <2>2, <2>4 DEF q
  <1> QED
    BY <1>3, <1>4

\* The last bucket of a history is picked by what was picked before it.
LEMMA ReplayIs ==
    ASSUME NEW table \in Seq(Buckets), Len(table) > 0
    PROVE  \E fired \in SUBSET (1..(Len(table) - 1)) :
               selectReplay(table) = IF Fires(table, fired, Len(table)) THEN fired \union {Len(table)} ELSE fired
  <1> DEFINE n == Len(table)
             A == SUBSET (1..n)
             s == [i \in DOMAIN table |-> i]
             op(fired, i) == IF Fires(table, fired, i) THEN fired \union {i} ELSE fired
             step == [i \in 1..n |-> [fired \in A |-> op(fired, i)]]
             none == {}
  <1>1. n \in Nat /\ s \in [1..n -> 1..n] /\ DOMAIN s = 1..n
    OBVIOUS
  <1>0. n > 0 /\ \A i \in 1..n : s[i] = i
    OBVIOUS
  <1>2. step \in [1..n -> [A -> A]] /\ \A i \in 1..n, fired \in A : step[i][fired] = op(fired, i)
    <2>1. ASSUME NEW i \in 1..n, NEW fired \in A PROVE op(fired, i) \in A
      OBVIOUS
    <2> HIDE DEF op, A, n
    <2> QED
      BY <2>1
  <1>3. none \in A
    OBVIOUS
  <1> HIDE DEF n, s, A, step, none
  <1>4. \E g : g = [t \in SUBSET DOMAIN s |-> IF t = {} THEN none ELSE op(g[t \ {Max(t)}], s[Max(t)])]
    <2> HIDE DEF op
    <2>1. PICK g \in [SUBSET (1..n) -> A] : Solves(g, n, none, step, s)
      BY <1>1, <1>2, <1>3, FoldExists, Zenon
    <2>2. ASSUME NEW t \in SUBSET (1..n), t # {} PROVE s[Max(t)] \in 1..n /\ g[t \ {Max(t)}] \in A
      <3>1. Max(t) \in 1..n
        BY <1>1, <2>2, HighestOf
      <3> QED
        BY <1>1, <3>1
    <2>3. g = [t \in SUBSET DOMAIN s |-> IF t = {} THEN none ELSE op(g[t \ {Max(t)}], s[Max(t)])]
      BY <1>1, <1>2, <2>1, <2>2 DEF Solves
    <2> QED
      BY <2>3
  <1> DEFINE h == CHOOSE h : h = [t \in SUBSET DOMAIN s |-> IF t = {} THEN none ELSE op(h[t \ {Max(t)}], s[Max(t)])]
  <1>5. h = [t \in SUBSET DOMAIN s |-> IF t = {} THEN none ELSE op(h[t \ {Max(t)}], s[Max(t)])]
    <2> HIDE DEF op
    <2> QED
      BY <1>4
  <1>6. selectReplay(table) = h[DOMAIN s]
    BY DEF selectReplay, FoldLeft, MapThenFoldSet, none, s
  <1> HIDE DEF h
  <1> DEFINE g == [k \in 0..n |-> h[1..k]]
  <1>7. g[0] = {}
    <2> HIDE DEF op
    <2>1. {} \in SUBSET (1..n) /\ 1..0 = {} /\ 0 \in 0..n
      BY <1>1
    <2> QED
      BY <1>1, <1>5, <2>1 DEF none
  <1>8. ASSUME NEW k \in 1..n PROVE g[k] = op(g[k - 1], k)
    <2> HIDE DEF op
    <2>1. k \in Nat /\ k # 0 /\ k \in 0..n /\ k - 1 \in 0..n /\ 1..k \in SUBSET (1..n)
      BY <1>1
    <2>2. Max(1..k) = k /\ (1..k) \ {k} = 1..(k - 1) /\ 1..k # {}
      BY <2>1, PrefixIs
    <2>3. h[1..k] = op(h[1..(k - 1)], s[k])
      BY <1>1, <1>5, <2>1, <2>2
    <2> QED
      BY <1>0, <2>1, <2>3
  <1>9. g[n] = selectReplay(table)
    BY <1>1, <1>6
  <1> HIDE DEF g
  <1> DEFINE Early == {k \in 0..n : g[k] \in SUBSET (1..k)}
  <1>10. \A k \in 0..n : k \in Early
    <2>1. 0 \in Early
      BY <1>1, <1>7
    <2>2. ASSUME NEW k \in 0..(n - 1), k \in Early PROVE k + 1 \in Early
      <3>1. k + 1 \in 1..n /\ (k + 1) - 1 = k /\ k + 1 \in 0..n /\ 1..k \subseteq 1..(k + 1) /\ k + 1 \in 1..(k + 1)
        BY <1>1
      <3>2. g[k + 1] = op(g[k], k + 1)
        BY <1>8, <3>1
      <3>3. g[k] \in SUBSET (1..k)
        BY <2>2
      <3>4. op(g[k], k + 1) \in SUBSET (1..(k + 1))
        BY <3>1, <3>3
      <3> QED
        BY <3>1, <3>2, <3>4
    <2>3. \A k \in 0..(n - 1) : k \in Early => k + 1 \in Early
      BY <2>2
    <2> HIDE DEF Early
    <2> QED
      BY <1>1, <2>1, <2>3, Induction
  <1>11. n \in 1..n /\ n - 1 \in 0..n
    BY <1>0, <1>1
  <1>12. g[n - 1] \in SUBSET (1..(n - 1)) /\ g[n] = op(g[n - 1], n)
    BY <1>8, <1>10, <1>11
  <1> QED
    BY <1>9, <1>12 DEF n

\* The order of buckets, with two buckets in between.
LEMMA NoMoreBetween ==
    ASSUME NEW a \in Buckets, NEW d \in Buckets, NEW b \in Tallies, NEW c \in Tallies,
           NoMore(a, b), NoMore(b, c), NoMore(c, d)
    PROVE  NoMore(a, d)
  <1>1. \A r \in Buckets : r.swap_count \in Nat /\ r.vol0 \in Nat /\ r.vol1 \in Nat
    BY DEF Buckets
  <1>2. \A r \in Tallies : r.swap_count \in Nat /\ r.vol0 \in Nat /\ r.vol1 \in Nat
    BY DEF Tallies
  <1> QED
    BY <1>1, <1>2 DEF NoMore

\* A bucket has no more than itself.
LEMMA NoMoreSelf ==
    ASSUME NEW a \in Buckets
    PROVE  NoMore(a, a)
  <1>1. a.swap_count \in Nat /\ a.vol0 \in Nat /\ a.vol1 \in Nat
    BY DEF Buckets
  <1> QED
    BY <1>1 DEF NoMore

\* A baseline window that is as long as the warmup is full once the warmup is over.
LEMMA BaselineIsLong ==
    ASSUME NEW full \in Seq(Buckets), NEW n \in 1..Len(full), n > Warmup, BaselineBuckets >= Warmup
    PROVE  Len(Baseline(full, n)) >= Warmup
  <1> DEFINE s == IF n - 1 > BaselineBuckets THEN n - BaselineBuckets ELSE 1
  <1>1. n \in Nat /\ Warmup \in Nat /\ BaselineBuckets \in Nat /\ Warmup > 0
    BY ScoringAssumption
  <1>2. s \in Nat /\ n - 1 \in Nat /\ s <= n - 1 /\ n - s >= Warmup
    BY <1>1
  <1>3. Baseline(full, n) = SubSeq(full, s, n - 1)
    BY DEF Baseline
  <1> HIDE DEF s
  <1>4. Baseline(full, n) = [i \in 1..((n - 1) - s + 1) |-> full[s + i - 1]]
    BY <1>2, <1>3
  <1>5. (n - 1) - s + 1 \in Nat /\ (n - 1) - s + 1 = n - s
    BY <1>1, <1>2
  <1>6. Len(Baseline(full, n)) = n - s
    BY <1>4, <1>5
  <1> QED
    BY <1>2, <1>6

\* What the live loop raises on a bucket, Replay finds in it when it has grown.
LEMMA PickedToo ==
    ASSUME NEW early \in Seq(Buckets), NEW full \in Seq(Buckets), NEW n, n = Len(full), Len(early) = n,
           n > Warmup, BaselineBuckets >= Warmup,
           Baseline(early, n) = Baseline(full, n), NoMore(early[n], full[n]), Upward(early)
    PROVE  n \in selectReplay(full) \/ Cooling(full, selectReplay(full) \ {n}, n)
  <1>1. n \in Nat /\ n > 0 /\ early[n] \in Buckets /\ full[n] \in Buckets
    BY ScoringAssumption
  <1>2. /\ Last(Newest(early)) = early[n]
        /\ Front(Newest(early)) = Baseline(full, n)
        /\ Baseline(full, n) \in Seq(Buckets)
        /\ Last(early) = early[n]
    BY <1>1, SameBaseline DEF Last
  <1>3. PICK m \in Live(early) \intersect Growing :
            Last(early)[m] * 2 > Median2(Sample(Front(Newest(early)), m))
    BY DEF Upward
  <1>4. m \in Outlying(early[n], Baseline(full, n)) /\ m \in Growing
    BY <1>2, <1>3 DEF Live
  <1>5. early[n][m] \in Nat
    BY <1>1, <1>4 DEF Buckets, Growing
  <1>6. 2 * early[n][m] > Median2(Sample(Baseline(full, n), m))
    <2>1. early[n][m] * 2 > Median2(Sample(Baseline(full, n), m))
      BY <1>2, <1>3
    <2>2. early[n][m] * 2 = 2 * early[n][m]
      BY <1>5
    <2> QED
      BY <2>1, <2>2
  <1>7. m \in Outlying(full[n], Baseline(full, n))
    BY <1>1, <1>2, <1>4, <1>6, OutlierGrows
  <1>8. scoreBucket(full[n], Baseline(full, n))
    BY <1>7 DEF scoreBucket
  <1>9. PICK fired \in SUBSET (1..(n - 1)) :
            selectReplay(full) = IF Fires(full, fired, n) THEN fired \union {n} ELSE fired
    BY <1>1, ReplayIs
  <1>10. n \notin fired
    BY <1>1, <1>9
  <1>13. Warm(full, n)
    BY <1>1, BaselineIsLong DEF Warm
  <1>11. CASE Fires(full, fired, n)
    BY <1>9, <1>11
  <1>12. CASE ~Fires(full, fired, n)
    <2>1. Cooling(full, fired, n)
      BY <1>8, <1>12, <1>13 DEF Fires
    <2>2. selectReplay(full) \ {n} = fired
      BY <1>9, <1>10, <1>12
    <2> QED
      BY <2>1, <2>2
  <1> QED
    BY <1>11, <1>12

\* The live loop's alarms on the newest window are no false starts.
LEMMA LiveIsReplayed ==
    ASSUME FlowInv, BaselineBuckets >= Warmup, windows # <<>>, NEW k \in 1..Len(Last(windows).swaps),
           Len(History(Partial(k))) = Len(History(windows)), Len(History(Partial(k))) > Warmup,
           Upward(History(Partial(k)))
    PROVE  Len(History(windows)) \in selectReplay(History(windows))
           \/ Cooling(History(windows), selectReplay(History(windows)) \ {Len(History(windows))},
                      Len(History(windows)))
  <1> DEFINE N == Len(windows)
             w == windows[N]
             part == SubSeq(w.swaps, 1, k)
             p == [w EXCEPT !.swaps = part]
  <1>1. topic \in SwapTopics /\ windows \in Seq(Windows) /\ N \in 1..Len(windows) /\ N > 0 /\ Last(windows) = w
    BY DEF FlowInv, Last
  <1>2. w \in Windows /\ w.swaps \in Seq(Logged) /\ k \in 1..Len(w.swaps)
    <2>1. w \in Windows
      BY <1>1
    <2>2. w.swaps \in Seq(Logged)
      BY <2>1 DEF Windows
    <2> HIDE DEF w
    <2> QED
      BY <1>1, <2>1, <2>2
  <1>3. part \in Seq(Logged) /\ NoMore(bucketize(RawLogs(part)), bucketize(RawLogs(w.swaps)))
    BY <1>1, <1>2, PartialIs
  <1>4. Partial(k) = [windows EXCEPT ![N] = p]
    BY DEF Partial
  <1> HIDE DEF part
  <1>5. p \in Windows /\ p.swaps = part
    BY <1>2, <1>3 DEF Windows
  <1> HIDE DEF w, p, N
  <1>6. /\ Partial(k) \in Seq(Windows) /\ Len(Partial(k)) = Len(windows)
        /\ Partial(k)[N] = p /\ windows[N] = w
        /\ \A j \in 1..(N - 1) : windows[j] = Partial(k)[j]
    BY <1>1, <1>4, <1>5 DEF w, N
  <1>7. PICK table \in Seq(Buckets) : History(windows) = Grown(table, w) /\ History(Partial(k)) = Grown(table, p)
    BY <1>1, <1>6, HistoriesAgree DEF N
  <1> DEFINE b == BucketAt(p)
             c == BucketAt(w)
             full == History(windows)
             early == History(Partial(k))
             n == Len(full)
  <1>8. b \in Buckets /\ c \in Buckets /\ NoMore(b, c)
    <2>1. /\ b \in Buckets /\ NoMore(b, bucketize(RawLogs(part)))
          /\ c \in Buckets /\ NoMore(bucketize(RawLogs(w.swaps)), c)
      BY <1>1, <1>2, <1>5, BucketAtIs
    <2>2. bucketize(RawLogs(part)) \in Tallies /\ bucketize(RawLogs(w.swaps)) \in Tallies
      BY <1>1, <1>2, <1>3, BucketSums
    <2> DEFINE t == bucketize(RawLogs(part))
               u == bucketize(RawLogs(w.swaps))
    <2> HIDE DEF b, c, t, u
    <2>3. NoMore(b, t) /\ NoMore(t, u) /\ NoMore(u, c) /\ t \in Tallies /\ u \in Tallies
      BY <1>3, <2>1, <2>2 DEF t, u
    <2>4. NoMore(b, c)
      BY <2>1, <2>3, NoMoreBetween
    <2> QED
      BY <2>1, <2>4
  <1>9. early \in Seq(Buckets) /\ full \in Seq(Buckets) /\ n \in Nat /\ n > Warmup
    BY <1>1, <1>2, <1>5, <1>7, GrownIs
  <1>10. full = (IF c.swap_count > 0 THEN Append(table, c) ELSE table)
         /\ early = (IF b.swap_count > 0 THEN Append(table, b) ELSE table)
    BY <1>7 DEF Grown
  <1>11. Len(early) = n /\ Upward(early)
    OBVIOUS
  <1> HIDE DEF b, c, full, early, n
  <1>12. Baseline(early, n) = Baseline(full, n) /\ NoMore(early[n], full[n])
    <2>1. CASE b.swap_count > 0
      <3>1. c.swap_count > 0
        BY <1>8, <2>1 DEF NoMore, Buckets
      <3>2. full = Append(table, c) /\ early = Append(table, b)
        BY <1>10, <2>1, <3>1
      <3>3. n = Len(table) + 1 /\ full[n] = c /\ early[n] = b
        BY <1>8, <3>2 DEF n
      <3> QED
        BY <1>8, <3>2, <3>3, BaselineKept
    <2>2. CASE ~(b.swap_count > 0)
      <3>1. early = table
        BY <1>10, <2>2
      <3>2. full = table
        BY <1>8, <1>10, <1>11, <3>1 DEF n
      <3>3. n \in 1..Len(table)
        BY <1>9, <1>11, <3>1, ScoringAssumption
      <3>4. table[n] \in Buckets
        BY <3>3
      <3>5. NoMore(table[n], table[n])
        BY <3>4, NoMoreSelf
      <3> QED
        BY <3>1, <3>2, <3>5
    <2> QED
      BY <2>1, <2>2
  <1>13. n = Len(full)
    BY DEF n
  <1>14. n \in selectReplay(full) \/ Cooling(full, selectReplay(full) \ {n}, n)
    BY <1>9, <1>11, <1>12, <1>13, PickedToo
  <1> QED
    BY <1>14 DEF n, full

\* An alarm that the live loop raises while a bucket fills, on a metric that is above the
\* baseline, is one of Replay's on the whole history, or in the cooldown of one, when the
\* baseline window is as long as the warmup (detector.go, ScanOnce and Replay).  The
\* configuration allows a shorter one (config.go:331), with which Replay never fires.
THEOREM ReplayDoesAgree ==
    ASSUME BaselineBuckets >= Warmup
    PROVE  FlowSpec => []ReplayAgrees
  <1>1. FlowInv => ReplayAgrees
    BY LiveIsReplayed DEF ReplayAgrees
  <1> QED
    BY <1>1, FlowInductive, PTL

-----------------------------------------------------------------------------
(* Folds over sets.                                                        *)

\* The recursion over the subsets of a set that a fold over the set stands for: the
\* elements are taken in the order in which CHOOSE gives them.
Picked(t) == CHOOSE x \in t : TRUE

FoldsTo(h, S, base, op, f) ==
    \A t \in SUBSET S : h[t] = IF t = {} THEN base ELSE op[f[Picked(t)]][h[t \ {Picked(t)}]]

\* That recursion has a solution for every finite set.
LEMMA SetFoldExists ==
    ASSUME NEW S, IsFiniteSet(S), NEW f \in [S -> Int], NEW op \in [Int -> [Int -> Int]], NEW base \in Int
    PROVE  \E h \in [SUBSET S -> Int] : FoldsTo(h, S, base, op, f)
  <1> DEFINE n == Cardinality(S)
             D == SUBSET S
             Eq(h, t) == h[t] = IF t = {} THEN base ELSE op[f[Picked(t)]][h[t \ {Picked(t)}]]
             Low(k) == {t \in D : Cardinality(t) <= k}
             Good == {k \in 0..n : \E h \in [D -> Int] : \A t \in Low(k) : Eq(h, t)}
  <1>1. ASSUME NEW t \in D
        PROVE  /\ IsFiniteSet(t) /\ Cardinality(t) \in Nat /\ Cardinality(t) <= n
               /\ (Cardinality(t) = 0 <=> t = {})
               /\ t # {} => /\ Picked(t) \in t
                            /\ t \ {Picked(t)} \in D
                            /\ Cardinality(t \ {Picked(t)}) = Cardinality(t) - 1
    <2>1. IsFiniteSet(t) /\ Cardinality(t) <= n
      BY FS_Subset
    <2>2. Cardinality(t) \in Nat
      BY <2>1, FS_CardinalityType
    <2>3. Cardinality(t) = 0 <=> t = {}
      BY <2>1, FS_EmptySet
    <2>4. t # {} => Picked(t) \in t
      BY DEF Picked
    <2>5. \A x \in t : Cardinality(t \ {x}) = Cardinality(t) - 1
      BY <2>1, FS_RemoveElement
    <2> QED
      BY <2>1, <2>2, <2>3, <2>4, <2>5
  <1>2. n \in Nat /\ S \in D
    BY FS_CardinalityType
  <1>3. 0 \in Good
    <2> DEFINE h == [t \in D |-> base]
    <2>1. ASSUME NEW t \in Low(0) PROVE t = {}
      <3>1. t \in D /\ Cardinality(t) <= 0
        OBVIOUS
      <3>2. Cardinality(t) \in Nat /\ (Cardinality(t) = 0 <=> t = {})
        BY <1>1, <3>1
      <3> HIDE DEF D, Low
      <3> QED
        BY <3>1, <3>2
    <2>2. h \in [D -> Int] /\ \A t \in D : h[t] = base
      OBVIOUS
    <2>3. \A t \in Low(0) : Eq(h, t)
      BY <2>1, <2>2
    <2>4. 0 \in 0..n
      BY <1>2
    <2> HIDE DEF h, Eq, D, Low, n
    <2> QED
      BY <2>2, <2>3, <2>4
  <1>4. ASSUME NEW k \in 0..(n - 1), k \in Good PROVE k + 1 \in Good
    <2>1. PICK h \in [D -> Int] : \A t \in Low(k) : Eq(h, t)
      BY <1>4
    <2> DEFINE g == [t \in D |-> IF t = {} THEN base ELSE op[f[Picked(t)]][h[t \ {Picked(t)}]]]
    <2>2. g \in [D -> Int]
      <3> SUFFICES ASSUME NEW t \in D, t # {}
                   PROVE  op[f[Picked(t)]][h[t \ {Picked(t)}]] \in Int
        OBVIOUS
      <3>1. Picked(t) \in S /\ t \ {Picked(t)} \in D
        BY <1>1
      <3> DEFINE x == f[Picked(t)]
                 y == h[t \ {Picked(t)}]
      <3>2. x \in Int /\ y \in Int
        BY <3>1
      <3> HIDE DEF x, y
      <3>3. op[x][y] \in Int
        BY <3>2
      <3> QED
        BY <3>3 DEF x, y
    <2>3. \A t \in Low(k) : g[t] = h[t]
      BY <2>1
    <2>4. ASSUME NEW t \in Low(k + 1), t # {} PROVE t \ {Picked(t)} \in Low(k)
      <3>1. t \in D /\ Cardinality(t) <= k + 1
        OBVIOUS
      <3>2. /\ Cardinality(t) \in Nat /\ t \ {Picked(t)} \in D
            /\ Cardinality(t \ {Picked(t)}) = Cardinality(t) - 1
        BY <1>1, <2>4, <3>1
      <3>3. Cardinality(t \ {Picked(t)}) <= k
        <4> HIDE DEF D, Low, Good, Eq
        <4> QED
          BY <3>1, <3>2
      <3> QED
        BY <3>2, <3>3
    <2>5. ASSUME NEW t \in Low(k + 1) PROVE Eq(g, t)
      BY <2>3, <2>4
    <2>6. k + 1 \in 0..n
      BY <1>2
    <2> HIDE DEF g, Eq, D, Low
    <2> QED
      BY <2>2, <2>5, <2>6
  <1>5. n \in Good
    <2>1. \A k \in 0..(n - 1) : k \in Good => k + 1 \in Good
      BY <1>4
    <2> HIDE DEF Good
    <2>2. \A k \in 0..n : k \in Good
      BY <1>2, <1>3, <2>1, Induction
    <2> HIDE DEF n
    <2> QED
      BY <1>2, <2>2
  <1>6. PICK h \in [D -> Int] : \A t \in Low(n) : Eq(h, t)
    BY <1>5
  <1>7. \A t \in D : t \in Low(n)
    BY <1>1
  <1>8. \A t \in D : Eq(h, t)
    <2> HIDE DEF Low, Eq, D
    <2> QED
      BY <1>6, <1>7
  <1> QED
    BY <1>6, <1>8 DEF FoldsTo

\* h is the fold of f over the set by op, whichever element is taken first.
FoldOf(h, S, base, op, f) ==
    /\ FoldsTo(h, S, base, op, f)
    /\ \A t \in SUBSET S : \A x \in t : h[t] = op[f[x]][h[t \ {x}]]

\* An operation that does not mind the order.
MindsNoOrder(op) == \A x \in Int, y \in Int, z \in Int : op[x][op[y][z]] = op[y][op[x][z]]

\* With an operation that does not mind the order, any element may be taken first.
LEMMA AnyFirst ==
    ASSUME NEW S, IsFiniteSet(S), NEW f \in [S -> Int], NEW op \in [Int -> [Int -> Int]], NEW base \in Int,
           MindsNoOrder(op), NEW h \in [SUBSET S -> Int], FoldsTo(h, S, base, op, f)
    PROVE  FoldOf(h, S, base, op, f)
  <1> DEFINE n == Cardinality(S)
             D == SUBSET S
             Leads(t, x) == h[t] = op[f[x]][h[t \ {x}]]
             Good == {k \in 0..n : \A t \in D : Cardinality(t) = k => \A x \in t : Leads(t, x)}
  <1>1. ASSUME NEW t \in D
        PROVE  /\ Cardinality(t) \in 0..n
               /\ (Cardinality(t) = 0 <=> t = {})
               /\ t # {} => Picked(t) \in t
               /\ \A x \in t : t \ {x} \in D /\ Cardinality(t \ {x}) = Cardinality(t) - 1
    <2>1. IsFiniteSet(t) /\ Cardinality(t) <= n
      BY FS_Subset
    <2>2. Cardinality(t) \in Nat /\ n \in Nat
      BY <2>1, FS_CardinalityType
    <2>3. Cardinality(t) = 0 <=> t = {}
      BY <2>1, FS_EmptySet
    <2>4. t # {} => Picked(t) \in t
      BY DEF Picked
    <2>5. \A x \in t : Cardinality(t \ {x}) = Cardinality(t) - 1
      BY <2>1, FS_RemoveElement
    <2>6. \A x \in t : t \ {x} \in D
      OBVIOUS
    <2>7. Cardinality(t) \in 0..n
      BY <2>1, <2>2
    <2> QED
      BY <2>3, <2>4, <2>5, <2>6, <2>7
  <1>2. n \in Nat
    BY FS_CardinalityType
  <1>3. 0 \in Good
    <2>1. \A t \in D : Cardinality(t) = 0 => t = {}
      BY <1>1
    <2> HIDE DEF Leads, D, n
    <2> QED
      BY <1>2, <2>1
  <1>4. ASSUME NEW k \in 0..(n - 1), k \in Good PROVE k + 1 \in Good
    <2>1. ASSUME NEW t \in D, Cardinality(t) = k + 1, NEW x \in t PROVE Leads(t, x)
      <3> DEFINE y == Picked(t)
                 tx == t \ {x}
                 ty == t \ {y}
                 txy == t \ {x, y}
      <3>1. t # {} /\ y \in t /\ h[t] = op[f[y]][h[ty]]
        BY <1>1, <2>1 DEF FoldsTo
      <3>2. CASE x = y
        BY <3>1, <3>2
      <3>3. CASE x # y
        <4>1. x \in ty /\ y \in tx /\ txy = tx \ {y} /\ txy = ty \ {x}
          BY <3>1, <3>3
        <4>2. tx \in D /\ ty \in D /\ Cardinality(tx) = (k + 1) - 1 /\ Cardinality(ty) = (k + 1) - 1
          BY <1>1, <2>1, <3>1
        <4>3. Cardinality(tx) = k /\ Cardinality(ty) = k
          BY <4>2
        <4>4. txy \in D /\ f[x] \in Int /\ f[y] \in Int /\ h[txy] \in Int
          BY <3>1, <3>3
        <4> HIDE DEF tx, ty, txy, y, n, D
        <4>5. Leads(tx, y) /\ Leads(ty, x)
          BY <1>4, <4>1, <4>2, <4>3
        <4>6. h[tx] = op[f[y]][h[txy]] /\ h[ty] = op[f[x]][h[txy]]
          BY <4>1, <4>5
        <4> DEFINE v == f[x]
                   w == f[y]
                   z == h[txy]
        <4>8. v \in Int /\ w \in Int /\ z \in Int
          BY <4>4
        <4> HIDE DEF v, w, z
        <4>9. op[v][op[w][z]] = op[w][op[v][z]]
          BY <4>8 DEF MindsNoOrder
        <4>7. h[t] = op[f[x]][h[tx]]
          BY <3>1, <4>6, <4>9 DEF v, w, z
        <4> QED
          BY <4>7 DEF tx
      <3> QED
        BY <3>2, <3>3
    <2>2. k + 1 \in 0..n
      BY <1>2
    <2> HIDE DEF Leads, D, n
    <2> QED
      BY <2>1, <2>2
  <1>5. \A k \in 0..n : k \in Good
    <2>1. \A k \in 0..(n - 1) : k \in Good => k + 1 \in Good
      BY <1>4
    <2> HIDE DEF Good
    <2> QED
      BY <1>2, <1>3, <2>1, Induction
  <1>6. \A t \in D : Cardinality(t) \in Good
    BY <1>1, <1>5
  <1>7. \A t \in D : \A x \in t : Leads(t, x)
    <2> HIDE DEF Leads, D, n
    <2> QED
      BY <1>6
  <1> QED
    BY <1>7 DEF FoldOf

\* So a fold over three or four elements is the operation on them in any order.
LEMMA OfThree ==
    ASSUME NEW S, NEW a, NEW b, NEW c, S = {a, b, c}, a # b, a # c, b # c,
           NEW f, NEW op, NEW base, NEW h, FoldOf(h, S, base, op, f)
    PROVE  h[S] = op[f[a]][op[f[b]][op[f[c]][base]]]
  <1>1. h[{}] = base
    BY DEF FoldOf, FoldsTo
  <1>2. h[{c}] = op[f[c]][h[{}]]
    <2>1. {c} \in SUBSET S /\ c \in {c} /\ {c} \ {c} = {}
      OBVIOUS
    <2> QED
      BY <2>1 DEF FoldOf
  <1>3. h[{b, c}] = op[f[b]][h[{c}]]
    <2>1. {b, c} \in SUBSET S /\ b \in {b, c} /\ {b, c} \ {b} = {c}
      OBVIOUS
    <2> QED
      BY <2>1 DEF FoldOf
  <1>4. h[S] = op[f[a]][h[{b, c}]]
    <2>1. S \in SUBSET S /\ a \in S /\ S \ {a} = {b, c}
      OBVIOUS
    <2> QED
      BY <2>1 DEF FoldOf
  <1> QED
    BY <1>1, <1>2, <1>3, <1>4

AreFour(S, a, b, c, d) ==
    S = {a, b, c, d} /\ a # b /\ a # c /\ a # d /\ b # c /\ b # d /\ c # d

\* Two recursions that go the same way come to the same.
LEMMA SameFold ==
    ASSUME NEW S, IsFiniteSet(S), NEW g, NEW h, g[{}] = h[{}],
           \A t \in SUBSET S : t # {} /\ g[t \ {Picked(t)}] = h[t \ {Picked(t)}] => g[t] = h[t]
    PROVE  g[S] = h[S]
  <1> DEFINE n == Cardinality(S)
             D == SUBSET S
             Good == {k \in 0..n : \A t \in D : Cardinality(t) = k => g[t] = h[t]}
  <1>1. ASSUME NEW t \in D
        PROVE  /\ Cardinality(t) \in Nat
               /\ (Cardinality(t) = 0 <=> t = {})
               /\ t # {} => t \ {Picked(t)} \in D /\ Cardinality(t \ {Picked(t)}) = Cardinality(t) - 1
    <2>1. IsFiniteSet(t)
      BY FS_Subset
    <2>2. Cardinality(t) \in Nat
      BY <2>1, FS_CardinalityType
    <2>3. Cardinality(t) = 0 <=> t = {}
      BY <2>1, FS_EmptySet
    <2>4. t # {} => Picked(t) \in t
      BY DEF Picked
    <2>5. \A x \in t : Cardinality(t \ {x}) = Cardinality(t) - 1
      BY <2>1, FS_RemoveElement
    <2> QED
      BY <2>2, <2>3, <2>4, <2>5
  <1>2. n \in Nat /\ S \in D
    BY FS_CardinalityType
  <1>3. 0 \in Good
    <2>1. \A t \in D : Cardinality(t) = 0 => t = {}
      BY <1>1
    <2> HIDE DEF D, n
    <2> QED
      BY <1>2, <2>1
  <1>4. ASSUME NEW k \in 0..(n - 1), k \in Good PROVE k + 1 \in Good
    <2>1. ASSUME NEW t \in D, Cardinality(t) = k + 1 PROVE g[t] = h[t]
      <3>1. t # {}
        <4>1. k + 1 # 0
          BY <1>2
        <4> QED
          BY <1>1, <2>1, <4>1
      <3>2. t \ {Picked(t)} \in D /\ Cardinality(t \ {Picked(t)}) = (k + 1) - 1
        BY <1>1, <2>1, <3>1
      <3>3. (k + 1) - 1 = k
        BY <1>2
      <3>4. g[t \ {Picked(t)}] = h[t \ {Picked(t)}]
        <4> HIDE DEF D, n
        <4> QED
          BY <1>4, <3>2, <3>3
      <3> QED
        BY <3>1, <3>4
    <2>2. k + 1 \in 0..n
      BY <1>2
    <2> HIDE DEF D, n
    <2> QED
      BY <2>1, <2>2
  <1>5. n \in Good
    <2>1. \A k \in 0..(n - 1) : k \in Good => k + 1 \in Good
      BY <1>4
    <2>2. n \in 0..n
      BY <1>2
    <2> HIDE DEF Good
    <2>3. \A k \in 0..n : k \in Good
      BY <1>2, <1>3, <2>1, Induction
    <2> QED
      BY <2>2, <2>3
  <1> QED
    BY <1>2, <1>5

Plus == [x \in Int |-> [y \in Int |-> x + y]]
Times == [x \in Int |-> [y \in Int |-> x * y]]

\* A sum over a set is such a fold,
LEMMA FoldOfSum ==
    ASSUME NEW S, IsFiniteSet(S), NEW f \in [S -> Int]
    PROVE  \E h \in [SUBSET S -> Int] : FoldOf(h, S, 0, Plus, f)
  <1> DEFINE zero == 0
  <1>1. Plus \in [Int -> [Int -> Int]] /\ zero \in Int
    BY DEF Plus
  <1>2. MindsNoOrder(Plus)
    BY DEF Plus, MindsNoOrder
  <1> HIDE DEF zero
  <1>3. PICK h \in [SUBSET S -> Int] : FoldsTo(h, S, zero, Plus, f)
    BY <1>1, SetFoldExists
  <1>4. FoldOf(h, S, zero, Plus, f)
    BY <1>1, <1>2, <1>3, AnyFirst, Zenon
  <1> QED
    BY <1>4 DEF zero

\* and so is a product.
LEMMA FoldOfProduct ==
    ASSUME NEW S, IsFiniteSet(S), NEW f \in [S -> Int]
    PROVE  \E h \in [SUBSET S -> Int] : FoldOf(h, S, 1, Times, f)
  <1> DEFINE one == 1
  <1>1. Times \in [Int -> [Int -> Int]] /\ one \in Int
    BY DEF Times
  <1>2. MindsNoOrder(Times)
    <2> SUFFICES ASSUME NEW x \in Int, NEW y \in Int, NEW z \in Int
                 PROVE  Times[x][Times[y][z]] = Times[y][Times[x][z]]
      BY DEF MindsNoOrder
    <2>1. y * z \in Int /\ x * z \in Int
      OBVIOUS
    <2>2. Times[x][Times[y][z]] = x * (y * z) /\ Times[y][Times[x][z]] = y * (x * z)
      BY <2>1 DEF Times
    <2>3. x * (y * z) = y * (x * z)
      OBVIOUS
    <2> QED
      BY <2>2, <2>3
  <1> HIDE DEF one
  <1>3. PICK h \in [SUBSET S -> Int] : FoldsTo(h, S, one, Times, f)
    BY <1>1, SetFoldExists
  <1>4. FoldOf(h, S, one, Times, f)
    BY <1>1, <1>2, <1>3, AnyFirst, Zenon
  <1> QED
    BY <1>4 DEF one

\* The common denominator, the weights and the weighted scores are such folds.
LEMMA ProductIs ==
    ASSUME NEW S, IsFiniteSet(S), NEW f \in [S -> Int], \A s \in S : f[s] = s.score.den
    PROVE  \E h \in [SUBSET S -> Int] : FoldOf(h, S, 1, Times, f) /\ ProductOf(S) = h[S]
  <1>1. PICK g \in [SUBSET S -> Int] : FoldOf(g, S, 1, Times, f)
    BY FoldOfProduct
  <1>2. g = [t \in SUBSET S |-> IF t = {} THEN 1
                                ELSE LET x == CHOOSE x \in t : TRUE IN x.score.den * g[t \ {x}]]
    <2>1. ASSUME NEW t \in SUBSET S, t # {}
          PROVE  g[t] = LET x == CHOOSE x \in t : TRUE IN x.score.den * g[t \ {x}]
      <3> DEFINE x == CHOOSE x \in t : TRUE
      <3>1. x \in t /\ t \ {x} \in SUBSET S
        BY <2>1
      <3> HIDE DEF x
      <3>2. g[t] = Times[f[x]][g[t \ {x}]] /\ f[x] \in Int /\ g[t \ {x}] \in Int /\ f[x] = x.score.den
        BY <1>1, <3>1 DEF FoldOf
      <3>3. g[t] = x.score.den * g[t \ {x}]
        BY <3>2 DEF Times
      <3> QED
        BY <3>3 DEF x
    <2>2. g[{}] = 1
      BY <1>1 DEF FoldOf, FoldsTo
    <2> QED
      BY <2>1, <2>2
  <1> DEFINE h == CHOOSE h : h = [t \in SUBSET S |-> IF t = {} THEN 1
                                  ELSE LET x == CHOOSE x \in t : TRUE IN x.score.den * h[t \ {x}]]
  <1>3. h = [t \in SUBSET S |-> IF t = {} THEN 1
                                ELSE LET x == CHOOSE x \in t : TRUE IN x.score.den * h[t \ {x}]]
    BY <1>2, ZenonT(60)
  <1>4. ProductOf(S) = h[S]
    BY DEF ProductOf, MapThenFoldSet
  <1> HIDE DEF h
  <1>5. \A t \in SUBSET S : t # {} =>
            /\ g[t] = Picked(t).score.den * g[t \ {Picked(t)}]
            /\ h[t] = Picked(t).score.den * h[t \ {Picked(t)}]
    BY <1>2, <1>3 DEF Picked
  <1>6. g[{}] = h[{}]
    BY <1>2, <1>3
  <1>7. \A t \in SUBSET S : t # {} /\ g[t \ {Picked(t)}] = h[t \ {Picked(t)}] => g[t] = h[t]
    BY <1>5
  <1>8. g[S] = h[S]
    BY <1>6, <1>7, SameFold, Zenon
  <1> QED
    BY <1>1, <1>4, <1>8

-----------------------------------------------------------------------------
(* The composite grade as a quotient of two sums.                          *)

Weights(S) == MapThenSumSet(LAMBDA s : s.weight, S)
\* What a sub-score adds over a common denominator.
Adds(s, common) == s.weight * s.score.num * (common \div s.score.den)

Weighted(S, common) == MapThenSumSet(LAMBDA s : s.weight * s.score.num * (common \div s.score.den), S)

\* the weights,
LEMMA WeightsAre ==
    ASSUME NEW S, IsFiniteSet(S), NEW f \in [S -> Int], \A s \in S : f[s] = s.weight
    PROVE  \E h \in [SUBSET S -> Int] : FoldOf(h, S, 0, Plus, f) /\ Weights(S) = h[S]
  <1>1. PICK g \in [SUBSET S -> Int] : FoldOf(g, S, 0, Plus, f)
    BY FoldOfSum
  <1>2. g = [t \in SUBSET S |-> IF t = {} THEN 0
                                ELSE LET x == CHOOSE x \in t : TRUE IN x.weight + g[t \ {x}]]
    <2>1. ASSUME NEW t \in SUBSET S, t # {}
          PROVE  g[t] = LET x == CHOOSE x \in t : TRUE IN x.weight + g[t \ {x}]
      <3> DEFINE x == CHOOSE x \in t : TRUE
      <3>1. x \in t /\ t \ {x} \in SUBSET S
        BY <2>1
      <3> HIDE DEF x
      <3>2. g[t] = Plus[f[x]][g[t \ {x}]] /\ f[x] \in Int /\ g[t \ {x}] \in Int /\ f[x] = x.weight
        BY <1>1, <3>1 DEF FoldOf
      <3>3. g[t] = x.weight + g[t \ {x}]
        BY <3>2 DEF Plus
      <3> QED
        BY <3>3 DEF x
    <2>2. g[{}] = 0
      BY <1>1 DEF FoldOf, FoldsTo
    <2> QED
      BY <2>1, <2>2
  <1> DEFINE h == CHOOSE h : h = [t \in SUBSET S |-> IF t = {} THEN 0
                                  ELSE LET x == CHOOSE x \in t : TRUE IN x.weight + h[t \ {x}]]
  <1>3. h = [t \in SUBSET S |-> IF t = {} THEN 0
                                ELSE LET x == CHOOSE x \in t : TRUE IN x.weight + h[t \ {x}]]
    BY <1>2, ZenonT(60)
  <1>4. Weights(S) = h[S]
    BY DEF Weights, MapThenSumSet, MapThenFoldSet
  <1> HIDE DEF h
  <1>5. \A t \in SUBSET S : t # {} =>
            /\ g[t] = Picked(t).weight + g[t \ {Picked(t)}]
            /\ h[t] = Picked(t).weight + h[t \ {Picked(t)}]
    BY <1>2, <1>3 DEF Picked
  <1>6. g[{}] = h[{}]
    BY <1>2, <1>3
  <1>7. \A t \in SUBSET S : t # {} /\ g[t \ {Picked(t)}] = h[t \ {Picked(t)}] => g[t] = h[t]
    BY <1>5
  <1>8. g[S] = h[S]
    BY <1>6, <1>7, SameFold, Zenon
  <1> QED
    BY <1>1, <1>4, <1>8

\* and the weighted scores.
LEMMA ScoresAre ==
    ASSUME NEW S, IsFiniteSet(S), NEW f \in [S -> Int], NEW common,
           \A s \in S : f[s] = Adds(s, common)
    PROVE  \E h \in [SUBSET S -> Int] :
               /\ FoldOf(h, S, 0, Plus, f)
               /\ Weighted(S, common) = h[S]
  <1> DEFINE v(s) == s.weight * s.score.num * (common \div s.score.den)
  <1>0. \A s \in S : f[s] = v(s)
    BY DEF Adds
  <1>1. PICK g \in [SUBSET S -> Int] : FoldOf(g, S, 0, Plus, f)
    BY FoldOfSum
  <1>2. g = [t \in SUBSET S |-> IF t = {} THEN 0
                                ELSE LET x == CHOOSE x \in t : TRUE IN v(x) + g[t \ {x}]]
    <2> HIDE DEF v
    <2>1. ASSUME NEW t \in SUBSET S, t # {}
          PROVE  g[t] = LET x == CHOOSE x \in t : TRUE IN v(x) + g[t \ {x}]
      <3> DEFINE x == CHOOSE x \in t : TRUE
      <3>1. x \in t /\ t \ {x} \in SUBSET S
        BY <2>1
      <3> HIDE DEF x
      <3>2. g[t] = Plus[f[x]][g[t \ {x}]] /\ f[x] \in Int /\ g[t \ {x}] \in Int /\ f[x] = v(x)
        BY <1>0, <1>1, <3>1 DEF FoldOf
      <3>3. g[t] = v(x) + g[t \ {x}]
        BY <3>2 DEF Plus
      <3> QED
        BY <3>3 DEF x
    <2>2. g[{}] = 0
      BY <1>1 DEF FoldOf, FoldsTo
    <2> QED
      BY <2>1, <2>2
  <1> DEFINE h == CHOOSE h : h = [t \in SUBSET S |-> IF t = {} THEN 0
                                  ELSE LET x == CHOOSE x \in t : TRUE IN v(x) + h[t \ {x}]]
  <1>3. h = [t \in SUBSET S |-> IF t = {} THEN 0
                                ELSE LET x == CHOOSE x \in t : TRUE IN v(x) + h[t \ {x}]]
    <2> HIDE DEF v
    <2> QED
      BY <1>2, ZenonT(60)
  <1>4. Weighted(S, common) = h[S]
    BY DEF Weighted, MapThenSumSet, MapThenFoldSet
  <1> HIDE DEF h, v
  <1>5. \A t \in SUBSET S : t # {} =>
            /\ g[t] = v(Picked(t)) + g[t \ {Picked(t)}]
            /\ h[t] = v(Picked(t)) + h[t \ {Picked(t)}]
    BY <1>2, <1>3 DEF Picked
  <1>6. g[{}] = h[{}]
    BY <1>2, <1>3
  <1>7. \A t \in SUBSET S : t # {} /\ g[t \ {Picked(t)}] = h[t \ {Picked(t)}] => g[t] = h[t]
    BY <1>5
  <1>8. g[S] = h[S]
    BY <1>6, <1>7, SameFold, Zenon
  <1> QED
    BY <1>1, <1>4, <1>8

\* Arithmetic.
LEMMA TimesNat ==
    ASSUME NEW a \in Nat, NEW b \in Nat
    PROVE  a * b \in Nat /\ (a > 0 /\ b > 0 => a * b > 0)
  OBVIOUS

\* A product keeps the order,
LEMMA TimesLess ==
    ASSUME NEW a \in Int, NEW b \in Int, NEW d \in Nat, a <= b
    PROVE  a * d <= b * d /\ (a < b /\ d > 0 => a * d < b * d)
  <1>1. (b - a) * d >= 0 /\ (b - a > 0 /\ d > 0 => (b - a) * d > 0)
    OBVIOUS
  <1>2. (b - a) * d = b * d - a * d
    OBVIOUS
  <1> QED
    BY <1>1, <1>2

\* a quotient lies below what it is taken of,
LEMMA DivIs ==
    ASSUME NEW a \in Nat, NEW b \in Nat, b > 0
    PROVE  a \div b \in Nat /\ (a \div b) * b <= a /\ a < (a \div b + 1) * b
  OBVIOUS

\* and a factor can be taken out of a product.
LEMMA DivOf ==
    ASSUME NEW d \in Nat, NEW e \in Nat, d > 0
    PROVE  (d * e) \div d = e
  OBVIOUS

\* The sum of a figure of three sub-scores,
LEMMA SumOfThree ==
    ASSUME NEW S, NEW a, NEW b, NEW c, S = {a, b, c}, a # b, a # c, b # c,
           NEW f \in [S -> Int], NEW h, FoldOf(h, S, 0, Plus, f)
    PROVE  h[S] = f[a] + f[b] + f[c]
  <1> DEFINE zero == 0
  <1>1. FoldOf(h, S, zero, Plus, f)
    OBVIOUS
  <1> HIDE DEF zero
  <1>2. h[S] = Plus[f[a]][Plus[f[b]][Plus[f[c]][zero]]]
    BY <1>1, OfThree
  <1> DEFINE i == f[a]
             j == f[b]
             k == f[c]
  <1>3. i \in Int /\ j \in Int /\ k \in Int /\ h[S] = Plus[i][Plus[j][Plus[k][zero]]]
    BY <1>2
  <1> HIDE DEF i, j, k
  <1>4. h[S] = i + j + k
    BY <1>3 DEF Plus, zero
  <1> QED
    BY <1>4 DEF i, j, k

\* and the product.
LEMMA ProductOfThree ==
    ASSUME NEW S, NEW a, NEW b, NEW c, S = {a, b, c}, a # b, a # c, b # c,
           NEW f \in [S -> Int], NEW h, FoldOf(h, S, 1, Times, f)
    PROVE  h[S] = f[a] * (f[b] * f[c])
  <1> DEFINE one == 1
  <1>1. FoldOf(h, S, one, Times, f)
    OBVIOUS
  <1> HIDE DEF one
  <1>2. h[S] = Times[f[a]][Times[f[b]][Times[f[c]][one]]]
    BY <1>1, OfThree
  <1> DEFINE i == f[a]
             j == f[b]
             k == f[c]
  <1>3. i \in Int /\ j \in Int /\ k \in Int /\ h[S] = Times[i][Times[j][Times[k][one]]]
    BY <1>2
  <1> HIDE DEF i, j, k
  <1>4. Times[k][one] = k /\ Times[j][k] = j * k /\ j * k \in Int
    BY <1>3 DEF Times, one
  <1>5. h[S] = Times[i][j * k]
    BY <1>3, <1>4
  <1>6. Times[i][j * k] = i * (j * k)
    BY <1>3, <1>4 DEF Times
  <1> QED
    BY <1>5, <1>6 DEF i, j, k

\* A score is a fraction.
Fraction == [num : Nat, den : Nat \ {0}]

Subs == [weight : Nat, facet : {"ft", "per", "esc", "dc"}, score : Fraction]

\* What a sub-score consists of.
LEMMA SubIs ==
    ASSUME NEW s \in Subs
    PROVE  s.weight \in Nat /\ s.score.num \in Nat /\ s.score.den \in Nat /\ s.score.den > 0
  <1>1. s.weight \in Nat /\ s.score \in Fraction
    BY DEF Subs
  <1> QED
    BY <1>1 DEF Fraction

\* Sub-scores of different facets are as many as there are facets.
LEMMA ThreeAre ==
    ASSUME NEW a, NEW b, NEW c
    PROVE  IsFiniteSet({a, b, c})
  <1>1. IsFiniteSet({a}) /\ {a, b} = {a} \union {b} /\ {a, b, c} = {a, b} \union {c}
    BY FS_Singleton
  <1>2. IsFiniteSet({a, b})
    BY <1>1, FS_AddElement
  <1> QED
    BY <1>1, <1>2, FS_AddElement

\* The common denominator of three scores,
LEMMA ProductThree ==
    ASSUME NEW a \in Subs, NEW b \in Subs, NEW c \in Subs, a # b, a # c, b # c
    PROVE  ProductOf({a, b, c}) = a.score.den * (b.score.den * c.score.den)
  <1> DEFINE S == {a, b, c}
             f == [s \in S |-> s.score.den]
  <1>1. IsFiniteSet(S)
    BY ThreeAre
  <1>2. f \in [S -> Int] /\ \A s \in S : f[s] = s.score.den
    BY SubIs
  <1>3. f[a] = a.score.den /\ f[b] = b.score.den /\ f[c] = c.score.den
    OBVIOUS
  <1>4. S = {a, b, c}
    OBVIOUS
  <1> HIDE DEF f, S
  <1>5. PICK h \in [SUBSET S -> Int] : FoldOf(h, S, 1, Times, f) /\ ProductOf(S) = h[S]
    BY <1>1, <1>2, ProductIs
  <1>6. h[S] = f[a] * (f[b] * f[c])
    BY <1>2, <1>4, <1>5, ProductOfThree
  <1> QED
    BY <1>3, <1>4, <1>5, <1>6

\* their weight,
LEMMA WeightsThree ==
    ASSUME NEW a \in Subs, NEW b \in Subs, NEW c \in Subs, a # b, a # c, b # c
    PROVE  Weights({a, b, c}) = a.weight + b.weight + c.weight
  <1> DEFINE S == {a, b, c}
             f == [s \in S |-> s.weight]
  <1>1. IsFiniteSet(S)
    BY ThreeAre
  <1>2. f \in [S -> Int] /\ \A s \in S : f[s] = s.weight
    BY SubIs
  <1>3. f[a] = a.weight /\ f[b] = b.weight /\ f[c] = c.weight
    OBVIOUS
  <1>4. S = {a, b, c}
    OBVIOUS
  <1> HIDE DEF f, S
  <1>5. PICK h \in [SUBSET S -> Int] : FoldOf(h, S, 0, Plus, f) /\ Weights(S) = h[S]
    BY <1>1, <1>2, WeightsAre
  <1>6. h[S] = f[a] + f[b] + f[c]
    BY <1>2, <1>4, <1>5, SumOfThree
  <1> QED
    BY <1>3, <1>4, <1>5, <1>6

\* and their weighted sum.
LEMMA WeightedThree ==
    ASSUME NEW a, NEW b, NEW c, a # b, a # c, b # c, NEW common,
           Adds(a, common) \in Int, Adds(b, common) \in Int, Adds(c, common) \in Int
    PROVE  Weighted({a, b, c}, common) = Adds(a, common) + Adds(b, common) + Adds(c, common)
  <1> DEFINE S == {a, b, c}
             f == [s \in S |-> Adds(s, common)]
  <1>1. IsFiniteSet(S)
    BY ThreeAre
  <1>2. f \in [S -> Int] /\ \A s \in S : f[s] = Adds(s, common)
    OBVIOUS
  <1>3. f[a] = Adds(a, common) /\ f[b] = Adds(b, common) /\ f[c] = Adds(c, common)
    OBVIOUS
  <1>4. S = {a, b, c}
    OBVIOUS
  <1> HIDE DEF f, S
  <1>5. PICK h \in [SUBSET S -> Int] : FoldOf(h, S, 0, Plus, f) /\ Weighted(S, common) = h[S]
    BY <1>1, <1>2, ScoresAre
  <1>6. h[S] = f[a] + f[b] + f[c]
    BY <1>2, <1>4, <1>5, SumOfThree
  <1> QED
    BY <1>3, <1>4, <1>5, <1>6

\* The same of four sub-scores: the sum,
LEMMA SumOfFour ==
    ASSUME NEW S, NEW a, NEW b, NEW c, NEW d, AreFour(S, a, b, c, d),
           NEW f \in [S -> Int], NEW h, FoldOf(h, S, 0, Plus, f)
    PROVE  h[S] = f[a] + f[b] + f[c] + f[d]
  <1>0. S = {a, b, c, d} /\ a # b /\ a # c /\ a # d /\ b # c /\ b # d /\ c # d
    BY DEF AreFour
  <1>1. h[{}] = 0
    BY DEF FoldOf, FoldsTo
  <1>2. h[{d}] = Plus[f[d]][h[{}]]
    <2>1. {d} \in SUBSET S /\ d \in {d} /\ {d} \ {d} = {}
      BY <1>0
    <2> QED
      BY <2>1 DEF FoldOf
  <1>3. h[{c, d}] = Plus[f[c]][h[{d}]]
    <2>1. {c, d} \in SUBSET S /\ c \in {c, d} /\ {c, d} \ {c} = {d}
      BY <1>0
    <2> QED
      BY <2>1 DEF FoldOf
  <1>4. h[{b, c, d}] = Plus[f[b]][h[{c, d}]]
    <2>1. {b, c, d} \in SUBSET S /\ b \in {b, c, d} /\ {b, c, d} \ {b} = {c, d}
      BY <1>0
    <2> QED
      BY <2>1 DEF FoldOf
  <1>5. h[S] = Plus[f[a]][h[{b, c, d}]]
    <2>1. S \in SUBSET S /\ a \in S /\ S \ {a} = {b, c, d}
      BY <1>0
    <2> QED
      BY <2>1 DEF FoldOf
  <1> DEFINE i == f[a]
             j == f[b]
             k == f[c]
             l == f[d]
  <1>6. i \in Int /\ j \in Int /\ k \in Int /\ l \in Int
    BY <1>0
  <1> HIDE DEF i, j, k, l
  <1>7. h[{d}] = l
    BY <1>1, <1>2, <1>6 DEF Plus, l
  <1>8. h[{c, d}] = k + l
    BY <1>3, <1>6, <1>7 DEF Plus, k
  <1>9. h[{b, c, d}] = j + (k + l)
    BY <1>4, <1>6, <1>8 DEF Plus, j
  <1>10. h[S] = i + (j + (k + l))
    BY <1>5, <1>6, <1>9 DEF Plus, i
  <1>11. i + (j + (k + l)) = i + j + k + l
    BY <1>6
  <1> QED
    BY <1>10, <1>11 DEF i, j, k, l

\* the product,
LEMMA ProductOfFour ==
    ASSUME NEW S, NEW a, NEW b, NEW c, NEW d, AreFour(S, a, b, c, d),
           NEW f \in [S -> Int], NEW h, FoldOf(h, S, 1, Times, f)
    PROVE  h[S] = f[a] * (f[b] * (f[c] * f[d]))
  <1>0. S = {a, b, c, d} /\ a # b /\ a # c /\ a # d /\ b # c /\ b # d /\ c # d
    BY DEF AreFour
  <1>1. h[{}] = 1
    BY DEF FoldOf, FoldsTo
  <1>2. h[{d}] = Times[f[d]][h[{}]]
    <2>1. {d} \in SUBSET S /\ d \in {d} /\ {d} \ {d} = {}
      BY <1>0
    <2> QED
      BY <2>1 DEF FoldOf
  <1>3. h[{c, d}] = Times[f[c]][h[{d}]]
    <2>1. {c, d} \in SUBSET S /\ c \in {c, d} /\ {c, d} \ {c} = {d}
      BY <1>0
    <2> QED
      BY <2>1 DEF FoldOf
  <1>4. h[{b, c, d}] = Times[f[b]][h[{c, d}]]
    <2>1. {b, c, d} \in SUBSET S /\ b \in {b, c, d} /\ {b, c, d} \ {b} = {c, d}
      BY <1>0
    <2> QED
      BY <2>1 DEF FoldOf
  <1>5. h[S] = Times[f[a]][h[{b, c, d}]]
    <2>1. S \in SUBSET S /\ a \in S /\ S \ {a} = {b, c, d}
      BY <1>0
    <2> QED
      BY <2>1 DEF FoldOf
  <1> DEFINE i == f[a]
             j == f[b]
             k == f[c]
             l == f[d]
  <1>6. i \in Int /\ j \in Int /\ k \in Int /\ l \in Int
    BY <1>0
  <1> HIDE DEF i, j, k, l
  <1>7. h[{d}] = l
    BY <1>1, <1>2, <1>6 DEF Times, l
  <1> DEFINE p == k * l
             q == j * p
  <1>8. p \in Int /\ q \in Int /\ Times[k][l] = p /\ Times[j][p] = q /\ Times[i][q] = i * q
    <2>1. p \in Int /\ Times[k][l] = p
      BY <1>6 DEF Times
    <2> HIDE DEF p
    <2>2. q \in Int /\ Times[j][p] = q
      BY <1>6, <2>1 DEF Times
    <2> HIDE DEF q
    <2>3. Times[i][q] = i * q
      BY <1>6, <2>2 DEF Times
    <2> QED
      BY <2>1, <2>2, <2>3
  <1> HIDE DEF p, q
  <1>9. h[{c, d}] = p
    BY <1>3, <1>7, <1>8 DEF k
  <1>10. h[{b, c, d}] = q
    BY <1>4, <1>8, <1>9 DEF j
  <1>11. h[S] = i * q
    BY <1>5, <1>8, <1>10 DEF i
  <1> QED
    BY <1>11 DEF i, j, k, l, p, q

\* their number,
LEMMA FourAre ==
    ASSUME NEW a, NEW b, NEW c, NEW d
    PROVE  IsFiniteSet({a, b, c, d})
  <1>1. {a, b, c, d} = {a, b, c} \union {d}
    OBVIOUS
  <1>2. IsFiniteSet({a, b, c})
    BY ThreeAre
  <1> QED
    BY <1>1, <1>2, FS_AddElement

\* the common denominator,
LEMMA ProductFour ==
    ASSUME NEW a \in Subs, NEW b \in Subs, NEW c \in Subs, NEW d \in Subs,
           AreFour({a, b, c, d}, a, b, c, d)
    PROVE  ProductOf({a, b, c, d}) = a.score.den * (b.score.den * (c.score.den * d.score.den))
  <1> DEFINE S == {a, b, c, d}
             f == [s \in S |-> s.score.den]
  <1>1. IsFiniteSet(S)
    BY FourAre
  <1>2. f \in [S -> Int] /\ \A s \in S : f[s] = s.score.den
    BY SubIs
  <1>3. f[a] = a.score.den /\ f[b] = b.score.den /\ f[c] = c.score.den /\ f[d] = d.score.den
    OBVIOUS
  <1>4. AreFour(S, a, b, c, d)
    BY DEF AreFour
  <1> HIDE DEF f, S
  <1>5. PICK h \in [SUBSET S -> Int] : FoldOf(h, S, 1, Times, f) /\ ProductOf(S) = h[S]
    BY <1>1, <1>2, ProductIs
  <1>6. h[S] = f[a] * (f[b] * (f[c] * f[d]))
    BY <1>2, <1>4, <1>5, ProductOfFour
  <1> QED
    BY <1>3, <1>5, <1>6 DEF S

\* the weight,
LEMMA WeightsFour ==
    ASSUME NEW a \in Subs, NEW b \in Subs, NEW c \in Subs, NEW d \in Subs,
           AreFour({a, b, c, d}, a, b, c, d)
    PROVE  Weights({a, b, c, d}) = a.weight + b.weight + c.weight + d.weight
  <1> DEFINE S == {a, b, c, d}
             f == [s \in S |-> s.weight]
  <1>1. IsFiniteSet(S)
    BY FourAre
  <1>2. f \in [S -> Int] /\ \A s \in S : f[s] = s.weight
    BY SubIs
  <1>3. f[a] = a.weight /\ f[b] = b.weight /\ f[c] = c.weight /\ f[d] = d.weight
    OBVIOUS
  <1>4. AreFour(S, a, b, c, d)
    BY DEF AreFour
  <1> HIDE DEF f, S
  <1>5. PICK h \in [SUBSET S -> Int] : FoldOf(h, S, 0, Plus, f) /\ Weights(S) = h[S]
    BY <1>1, <1>2, WeightsAre
  <1>6. h[S] = f[a] + f[b] + f[c] + f[d]
    BY <1>2, <1>4, <1>5, SumOfFour
  <1> QED
    BY <1>3, <1>5, <1>6 DEF S

\* and the weighted sum.
LEMMA WeightedFour ==
    ASSUME NEW a, NEW b, NEW c, NEW d, AreFour({a, b, c, d}, a, b, c, d), NEW common,
           Adds(a, common) \in Int, Adds(b, common) \in Int, Adds(c, common) \in Int, Adds(d, common) \in Int
    PROVE  Weighted({a, b, c, d}, common) = Adds(a, common) + Adds(b, common) + Adds(c, common) + Adds(d, common)
  <1> DEFINE S == {a, b, c, d}
             f == [s \in S |-> Adds(s, common)]
  <1>1. IsFiniteSet(S)
    BY FourAre
  <1>2. f \in [S -> Int] /\ \A s \in S : f[s] = Adds(s, common)
    OBVIOUS
  <1>3. f[a] = Adds(a, common) /\ f[b] = Adds(b, common) /\ f[c] = Adds(c, common) /\ f[d] = Adds(d, common)
    OBVIOUS
  <1>4. AreFour(S, a, b, c, d)
    BY DEF AreFour
  <1> HIDE DEF f, S
  <1>5. PICK h \in [SUBSET S -> Int] : FoldOf(h, S, 0, Plus, f) /\ Weighted(S, common) = h[S]
    BY <1>1, <1>2, ScoresAre, SMTT(60)
  <1>6. h[S] = f[a] + f[b] + f[c] + f[d]
    BY <1>2, <1>4, <1>5, SumOfFour
  <1> QED
    BY <1>3, <1>5, <1>6 DEF S

\* A score over the common denominator.
Shares(s, x, common) == x * s.score.den = s.score.num * common

Rounded(sum, weights, common) == (2 * sum + weights * common) \div (2 * weights * common)

\* The numerator over a common denominator that a score's own divides.
LEMMA ShareIs ==
    ASSUME NEW s \in Subs, NEW e \in Nat, NEW common \in Nat, common = s.score.den * e
    PROVE  /\ common \div s.score.den = e
           /\ s.score.num * e \in Nat
           /\ Shares(s, s.score.num * e, common)
           /\ Adds(s, common) = s.weight * (s.score.num * e)
  <1> DEFINE d == s.score.den
             n == s.score.num
             w == s.weight
  <1>1. d \in Nat /\ d > 0 /\ n \in Nat /\ w \in Nat
    BY SubIs
  <1> HIDE DEF d, n, w
  <1>2. common = d * e
    BY DEF d
  <1>3. common \div d = e
    BY <1>1, <1>2, DivOf
  <1>4. n * e \in Nat /\ (n * e) * d = n * common
    BY <1>1, <1>2
  <1>5. w * n * e = w * (n * e)
    BY <1>1
  <1> QED
    BY <1>3, <1>4, <1>5 DEF Shares, Adds, d, n, w

\* The composite grade is the rounded quotient of the two sums.
LEMMA CompositeIs ==
    ASSUME NEW S
    PROVE  compositeGrade(S) = Rounded(Weighted(S, ProductOf(S)), Weights(S), ProductOf(S))
  <1> DEFINE total == Weights(S)
  <1>1. compositeGrade(S) = WeightedMean(S, total)
    BY DEF compositeGrade, Weights
  <1> HIDE DEF total
  <1>2. WeightedMean(S, total) = Rounded(Weighted(S, ProductOf(S)), total, ProductOf(S))
    BY DEF WeightedMean, Rounded, Weighted
  <1> QED
    BY <1>1, <1>2 DEF total

\* A grade of three sub-scores, over a common denominator of them,
LEMMA GradeOfThree ==
    ASSUME NEW a \in Subs, NEW b \in Subs, NEW c \in Subs,
           a.facet # b.facet, a.facet # c.facet, b.facet # c.facet
    PROVE  \E common \in Nat : \E x \in Nat : \E y \in Nat : \E z \in Nat :
               /\ common > 0 /\ Shares(a, x, common) /\ Shares(b, y, common) /\ Shares(c, z, common)
               /\ compositeGrade({a, b, c}) =
                      Rounded(a.weight * x + b.weight * y + c.weight * z, a.weight + b.weight + c.weight, common)
  <1> DEFINE p == a.score.den
             q == b.score.den
             r == c.score.den
             common == p * (q * r)
             S == {a, b, c}
  <1>1. a # b /\ a # c /\ b # c
    OBVIOUS
  <1>2. ProductOf(S) = common /\ Weights(S) = a.weight + b.weight + c.weight
    BY <1>1, ProductThree, WeightsThree
  <1>3. /\ p \in Nat /\ p > 0 /\ q \in Nat /\ q > 0 /\ r \in Nat /\ r > 0
        /\ a.weight \in Nat /\ b.weight \in Nat /\ c.weight \in Nat
        /\ a.score.num \in Nat /\ b.score.num \in Nat /\ c.score.num \in Nat
    BY SubIs
  <1>4. common \in Nat /\ common > 0
    <2> HIDE DEF p, q, r
    <2>1. q * r \in Nat /\ q * r > 0
      BY <1>3, TimesNat
    <2> QED
      BY <1>3, <2>1, TimesNat
  <1> DEFINE e == q * r
             f == p * r
             g == p * q
             x == a.score.num * e
             y == b.score.num * f
             z == c.score.num * g
  <1>5. /\ e \in Nat /\ f \in Nat /\ g \in Nat
        /\ common = p * e /\ common = q * f /\ common = r * g
    <2> HIDE DEF p, q, r
    <2>1. q * r \in Nat /\ p * r \in Nat /\ p * q \in Nat
      BY <1>3, TimesNat
    <2>2. p * (q * r) = q * (p * r) /\ p * (q * r) = r * (p * q)
      BY <1>3
    <2> QED
      BY <2>1, <2>2
  <1> HIDE DEF e, f, g, common, S
  <1>6. /\ x \in Nat /\ Shares(a, x, common) /\ Adds(a, common) = a.weight * x
        /\ y \in Nat /\ Shares(b, y, common) /\ Adds(b, common) = b.weight * y
        /\ z \in Nat /\ Shares(c, z, common) /\ Adds(c, common) = c.weight * z
    BY <1>4, <1>5, ShareIs
  <1> HIDE DEF x, y, z
  <1>7. Adds(a, common) \in Int /\ Adds(b, common) \in Int /\ Adds(c, common) \in Int
    BY <1>3, <1>6, TimesNat
  <1>8. Weighted(S, common) = a.weight * x + b.weight * y + c.weight * z
    <2>1. Weighted(S, common) = Adds(a, common) + Adds(b, common) + Adds(c, common)
      BY <1>1, <1>7, WeightedThree DEF S
    <2> QED
      BY <1>6, <2>1
  <1>9. compositeGrade(S) = Rounded(a.weight * x + b.weight * y + c.weight * z, a.weight + b.weight + c.weight, common)
    BY <1>2, <1>8, CompositeIs
  <1> QED
    BY <1>4, <1>6, <1>9 DEF S

GradedBy(a, b, c, d, common, x, y, z, u) ==
    /\ common > 0 /\ Shares(a, x, common) /\ Shares(b, y, common)
    /\ Shares(c, z, common) /\ Shares(d, u, common)
    /\ compositeGrade({a, b, c, d}) =
           Rounded(a.weight * x + b.weight * y + c.weight * z + d.weight * u,
                   a.weight + b.weight + c.weight + d.weight, common)

\* and one of four.
LEMMA GradeOfFour ==
    ASSUME NEW a \in Subs, NEW b \in Subs, NEW c \in Subs, NEW d \in Subs,
           AreFour({a, b, c, d}, a, b, c, d)
    PROVE  \E common \in Nat, x \in Nat, y \in Nat, z \in Nat, u \in Nat :
               GradedBy(a, b, c, d, common, x, y, z, u)
  <1> DEFINE p == a.score.den
             q == b.score.den
             r == c.score.den
             t == d.score.den
             common == p * (q * (r * t))
             S == {a, b, c, d}
  <1>1. AreFour({a, b, c, d}, a, b, c, d)
    OBVIOUS
  <1>2. ProductOf(S) = common /\ Weights(S) = a.weight + b.weight + c.weight + d.weight
    BY <1>1, ProductFour, WeightsFour
  <1>3. /\ p \in Nat /\ p > 0 /\ q \in Nat /\ q > 0 /\ r \in Nat /\ r > 0 /\ t \in Nat /\ t > 0
        /\ a.weight \in Nat /\ b.weight \in Nat /\ c.weight \in Nat /\ d.weight \in Nat
        /\ a.score.num \in Nat /\ b.score.num \in Nat /\ c.score.num \in Nat /\ d.score.num \in Nat
    BY SubIs
  <1> DEFINE e == q * (r * t)
             f == p * (r * t)
             g == p * (q * t)
             m == p * (q * r)
             x == a.score.num * e
             y == b.score.num * f
             z == c.score.num * g
             u == d.score.num * m
  <1>4. common \in Nat /\ common > 0 /\ e \in Nat /\ f \in Nat /\ g \in Nat /\ m \in Nat
    <2> HIDE DEF p, q, r, t
    <2>1. r * t \in Nat /\ r * t > 0 /\ q * t \in Nat /\ q * r \in Nat
      BY <1>3, TimesNat
    <2>2. e \in Nat /\ e > 0 /\ f \in Nat /\ g \in Nat /\ m \in Nat
      BY <1>3, <2>1, TimesNat
    <2> HIDE DEF e
    <2>3. p * e \in Nat /\ p * e > 0
      BY <1>3, <2>2, TimesNat
    <2> QED
      BY <2>2, <2>3 DEF e
  <1>5. common = p * e /\ common = q * f /\ common = r * g /\ common = t * m
    <2> HIDE DEF p, q, r, t
    <2> QED
      BY <1>3
  <1> HIDE DEF e, f, g, m, common, S
  <1>6. /\ x \in Nat /\ Shares(a, x, common) /\ Adds(a, common) = a.weight * x
        /\ y \in Nat /\ Shares(b, y, common) /\ Adds(b, common) = b.weight * y
        /\ z \in Nat /\ Shares(c, z, common) /\ Adds(c, common) = c.weight * z
        /\ u \in Nat /\ Shares(d, u, common) /\ Adds(d, common) = d.weight * u
    BY <1>4, <1>5, ShareIs
  <1> HIDE DEF x, y, z, u
  <1>7. Adds(a, common) \in Int /\ Adds(b, common) \in Int /\ Adds(c, common) \in Int /\ Adds(d, common) \in Int
    BY <1>3, <1>6, TimesNat
  <1>8. Weighted(S, common) = a.weight * x + b.weight * y + c.weight * z + d.weight * u
    <2>1. Weighted(S, common) = Adds(a, common) + Adds(b, common) + Adds(c, common) + Adds(d, common)
      BY <1>1, <1>7, WeightedFour DEF S
    <2> QED
      BY <1>6, <2>1
  <1>9. compositeGrade(S) = Rounded(a.weight * x + b.weight * y + c.weight * z + d.weight * u,
                                    a.weight + b.weight + c.weight + d.weight, common)
    BY <1>2, <1>8, CompositeIs
  <1> QED
    BY <1>4, <1>6, <1>9 DEF GradedBy, S

-----------------------------------------------------------------------------
(* Its order and its bounds.                                               *)

\* A quotient grows with the fraction, even if the denominator changes.
LEMMA DivMonotone ==
    ASSUME NEW a \in Nat, NEW b \in Nat, NEW c \in Nat, NEW d \in Nat, b > 0, d > 0, a * d <= c * b
    PROVE  a \div b <= c \div d
  <1> DEFINE q == a \div b
             r == c \div d
  <1>1. q \in Nat /\ q * b <= a
    BY DivIs
  <1>2. r \in Nat /\ c < (r + 1) * d
    BY DivIs
  <1> HIDE DEF q, r
  <1> SUFFICES ASSUME r + 1 <= q PROVE FALSE
    BY <1>1, <1>2 DEF q, r
  <1>3. (r + 1) * d <= q * d
    BY <1>1, <1>2, TimesLess
  <1>4. c < q * d
    <2> DEFINE i == (r + 1) * d
               j == q * d
    <2>1. i \in Int /\ j \in Int /\ c < i /\ i <= j
      BY <1>1, <1>2, <1>3
    <2> HIDE DEF i, j
    <2>2. c < j
      BY <2>1
    <2> QED
      BY <2>2 DEF j
  <1>5. c * b < (q * d) * b
    <2> DEFINE j == q * d
    <2>1. j \in Int /\ c < j
      BY <1>1, <1>4
    <2> HIDE DEF j
    <2>2. c * b < j * b
      BY <2>1, TimesLess
    <2> QED
      BY <2>2 DEF j
  <1>6. (q * b) * d <= a * d
    <2> DEFINE j == q * b
    <2>1. j \in Int /\ j <= a
      BY <1>1
    <2> HIDE DEF j
    <2>2. j * d <= a * d
      BY <2>1, TimesLess
    <2> QED
      BY <2>2 DEF j
  <1>7. (q * d) * b = (q * b) * d
    BY <1>1
  <1> DEFINE i == (q * d) * b
             j == a * d
             k == c * b
  <1>8. i \in Int /\ j \in Int /\ k \in Int /\ k < i /\ i <= j /\ j <= k
    BY <1>1, <1>5, <1>6, <1>7
  <1> HIDE DEF i, j, k
  <1> QED
    BY <1>8

\* What is rounded lies between two integers if its fraction does.
LEMMA RoundedIs ==
    ASSUME NEW sum \in Nat, NEW w \in Nat, NEW C \in Nat, w > 0, C > 0,
           NEW lo \in Nat, NEW hi \in Nat, lo * (w * C) <= sum, sum <= hi * (w * C)
    PROVE  Rounded(sum, w, C) \in Nat /\ lo <= Rounded(sum, w, C) /\ Rounded(sum, w, C) <= hi
  <1> DEFINE M == w * C
             a == 2 * sum + M
             b == 2 * M
             q == a \div b
  <1>1. M \in Nat /\ M > 0 /\ w * C = M /\ 2 * w * C = 2 * M
    BY TimesNat
  <1>2. Rounded(sum, w, C) = q
    BY <1>1 DEF Rounded
  <1> HIDE DEF M
  <1>3. lo * M <= sum /\ sum <= hi * M /\ lo * M \in Nat /\ hi * M \in Nat
    BY <1>1
  <1>4. a \in Nat /\ b \in Nat /\ b > 0 /\ a = 2 * sum + M /\ b = 2 * M
    BY <1>1
  <1> HIDE DEF a, b
  <1>5. q \in Nat /\ q * b <= a /\ a < (q + 1) * b
    BY <1>4, DivIs
  <1> HIDE DEF q
  <1>6. lo <= q
    <2> SUFFICES ASSUME q + 1 <= lo PROVE FALSE
      BY <1>5
    <2>1. (q + 1) * b <= lo * b
      BY <1>4, <1>5, TimesLess
    <2>2. lo * b = 2 * (lo * M)
      BY <1>1, <1>4
    <2> DEFINE i == (q + 1) * b
               j == lo * M
    <2>3. i \in Int /\ j \in Int /\ a < i /\ i <= 2 * j /\ j <= sum
      BY <1>3, <1>4, <1>5, <2>1, <2>2
    <2> HIDE DEF i, j
    <2> QED
      BY <1>1, <1>4, <2>3
  <1>7. q <= hi
    <2> SUFFICES ASSUME hi + 1 <= q PROVE FALSE
      BY <1>5
    <2>1. (hi + 1) * b <= q * b
      BY <1>4, <1>5, TimesLess
    <2>2. (hi + 1) * b = 2 * (hi * M) + 2 * M
      BY <1>1, <1>4
    <2> DEFINE i == q * b
               j == hi * M
    <2>3. i \in Int /\ j \in Int /\ i <= a /\ 2 * j + 2 * M <= i /\ sum <= j
      BY <1>3, <1>4, <1>5, <2>1, <2>2
    <2> HIDE DEF i, j
    <2> QED
      BY <1>1, <1>4, <2>3
  <1> QED
    BY <1>2, <1>5, <1>6, <1>7

\* Rounding keeps the order of the weighted means.
LEMMA RoundedMonotone ==
    ASSUME NEW s \in Nat, NEW t \in Nat, NEW w \in Nat, NEW C \in Nat, NEW D \in Nat,
           w > 0, C > 0, D > 0, s * D <= t * C
    PROVE  Rounded(s, w, C) <= Rounded(t, w, D)
  <1> DEFINE a == 2 * s + w * C
             b == 2 * w * C
             c == 2 * t + w * D
             d == 2 * w * D
  <1>1. w * C \in Nat /\ w * C > 0 /\ w * D \in Nat /\ w * D > 0
    BY TimesNat
  <1>2. a \in Nat /\ b \in Nat /\ c \in Nat /\ d \in Nat /\ b > 0 /\ d > 0
    <2>1. b = 2 * (w * C) /\ d = 2 * (w * D)
      OBVIOUS
    <2> DEFINE i == w * C
               j == w * D
    <2>2. i \in Nat /\ i > 0 /\ j \in Nat /\ j > 0 /\ a = 2 * s + i /\ c = 2 * t + j /\ b = 2 * i /\ d = 2 * j
      BY <1>1, <2>1
    <2> HIDE DEF a, b, c, d, i, j
    <2> QED
      BY <2>2
  <1>3. a * d = 4 * (w * (s * D)) + 2 * (w * C) * (w * D)
    OBVIOUS
  <1>4. c * b = 4 * (w * (t * C)) + 2 * (w * C) * (w * D)
    OBVIOUS
  <1>5. w * (s * D) <= w * (t * C)
    <2> DEFINE i == s * D
               j == t * C
    <2>1. i \in Int /\ j \in Int /\ i <= j
      OBVIOUS
    <2> HIDE DEF i, j
    <2>2. i * w <= j * w
      BY <2>1, TimesLess
    <2>3. i * w = w * i /\ j * w = w * j
      BY <2>1
    <2>4. w * i <= w * j
      BY <2>2, <2>3
    <2> QED
      BY <2>4 DEF i, j
  <1>6. a * d <= c * b
    <2> DEFINE i == w * (s * D)
               j == w * (t * C)
               k == 2 * (w * C) * (w * D)
    <2>1. i \in Int /\ j \in Int /\ k \in Int /\ i <= j /\ a * d = 4 * i + k /\ c * b = 4 * j + k
      BY <1>3, <1>4, <1>5
    <2> HIDE DEF a, b, c, d, i, j, k
    <2> QED
      BY <2>1
  <1> HIDE DEF a, b, c, d
  <1>7. a \div b <= c \div d
    BY <1>2, <1>6, DivMonotone
  <1> QED
    BY <1>7 DEF Rounded, a, b, c, d

\* A score has a numerator and a denominator.
LEMMA FractionIs ==
    ASSUME NEW p \in Fraction
    PROVE  p.num \in Nat /\ p.den \in Nat /\ p.den > 0
  BY DEF Fraction

Below(p, q) == p.num * q.den <= q.num * p.den

\* The numerator over a common denominator lies where the score does.
LEMMA ShareIn ==
    ASSUME NEW s \in Subs, NEW x \in Nat, NEW C \in Nat, Shares(s, x, C)
    PROVE  /\ s.score.num <= 100 * s.score.den => x <= 100 * C
           /\ s.score.num = 100 * s.score.den => x = 100 * C
           /\ s.score.num = 0 => x = 0
  <1> DEFINE n == s.score.num
             d == s.score.den
  <1>1. n \in Nat /\ d \in Nat /\ d > 0 /\ x * d = n * C
    BY SubIs DEF Shares
  <1> HIDE DEF n, d
  <1>2. ASSUME n <= 100 * d PROVE x <= 100 * C
    <2> SUFFICES ASSUME 100 * C < x PROVE FALSE
      OBVIOUS
    <2> DEFINE i == 100 * C
               j == 100 * d
    <2>1. i \in Int /\ j \in Int /\ i < x /\ n <= j
      BY <1>1, <1>2
    <2> HIDE DEF i, j
    <2>2. i * d < x * d
      BY <1>1, <2>1, TimesLess
    <2>3. n * C <= j * C
      BY <1>1, <2>1, TimesLess
    <2>4. i * d = j * C
      BY <1>1 DEF i, j
    <2> DEFINE u == i * d
               v == x * d
               w == j * C
    <2>5. u \in Int /\ v \in Int /\ w \in Int /\ u < v /\ v <= w /\ u = w
      BY <1>1, <2>1, <2>2, <2>3, <2>4
    <2> HIDE DEF u, v, w
    <2> QED
      BY <2>5
  <1>3. ASSUME n = 100 * d PROVE 100 * C <= x
    <2> SUFFICES ASSUME x < 100 * C PROVE FALSE
      OBVIOUS
    <2> DEFINE i == 100 * C
    <2>1. i \in Int /\ x < i
      OBVIOUS
    <2> HIDE DEF i
    <2>2. x * d < i * d
      BY <1>1, <2>1, TimesLess
    <2>3. i * d = n * C
      BY <1>1, <1>3 DEF i
    <2> QED
      BY <1>1, <2>1, <2>2, <2>3
  <1>4. ASSUME n = 0 PROVE x = 0
    <2>1. x * d = 0
      BY <1>1, <1>4
    <2>2. x > 0 => x * d > 0
      BY <1>1, TimesNat
    <2> QED
      BY <2>1, <2>2
  <1>5. n = 100 * d => x = 100 * C
    <2> SUFFICES ASSUME n = 100 * d PROVE x = 100 * C
      OBVIOUS
    <2>1. n <= 100 * d
      BY <1>1
    <2>2. x <= 100 * C /\ 100 * C <= x
      BY <1>2, <1>3, <2>1
    <2> QED
      BY <2>2
  <1> QED
    BY <1>2, <1>4, <1>5 DEF n, d

\* It keeps the order of the scores.
LEMMA ShareMore ==
    ASSUME NEW s \in Subs, NEW t \in Subs, NEW x \in Nat, NEW y \in Nat, NEW C \in Nat, NEW D \in Nat,
           Shares(s, x, C), Shares(t, y, D), Below(s.score, t.score)
    PROVE  x * D <= y * C
  <1> DEFINE n == s.score.num
             d == s.score.den
             m == t.score.num
             e == t.score.den
  <1>1. /\ n \in Nat /\ d \in Nat /\ d > 0 /\ x * d = n * C
        /\ m \in Nat /\ e \in Nat /\ e > 0 /\ y * e = m * D
        /\ n * e <= m * d
    BY SubIs DEF Shares, Below
  <1> HIDE DEF n, d, m, e
  <1> SUFFICES ASSUME y * C < x * D PROVE FALSE
    OBVIOUS
  <1>2. d * e \in Nat /\ d * e > 0 /\ C * D \in Nat
    BY <1>1, TimesNat
  <1>3. (y * C) * (d * e) < (x * D) * (d * e)
    <2> DEFINE i == y * C
               j == x * D
               k == d * e
    <2>1. i \in Int /\ j \in Int /\ i < j /\ k \in Nat /\ k > 0
      BY <1>2
    <2> HIDE DEF i, j, k
    <2>2. i * k < j * k
      BY <2>1, TimesLess
    <2> QED
      BY <2>2 DEF i, j, k
  <1>4. (n * e) * (C * D) <= (m * d) * (C * D)
    <2> DEFINE i == n * e
               j == m * d
               k == C * D
    <2>1. i \in Int /\ j \in Int /\ i <= j /\ k \in Nat
      BY <1>1, <1>2
    <2> HIDE DEF i, j, k
    <2>2. i * k <= j * k
      BY <2>1, TimesLess
    <2> QED
      BY <2>2 DEF i, j, k
  <1>5. (x * D) * (d * e) = (n * e) * (C * D)
    <2>1. (x * D) * (d * e) = (x * d) * (D * e)
      BY <1>1
    <2>2. (n * C) * (D * e) = (n * e) * (C * D)
      BY <1>1
    <2> QED
      BY <1>1, <2>1, <2>2
  <1>6. (y * C) * (d * e) = (m * d) * (C * D)
    <2>1. (y * C) * (d * e) = (y * e) * (C * d)
      BY <1>1
    <2>2. (m * D) * (C * d) = (m * d) * (C * D)
      BY <1>1
    <2> QED
      BY <1>1, <2>1, <2>2
  <1> DEFINE i == (y * C) * (d * e)
             j == (x * D) * (d * e)
  <1>7. i \in Int /\ j \in Int /\ i < j /\ j <= i
    BY <1>1, <1>3, <1>4, <1>5, <1>6
  <1> HIDE DEF i, j
  <1> QED
    BY <1>7

\* A clamped score is between 0 and 100.
LEMMA ClampIs ==
    ASSUME NEW num \in Int, NEW den \in Nat, den > 0
    PROVE  /\ clamp(Score(num, den)) \in Fraction
           /\ clamp(Score(num, den)).num <= 100 * clamp(Score(num, den)).den
           /\ num <= 0 => clamp(Score(num, den)).num = 0
           /\ num >= 100 * den => clamp(Score(num, den)).num = 100 * clamp(Score(num, den)).den
  <1> DEFINE r == clamp(Score(num, den))
  <1>1. CASE num < 0
    <2>1. r = [num |-> 0, den |-> 1]
      BY <1>1 DEF clamp, Score
    <2> HIDE DEF r
    <2>2. r \in Fraction /\ r.num = 0 /\ r.den = 1
      BY <2>1 DEF Fraction
    <2>3. ~(num >= 100 * den)
      BY <1>1
    <2> QED
      BY <2>2, <2>3 DEF r
  <1>2. CASE num > 100 * den
    <2>1. r = [num |-> 100, den |-> 1]
      BY <1>2 DEF clamp, Score
    <2> HIDE DEF r
    <2>2. r \in Fraction /\ r.num = 100 /\ r.den = 1
      BY <2>1 DEF Fraction
    <2>3. ~(num <= 0)
      BY <1>2
    <2> QED
      BY <2>2, <2>3 DEF r
  <1>3. CASE 0 <= num /\ num <= 100 * den
    <2>1. r = [num |-> num, den |-> den]
      BY <1>3 DEF clamp, Score
    <2> HIDE DEF r
    <2>2. r \in Fraction /\ r.num = num /\ r.den = den
      BY <1>3, <2>1 DEF Fraction
    <2> QED
      BY <1>3, <2>2 DEF r
  <1> QED
    BY <1>1, <1>2, <1>3

\* Clamping keeps the order.
LEMMA ClampMore ==
    ASSUME NEW num \in Int, NEW more \in Int, NEW den \in Nat, den > 0, num <= more
    PROVE  Below(clamp(Score(num, den)), clamp(Score(more, den)))
  <1> DEFINE p == clamp(Score(num, den))
             q == clamp(Score(more, den))
  <1>1. /\ p = IF num < 0 THEN [num |-> 0, den |-> 1]
               ELSE IF num > 100 * den THEN [num |-> 100, den |-> 1] ELSE [num |-> num, den |-> den]
        /\ q = IF more < 0 THEN [num |-> 0, den |-> 1]
               ELSE IF more > 100 * den THEN [num |-> 100, den |-> 1] ELSE [num |-> more, den |-> den]
    BY DEF clamp, Score
  <1> HIDE DEF p, q
  <1>2. CASE num < 0
    <2>1. p.num = 0 /\ p.den = 1
      BY <1>1, <1>2
    <2>2. q.num \in Nat /\ q.den \in Nat
      BY <1>1
    <2> QED
      BY <2>1, <2>2 DEF Below, p, q
  <1>3. CASE more > 100 * den
    <2>1. q.num = 100 /\ q.den = 1
      BY <1>1, <1>3
    <2>2. p.num \in Nat /\ p.den \in Nat /\ p.num <= 100 * p.den
      BY <1>1
    <2>3. p.num * 1 <= 100 * p.den
      BY <2>2
    <2> QED
      BY <2>1, <2>3 DEF Below, p, q
  <1>4. CASE 0 <= num /\ more <= 100 * den
    <2>1. p.num = num /\ p.den = den /\ q.num = more /\ q.den = den
      BY <1>1, <1>4
    <2>2. num * den <= more * den
      BY TimesLess
    <2> QED
      BY <2>1, <2>2 DEF Below, p, q
  <1> QED
    BY <1>2, <1>3, <1>4

\* Clamping keeps the order of fractions of any denominators.
LEMMA ClampAcross ==
    ASSUME NEW num \in Int, NEW more \in Int, NEW den \in Nat, den > 0, NEW den2 \in Nat, den2 > 0,
           num * den2 <= more * den
    PROVE  Below(clamp(Score(num, den)), clamp(Score(more, den2)))
  <1> DEFINE p == clamp(Score(num, den))
             q == clamp(Score(more, den2))
  <1>1. /\ p = IF num < 0 THEN [num |-> 0, den |-> 1]
               ELSE IF num > 100 * den THEN [num |-> 100, den |-> 1] ELSE [num |-> num, den |-> den]
        /\ q = IF more < 0 THEN [num |-> 0, den |-> 1]
               ELSE IF more > 100 * den2 THEN [num |-> 100, den |-> 1] ELSE [num |-> more, den |-> den2]
    BY DEF clamp, Score
  <1> HIDE DEF p, q
  <1>2. CASE num < 0
    <2>1. p.num = 0 /\ p.den = 1
      BY <1>1, <1>2
    <2>2. q.num \in Nat /\ q.den \in Nat
      BY <1>1
    <2> QED
      BY <2>1, <2>2 DEF Below, p, q
  <1>3. CASE more > 100 * den2
    <2>1. q.num = 100 /\ q.den = 1
      BY <1>1, <1>3
    <2>2. p.num \in Nat /\ p.den \in Nat /\ p.num <= 100 * p.den
      BY <1>1
    <2>3. p.num * 1 <= 100 * p.den
      BY <2>2
    <2> QED
      BY <2>1, <2>3 DEF Below, p, q
  <1>4. CASE 0 <= num /\ more <= 100 * den2
    <2>1. more >= 0
      <3>1. num * den2 >= 0
        BY <1>4, TimesNat
      <3>2. more < 0 => more * den < 0 * den
        BY TimesLess
      <3> QED
        BY <3>1, <3>2
    <2>2. num <= 100 * den
      <3>1. ASSUME num > 100 * den PROVE FALSE
        <4> DEFINE a == 100 * den
                   b == 100 * den2
        <4>1. a \in Int /\ b \in Int /\ a < num /\ more <= b /\ a * den2 = b * den
          BY <1>4, <3>1
        <4> HIDE DEF a, b
        <4>2. a * den2 < num * den2
          BY <4>1, TimesLess
        <4>3. more * den <= b * den
          BY <4>1, TimesLess
        <4> QED
          BY <4>1, <4>2, <4>3
      <3> QED
        BY <3>1
    <2>3. p.num = num /\ p.den = den /\ q.num = more /\ q.den = den2
      BY <1>1, <1>4, <2>1, <2>2
    <2> QED
      BY <2>3 DEF Below, p, q
  <1> QED
    BY <1>2, <1>3, <1>4

\* The sums that a total comes from.
LEMMA TotalSteps ==
    ASSUME NEW n \in Nat, NEW xs \in [1..n -> Int]
    PROVE  \E v \in [0..n -> Int] : v[0] = 0 /\ v[n] = Total(xs) /\ \A k \in 1..n : v[k] = v[k - 1] + xs[k]
  <1> DEFINE step == [x \in Int |-> [a \in Int |-> a + x]]
             zero == 0
  <1>1. step \in [Int -> [Int -> Int]] /\ \A x, a \in Int : step[x][a] = a + x
    OBVIOUS
  <1>2. zero \in Int
    OBVIOUS
  <1> HIDE DEF step, zero
  <1>3. PICK g \in [SUBSET (1..n) -> Int] : Solves(g, n, zero, step, xs)
    BY <1>1, <1>2, FoldExists, Zenon
  <1> DEFINE v == [k \in 0..n |-> g[1..k]]
  <1>4. v \in [0..n -> Int]
    <2>1. \A k \in 0..n : 1..k \in SUBSET (1..n)
      OBVIOUS
    <2> QED
      BY <2>1
  <1>5. v[0] = 0
    <2>1. {} \in SUBSET (1..n) /\ 1..0 = {} /\ 0 \in 0..n
      OBVIOUS
    <2> QED
      BY <1>3, <2>1 DEF Solves, zero
  <1>6. ASSUME NEW k \in 1..n PROVE v[k] = v[k - 1] + xs[k]
    <2>1. k \in Nat /\ k # 0 /\ k \in 0..n /\ k - 1 \in 0..n /\ 1..k \in SUBSET (1..n) /\ 1..(k - 1) \in SUBSET (1..n)
      OBVIOUS
    <2>2. Max(1..k) = k /\ (1..k) \ {k} = 1..(k - 1) /\ 1..k # {}
      BY <2>1, PrefixIs
    <2>3. g[1..k] = step[xs[k]][g[1..(k - 1)]]
      BY <1>3, <2>1, <2>2 DEF Solves
    <2>4. xs[k] \in Int /\ g[1..(k - 1)] \in Int
      BY <2>1
    <2>5. g[1..k] = g[1..(k - 1)] + xs[k]
      BY <1>1, <2>3, <2>4
    <2> QED
      BY <2>1, <2>5
  <1> HIDE DEF v
  <1>7. v[n] = Total(xs)
    BY <1>5, <1>6, TotalIs
  <1> QED
    BY <1>4, <1>5, <1>6, <1>7

\* A total grows with the values.
LEMMA TotalMore ==
    ASSUME NEW n \in Nat, NEW xs \in [1..n -> Int], NEW ys \in [1..n -> Int], \A i \in 1..n : xs[i] <= ys[i]
    PROVE  Total(xs) \in Int /\ Total(ys) \in Int /\ Total(xs) <= Total(ys)
  <1>1. PICK v \in [0..n -> Int] : v[0] = 0 /\ v[n] = Total(xs) /\ \A k \in 1..n : v[k] = v[k - 1] + xs[k]
    BY TotalSteps
  <1>2. PICK w \in [0..n -> Int] : w[0] = 0 /\ w[n] = Total(ys) /\ \A k \in 1..n : w[k] = w[k - 1] + ys[k]
    BY TotalSteps
  <1> DEFINE Less == {k \in 0..n : v[k] <= w[k]}
  <1>3. 0 \in Less
    BY <1>1, <1>2
  <1>4. ASSUME NEW k \in 0..(n - 1), k \in Less PROVE k + 1 \in Less
    <2>1. k + 1 \in 1..n /\ (k + 1) - 1 = k /\ k + 1 \in 0..n /\ k \in 0..n
      OBVIOUS
    <2>2. v[k + 1] = v[k] + xs[k + 1] /\ w[k + 1] = w[k] + ys[k + 1]
      BY <1>1, <1>2, <2>1
    <2>3. v[k] \in Int /\ w[k] \in Int /\ xs[k + 1] \in Int /\ ys[k + 1] \in Int /\ xs[k + 1] <= ys[k + 1] /\ v[k] <= w[k]
      BY <1>4, <2>1
    <2> QED
      BY <2>1, <2>2, <2>3
  <1>5. n \in Less
    <2>1. \A k \in 0..(n - 1) : k \in Less => k + 1 \in Less
      BY <1>4
    <2> HIDE DEF Less
    <2>2. \A k \in 0..n : k \in Less
      BY <1>3, <2>1, Induction
    <2> QED
      BY <2>2
  <1>6. n \in 0..n
    OBVIOUS
  <1> QED
    BY <1>1, <1>2, <1>5, <1>6

\* A further value adds to a total.
LEMMA TotalAppended ==
    ASSUME NEW xs \in Seq(Nat), NEW x \in Nat
    PROVE  Total(xs) \in Int /\ Total(Append(xs, x)) = Total(xs) + x
  <1> DEFINE n == Len(xs)
             ys == Append(xs, x)
             N == n + 1
  <1>1. /\ n \in Nat /\ N \in Nat /\ xs \in [1..n -> Int] /\ ys \in [1..N -> Int]
        /\ ys[N] = x /\ \A i \in 1..n : ys[i] = xs[i]
    <2>1. n \in Nat /\ xs \in [1..n -> Int] /\ ys[N] = x /\ \A i \in 1..n : ys[i] = xs[i]
      OBVIOUS
    <2>2. ys \in Seq(Nat) /\ Len(ys) = N
      OBVIOUS
    <2> HIDE DEF n, ys
    <2>3. ys \in [1..N -> Int]
      BY <2>2
    <2> QED
      BY <2>1, <2>3
  <1> HIDE DEF n, ys
  <1>2. PICK v \in [0..N -> Int] : v[0] = 0 /\ v[N] = Total(ys) /\ \A k \in 1..N : v[k] = v[k - 1] + ys[k]
    <2> HIDE DEF N
    <2> QED
      BY <1>1, TotalSteps
  <1> DEFINE w == [k \in 0..n |-> v[k]]
  <1>3. w \in [0..n -> Int] /\ w[0] = 0 /\ w[n] = v[n]
    BY <1>1, <1>2
  <1>4. ASSUME NEW k \in 1..n PROVE w[k] = w[k - 1] + xs[k]
    <2>1. k \in 1..N /\ k \in 0..n /\ k - 1 \in 0..n
      BY <1>1
    <2> QED
      BY <1>1, <1>2, <2>1
  <1> HIDE DEF w
  <1>5. w[n] = Total(xs)
    BY <1>1, <1>3, <1>4, TotalIs
  <1>6. v[N] = v[n] + x /\ v[n] \in Int
    <2>1. N \in 1..N /\ N - 1 = n /\ n \in 0..N
      BY <1>1
    <2> QED
      BY <1>1, <1>2, <2>1
  <1> QED
    BY <1>2, <1>3, <1>5, <1>6 DEF ys

\* A total against the number of values times a bound on twice each of them.
LEMMA TotalBound ==
    ASSUME NEW n \in Nat, NEW xs \in [1..n -> Int], NEW c \in Int
    PROVE  /\ (\A i \in 1..n : 2 * xs[i] <= c) => 2 * Total(xs) <= n * c
           /\ (\A i \in 1..n : 2 * xs[i] >= c) => 2 * Total(xs) >= n * c
  <1>1. PICK v \in [0..n -> Int] : v[0] = 0 /\ v[n] = Total(xs) /\ \A k \in 1..n : v[k] = v[k - 1] + xs[k]
    BY TotalSteps
  <1>2. ASSUME NEW k \in 0..(n - 1)
        PROVE  /\ k + 1 \in 1..n /\ k + 1 \in 0..n /\ k \in 0..n
               /\ v[k] \in Int /\ xs[k + 1] \in Int
               /\ v[k + 1] = v[k] + xs[k + 1]
               /\ (k + 1) * c = k * c + c /\ k * c \in Int
    <2>1. k + 1 \in 1..n /\ (k + 1) - 1 = k /\ k + 1 \in 0..n /\ k \in 0..n
      OBVIOUS
    <2>2. v[k + 1] = v[k] + xs[k + 1]
      BY <1>1, <2>1
    <2>3. (k + 1) * c = k * c + c /\ k * c \in Int
      OBVIOUS
    <2> QED
      BY <2>1, <2>2, <2>3
  <1>3. ASSUME \A i \in 1..n : 2 * xs[i] <= c PROVE 2 * Total(xs) <= n * c
    <2> DEFINE Good == {k \in 0..n : 2 * v[k] <= k * c}
    <2>1. 0 \in Good
      <3>1. 0 * c = 0 /\ 0 \in 0..n
        OBVIOUS
      <3> QED
        BY <1>1, <3>1
    <2>2. ASSUME NEW k \in 0..(n - 1), k \in Good PROVE k + 1 \in Good
      <3> DEFINE p == v[k]
                 q == xs[k + 1]
                 r == k * c
      <3>1. p \in Int /\ q \in Int /\ r \in Int /\ 2 * p <= r /\ 2 * q <= c
        BY <1>2, <1>3, <2>2
      <3> HIDE DEF p, q, r
      <3>2. 2 * (p + q) <= r + c
        BY <3>1
      <3> QED
        BY <1>2, <3>2 DEF p, q, r
    <2>3. \A k \in 0..(n - 1) : k \in Good => k + 1 \in Good
      BY <2>2
    <2> HIDE DEF Good
    <2>4. \A k \in 0..n : k \in Good
      BY <2>1, <2>3, Induction
    <2>5. n \in Good
      BY <2>4
    <2> QED
      BY <1>1, <2>5 DEF Good
  <1>4. ASSUME \A i \in 1..n : 2 * xs[i] >= c PROVE 2 * Total(xs) >= n * c
    <2> DEFINE Good == {k \in 0..n : 2 * v[k] >= k * c}
    <2>1. 0 \in Good
      <3>1. 0 * c = 0 /\ 0 \in 0..n
        OBVIOUS
      <3> QED
        BY <1>1, <3>1
    <2>2. ASSUME NEW k \in 0..(n - 1), k \in Good PROVE k + 1 \in Good
      <3> DEFINE p == v[k]
                 q == xs[k + 1]
                 r == k * c
      <3>1. p \in Int /\ q \in Int /\ r \in Int /\ 2 * p >= r /\ 2 * q >= c
        BY <1>2, <1>4, <2>2
      <3> HIDE DEF p, q, r
      <3>2. 2 * (p + q) >= r + c
        BY <3>1
      <3> QED
        BY <1>2, <3>2 DEF p, q, r
    <2>3. \A k \in 0..(n - 1) : k \in Good => k + 1 \in Good
      BY <2>2
    <2> HIDE DEF Good
    <2>4. \A k \in 0..n : k \in Good
      BY <2>1, <2>3, Induction
    <2>5. n \in Good
      BY <2>4
    <2> QED
      BY <1>1, <2>5 DEF Good
  <1> QED
    BY <1>3, <1>4

\* The highest value is one of them and none is above it.
LEMMA HighestIs ==
    ASSUME NEW xs \in Seq(Nat), Len(xs) > 0
    PROVE  /\ \E i \in 1..Len(xs) : Ranked(xs, Len(xs)) = xs[i]
           /\ \A i \in 1..Len(xs) : xs[i] <= Ranked(xs, Len(xs))
  <1> DEFINE n == Len(xs)
             v == Ranked(xs, n)
             Under == {i \in 1..n : xs[i] <= v}
  <1>1. n \in 1..Len(xs) /\ n \in Nat /\ n > 0
    OBVIOUS
  <1>2. (\E i \in 1..n : v = xs[i]) /\ n <= Cardinality(Under)
    <2> HIDE DEF n
    <2>1. /\ \E i \in 1..Len(xs) : Ranked(xs, n) = xs[i]
          /\ n <= Cardinality({i \in 1..Len(xs) : xs[i] <= Ranked(xs, n)})
      BY <1>1, RankedHas
    <2> QED
      BY <2>1 DEF n
  <1>3. Under \in SUBSET (1..n)
    OBVIOUS
  <1> HIDE DEF Under, v
  <1>4. IsFiniteSet(1..n) /\ Cardinality(1..n) = n
    <2> HIDE DEF n
    <2> DEFINE one == 1
    <2>1. one \in Int /\ n \in Int
      BY <1>1
    <2>2. IsFiniteSet(one..n) /\ Cardinality(one..n) = IF one > n THEN 0 ELSE n - one + 1
      BY <2>1, FS_Interval
    <2> QED
      BY <1>1, <2>2
  <1>5. Cardinality(Under) <= n /\ (Cardinality(Under) = n => Under = 1..n) /\ Cardinality(Under) \in Nat
    <2>1. IsFiniteSet(Under)
      BY <1>3, <1>4, FS_Subset
    <2>2. Cardinality(Under) \in Nat
      BY <2>1, FS_CardinalityType
    <2>3. Cardinality(Under) <= Cardinality(1..n) /\ (Cardinality(1..n) = Cardinality(Under) => 1..n = Under)
      BY <1>3, <1>4, FS_Subset
    <2> QED
      BY <1>4, <2>2, <2>3
  <1>6. Under = 1..n
    BY <1>1, <1>2, <1>5
  <1>7. \A i \in 1..n : xs[i] <= v
    BY <1>6 DEF Under
  <1> QED
    BY <1>2, <1>7 DEF v

Ft(p) == [weight |-> 40, facet |-> "ft", score |-> p]
Per(p) == [weight |-> 30, facet |-> "per", score |-> p]
Esc(p) == [weight |-> 20, facet |-> "esc", score |-> p]
Dc(p) == [weight |-> 10, facet |-> "dc", score |-> p]

\* The four sub-scores and their weights.
LEMMA SubsAre ==
    ASSUME NEW p \in Fraction
    PROVE  /\ Ft(p) \in Subs /\ Ft(p).weight = 40 /\ Ft(p).score = p /\ Ft(p).facet = "ft"
           /\ Per(p) \in Subs /\ Per(p).weight = 30 /\ Per(p).score = p /\ Per(p).facet = "per"
           /\ Esc(p) \in Subs /\ Esc(p).weight = 20 /\ Esc(p).score = p /\ Esc(p).facet = "esc"
           /\ Dc(p) \in Subs /\ Dc(p).weight = 10 /\ Dc(p).score = p /\ Dc(p).facet = "dc"
  <1>1. Ft(p) \in Subs /\ Ft(p).weight = 40 /\ Ft(p).score = p /\ Ft(p).facet = "ft"
    BY DEF Ft, Subs
  <1>2. Per(p) \in Subs /\ Per(p).weight = 30 /\ Per(p).score = p /\ Per(p).facet = "per"
    BY DEF Per, Subs
  <1>3. Esc(p) \in Subs /\ Esc(p).weight = 20 /\ Esc(p).score = p /\ Esc(p).facet = "esc"
    BY DEF Esc, Subs
  <1>4. Dc(p) \in Subs /\ Dc(p).weight = 10 /\ Dc(p).score = p /\ Dc(p).facet = "dc"
    BY DEF Dc, Subs
  <1> QED
    BY <1>1, <1>2, <1>3, <1>4

\* A score out of 100, over a common denominator.
Over(p, x, C) ==
    /\ p.num <= 100 * p.den => x <= 100 * C
    /\ p.num = 100 * p.den => x = 100 * C
    /\ p.num = 0 => x = 0

\* The grade of three sub-scores, and that of four.
ThreeGive(p, q, r, C, x, y, z) ==
    /\ C > 0 /\ Shares(Ft(p), x, C) /\ Shares(Per(q), y, C) /\ Shares(Esc(r), z, C)
    /\ Over(p, x, C) /\ Over(q, y, C) /\ Over(r, z, C)
    /\ compositeGrade({Ft(p), Per(q), Esc(r)}) = Rounded(40 * x + 30 * y + 20 * z, 90, C)

FourGive(p, q, r, s, C, x, y, z, u) ==
    /\ C > 0 /\ Shares(Ft(p), x, C) /\ Shares(Per(q), y, C)
    /\ Shares(Esc(r), z, C) /\ Shares(Dc(s), u, C)
    /\ Over(p, x, C) /\ Over(q, y, C) /\ Over(r, z, C) /\ Over(s, u, C)
    /\ compositeGrade({Ft(p), Per(q), Esc(r), Dc(s)}) =
           Rounded(40 * x + 30 * y + 20 * z + 10 * u, 100, C)

\* The grade of three scores exists as such a quotient,
LEMMA ThreeGiven ==
    ASSUME NEW p \in Fraction, NEW q \in Fraction, NEW r \in Fraction
    PROVE  \E C \in Nat, x \in Nat, y \in Nat, z \in Nat : ThreeGive(p, q, r, C, x, y, z)
  <1> DEFINE a == Ft(p)
             b == Per(q)
             c == Esc(r)
  <1>1. /\ a \in Subs /\ a.weight = 40 /\ a.score = p /\ a.facet = "ft"
        /\ b \in Subs /\ b.weight = 30 /\ b.score = q /\ b.facet = "per"
        /\ c \in Subs /\ c.weight = 20 /\ c.score = r /\ c.facet = "esc"
    BY SubsAre
  <1> HIDE DEF a, b, c
  <1>2. a.facet # b.facet /\ a.facet # c.facet /\ b.facet # c.facet
    BY <1>1
  <1>3. PICK C \in Nat, x \in Nat, y \in Nat, z \in Nat :
            /\ C > 0 /\ Shares(a, x, C) /\ Shares(b, y, C) /\ Shares(c, z, C)
            /\ compositeGrade({a, b, c}) =
                   Rounded(a.weight * x + b.weight * y + c.weight * z, a.weight + b.weight + c.weight, C)
    BY <1>1, <1>2, GradeOfThree
  <1>4. compositeGrade({a, b, c}) = Rounded(40 * x + 30 * y + 20 * z, 90, C)
    BY <1>1, <1>3
  <1>5. Over(p, x, C) /\ Over(q, y, C) /\ Over(r, z, C)
    BY <1>1, <1>3, ShareIn DEF Over
  <1> QED
    BY <1>3, <1>4, <1>5 DEF ThreeGive, a, b, c

\* and so does that of four.
LEMMA FourGiven ==
    ASSUME NEW p \in Fraction, NEW q \in Fraction, NEW r \in Fraction, NEW s \in Fraction
    PROVE  \E C \in Nat, x \in Nat, y \in Nat, z \in Nat, u \in Nat : FourGive(p, q, r, s, C, x, y, z, u)
  <1> DEFINE a == Ft(p)
             b == Per(q)
             c == Esc(r)
             d == Dc(s)
  <1>1. /\ a \in Subs /\ a.weight = 40 /\ a.score = p /\ a.facet = "ft"
        /\ b \in Subs /\ b.weight = 30 /\ b.score = q /\ b.facet = "per"
        /\ c \in Subs /\ c.weight = 20 /\ c.score = r /\ c.facet = "esc"
        /\ d \in Subs /\ d.weight = 10 /\ d.score = s /\ d.facet = "dc"
    BY SubsAre
  <1> HIDE DEF a, b, c, d
  <1>2. AreFour({a, b, c, d}, a, b, c, d)
    BY <1>1 DEF AreFour
  <1>0. PICK C \in Nat, x \in Nat, y \in Nat, z \in Nat, u \in Nat : GradedBy(a, b, c, d, C, x, y, z, u)
    BY <1>1, <1>2, GradeOfFour
  <1>3. /\ C > 0 /\ Shares(a, x, C) /\ Shares(b, y, C) /\ Shares(c, z, C) /\ Shares(d, u, C)
        /\ compositeGrade({a, b, c, d}) =
               Rounded(a.weight * x + b.weight * y + c.weight * z + d.weight * u,
                       a.weight + b.weight + c.weight + d.weight, C)
    BY <1>0 DEF GradedBy
  <1>4. compositeGrade({a, b, c, d}) = Rounded(40 * x + 30 * y + 20 * z + 10 * u, 100, C)
    BY <1>1, <1>3
  <1>5. Over(p, x, C) /\ Over(q, y, C) /\ Over(r, z, C) /\ Over(s, u, C)
    BY <1>1, <1>3, ShareIn DEF Over
  <1> QED
    BY <1>3, <1>4, <1>5 DEF FourGive, a, b, c, d

\* A score out of 100.
Percent == {p \in Fraction : p.num <= 100 * p.den}
IsFull(p) == p.num = 100 * p.den

\* Without a direction a grade is between 0 and 100, at most 40 when only the persistence
\* counts, and 100 when all three are full.
LEMMA GradeThree ==
    ASSUME NEW p \in Percent, NEW q \in Percent, NEW r \in Percent
    PROVE  LET grade == compositeGrade({Ft(p), Per(q), Esc(r)}) IN
           /\ grade \in 0..100
           /\ p.num = 0 /\ r.num = 0 => grade <= 40
           /\ IsFull(p) /\ IsFull(q) /\ IsFull(r) => grade = 100
  <1> DEFINE grade == compositeGrade({Ft(p), Per(q), Esc(r)})
  <1>1. p \in Fraction /\ q \in Fraction /\ r \in Fraction
    BY DEF Percent
  <1>0. PICK C \in Nat, x \in Nat, y \in Nat, z \in Nat : ThreeGive(p, q, r, C, x, y, z)
    BY <1>1, ThreeGiven
  <1>2. /\ C > 0 /\ Over(p, x, C) /\ Over(q, y, C) /\ Over(r, z, C)
        /\ grade = Rounded(40 * x + 30 * y + 20 * z, 90, C)
    BY <1>0 DEF ThreeGive
  <1> DEFINE sum == 40 * x + 30 * y + 20 * z
             w == 90
  <1>3. x <= 100 * C /\ y <= 100 * C /\ z <= 100 * C
    BY <1>2 DEF Percent, Over
  <1>4. sum \in Nat /\ w \in Nat /\ w > 0 /\ w * C = 90 * C
    OBVIOUS
  <1> HIDE DEF grade
  <1>5. grade = Rounded(sum, w, C)
    BY <1>2
  <1> DEFINE zero == 0
             forty == 40
             hundred == 100
  <1>6. zero \in Nat /\ forty \in Nat /\ hundred \in Nat
    OBVIOUS
  <1>7. zero * (w * C) <= sum /\ sum <= hundred * (w * C)
    BY <1>3
  <1>8. p.num = 0 /\ r.num = 0 => sum <= forty * (w * C)
    <2> SUFFICES ASSUME p.num = 0, r.num = 0 PROVE sum <= forty * (w * C)
      OBVIOUS
    <2>1. x = 0 /\ z = 0
      BY <1>2 DEF Over
    <2> QED
      BY <1>3, <2>1
  <1>9. IsFull(p) /\ IsFull(q) /\ IsFull(r) => hundred * (w * C) <= sum
    <2> SUFFICES ASSUME IsFull(p), IsFull(q), IsFull(r) PROVE hundred * (w * C) <= sum
      OBVIOUS
    <2>1. x = 100 * C /\ y = 100 * C /\ z = 100 * C
      BY <1>2 DEF Over, IsFull
    <2> QED
      BY <2>1
  <1> HIDE DEF sum, w, zero, forty, hundred
  <1>13. C > 0
    BY <1>2
  <1>10. LET g == Rounded(sum, w, C) IN g \in Nat /\ zero <= g /\ g <= hundred
    BY <1>4, <1>6, <1>7, <1>13, RoundedIs
  <1>11. p.num = 0 /\ r.num = 0 => Rounded(sum, w, C) <= forty
    BY <1>4, <1>6, <1>7, <1>8, <1>13, RoundedIs
  <1>12. IsFull(p) /\ IsFull(q) /\ IsFull(r) => hundred <= Rounded(sum, w, C)
    BY <1>4, <1>6, <1>7, <1>9, <1>13, RoundedIs
  <1> QED
    BY <1>5, <1>10, <1>11, <1>12 DEF zero, forty, hundred, grade

\* With one it is between 0 and 100, at most 40 when the mean and the peak are nothing,
\* and 90 or more when the three are full.
LEMMA GradeFour ==
    ASSUME NEW p \in Percent, NEW q \in Percent, NEW r \in Percent, NEW s \in Percent
    PROVE  LET grade == compositeGrade({Ft(p), Per(q), Esc(r), Dc(s)}) IN
           /\ grade \in 0..100
           /\ p.num = 0 /\ r.num = 0 => grade <= 40
           /\ IsFull(p) /\ IsFull(q) /\ IsFull(r) => grade >= 90
  <1> DEFINE grade == compositeGrade({Ft(p), Per(q), Esc(r), Dc(s)})
  <1>1. p \in Fraction /\ q \in Fraction /\ r \in Fraction /\ s \in Fraction
    BY DEF Percent
  <1>0. PICK C \in Nat, x \in Nat, y \in Nat, z \in Nat, u \in Nat : FourGive(p, q, r, s, C, x, y, z, u)
    BY <1>1, FourGiven
  <1>2. /\ C > 0 /\ Over(p, x, C) /\ Over(q, y, C) /\ Over(r, z, C) /\ Over(s, u, C)
        /\ grade = Rounded(40 * x + 30 * y + 20 * z + 10 * u, 100, C)
    BY <1>0 DEF FourGive
  <1> DEFINE sum == 40 * x + 30 * y + 20 * z + 10 * u
             w == 100
  <1>3. x <= 100 * C /\ y <= 100 * C /\ z <= 100 * C /\ u <= 100 * C
    BY <1>2 DEF Percent, Over
  <1>4. sum \in Nat /\ w \in Nat /\ w > 0 /\ w * C = 100 * C
    OBVIOUS
  <1> HIDE DEF grade
  <1>5. grade = Rounded(sum, w, C)
    BY <1>2
  <1> DEFINE zero == 0
             forty == 40
             ninety == 90
             hundred == 100
  <1>6. zero \in Nat /\ forty \in Nat /\ ninety \in Nat /\ hundred \in Nat
    OBVIOUS
  <1>7. zero * (w * C) <= sum /\ sum <= hundred * (w * C)
    BY <1>3
  <1>8. p.num = 0 /\ r.num = 0 => sum <= forty * (w * C)
    <2> SUFFICES ASSUME p.num = 0, r.num = 0 PROVE sum <= forty * (w * C)
      OBVIOUS
    <2>1. x = 0 /\ z = 0
      BY <1>2 DEF Over
    <2> QED
      BY <1>3, <2>1
  <1>9. IsFull(p) /\ IsFull(q) /\ IsFull(r) => ninety * (w * C) <= sum
    <2> SUFFICES ASSUME IsFull(p), IsFull(q), IsFull(r) PROVE ninety * (w * C) <= sum
      OBVIOUS
    <2>1. x = 100 * C /\ y = 100 * C /\ z = 100 * C
      BY <1>2 DEF Over, IsFull
    <2> QED
      BY <2>1
  <1> HIDE DEF sum, w, zero, forty, ninety, hundred
  <1>13. C > 0
    BY <1>2
  <1>10. LET g == Rounded(sum, w, C) IN g \in Nat /\ zero <= g /\ g <= hundred
    BY <1>4, <1>6, <1>7, <1>13, RoundedIs
  <1>11. p.num = 0 /\ r.num = 0 => Rounded(sum, w, C) <= forty
    BY <1>4, <1>6, <1>7, <1>8, <1>13, RoundedIs
  <1>12. IsFull(p) /\ IsFull(q) /\ IsFull(r) => ninety <= Rounded(sum, w, C)
    BY <1>4, <1>6, <1>7, <1>9, <1>13, RoundedIs
  <1> QED
    BY <1>5, <1>10, <1>11, <1>12 DEF zero, forty, ninety, hundred, grade

\* Higher scores make no lower grade, without a direction
LEMMA MoreThree ==
    ASSUME NEW p \in Fraction, NEW q \in Fraction, NEW r \in Fraction,
           NEW p2 \in Fraction, NEW q2 \in Fraction, NEW r2 \in Fraction,
           Below(p, p2), Below(q, q2), Below(r, r2)
    PROVE  compositeGrade({Ft(p), Per(q), Esc(r)}) <=
           compositeGrade({Ft(p2), Per(q2), Esc(r2)})
  <1>1. PICK C \in Nat, x \in Nat, y \in Nat, z \in Nat : ThreeGive(p, q, r, C, x, y, z)
    BY ThreeGiven
  <1>2. PICK D \in Nat, x2 \in Nat, y2 \in Nat, z2 \in Nat : ThreeGive(p2, q2, r2, D, x2, y2, z2)
    BY ThreeGiven
  <1>3. x * D <= x2 * C
    <2> DEFINE a == Ft(p)
               b == Ft(p2)
    <2>1. Shares(a, x, C) /\ Shares(b, x2, D)
      BY <1>1, <1>2 DEF ThreeGive
    <2>2. a \in Subs /\ b \in Subs /\ a.score = p /\ b.score = p2
      BY SubsAre
    <2> HIDE DEF a, b
    <2>3. Below(a.score, b.score)
      BY <2>2
    <2> QED
      BY <2>1, <2>2, <2>3, ShareMore
  <1>4. y * D <= y2 * C
    <2> DEFINE a == Per(q)
               b == Per(q2)
    <2>1. Shares(a, y, C) /\ Shares(b, y2, D)
      BY <1>1, <1>2 DEF ThreeGive
    <2>2. a \in Subs /\ b \in Subs /\ a.score = q /\ b.score = q2
      BY SubsAre
    <2> HIDE DEF a, b
    <2>3. Below(a.score, b.score)
      BY <2>2
    <2> QED
      BY <2>1, <2>2, <2>3, ShareMore
  <1>5. z * D <= z2 * C
    <2> DEFINE a == Esc(r)
               b == Esc(r2)
    <2>1. Shares(a, z, C) /\ Shares(b, z2, D)
      BY <1>1, <1>2 DEF ThreeGive
    <2>2. a \in Subs /\ b \in Subs /\ a.score = r /\ b.score = r2
      BY SubsAre
    <2> HIDE DEF a, b
    <2>3. Below(a.score, b.score)
      BY <2>2
    <2> QED
      BY <2>1, <2>2, <2>3, ShareMore
  <1> DEFINE i == 40 * x + 30 * y + 20 * z
             j == 40 * x2 + 30 * y2 + 20 * z2
             w == 90
  <1>6. i * D <= j * C
    <2>1. /\ i * D = 40 * (x * D) + 30 * (y * D) + 20 * (z * D)
          /\ j * C = 40 * (x2 * C) + 30 * (y2 * C) + 20 * (z2 * C)
      OBVIOUS
    <2> QED
      BY <1>3, <1>4, <1>5, <2>1
  <1>7. i \in Nat /\ j \in Nat /\ w \in Nat /\ w > 0 /\ C > 0 /\ D > 0
    BY <1>1, <1>2 DEF ThreeGive
  <1>8. /\ compositeGrade({Ft(p), Per(q), Esc(r)}) = Rounded(i, w, C)
        /\ compositeGrade({Ft(p2), Per(q2), Esc(r2)}) = Rounded(j, w, D)
    BY <1>1, <1>2 DEF ThreeGive
  <1> HIDE DEF i, j, w
  <1>9. Rounded(i, w, C) <= Rounded(j, w, D)
    BY <1>6, <1>7, RoundedMonotone
  <1> QED
    BY <1>8, <1>9

\* and with one.
LEMMA MoreFour ==
    ASSUME NEW p \in Fraction, NEW q \in Fraction, NEW r \in Fraction, NEW s \in Fraction,
           NEW p2 \in Fraction, NEW q2 \in Fraction, NEW r2 \in Fraction,
           Below(p, p2), Below(q, q2), Below(r, r2)
    PROVE  compositeGrade({Ft(p), Per(q), Esc(r), Dc(s)}) <=
           compositeGrade({Ft(p2), Per(q2), Esc(r2), Dc(s)})
  <1>1. PICK C \in Nat, x \in Nat, y \in Nat, z \in Nat, u \in Nat : FourGive(p, q, r, s, C, x, y, z, u)
    BY FourGiven
  <1>2. PICK D \in Nat, x2 \in Nat, y2 \in Nat, z2 \in Nat, u2 \in Nat : FourGive(p2, q2, r2, s, D, x2, y2, z2, u2)
    BY FourGiven
  <1>3. x * D <= x2 * C
    <2> DEFINE a == Ft(p)
               b == Ft(p2)
    <2>1. Shares(a, x, C) /\ Shares(b, x2, D)
      BY <1>1, <1>2 DEF FourGive
    <2>2. a \in Subs /\ b \in Subs /\ a.score = p /\ b.score = p2
      BY SubsAre
    <2> HIDE DEF a, b
    <2>3. Below(a.score, b.score)
      BY <2>2
    <2> QED
      BY <2>1, <2>2, <2>3, ShareMore
  <1>4. y * D <= y2 * C
    <2> DEFINE a == Per(q)
               b == Per(q2)
    <2>1. Shares(a, y, C) /\ Shares(b, y2, D)
      BY <1>1, <1>2 DEF FourGive
    <2>2. a \in Subs /\ b \in Subs /\ a.score = q /\ b.score = q2
      BY SubsAre
    <2> HIDE DEF a, b
    <2>3. Below(a.score, b.score)
      BY <2>2
    <2> QED
      BY <2>1, <2>2, <2>3, ShareMore
  <1>5. z * D <= z2 * C
    <2> DEFINE a == Esc(r)
               b == Esc(r2)
    <2>1. Shares(a, z, C) /\ Shares(b, z2, D)
      BY <1>1, <1>2 DEF FourGive
    <2>2. a \in Subs /\ b \in Subs /\ a.score = r /\ b.score = r2
      BY SubsAre
    <2> HIDE DEF a, b
    <2>3. Below(a.score, b.score)
      BY <2>2
    <2> QED
      BY <2>1, <2>2, <2>3, ShareMore
  <1>6. u * D <= u2 * C
    <2> DEFINE a == Dc(s)
               b == Dc(s)
    <2>1. Shares(a, u, C) /\ Shares(b, u2, D)
      BY <1>1, <1>2 DEF FourGive
    <2>2. a \in Subs /\ b \in Subs /\ a.score = s /\ b.score = s
      BY SubsAre
    <2> HIDE DEF a, b
    <2>4. Below(s, s)
      BY FractionIs DEF Below
    <2>3. Below(a.score, b.score)
      BY <2>2, <2>4
    <2> QED
      BY <2>1, <2>2, <2>3, ShareMore
  <1> DEFINE i == 40 * x + 30 * y + 20 * z + 10 * u
             j == 40 * x2 + 30 * y2 + 20 * z2 + 10 * u2
             w == 100
  <1>7. i * D <= j * C
    <2>1. /\ i * D = 40 * (x * D) + 30 * (y * D) + 20 * (z * D) + 10 * (u * D)
          /\ j * C = 40 * (x2 * C) + 30 * (y2 * C) + 20 * (z2 * C) + 10 * (u2 * C)
      OBVIOUS
    <2> QED
      BY <1>3, <1>4, <1>5, <1>6, <2>1
  <1>8. i \in Nat /\ j \in Nat /\ w \in Nat /\ w > 0 /\ C > 0 /\ D > 0
    BY <1>1, <1>2 DEF FourGive
  <1>9. /\ compositeGrade({Ft(p), Per(q), Esc(r), Dc(s)}) = Rounded(i, w, C)
        /\ compositeGrade({Ft(p2), Per(q2), Esc(r2), Dc(s)}) = Rounded(j, w, D)
    BY <1>1, <1>2 DEF FourGive
  <1> HIDE DEF i, j, w
  <1>10. Rounded(i, w, C) <= Rounded(j, w, D)
    BY <1>7, <1>8, RoundedMonotone
  <1> QED
    BY <1>9, <1>10

-----------------------------------------------------------------------------
(* The sub-scores.                                                         *)

\* A clamped score, by the fraction that it is made of.
LEMMA ClampedIs ==
    ASSUME NEW num \in Int, NEW den \in Nat, den > 0
    PROVE  /\ clamp(Score(num, den)) \in Percent
           /\ num <= 0 => clamp(Score(num, den)).num = 0
           /\ num >= 100 * den => IsFull(clamp(Score(num, den)))
  BY ClampIs DEF Percent, IsFull

\* What a sequence of values consists of.
LEMMA SeqIs ==
    ASSUME NEW xs \in Seq(Nat), Len(xs) > 0
    PROVE  /\ Len(xs) \in Nat /\ xs \in [1..Len(xs) -> Int] /\ DOMAIN xs = 1..Len(xs)
           /\ \A i \in 1..Len(xs) : xs[i] \in Nat
           /\ Total(xs) \in Int
  <1> DEFINE n == Len(xs)
  <1>1. n \in Nat /\ xs \in [1..n -> Int] /\ DOMAIN xs = 1..n /\ \A i \in 1..n : xs[i] \in Nat
    OBVIOUS
  <1> HIDE DEF n
  <1>2. \A i \in 1..n : xs[i] <= xs[i]
    BY <1>1
  <1>3. Total(xs) \in Int
    BY <1>1, <1>2, TotalMore
  <1> QED
    BY <1>1, <1>3 DEF n

\* The mean over twice the median m.
LEMMA FtIs ==
    ASSUME NEW xs \in Seq(Nat), Len(xs) > 0, NEW m \in Nat, m > 0
    PROVE  /\ ftSub(xs, m) \in Percent
           /\ (\A i \in 1..Len(xs) : 2 * xs[i] <= m) => ftSub(xs, m).num = 0
           /\ (\A i \in 1..Len(xs) : 2 * xs[i] >= 3 * m) => IsFull(ftSub(xs, m))
  <1> DEFINE n == Len(xs)
             t == Total(xs)
             den == n * m
             num == 100 * (2 * t - den)
  <1>1. n \in Nat /\ n > 0 /\ t \in Int /\ xs \in [1..n -> Int] /\ \A i \in 1..n : xs[i] \in Nat
    BY SeqIs
  <1>2. ftSub(xs, m) = clamp(Score(num, den))
    BY DEF ftSub
  <1>3. den \in Nat /\ den > 0
    <2> HIDE DEF n
    <2> QED
      BY <1>1, TimesNat
  <1>4. (\A i \in 1..n : 2 * xs[i] <= m) => 2 * t <= den
    <2> DEFINE c == m
    <2>1. c \in Int /\ n * c = den
      BY <1>1
    <2> HIDE DEF n, c, den
    <2>2. (\A i \in 1..n : 2 * xs[i] <= c) => 2 * t <= n * c
      BY <1>1, <2>1, TotalBound
    <2> QED
      BY <2>1, <2>2 DEF c
  <1>5. (\A i \in 1..n : 2 * xs[i] >= 3 * m) => 2 * t >= 3 * den
    <2> DEFINE c == 3 * m
    <2>1. c \in Int /\ n * c = 3 * den
      BY <1>1
    <2> HIDE DEF n, c, den
    <2>2. (\A i \in 1..n : 2 * xs[i] >= c) => 2 * t >= n * c
      BY <1>1, <2>1, TotalBound
    <2> QED
      BY <2>1, <2>2 DEF c
  <1> HIDE DEF n, t, den
  <1>6. num \in Int /\ (2 * t <= den => num <= 0) /\ (2 * t >= 3 * den => num >= 100 * den)
    BY <1>1, <1>3
  <1> HIDE DEF num
  <1>7. /\ clamp(Score(num, den)) \in Percent
        /\ num <= 0 => clamp(Score(num, den)).num = 0
        /\ num >= 100 * den => IsFull(clamp(Score(num, den)))
    BY <1>3, <1>6, ClampedIs
  <1> QED
    BY <1>2, <1>4, <1>5, <1>6, <1>7 DEF n

\* It grows with the values.
LEMMA FtMore ==
    ASSUME NEW xs \in Seq(Nat), NEW ys \in Seq(Nat), Len(xs) > 0, Len(ys) = Len(xs), NEW m \in Nat, m > 0,
           \A i \in 1..Len(xs) : xs[i] <= ys[i]
    PROVE  Below(ftSub(xs, m), ftSub(ys, m))
  <1> DEFINE n == Len(xs)
             s == Total(xs)
             t == Total(ys)
             den == n * m
             a == 100 * (2 * s - den)
             b == 100 * (2 * t - den)
  <1>1. n \in Nat /\ n > 0 /\ xs \in [1..n -> Int] /\ ys \in [1..n -> Int] /\ \A i \in 1..n : xs[i] <= ys[i]
    BY SeqIs
  <1>2. ftSub(xs, m) = clamp(Score(a, den)) /\ ftSub(ys, m) = clamp(Score(b, den))
    BY DEF ftSub
  <1> HIDE DEF n
  <1>3. den \in Nat /\ den > 0
    BY <1>1, TimesNat
  <1>4. s \in Int /\ t \in Int /\ s <= t
    BY <1>1, TotalMore
  <1> HIDE DEF den, s, t
  <1>5. a \in Int /\ b \in Int /\ a <= b
    BY <1>3, <1>4
  <1> HIDE DEF a, b
  <1> QED
    BY <1>2, <1>3, <1>5, ClampMore

\* A further value as high as any does not lower the mean.
LEMMA FtFurther ==
    ASSUME NEW xs \in Seq(Nat), Len(xs) > 0, NEW m \in Nat, m > 0,
           NEW x \in Nat, \A i \in 1..Len(xs) : xs[i] <= x
    PROVE  Below(ftSub(xs, m), ftSub(Append(xs, x), m))
  <1> DEFINE n == Len(xs)
             N == n + 1
             s == Total(xs)
             ys == Append(xs, x)
             d == n * m
             e == N * m
             a == 100 * (2 * s - d)
             b == 100 * (2 * (s + x) - e)
  <1>1. n \in Nat /\ n > 0 /\ xs \in [1..n -> Int] /\ \A i \in 1..n : xs[i] \in Nat /\ xs[i] <= x
    BY SeqIs
  <1>2. N \in Nat /\ N > 0 /\ Len(ys) = N
    BY <1>1
  <1>3. s \in Int /\ Total(ys) = s + x
    BY TotalAppended
  <1>4. ftSub(xs, m) = clamp(Score(a, d)) /\ ftSub(ys, m) = clamp(Score(b, e))
    BY <1>2, <1>3 DEF ftSub
  <1> HIDE DEF s, ys
  <1>5. s <= n * x
    <2> DEFINE c == 2 * x
    <2>1. c \in Int /\ (\A i \in 1..n : 2 * xs[i] <= c) /\ n * c = 2 * (n * x) /\ n * x \in Int
      BY <1>1
    <2> HIDE DEF n, c
    <2>2. 2 * s <= n * c
      BY <1>1, <2>1, TotalBound DEF s
    <2> QED
      BY <1>3, <2>1, <2>2
  <1> HIDE DEF n
  <1>6. d \in Nat /\ d > 0 /\ e \in Nat /\ e > 0 /\ e = d + m
    <2>1. d \in Nat /\ d > 0
      BY <1>1, TimesNat
    <2>2. e = d + m
      BY <1>1
    <2> QED
      BY <2>1, <2>2
  <1>7. a \in Int /\ b \in Int
    BY <1>3, <1>6
  <1>8. a * e <= b * d
    <2> DEFINE u == 2 * s - d
               y == 2 * x - m
               t == n * y
    <2>1. u \in Int /\ y \in Int /\ t \in Int /\ u <= t
      <3>1. t = 2 * (n * x) - n * m /\ n * x \in Int /\ n * m \in Int
        BY <1>1
      <3> QED
        BY <1>1, <1>3, <1>5, <1>6, <3>1
    <2>2. a = 100 * u /\ b = 100 * (u + y)
      BY <1>3, <1>6
    <2> HIDE DEF a, b, u, d, e
    <2>3. y * d = t * m
      <3>1. y * (n * m) = (n * y) * m
        BY <1>1, <2>1
      <3> QED
        BY <3>1 DEF d
    <2> HIDE DEF y, t, N
    <2>4. u * m <= t * m
      BY <2>1, TimesLess
    <2>5. u * e = u * d + u * m
      BY <1>6, <2>1
    <2>6. (u + y) * d = u * d + y * d
      BY <1>6, <2>1
    <2>7. u * d \in Int /\ u * m \in Int /\ y * d \in Int /\ u * e \in Int /\ (u + y) * d \in Int
      BY <1>6, <2>1
    <2>8. u * e <= (u + y) * d
      BY <2>3, <2>4, <2>5, <2>6, <2>7
    <2>9. a * e = 100 * (u * e) /\ b * d = 100 * ((u + y) * d)
      BY <1>6, <2>1, <2>2
    <2> DEFINE f == u * e
               g == (u + y) * d
    <2> HIDE DEF f, g
    <2>10. 100 * f <= 100 * g
      BY <2>7, <2>8 DEF f, g
    <2> QED
      BY <2>9, <2>10 DEF f, g
  <1> HIDE DEF a, b, d, e, N
  <1> QED
    BY <1>4, <1>6, <1>7, <1>8, ClampAcross DEF ys

\* The peak.
LEMMA EscIs ==
    ASSUME NEW xs \in Seq(Nat), Len(xs) > 0, NEW m \in Nat, m > 0
    PROVE  /\ escSub(xs, m) \in Percent
           /\ (\A i \in 1..Len(xs) : 2 * xs[i] <= m) => escSub(xs, m).num = 0
           /\ (\A i \in 1..Len(xs) : 2 * xs[i] >= 3 * m) => IsFull(escSub(xs, m))
  <1> DEFINE n == Len(xs)
             v == Ranked(xs, n)
             den == 2 * m
             num == 100 * (2 * v - m)
  <1>1. escSub(xs, m) = clamp(Score(num, den))
    BY DEF escSub
  <1>2. PICK i \in 1..n : v = xs[i]
    BY HighestIs
  <1>3. v \in Nat
    BY <1>2
  <1> HIDE DEF v
  <1>4. num \in Int /\ den \in Nat /\ den > 0
    BY <1>3
  <1>5. (2 * v <= m => num <= 0) /\ (2 * v >= 3 * m => num >= 100 * den)
    BY <1>3
  <1> HIDE DEF num, den
  <1>6. /\ clamp(Score(num, den)) \in Percent
        /\ num <= 0 => clamp(Score(num, den)).num = 0
        /\ num >= 100 * den => IsFull(clamp(Score(num, den)))
    BY <1>4, ClampedIs
  <1> QED
    BY <1>1, <1>2, <1>5, <1>6

\* It grows with the values.
LEMMA EscMore ==
    ASSUME NEW xs \in Seq(Nat), NEW ys \in Seq(Nat), Len(xs) > 0, Len(ys) = Len(xs), NEW m \in Nat, m > 0,
           \A i \in 1..Len(xs) : xs[i] <= ys[i]
    PROVE  Below(escSub(xs, m), escSub(ys, m))
  <1> DEFINE n == Len(xs)
             v == Ranked(xs, n)
             w == Ranked(ys, n)
             den == 2 * m
             a == 100 * (2 * v - m)
             b == 100 * (2 * w - m)
  <1>1. escSub(xs, m) = clamp(Score(a, den)) /\ escSub(ys, m) = clamp(Score(b, den))
    BY DEF escSub
  <1>2. PICK i \in 1..n : v = xs[i]
    BY HighestIs
  <1>3. PICK j \in 1..n : w = ys[j]
    BY HighestIs
  <1>4. ys[i] <= w
    BY HighestIs
  <1>5. xs[i] \in Nat /\ ys[i] \in Nat /\ xs[i] <= ys[i] /\ v \in Nat /\ w \in Nat
    BY <1>2, <1>3
  <1>6. v <= w
    BY <1>2, <1>4, <1>5
  <1> HIDE DEF v, w
  <1>7. a \in Int /\ b \in Int /\ a <= b /\ den \in Nat /\ den > 0
    BY <1>5, <1>6
  <1> HIDE DEF a, b, den
  <1> QED
    BY <1>1, <1>7, ClampMore

\* A further value does not lower the peak.
LEMMA EscFurther ==
    ASSUME NEW xs \in Seq(Nat), Len(xs) > 0, NEW m \in Nat, m > 0, NEW x \in Nat
    PROVE  Below(escSub(xs, m), escSub(Append(xs, x), m))
  <1> DEFINE ys == Append(xs, x)
             v == Ranked(xs, Len(xs))
             w == Ranked(ys, Len(ys))
             den == 2 * m
             a == 100 * (2 * v - m)
             b == 100 * (2 * w - m)
  <1>1. escSub(xs, m) = clamp(Score(a, den)) /\ escSub(ys, m) = clamp(Score(b, den))
    BY DEF escSub
  <1>2. ys \in Seq(Nat) /\ Len(ys) > 0 /\ \A i \in 1..Len(xs) : i \in 1..Len(ys) /\ ys[i] = xs[i]
    OBVIOUS
  <1> HIDE DEF ys
  <1>3. PICK i \in 1..Len(xs) : v = xs[i]
    BY HighestIs
  <1>4. PICK j \in 1..Len(ys) : w = ys[j]
    BY <1>2, HighestIs
  <1>5. ys[i] <= w
    BY <1>2, HighestIs
  <1>6. v \in Nat /\ w \in Nat /\ v <= w
    BY <1>2, <1>3, <1>4, <1>5
  <1> HIDE DEF v, w
  <1>7. a \in Int /\ b \in Int /\ a <= b /\ den \in Nat /\ den > 0
    BY <1>6
  <1> HIDE DEF a, b, den
  <1> QED
    BY <1>1, <1>7, ClampMore DEF ys

\* The share of the values at the median or above.
Lasting(xs, m) == {i \in DOMAIN xs : 2 * xs[i] >= m}

\* They are no more than all the values.
LEMMA LastingIs ==
    ASSUME NEW xs \in Seq(Nat), NEW m \in Nat
    PROVE  /\ Lasting(xs, m) \in SUBSET (1..Len(xs)) /\ IsFiniteSet(Lasting(xs, m))
           /\ Cardinality(Lasting(xs, m)) \in Nat /\ Cardinality(Lasting(xs, m)) <= Len(xs)
           /\ Lasting(xs, m) = 1..Len(xs) => Cardinality(Lasting(xs, m)) = Len(xs)
  <1> DEFINE n == Len(xs)
             one == 1
             S == Lasting(xs, m)
  <1>1. n \in Nat /\ S \in SUBSET (1..n)
    BY DEF Lasting
  <1> HIDE DEF n, one, S
  <1>2. IsFiniteSet(1..n) /\ Cardinality(1..n) = n
    <2>1. one \in Int /\ n \in Int
      BY <1>1 DEF one
    <2>2. IsFiniteSet(one..n) /\ Cardinality(one..n) = IF one > n THEN 0 ELSE n - one + 1
      BY <2>1, FS_Interval
    <2> QED
      BY <1>1, <2>2 DEF one
  <1>3. IsFiniteSet(S) /\ Cardinality(S) <= Cardinality(1..n)
    BY <1>1, <1>2, FS_Subset
  <1>4. Cardinality(S) \in Nat
    BY <1>3, FS_CardinalityType
  <1> QED
    BY <1>1, <1>2, <1>3, <1>4 DEF S, n

\* The persistence.
LEMMA PerIs ==
    ASSUME NEW xs \in Seq(Nat), Len(xs) > 0, NEW m \in Nat, m > 0
    PROVE  /\ perSub(xs, m) \in Percent
           /\ (\A i \in 1..Len(xs) : 2 * xs[i] >= 3 * m) => IsFull(perSub(xs, m))
  <1> DEFINE n == Len(xs)
             k == Cardinality(Lasting(xs, m))
             p == perSub(xs, m)
  <1>1. p = [num |-> 100 * k, den |-> n]
    BY DEF perSub, Score, Lasting
  <1>2. n \in Nat /\ n > 0 /\ k \in Nat /\ k <= n /\ (Lasting(xs, m) = 1..n => k = n)
    BY LastingIs
  <1>3. (\A i \in 1..n : 2 * xs[i] >= 3 * m) => Lasting(xs, m) = 1..n
    <2> SUFFICES ASSUME \A i \in 1..n : 2 * xs[i] >= 3 * m PROVE Lasting(xs, m) = 1..n
      OBVIOUS
    <2>1. ASSUME NEW i \in 1..n PROVE 2 * xs[i] >= m
      <3>1. xs[i] \in Nat /\ 2 * xs[i] >= 3 * m
        OBVIOUS
      <3> QED
        BY <3>1
    <2> QED
      BY <2>1 DEF Lasting
  <1> HIDE DEF n, k, p
  <1>4. p.num = 100 * k /\ p.den = n /\ p \in Fraction
    BY <1>1, <1>2 DEF Fraction
  <1>5. p \in Percent /\ (k = n => IsFull(p))
    BY <1>2, <1>4 DEF Percent, IsFull
  <1> QED
    BY <1>2, <1>3, <1>5 DEF p, n

\* It grows with the values.
LEMMA PerMore ==
    ASSUME NEW xs \in Seq(Nat), NEW ys \in Seq(Nat), Len(xs) > 0, Len(ys) = Len(xs), NEW m \in Nat, m > 0,
           \A i \in 1..Len(xs) : xs[i] <= ys[i]
    PROVE  Below(perSub(xs, m), perSub(ys, m))
  <1> DEFINE n == Len(xs)
             S == Lasting(xs, m)
             T == Lasting(ys, m)
             k == Cardinality(S)
             l == Cardinality(T)
             p == perSub(xs, m)
             q == perSub(ys, m)
  <1>1. p = [num |-> 100 * k, den |-> n] /\ q = [num |-> 100 * l, den |-> n]
    BY DEF perSub, Score, Lasting
  <1>2. n \in Nat /\ n > 0 /\ k \in Nat /\ l \in Nat /\ IsFiniteSet(T)
    <2>1. n \in Nat /\ n > 0
      OBVIOUS
    <2>2. k \in Nat
      BY LastingIs
    <2>3. l \in Nat /\ IsFiniteSet(T)
      BY LastingIs
    <2> QED
      BY <2>1, <2>2, <2>3
  <1>3. S \in SUBSET T
    <2>1. ASSUME NEW i \in 1..n PROVE 2 * xs[i] >= m => 2 * ys[i] >= m
      <3>1. xs[i] \in Nat /\ ys[i] \in Nat /\ xs[i] <= ys[i]
        OBVIOUS
      <3> QED
        BY <3>1
    <2>2. DOMAIN xs = 1..n /\ DOMAIN ys = 1..n
      OBVIOUS
    <2> QED
      BY <2>1, <2>2 DEF Lasting
  <1> HIDE DEF n, p, q, S, T
  <1>4. k <= l
    BY <1>2, <1>3, FS_Subset
  <1> HIDE DEF k, l
  <1>5. p.num = 100 * k /\ p.den = n /\ q.num = 100 * l /\ q.den = n
    BY <1>1
  <1> DEFINE a == 100 * k
             b == 100 * l
  <1>6. a \in Int /\ b \in Int /\ a <= b
    BY <1>2, <1>4
  <1> HIDE DEF a, b
  <1>7. a * n <= b * n
    BY <1>2, <1>6, TimesLess
  <1>8. Below(p, q)
    BY <1>5, <1>7 DEF Below, a, b
  <1> QED
    BY <1>8 DEF p, q

\* A further value at the median or above does not lower it.
LEMMA PerFurther ==
    ASSUME NEW xs \in Seq(Nat), Len(xs) > 0, NEW m \in Nat, m > 0, NEW x \in Nat, 2 * x >= m
    PROVE  Below(perSub(xs, m), perSub(Append(xs, x), m))
  <1> DEFINE n == Len(xs)
             N == n + 1
             ys == Append(xs, x)
             S == Lasting(xs, m)
             T == Lasting(ys, m)
             k == Cardinality(S)
             l == Cardinality(T)
             p == perSub(xs, m)
             q == perSub(ys, m)
  <1>1. n \in Nat /\ n > 0 /\ Len(ys) = N /\ ys \in Seq(Nat)
    OBVIOUS
  <1>2. p = [num |-> 100 * k, den |-> n] /\ q = [num |-> 100 * l, den |-> N]
    BY <1>1 DEF perSub, Score, Lasting
  <1>3. S \in SUBSET (1..n) /\ IsFiniteSet(S) /\ k \in Nat /\ k <= n
    BY LastingIs
  <1>4. T = S \union {N} /\ N \notin S
    <2>1. DOMAIN xs = 1..n /\ DOMAIN ys = (1..n) \union {N} /\ N \notin 1..n
      OBVIOUS
    <2>2. ys[N] = x /\ \A i \in 1..n : ys[i] = xs[i]
      OBVIOUS
    <2> HIDE DEF n, N, ys
    <2> QED
      BY <2>1, <2>2 DEF Lasting
  <1> HIDE DEF n, p, q, S, T, ys
  <1>5. l = k + 1
    <2> HIDE DEF N
    <2> QED
      BY <1>3, <1>4, FS_AddElement
  <1> HIDE DEF k, l
  <1>6. p.num = 100 * k /\ p.den = n /\ q.num = 100 * l /\ q.den = N
    BY <1>2
  <1>7. (100 * k) * N <= (100 * l) * n
    <2>1. (100 * k) * N = 100 * (k * n) + 100 * k /\ (100 * l) * n = 100 * (k * n) + 100 * n
      BY <1>1, <1>3, <1>5
    <2>2. k * n \in Int
      BY <1>1, <1>3
    <2> QED
      BY <1>1, <1>3, <2>1, <2>2
  <1> HIDE DEF N
  <1>8. Below(p, q)
    BY <1>6, <1>7 DEF Below
  <1> QED
    BY <1>8 DEF p, q, ys

\* The flow.
LEMMA DcIs ==
    ASSUME NEW nets \in Seq(Int), Len(nets) > 0, NEW latest \in Int, latest # 0
    PROVE  dcSub(nets, latest) \in Percent
  <1> DEFINE n == Len(nets)
             t == Total(nets)
  <1>1. n \in Nat /\ n > 0 /\ nets \in [1..n -> Int]
    OBVIOUS
  <1> HIDE DEF n
  <1>2. t \in Int
    <2>1. \A i \in 1..n : nets[i] <= nets[i]
      BY <1>1
    <2> QED
      BY <1>1, <2>1, TotalMore
  <1> HIDE DEF t
  <1>3. CASE latest > 0
    <2> DEFINE num == 100 * t
               den == n * latest
    <2>1. dcSub(nets, latest) = clamp(Score(num, den))
      BY <1>3 DEF dcSub, n, t
    <2>2. num \in Int /\ den \in Nat /\ den > 0
      BY <1>1, <1>2, <1>3, TimesNat
    <2> HIDE DEF num, den
    <2> QED
      BY <2>1, <2>2, ClampedIs
  <1>4. CASE ~(latest > 0)
    <2> DEFINE num == -100 * t
               den == -(n * latest)
               less == -latest
    <2>1. dcSub(nets, latest) = clamp(Score(num, den))
      BY <1>4 DEF dcSub, n, t
    <2>2. less \in Nat /\ less > 0
      BY <1>4
    <2>3. n * less = -(n * latest)
      BY <1>1
    <2> HIDE DEF less
    <2>4. n * less \in Nat /\ n * less > 0
      BY <1>1, <2>2, TimesNat
    <2>5. num \in Int /\ den \in Nat /\ den > 0
      BY <1>2, <2>3, <2>4
    <2> HIDE DEF num, den
    <2> QED
      BY <2>1, <2>5, ClampedIs
  <1> QED
    BY <1>3, <1>4

-----------------------------------------------------------------------------
(* The buckets before and after a signal, and its card.                    *)

\* The buckets of a window of time are buckets.
LEMMA BetweenIs ==
    ASSUME NEW s \in Seq(Buckets), NEW from, NEW to
    PROVE  Between(s, from, to) \in Seq(Buckets)
  <1> DEFINE n == Len(s)
             A == Seq(Buckets)
             op(bs, b) == IF b.ts > from /\ b.ts < to THEN Append(bs, b) ELSE bs
             step == [b \in Buckets |-> [bs \in A |-> op(bs, b)]]
             none == <<>>
  <1>1. n \in Nat /\ s \in [1..n -> Buckets] /\ DOMAIN s = 1..n
    OBVIOUS
  <1>2. \A b \in Buckets, bs \in A : op(bs, b) \in A
    OBVIOUS
  <1>3. none \in A
    OBVIOUS
  <1>4. step \in [Buckets -> [A -> A]] /\ \A b \in Buckets, bs \in A : step[b][bs] = op(bs, b)
    <2> HIDE DEF op, A
    <2> QED
      BY <1>2
  <1> HIDE DEF n, A, step, none
  <1>5. \E g : g = [t \in SUBSET DOMAIN s |-> IF t = {} THEN none ELSE op(g[t \ {Max(t)}], s[Max(t)])]
    <2> HIDE DEF op
    <2>1. PICK g \in [SUBSET (1..n) -> A] : Solves(g, n, none, step, s)
      BY <1>1, <1>3, <1>4, FoldExists, Zenon
    <2>2. ASSUME NEW t \in SUBSET (1..n), t # {} PROVE s[Max(t)] \in Buckets /\ g[t \ {Max(t)}] \in A
      <3>1. Max(t) \in 1..n
        BY <1>1, <2>2, HighestOf
      <3> QED
        BY <1>1, <3>1
    <2>3. g = [t \in SUBSET DOMAIN s |-> IF t = {} THEN none ELSE op(g[t \ {Max(t)}], s[Max(t)])]
      BY <1>1, <1>4, <2>1, <2>2 DEF Solves
    <2> QED
      BY <2>3
  <1> DEFINE h == CHOOSE h : h = [t \in SUBSET DOMAIN s |-> IF t = {} THEN none ELSE op(h[t \ {Max(t)}], s[Max(t)])]
  <1>6. h = [t \in SUBSET DOMAIN s |-> IF t = {} THEN none ELSE op(h[t \ {Max(t)}], s[Max(t)])]
    <2> HIDE DEF op
    <2> QED
      BY <1>5
  <1>7. Between(s, from, to) = h[DOMAIN s]
    BY DEF Between, FoldLeft, MapThenFoldSet, none
  <1> HIDE DEF h, op
  <1> DEFINE g == [k \in 0..n |-> h[1..k]]
             Good == {k \in 0..n : g[k] \in A}
  <1>8. 0 \in Good
    <2>1. {} \in SUBSET (1..n) /\ 1..0 = {} /\ 0 \in 0..n
      BY <1>1
    <2> QED
      BY <1>1, <1>3, <1>6, <2>1
  <1>9. ASSUME NEW k \in 1..n PROVE g[k] = op(g[k - 1], s[k])
    <2>1. k \in Nat /\ k # 0 /\ k \in 0..n /\ k - 1 \in 0..n /\ 1..k \in SUBSET (1..n)
      BY <1>1
    <2>2. Max(1..k) = k /\ (1..k) \ {k} = 1..(k - 1) /\ 1..k # {}
      BY <2>1, PrefixIs
    <2>3. h[1..k] = op(h[1..(k - 1)], s[k])
      BY <1>1, <1>6, <2>1, <2>2
    <2> QED
      BY <2>1, <2>3
  <1>10. g[n] = Between(s, from, to)
    BY <1>1, <1>7
  <1> HIDE DEF g
  <1>11. ASSUME NEW k \in 0..(n - 1), k \in Good
         PROVE  k + 1 \in Good
    <2>1. k + 1 \in 1..n /\ (k + 1) - 1 = k /\ k + 1 \in 0..n
      BY <1>1
    <2>2. g[k + 1] = op(g[k], s[k + 1]) /\ s[k + 1] \in Buckets
      BY <1>1, <1>9, <2>1
    <2> QED
      BY <1>2, <1>11, <2>1, <2>2
  <1>12. \A k \in 0..n : k \in Good
    <2>1. \A k \in 0..(n - 1) : k \in Good => k + 1 \in Good
      BY <1>11
    <2> HIDE DEF Good
    <2> QED
      BY <1>1, <1>8, <2>1, Induction
  <1>13. n \in 0..n
    BY <1>1
  <1> QED
    BY <1>10, <1>12, <1>13 DEF A

\* The values of a metric that only grows.
LEMMA ValuesAre ==
    ASSUME NEW bs \in Seq(Buckets), NEW m \in Growing
    PROVE  /\ Sample(bs, m) \in Seq(Nat) /\ Len(Sample(bs, m)) = Len(bs)
           /\ \A i \in 1..Len(bs) : Sample(bs, m)[i] = bs[i][m] /\ bs[i][m] \in Nat
  <1>1. ASSUME NEW i \in 1..Len(bs) PROVE bs[i][m] \in Nat
    <2> DEFINE b == bs[i]
    <2>1. b \in Buckets
      OBVIOUS
    <2> HIDE DEF b
    <2>2. b[m] \in Nat
      BY <2>1 DEF Growing, Buckets
    <2> QED
      BY <2>2 DEF b
  <1> DEFINE n == Len(bs)
             xs == Sample(bs, m)
  <1>2. n \in Nat /\ DOMAIN bs = 1..n
    OBVIOUS
  <1>3. xs = [i \in 1..n |-> bs[i][m]]
    BY <1>2 DEF Sample
  <1> HIDE DEF n, xs
  <1>4. \A i \in 1..n : bs[i][m] \in Nat
    BY <1>1 DEF n
  <1>5. xs \in Seq(Nat) /\ Len(xs) = n /\ \A i \in 1..n : xs[i] = bs[i][m]
    BY <1>2, <1>3, <1>4
  <1> QED
    BY <1>4, <1>5 DEF n, xs

Netflows == {"netflow0", "netflow1"}

\* The values of a flow.
LEMMA NetsAre ==
    ASSUME NEW bs \in Seq(Buckets), NEW m \in Netflows
    PROVE  Sample(bs, m) \in Seq(Int) /\ Len(Sample(bs, m)) = Len(bs)
  <1>1. ASSUME NEW i \in 1..Len(bs) PROVE bs[i][m] \in Int
    <2> DEFINE b == bs[i]
    <2>1. b \in Buckets
      OBVIOUS
    <2> HIDE DEF b
    <2>2. b[m] \in Int
      BY <2>1 DEF Netflows, Buckets
    <2> QED
      BY <2>2 DEF b
  <1> DEFINE n == Len(bs)
             xs == Sample(bs, m)
  <1>2. n \in Nat /\ DOMAIN bs = 1..n
    OBVIOUS
  <1>3. xs = [i \in 1..n |-> bs[i][m]]
    BY <1>2 DEF Sample
  <1> HIDE DEF n, xs
  <1>4. \A i \in 1..n : bs[i][m] \in Int
    BY <1>1 DEF n
  <1>5. xs \in Seq(Int) /\ Len(xs) = n /\ \A i \in 1..n : xs[i] = bs[i][m]
    BY <1>2, <1>3, <1>4
  <1> QED
    BY <1>4, <1>5 DEF n, xs

\* One unit more of a metric.
LEMMA OneMore ==
    ASSUME NEW b \in Buckets, NEW m \in Growing
    PROVE  LET c == [b EXCEPT ![m] = @ + 1] IN
           /\ c \in Buckets /\ c[m] = b[m] + 1 /\ \A d \in Netflows : c[d] = b[d]
  <1>1. CASE m = "swap_count"
    BY <1>1 DEF Buckets, Netflows
  <1>2. CASE m = "vol0"
    BY <1>2 DEF Buckets, Netflows
  <1>3. CASE m = "vol1"
    BY <1>3 DEF Buckets, Netflows
  <1> QED
    BY <1>1, <1>2, <1>3 DEF Growing

\* More activity in one bucket.
LEMMA RaisedIs ==
    ASSUME NEW bs \in Seq(Buckets), NEW j \in 1..Len(bs), NEW m \in Growing
    PROVE  /\ Raised(bs, j, m) \in Seq(Buckets) /\ Len(Raised(bs, j, m)) = Len(bs)
           /\ \A i \in 1..Len(bs) : Sample(bs, m)[i] <= Sample(Raised(bs, j, m), m)[i]
           /\ \A d \in Netflows : Sample(Raised(bs, j, m), d) = Sample(bs, d)
  <1> DEFINE n == Len(bs)
             c == [bs[j] EXCEPT ![m] = @ + 1]
             cs == Raised(bs, j, m)
  <1>1. n \in Nat /\ bs \in [1..n -> Buckets] /\ DOMAIN bs = 1..n /\ bs[j] \in Buckets /\ bs[j][m] \in Nat
    BY ValuesAre
  <1>2. c \in Buckets /\ c[m] = bs[j][m] + 1 /\ \A d \in Netflows : c[d] = bs[j][d]
    BY <1>1, OneMore
  <1>3. cs = [bs EXCEPT ![j] = c]
    BY <1>1 DEF Raised
  <1> HIDE DEF c, cs, n
  <1>4. cs \in [1..n -> Buckets] /\ DOMAIN cs = 1..n /\ \A i \in 1..n : cs[i] = IF i = j THEN c ELSE bs[i]
    BY <1>1, <1>2, <1>3 DEF n
  <1>5. cs \in Seq(Buckets) /\ Len(cs) = n
    BY <1>1, <1>4
  <1>6. ASSUME NEW d \in Netflows PROVE Sample(cs, d) = Sample(bs, d)
    <2>1. \A i \in 1..n : cs[i][d] = bs[i][d]
      BY <1>2, <1>4
    <2> QED
      BY <1>1, <1>4, <2>1 DEF Sample
  <1>7. ASSUME NEW i \in 1..n PROVE Sample(bs, m)[i] <= Sample(cs, m)[i]
    <2>1. Sample(bs, m)[i] = bs[i][m] /\ bs[i][m] \in Nat
      BY ValuesAre DEF n
    <2>2. Sample(cs, m)[i] = cs[i][m]
      BY <1>4 DEF Sample
    <2> QED
      BY <1>1, <1>2, <1>4, <2>1, <2>2
  <1> QED
    BY <1>5, <1>6, <1>7 DEF cs, n

\* A grade of three sub-scores, and of a fourth when there is a direction.
GradeOf(g, p, q, r, s, latest) ==
    /\ latest = 0 => g = compositeGrade({Ft(p), Per(q), Esc(r)})
    /\ latest # 0 => g = compositeGrade({Ft(p), Per(q), Esc(r), Dc(s)})

\* A grade is one of three or four sub-scores.
LEMMA GradeIsOf ==
    ASSUME NEW pre, NEW post, NEW nets, NEW latest
    PROVE  GradeOf(Grade(pre, post, nets, latest), ftSub(post, Median2(pre)), perSub(post, Median2(pre)),
                   escSub(post, Median2(pre)), dcSub(nets, latest), latest)
  <1> DEFINE m == Median2(pre)
             a == Ft(ftSub(post, m))
             b == Per(perSub(post, m))
             c == Esc(escSub(post, m))
             d == Dc(dcSub(nets, latest))
  <1>1. Grade(pre, post, nets, latest) = compositeGrade({a, b, c} \union IF latest = 0 THEN {} ELSE {d})
    BY DEF Grade, Ft, Per, Esc, Dc
  <1> HIDE DEF a, b, c, d
  <1>2. {a, b, c} \union {} = {a, b, c} /\ {a, b, c} \union {d} = {a, b, c, d}
    OBVIOUS
  <1>3. latest = 0 => Grade(pre, post, nets, latest) = compositeGrade({a, b, c})
    BY <1>1, <1>2
  <1>4. latest # 0 => Grade(pre, post, nets, latest) = compositeGrade({a, b, c, d})
    BY <1>1, <1>2
  <1> QED
    BY <1>3, <1>4 DEF GradeOf, a, b, c, d

\* What a grade is computed from.
Gradable(pre, post, nets, latest) ==
    /\ pre \in Seq(Nat) /\ Len(pre) > 0 /\ Median2(pre) > 0
    /\ post \in Seq(Nat) /\ Len(post) > 0
    /\ nets \in Seq(Int) /\ latest \in Int
    /\ latest # 0 => Len(nets) > 0

\* What a grade says of the values: it is between 0 and 100, low when no value is above
\* the baseline, and high when all are three times it.
LEMMA GradeIs ==
    ASSUME NEW pre, NEW post, NEW nets, NEW latest, Gradable(pre, post, nets, latest)
    PROVE  LET m == Median2(pre)
               g == Grade(pre, post, nets, latest) IN
           /\ g \in 0..100
           /\ (\A i \in 1..Len(post) : 2 * post[i] <= m) => g <= 40
           /\ (\A i \in 1..Len(post) : 2 * post[i] >= 3 * m) => g = 100 \/ (latest # 0 /\ g >= 90)
  <1> DEFINE m == Median2(pre)
             g == Grade(pre, post, nets, latest)
             p == ftSub(post, m)
             q == perSub(post, m)
             r == escSub(post, m)
             s == dcSub(nets, latest)
             low == \A i \in 1..Len(post) : 2 * post[i] <= m
             high == \A i \in 1..Len(post) : 2 * post[i] >= 3 * m
  <1>1. m \in Nat /\ m > 0
    BY MedianIs DEF Gradable
  <1>2. post \in Seq(Nat) /\ Len(post) > 0 /\ nets \in Seq(Int) /\ latest \in Int /\ (latest # 0 => Len(nets) > 0)
    BY DEF Gradable
  <1>3. /\ latest = 0 => g = compositeGrade({Ft(p), Per(q), Esc(r)})
        /\ latest # 0 => g = compositeGrade({Ft(p), Per(q), Esc(r), Dc(s)})
    BY GradeIsOf DEF GradeOf
  <1> HIDE DEF m, g
  <1>4. p \in Percent /\ (low => p.num = 0) /\ (high => IsFull(p))
    BY <1>1, <1>2, FtIs
  <1>5. q \in Percent /\ (high => IsFull(q))
    BY <1>1, <1>2, PerIs
  <1>6. r \in Percent /\ (low => r.num = 0) /\ (high => IsFull(r))
    BY <1>1, <1>2, EscIs
  <1>7. latest # 0 => s \in Percent
    BY <1>2, DcIs
  <1> HIDE DEF p, q, r, s, low, high
  <1>8. CASE latest = 0
    <2>1. g \in 0..100 /\ (p.num = 0 /\ r.num = 0 => g <= 40) /\ (IsFull(p) /\ IsFull(q) /\ IsFull(r) => g = 100)
      BY <1>3, <1>4, <1>5, <1>6, <1>8, GradeThree
    <2> QED
      BY <1>4, <1>5, <1>6, <2>1 DEF m, g, low, high
  <1>9. CASE latest # 0
    <2>1. g \in 0..100 /\ (p.num = 0 /\ r.num = 0 => g <= 40) /\ (IsFull(p) /\ IsFull(q) /\ IsFull(r) => g >= 90)
      BY <1>3, <1>4, <1>5, <1>6, <1>7, <1>9, GradeFour
    <2> QED
      BY <1>4, <1>5, <1>6, <1>9, <2>1 DEF m, g, low, high
  <1> QED
    BY <1>8, <1>9

\* Higher values after the signal make no lower grade.
LEMMA GradeMore ==
    ASSUME NEW pre, NEW post, NEW nets, NEW latest, Gradable(pre, post, nets, latest),
           NEW post2 \in Seq(Nat), Len(post2) = Len(post), \A i \in 1..Len(post) : post[i] <= post2[i]
    PROVE  Grade(pre, post, nets, latest) <= Grade(pre, post2, nets, latest)
  <1> DEFINE m == Median2(pre)
             g == Grade(pre, post, nets, latest)
             g2 == Grade(pre, post2, nets, latest)
             p == ftSub(post, m)
             q == perSub(post, m)
             r == escSub(post, m)
             s == dcSub(nets, latest)
             p2 == ftSub(post2, m)
             q2 == perSub(post2, m)
             r2 == escSub(post2, m)
  <1>1. m \in Nat /\ m > 0
    BY MedianIs DEF Gradable
  <1>2. post \in Seq(Nat) /\ Len(post) > 0 /\ nets \in Seq(Int) /\ latest \in Int /\ (latest # 0 => Len(nets) > 0)
    BY DEF Gradable
  <1>3. GradeOf(g, p, q, r, s, latest)
    BY GradeIsOf
  <1>4. GradeOf(g2, p2, q2, r2, s, latest)
    BY GradeIsOf
  <1> HIDE DEF m, g, g2
  <1>5. p \in Percent /\ q \in Percent /\ r \in Percent
    BY <1>1, <1>2, FtIs, PerIs, EscIs
  <1>6. p2 \in Percent /\ q2 \in Percent /\ r2 \in Percent
    BY <1>1, <1>2, FtIs, PerIs, EscIs
  <1>7. Below(p, p2) /\ Below(q, q2) /\ Below(r, r2)
    <2>1. Below(p, p2)
      BY <1>1, <1>2, FtMore
    <2>2. Below(q, q2)
      BY <1>1, <1>2, PerMore
    <2>3. Below(r, r2)
      BY <1>1, <1>2, EscMore
    <2> QED
      BY <2>1, <2>2, <2>3
  <1>8. latest # 0 => s \in Percent
    BY <1>2, DcIs
  <1> HIDE DEF p, q, r, s, p2, q2, r2
  <1>9. p \in Fraction /\ q \in Fraction /\ r \in Fraction /\ p2 \in Fraction /\ q2 \in Fraction /\ r2 \in Fraction
    BY <1>5, <1>6 DEF Percent
  <1>10. latest = 0 => g <= g2
    BY <1>3, <1>4, <1>7, <1>9, MoreThree DEF GradeOf
  <1>11. ASSUME latest # 0 PROVE g <= g2
    <2>1. s \in Fraction
      BY <1>8, <1>11 DEF Percent
    <2>2. compositeGrade({Ft(p), Per(q), Esc(r), Dc(s)}) <= compositeGrade({Ft(p2), Per(q2), Esc(r2), Dc(s)})
      BY <1>7, <1>9, <2>1, MoreFour
    <2> QED
      BY <1>3, <1>4, <1>11, <2>2 DEF GradeOf
  <1> QED
    BY <1>10, <1>11 DEF g, g2

\* Nor does a further value that is as high as any and at the median or above, when there
\* is no direction.
LEMMA GradeFurther ==
    ASSUME NEW pre, NEW post, NEW nets, NEW nets2, Gradable(pre, post, nets, 0),
           NEW x \in Nat, \A i \in 1..Len(post) : post[i] <= x, 2 * x >= Median2(pre)
    PROVE  Grade(pre, post, nets, 0) <= Grade(pre, Append(post, x), nets2, 0)
  <1> DEFINE m == Median2(pre)
             post2 == Append(post, x)
             none == 0
             g == Grade(pre, post, nets, none)
             g2 == Grade(pre, post2, nets2, none)
             p == ftSub(post, m)
             q == perSub(post, m)
             r == escSub(post, m)
             s == dcSub(nets, none)
             p2 == ftSub(post2, m)
             q2 == perSub(post2, m)
             r2 == escSub(post2, m)
             s2 == dcSub(nets2, none)
  <1>1. m \in Nat /\ m > 0 /\ 2 * x >= m
    BY MedianIs DEF Gradable
  <1>2. post \in Seq(Nat) /\ Len(post) > 0
    BY DEF Gradable
  <1>3. post2 \in Seq(Nat) /\ Len(post2) > 0
    BY <1>2
  <1>4. GradeOf(g, p, q, r, s, none) /\ GradeOf(g2, p2, q2, r2, s2, none)
    BY GradeIsOf
  <1> HIDE DEF m, g, g2
  <1>5. p \in Percent /\ q \in Percent /\ r \in Percent
    BY <1>1, <1>2, FtIs, PerIs, EscIs
  <1>6. Below(p, p2) /\ Below(q, q2) /\ Below(r, r2)
    <2>1. Below(p, p2)
      BY <1>1, <1>2, FtFurther
    <2>2. Below(q, q2)
      BY <1>1, <1>2, PerFurther
    <2>3. Below(r, r2)
      BY <1>1, <1>2, EscFurther
    <2> QED
      BY <2>1, <2>2, <2>3
  <1> HIDE DEF post2
  <1>7. p2 \in Percent /\ q2 \in Percent /\ r2 \in Percent
    BY <1>1, <1>3, FtIs, PerIs, EscIs
  <1> HIDE DEF p, q, r, s, p2, q2, r2, s2
  <1>8. p \in Fraction /\ q \in Fraction /\ r \in Fraction /\ p2 \in Fraction /\ q2 \in Fraction /\ r2 \in Fraction
    BY <1>5, <1>7 DEF Percent
  <1>9. g <= g2
    BY <1>4, <1>6, <1>8, MoreThree DEF GradeOf, none
  <1> QED
    BY <1>9 DEF g, g2, post2, none

\* A further bucket, by the values of a metric.
LEMMA AppendedIs ==
    ASSUME NEW bs \in Seq(Buckets), NEW j \in 1..Len(bs), NEW m \in Growing
    PROVE  Sample(Append(bs, bs[j]), m) = Append(Sample(bs, m), bs[j][m])
  <1> DEFINE n == Len(bs)
             cs == Append(bs, bs[j])
             xs == Sample(bs, m)
             x == bs[j][m]
  <1>1. n \in Nat /\ DOMAIN cs = 1..(n + 1) /\ \A i \in 1..(n + 1) : cs[i] = IF i = n + 1 THEN bs[j] ELSE bs[i]
    OBVIOUS
  <1>2. xs \in Seq(Nat) /\ Len(xs) = n /\ (\A i \in 1..n : xs[i] = bs[i][m]) /\ x \in Nat
    BY ValuesAre
  <1>3. Sample(cs, m) = [i \in 1..(n + 1) |-> cs[i][m]]
    BY <1>1 DEF Sample
  <1> HIDE DEF n, xs
  <1>4. \A i \in 1..(n + 1) : cs[i][m] = IF i = n + 1 THEN x ELSE xs[i]
    BY <1>1, <1>2
  <1> HIDE DEF cs, x
  <1>5. Append(xs, x) = [i \in 1..(n + 1) |-> IF i = n + 1 THEN x ELSE xs[i]]
    <2> DEFINE ys == Append(xs, x)
    <2>1. ys \in Seq(Nat) /\ Len(ys) = n + 1
      BY <1>2
    <2>2. \A i \in 1..(n + 1) : ys[i] = IF i = n + 1 THEN x ELSE xs[i]
      BY <1>1, <1>2
    <2> HIDE DEF ys
    <2>3. ys = [i \in 1..(n + 1) |-> ys[i]]
      BY <1>1, <2>1
    <2> QED
      BY <2>2, <2>3 DEF ys
  <1>6. Sample(cs, m) = Append(xs, x)
    BY <1>3, <1>4, <1>5
  <1> QED
    BY <1>6 DEF cs, xs, x

\* What GradeHonest says of a card.
CardHonest(metric, latest, pre, post) ==
    LET mm == measuredMetric(metric)
        median2 == Median2(Sample(pre, mm))
        card == ScoreOutcome(metric, latest, pre, post) IN
    /\ card.grade \in 0..100
    /\ card.status = "confirmed" => \E j \in DOMAIN post : 2 * post[j][mm] > median2
    /\ \A j \in DOMAIN post : card.grade <= ScoreOutcome(metric, latest, pre, Raised(post, j, mm)).grade
    /\ \A j \in DOMAIN post :
            Busiest(post, j, mm) /\ 2 * post[j][mm] >= median2
            /\ (isNetflow(metric) => latest = 0) =>
                card.grade <= ScoreOutcome(metric, latest, pre, Append(post, post[j])).grade
    /\ (\A j \in DOMAIN post : 2 * post[j][mm] >= 3 * median2) =>
           \/ card.grade = 100
           \/ isNetflow(metric) /\ latest # 0 /\ card.grade >= 90

\* The card of a signal whose buckets are given.
LEMMA CardIs ==
    ASSUME NEW pre \in Seq(Buckets), NEW post \in Seq(Buckets),
           NEW metric \in {"swap_count", "vol0", "netflow0", "netflow1", "whale_swap"},
           NEW latest, metric \in Netflows => latest \in Int,
           Gradeable(Sample(pre, measuredMetric(metric)), post)
    PROVE  CardHonest(metric, latest, pre, post)
  <1> DEFINE mm == measuredMetric(metric)
             xs == Sample(pre, mm)
             ys == Sample(post, mm)
             M == Median2(xs)
             flow == isNetflow(metric)
             nets == IF flow THEN Sample(post, metric) ELSE <<>>
             last == IF flow THEN latest ELSE 0
             card == ScoreOutcome(metric, latest, pre, post)
             g == Grade(xs, ys, nets, last)
  <1>1. mm \in Growing /\ (flow <=> metric \in Netflows)
    BY DEF measuredMetric, Growing, isNetflow, Netflows
  <1>2. card.grade = g /\ card.status = Status(g)
    BY DEF ScoreOutcome
  <1>3. \A j \in DOMAIN post : ScoreOutcome(metric, latest, pre, Raised(post, j, mm)).grade =
            Grade(xs, Sample(Raised(post, j, mm), mm), IF flow THEN Sample(Raised(post, j, mm), metric) ELSE <<>>, last)
    BY DEF ScoreOutcome
  <1>14. \A j \in DOMAIN post : \E nets2 : ScoreOutcome(metric, latest, pre, Append(post, post[j])).grade =
            Grade(xs, Sample(Append(post, post[j]), mm), nets2, last)
    BY DEF ScoreOutcome
  <1>4. Len(xs) >= minPreBuckets /\ Len(post) > 0 /\ M > 0
    BY DEF Gradeable
  <1> HIDE DEF mm, card
  <1>5. /\ ys \in Seq(Nat) /\ Len(ys) = Len(post)
        /\ \A i \in 1..Len(post) : ys[i] = post[i][mm] /\ post[i][mm] \in Nat
    BY <1>1, ValuesAre
  <1>6. xs \in Seq(Nat) /\ Len(xs) > 0
    <2>1. xs \in Seq(Nat)
      BY <1>1, ValuesAre
    <2> QED
      BY <1>4, <2>1, OutcomeScoreAssumption
  <1>7. nets \in Seq(Int) /\ last \in Int /\ (last # 0 => Len(nets) > 0)
    BY <1>1, <1>4, NetsAre
  <1>8. DOMAIN post = 1..Len(post)
    OBVIOUS
  <1> HIDE DEF xs, M, flow
  <1>9. ASSUME NEW j \in 1..Len(post)
        PROVE  card.grade <= ScoreOutcome(metric, latest, pre, Raised(post, j, mm)).grade
    <2> DEFINE cs == Raised(post, j, mm)
               zs == Sample(cs, mm)
               nets2 == IF flow THEN Sample(cs, metric) ELSE <<>>
    <2>1. /\ cs \in Seq(Buckets) /\ Len(cs) = Len(post)
          /\ \A i \in 1..Len(post) : ys[i] <= zs[i]
          /\ \A d \in Netflows : Sample(cs, d) = Sample(post, d)
      BY <1>1, RaisedIs
    <2>2. ScoreOutcome(metric, latest, pre, cs).grade = Grade(xs, zs, nets2, last)
      BY <1>3, <1>8
    <2>3. nets2 = nets
      BY <1>1, <2>1
    <2> HIDE DEF cs, nets2, nets, last, ys
    <2>4. zs \in Seq(Nat) /\ Len(zs) = Len(ys)
      BY <1>1, <1>5, <2>1, ValuesAre
    <2> HIDE DEF zs
    <2>5. Gradable(xs, ys, nets, last)
      BY <1>4, <1>5, <1>6, <1>7 DEF Gradable, M
    <2>6. g <= Grade(xs, zs, nets, last)
      BY <1>5, <2>1, <2>4, <2>5, GradeMore
    <2> QED
      BY <1>2, <2>2, <2>3, <2>6 DEF cs
  <1>15. ASSUME NEW j \in 1..Len(post), Busiest(post, j, mm), 2 * post[j][mm] >= M, last = 0
         PROVE  card.grade <= ScoreOutcome(metric, latest, pre, Append(post, post[j])).grade
    <2> DEFINE cs == Append(post, post[j])
               x == post[j][mm]
    <2>1. PICK nets2 : ScoreOutcome(metric, latest, pre, cs).grade = Grade(xs, Sample(cs, mm), nets2, last)
      BY <1>8, <1>14
    <2>2. Sample(cs, mm) = Append(ys, x)
      BY <1>1, AppendedIs
    <2>3. \A i \in 1..Len(ys) : ys[i] <= x
      BY <1>5, <1>8, <1>15 DEF Busiest
    <2> HIDE DEF cs, nets, ys
    <2>4. Gradable(xs, ys, nets, 0)
      BY <1>4, <1>5, <1>6, <1>7, <1>15 DEF Gradable, M
    <2>5. x \in Nat /\ 2 * x >= Median2(xs)
      BY <1>5, <1>15 DEF M
    <2> HIDE DEF x, last
    <2>6. Grade(xs, ys, nets, 0) <= Grade(xs, Append(ys, x), nets2, 0)
      BY <2>3, <2>4, <2>5, GradeFurther
    <2>7. card.grade = Grade(xs, ys, nets, 0)
      BY <1>2, <1>15
    <2>8. ScoreOutcome(metric, latest, pre, cs).grade = Grade(xs, Append(ys, x), nets2, 0)
      BY <1>15, <2>1, <2>2
    <2> QED
      BY <2>6, <2>7, <2>8 DEF cs
  <1>16. ASSUME NEW j \in 1..Len(post), Busiest(post, j, mm), 2 * post[j][mm] >= M,
                isNetflow(metric) => latest = 0
         PROVE  card.grade <= ScoreOutcome(metric, latest, pre, Append(post, post[j])).grade
    <2>1. last = 0
      BY <1>16 DEF flow
    <2> QED
      BY <1>15, <1>16, <2>1
  <1> HIDE DEF nets, last, ys, g
  <1>10. /\ g \in 0..100
         /\ (\A i \in 1..Len(ys) : 2 * ys[i] <= M) => g <= 40
         /\ (\A i \in 1..Len(ys) : 2 * ys[i] >= 3 * M) => g = 100 \/ (last # 0 /\ g >= 90)
    <2>1. Gradable(xs, ys, nets, last)
      BY <1>4, <1>5, <1>6, <1>7 DEF Gradable, M
    <2> QED
      BY <2>1, GradeIs DEF g, M
  <1>11. M \in Nat
    BY <1>6, MedianIs DEF M
  <1>12. ASSUME card.status = "confirmed" PROVE \E j \in 1..Len(post) : 2 * post[j][mm] > M
    <2>1. g > 40
      BY <1>2, <1>10, <1>12 DEF Status
    <2>2. PICK i \in 1..Len(ys) : ~(2 * ys[i] <= M)
      BY <1>10, <2>1
    <2>3. i \in 1..Len(post) /\ ys[i] = post[i][mm] /\ post[i][mm] \in Nat
      BY <1>5
    <2>4. ~(2 * post[i][mm] <= M)
      BY <2>2, <2>3
    <2>5. 2 * post[i][mm] > M
      <3> DEFINE v == post[i][mm]
      <3>1. v \in Nat /\ ~(2 * v <= M)
        BY <2>3, <2>4
      <3> HIDE DEF v, M
      <3>2. 2 * v > M
        BY <1>11, <3>1
      <3> QED
        BY <3>2 DEF v
    <2> QED
      BY <2>3, <2>5
  <1>13. ASSUME \A j \in 1..Len(post) : 2 * post[j][mm] >= 3 * M
         PROVE  g = 100 \/ (flow /\ latest # 0 /\ g >= 90)
    <2>1. \A i \in 1..Len(ys) : 2 * ys[i] >= 3 * M
      BY <1>5, <1>13
    <2>2. last # 0 => flow /\ latest # 0
      BY DEF last
    <2> QED
      BY <1>10, <2>1, <2>2
  <1> QED
    BY <1>2, <1>8, <1>9, <1>10, <1>12, <1>13, <1>16 DEF CardHonest, mm, card, M, xs, flow

\* Every signal of a pool's history has an honest card.
LEMMA CardsHonest ==
    ASSUME FlowInv
    PROVE  GradeHonest
  <1>1. History(windows) \in Seq(Buckets)
    <2> DEFINE n == Len(windows)
    <2>1. windows \in Seq(Windows) /\ topic \in SwapTopics /\ n \in 0..n
      BY DEF FlowInv
    <2>2. PICK g : g[n] = History(windows) /\ \A k \in 0..n : g[k] \in Seq(Buckets)
      BY <2>1, HistoryIs
    <2> QED
      BY <2>1, <2>2
  <1> DEFINE s == History(windows)
  <1> HIDE DEF s
  <1>2. s \in Seq(Buckets)
    BY <1>1 DEF s
  <1>3. ASSUME NEW i \in DOMAIN s, NEW metric \in {"swap_count", "vol0", "netflow0", "netflow1", "whale_swap"}
        PROVE  LET T == s[i].ts
                   mm == measuredMetric(metric)
                   latest == IF metric = "whale_swap" THEN 0 ELSE s[i][metric]
                   pre == Between(s, T - Horizon, T)
                   post == Between(s, T, T + Horizon + 1) IN
               Gradeable(Sample(pre, mm), post) => CardHonest(metric, latest, pre, post)
    <2> DEFINE T == s[i].ts
               lo == T - Horizon
               hi == T + Horizon + 1
               latest == IF metric = "whale_swap" THEN 0 ELSE s[i][metric]
               pre == Between(s, lo, T)
               post == Between(s, T, hi)
    <2> HIDE DEF T, lo, hi
    <2>1. pre \in Seq(Buckets) /\ post \in Seq(Buckets)
      BY <1>2, BetweenIs
    <2>2. metric \in Netflows => latest \in Int
      <3> DEFINE b == s[i]
      <3>1. b \in Buckets
        BY <1>2
      <3> HIDE DEF b
      <3>2. metric \in Netflows => b[metric] \in Int /\ metric # "whale_swap"
        BY <3>1 DEF Netflows, Buckets
      <3> QED
        BY <3>2 DEF b
    <2> HIDE DEF pre, post, latest
    <2>3. Gradeable(Sample(pre, measuredMetric(metric)), post) => CardHonest(metric, latest, pre, post)
      BY <2>1, <2>2, CardIs
    <2> QED
      BY <2>3 DEF pre, post, latest, T, lo, hi
  <1> QED
    BY <1>3 DEF GradeHonest, CardHonest, s

\* A confirmed signal saw a bucket above its baseline; more activity in a window after the
\* signal that has some already never makes its grade worse, nor, where no direction counts,
\* does a further window as busy as the busiest; and three times the baseline throughout
\* earns the full hundred but for a flow that turned (outcome.go, ScoreOutcome).  A further
\* window with less may lower the grade: the claim is about no other addition.
THEOREM GradesAreHonest == FlowSpec => []GradeHonest
  <1>1. FlowInv => GradeHonest
    BY CardsHonest
  <1> QED
    BY <1>1, FlowInductive, PTL
=============================================================================

------------------------ MODULE SignalPipelineProofs ------------------------
(***************************************************************************)
(* Proofs about SignalPipeline, for any number of signals, commands and    *)
(* faults and any batch sizes: the status column and the alerts tell the   *)
(* truth, and duplicates on chain are bounded.                             *)
(***************************************************************************)
EXTENDS SignalPipeline, FiniteSetTheorems, TLAPS

\* A finite set of integers that is not empty has a least element: among the sets
\* of the elements below one of its elements there is a minimal one.
LEMMA MinIn ==
    ASSUME NEW S \in SUBSET Int, IsFiniteSet(S), S # {}
    PROVE  Min(S) \in S /\ \A y \in S : Min(S) <= y
  <1> DEFINE Below(x) == {y \in S : y < x}
             Family == {Below(x) : x \in S}
  <1>1. IsWellFoundedOn(StrictSubsetOrdering(S), SUBSET S)
    BY FS_StrictSubsetOrderingWellFounded, FS_FiniteSubsetsOfFinite
  <1>2. Family \subseteq SUBSET S /\ Family # {}
    OBVIOUS
  <1>3. PICK F \in Family : \A G \in Family : <<G, F>> \notin StrictSubsetOrdering(S)
    <2> HIDE DEF Family
    <2> QED
      BY <1>1, <1>2, WFMin
  <1>4. PICK x \in S : F = Below(x)
    BY <1>3
  <1>5. \A y \in S : x <= y
    <2> SUFFICES ASSUME NEW y \in S, y < x PROVE FALSE
      OBVIOUS
    <2>1. y \in Below(x) /\ y \notin Below(y)
      OBVIOUS
    <2>3. Below(y) \subseteq Below(x)
      <3> SUFFICES ASSUME NEW z \in S, z < y PROVE z < x
        OBVIOUS
      <3> QED
        OBVIOUS
    <2>2. <<Below(y), Below(x)>> \in StrictSubsetOrdering(S)
      BY <2>1, <2>3 DEF StrictSubsetOrdering
    <2> QED
      BY <1>3, <1>4, <2>2
  <1> QED
    BY <1>5 DEF Min

\* And a greatest one.
LEMMA MaxIn ==
    ASSUME NEW S \in SUBSET Int, IsFiniteSet(S), S # {}
    PROVE  Max(S) \in S
  <1> DEFINE Above(x) == {y \in S : y > x}
             Family == {Above(x) : x \in S}
  <1>1. IsWellFoundedOn(StrictSubsetOrdering(S), SUBSET S)
    BY FS_StrictSubsetOrderingWellFounded, FS_FiniteSubsetsOfFinite
  <1>2. Family \subseteq SUBSET S /\ Family # {}
    OBVIOUS
  <1>3. PICK F \in Family : \A G \in Family : <<G, F>> \notin StrictSubsetOrdering(S)
    <2> HIDE DEF Family
    <2> QED
      BY <1>1, <1>2, WFMin
  <1>4. PICK x \in S : F = Above(x)
    BY <1>3
  <1>5. \A y \in S : x >= y
    <2> SUFFICES ASSUME NEW y \in S, y > x PROVE FALSE
      OBVIOUS
    <2>1. y \in Above(x) /\ y \notin Above(y)
      OBVIOUS
    <2>3. Above(y) \subseteq Above(x)
      <3> SUFFICES ASSUME NEW z \in S, z > y PROVE z > x
        OBVIOUS
      <3> QED
        OBVIOUS
    <2>2. <<Above(y), Above(x)>> \in StrictSubsetOrdering(S)
      BY <2>1, <2>3 DEF StrictSubsetOrdering
    <2> QED
      BY <1>3, <1>4, <2>2
  <1> QED
    BY <1>5 DEF Max

-----------------------------------------------------------------------------
\* A stage that works has work, on rows that were inserted.
WorkInv ==
    /\ hot.todo \subseteq Inserted /\ (hot.pc # "scan" => hot.todo # {})
    /\ \A r \in Recoverers :
          /\ recovery[r].todo \subseteq Inserted
          /\ recovery[r].pc # "idle" => recovery[r].todo # {}
    /\ enrich.todo \subseteq Inserted /\ (enrich.pc # "idle" => enrich.todo # {})

\* The signals the stages work on.
HotAt == Oldest(hot.todo)
RecoveryAt(r) == Latest(recovery[r].todo)
EnrichAt == Latest(enrich.todo)

\* The hot path has still to attest the signal, or to send its alert.
HotAhead(s) ==
    \/ s >= nextId
    \/ s \in hot.todo /\ (s = HotAt => hot.pc \in {"scan", "attest"})
HotSilent(s) ==
    \/ s >= nextId
    \/ s \in hot.todo /\ (s = HotAt =>
          hot.pc \in {"scan", "attest", "persist", "submit", "dispatch"})

\* A row that is not inserted yet is untouched, and nothing happened for it.
UnseenInv == \A s \in Signals : s >= nextId => rows[s] = NewRow /\ onChain[s] = 0

\* Every tx a stage or the table has was broadcast for the signal it stands for.
TxInv ==
    /\ \A s \in Signals : rows[s].attestTx <= onChain[s] /\ enrich.seen[s].attestTx <= onChain[s]
    /\ hot.pc \in {"scan", "attest"} => hot.tx = NoTx
    /\ hot.pc # "scan" => hot.tx <= onChain[HotAt]
    /\ hot.pc \in {"persist", "submit"} => hot.tx # NoTx
    /\ \A r \in Recoverers : recovery[r].pc \in {"persist", "submit"} =>
          recovery[r].tx # NoTx /\ recovery[r].tx <= onChain[RecoveryAt(r)]

\* What a stage has done before the step it is at.
DoneInv ==
    /\ hot.pc \in {"setAlerted", "recordId"} => alert[HotAt].sent
    /\ hot.pc = "submit" => rows[HotAt].attestTx # NoTx
    /\ hot.pc = "dispatch" /\ hot.tx # NoTx /\ faults = 0 => rows[HotAt].attestTx # NoTx
    /\ \A r \in Recoverers : recovery[r].pc = "submit" /\ faults = 0 =>
          rows[RecoveryAt(r)].attestTx # NoTx
    /\ enrich.pc \in {"status", "edit"} => rows[EnrichAt].note

\* An alert is sent once, its message id is recorded after that, and its proof
\* link after the tx hash is.
ProofInv ==
    \A s \in Signals :
        /\ HotSilent(s) => ~alert[s].sent
        /\ ~alert[s].sent => alert[s].proof = NoTx
        /\ rows[s].messageId => alert[s].sent
        /\ enrich.seen[s].messageId => alert[s].sent
        /\ enrich.seen[s].attestTx # NoTx => rows[s].attestTx # NoTx
        /\ alert[s].proof # NoTx /\ faults = 0 =>
              /\ rows[s].attestTx # NoTx
              /\ enrich.seen[s].messageId => enrich.seen[s].attestTx # NoTx

\* Recoverers that have no broadcast of the signal in hand: while no tx is
\* recorded, those that hold one to be recorded; then, those that are past it.
Holding(r, s) == recovery[r].pc = "persist" /\ s = RecoveryAt(r)
Past(r, s) == s \in recovery[r].todo => s = RecoveryAt(r) /\ recovery[r].pc # "attest"
Spent(s) == {r \in Recoverers : IF rows[s].attestTx = NoTx THEN Holding(r, s) ELSE Past(r, s)}

\* A broadcast belongs to the hot path, to a fault or to one recoverer that has spent its own.
SpentInv ==
    \A s \in Signals :
        onChain[s] + (IF HotAhead(s) THEN 1 ELSE 0) <= 1 + faults + Cardinality(Spent(s))

TruthInv == UnseenInv /\ TxInv /\ DoneInv /\ StatusTruthful /\ AlertHonest /\ ProofInv

IndInv == TypeOK /\ WorkInv /\ TruthInv /\ SpentInv

-----------------------------------------------------------------------------
\* A stage that works is at a signal of its list.
AtInv ==
    /\ hot.pc # "scan" => HotAt \in hot.todo /\ HotAt \in Signals /\ HotAt < nextId
    /\ \A r \in Recoverers : recovery[r].pc # "idle" =>
          /\ RecoveryAt(r) \in recovery[r].todo /\ RecoveryAt(r) \in Signals
          /\ RecoveryAt(r) < nextId
    /\ enrich.pc # "idle" =>
          EnrichAt \in enrich.todo /\ EnrichAt \in Signals /\ EnrichAt < nextId

LEMMA AtWork == TypeOK /\ WorkInv => AtInv
  <1> SUFFICES ASSUME TypeOK, WorkInv PROVE AtInv
    OBVIOUS
  <1>6. nextId \in Int /\ nextId <= NumSignals + 1
    BY PipelineAssumption DEF TypeOK
  <1>7. IsFiniteSet(Inserted)
    BY <1>6, FS_Interval DEF Inserted
  <1>1. /\ Inserted \subseteq Signals /\ Inserted \subseteq Int /\ IsFiniteSet(Inserted)
        /\ \A s \in Inserted : s < nextId
    BY <1>6, <1>7, PipelineAssumption DEF Inserted, Signals
  <1>2. \A todo \in SUBSET Inserted : todo \in SUBSET Int /\ IsFiniteSet(todo)
    BY <1>1, FS_Subset
  <1>3. ASSUME hot.pc # "scan" PROVE HotAt \in hot.todo
    BY <1>2, <1>3, MinIn DEF WorkInv, HotAt, Oldest
  <1>4. ASSUME NEW r \in Recoverers, recovery[r].pc # "idle"
        PROVE  RecoveryAt(r) \in recovery[r].todo
    BY <1>2, <1>4, MaxIn DEF WorkInv, RecoveryAt, Latest
  <1>5. ASSUME enrich.pc # "idle" PROVE EnrichAt \in enrich.todo
    BY <1>2, <1>5, MaxIn DEF WorkInv, EnrichAt, Latest
  <1> QED
    BY <1>1, <1>3, <1>4, <1>5 DEF WorkInv, AtInv

LEMMA AtWorkNext == TypeOK' /\ WorkInv' => AtInv'
  BY AtWork, PTL

\* The fields of a row after each statement.
LEMMA RowWrites ==
    ASSUME rows \in [Signals -> Row], NEW s \in Signals
    PROVE  /\ \A status \in Statuses : SetSignalStatus(s, status) =>
                 /\ rows' \in [Signals -> Row] /\ rows'[s].status = status
                 /\ \A u \in Signals :
                       /\ u # s => rows'[u] = rows[u]
                       /\ rows'[u].attestTx = rows[u].attestTx /\ rows'[u].note = rows[u].note
                       /\ rows'[u].messageId = rows[u].messageId
           /\ \A tx \in Nat : UpdateSignalAttest(s, tx) =>
                 /\ rows' \in [Signals -> Row] /\ rows'[s].attestTx = tx
                 /\ \A u \in Signals :
                       /\ u # s => rows'[u] = rows[u]
                       /\ rows'[u].status = rows[u].status /\ rows'[u].note = rows[u].note
                       /\ rows'[u].messageId = rows[u].messageId
           /\ UpdateSignalNote(s) =>
                 /\ rows' \in [Signals -> Row] /\ rows'[s].note
                 /\ \A u \in Signals :
                       /\ u # s => rows'[u] = rows[u]
                       /\ rows'[u].attestTx = rows[u].attestTx
                       /\ rows'[u].status = rows[u].status
                       /\ rows'[u].messageId = rows[u].messageId
           /\ UpdateSignalTGMessageID(s) =>
                 /\ rows' \in [Signals -> Row] /\ rows'[s].messageId
                 /\ \A u \in Signals :
                       /\ u # s => rows'[u] = rows[u]
                       /\ rows'[u].attestTx = rows[u].attestTx /\ rows'[u].note = rows[u].note
                       /\ rows'[u].status = rows[u].status
  <1>1. rows[s] \in Row
    OBVIOUS
  <1>2. ASSUME NEW status \in Statuses, SetSignalStatus(s, status)
        PROVE  /\ rows' \in [Signals -> Row] /\ rows'[s].status = status
               /\ \A u \in Signals :
                     /\ u # s => rows'[u] = rows[u]
                     /\ rows'[u].attestTx = rows[u].attestTx /\ rows'[u].note = rows[u].note
                     /\ rows'[u].messageId = rows[u].messageId
    <2> DEFINE row == [rows[s] EXCEPT !.status = status]
    <2>1. /\ row \in Row /\ row.status = status /\ row.attestTx = rows[s].attestTx
          /\ row.note = rows[s].note /\ row.messageId = rows[s].messageId
      BY <1>1 DEF Row
    <2>2. rows' = [rows EXCEPT ![s] = row]
      BY <1>2 DEF SetSignalStatus
    <2> HIDE DEF row
    <2> QED
      BY <2>1, <2>2
  <1>3. ASSUME NEW tx \in Nat, UpdateSignalAttest(s, tx)
        PROVE  /\ rows' \in [Signals -> Row] /\ rows'[s].attestTx = tx
               /\ \A u \in Signals :
                     /\ u # s => rows'[u] = rows[u]
                     /\ rows'[u].status = rows[u].status /\ rows'[u].note = rows[u].note
                     /\ rows'[u].messageId = rows[u].messageId
    <2> DEFINE row == [rows[s] EXCEPT !.attestTx = tx]
    <2>1. /\ row \in Row /\ row.attestTx = tx /\ row.status = rows[s].status
          /\ row.note = rows[s].note /\ row.messageId = rows[s].messageId
      BY <1>1 DEF Row
    <2>2. rows' = [rows EXCEPT ![s] = row]
      BY <1>3 DEF UpdateSignalAttest
    <2> HIDE DEF row
    <2> QED
      BY <2>1, <2>2
  <1>4. ASSUME UpdateSignalNote(s)
        PROVE  /\ rows' \in [Signals -> Row] /\ rows'[s].note
               /\ \A u \in Signals :
                     /\ u # s => rows'[u] = rows[u]
                     /\ rows'[u].attestTx = rows[u].attestTx
                     /\ rows'[u].status = rows[u].status
                     /\ rows'[u].messageId = rows[u].messageId
    <2> DEFINE row == [rows[s] EXCEPT !.note = TRUE]
    <2>1. /\ row \in Row /\ row.note /\ row.attestTx = rows[s].attestTx
          /\ row.status = rows[s].status /\ row.messageId = rows[s].messageId
      BY <1>1 DEF Row
    <2>2. rows' = [rows EXCEPT ![s] = row]
      BY <1>4 DEF UpdateSignalNote
    <2> HIDE DEF row
    <2> QED
      BY <2>1, <2>2
  <1>5. ASSUME UpdateSignalTGMessageID(s)
        PROVE  /\ rows' \in [Signals -> Row] /\ rows'[s].messageId
               /\ \A u \in Signals :
                     /\ u # s => rows'[u] = rows[u]
                     /\ rows'[u].attestTx = rows[u].attestTx /\ rows'[u].note = rows[u].note
                     /\ rows'[u].status = rows[u].status
    <2> DEFINE row == [rows[s] EXCEPT !.messageId = TRUE]
    <2>1. /\ row \in Row /\ row.messageId /\ row.attestTx = rows[s].attestTx
          /\ row.status = rows[s].status /\ row.note = rows[s].note
      BY <1>1 DEF Row
    <2>2. rows' = [rows EXCEPT ![s] = row]
      BY <1>5 DEF UpdateSignalTGMessageID
    <2> HIDE DEF row
    <2> QED
      BY <2>1, <2>2
  <1> QED
    BY <1>2, <1>3, <1>4, <1>5

\* One more broadcast, of one signal.
LEMMA BroadcastIs ==
    ASSUME onChain \in [Signals -> Nat], NEW s \in Signals, Broadcast(s)
    PROVE  /\ onChain' \in [Signals -> Nat] /\ onChain'[s] = onChain[s] + 1
           /\ \A u \in Signals : u # s => onChain'[u] = onChain[u]
  BY DEF Broadcast

\* An alert that is sent.
LEMMA DeliveredIs ==
    ASSUME alert \in [Signals -> Alert], NEW s \in Signals, NEW tx \in Nat, Delivered(s, tx)
    PROVE  /\ alert' \in [Signals -> Alert]
           /\ alert'[s].sent /\ alert'[s].proof = tx /\ ~alert'[s].note
           /\ \A u \in Signals : u # s => alert'[u] = alert[u]
  <1> DEFINE shown == [sent |-> TRUE, proof |-> tx, note |-> FALSE]
  <1>1. shown \in Alert /\ shown.sent /\ shown.proof = tx /\ ~shown.note
    BY DEF Alert
  <1>2. alert' = [alert EXCEPT ![s] = shown]
    BY DEF Delivered
  <1> HIDE DEF shown
  <1> QED
    BY <1>1, <1>2

\* The detect stage after a signal.
LEMMA HotNextIs ==
    ASSUME TypeOK, HotNext
    PROVE  /\ hot' \in [pc : HotPc, todo : SUBSET Signals, tx : Nat]
           /\ hot'.todo = hot.todo \ {HotAt} /\ hot'.tx = NoTx
           /\ hot'.pc \in {"scan", "attest"} /\ (hot'.pc # "scan" => hot'.todo # {})
  <1>1. hot.todo \ {HotAt} \in SUBSET Signals /\ NoTx \in Nat
    BY DEF TypeOK, NoTx
  <1> QED
    BY <1>1 DEF HotNext, HotAt, HotPc

\* A recoverer after a signal; the others are where they were.
LEMMA RecoveryNextIs ==
    ASSUME TypeOK, NEW r \in Recoverers, RecoveryNext(r)
    PROVE  /\ recovery' \in [Recoverers -> [pc : RecoveryPc, todo : SUBSET Signals, tx : Nat]]
           /\ \A q \in Recoverers : q # r => recovery'[q] = recovery[q]
           /\ recovery'[r].todo = recovery[r].todo \ {RecoveryAt(r)}
           /\ recovery'[r].pc \in {"idle", "attest"}
           /\ recovery'[r].pc # "idle" => recovery'[r].todo # {}
  <1> DEFINE rest == recovery[r].todo \ {RecoveryAt(r)}
             next == [pc |-> IF rest = {} THEN "idle" ELSE "attest", todo |-> rest, tx |-> NoTx]
  <1>1. rest \in SUBSET Signals
    BY DEF TypeOK
  <1>2. /\ next \in [pc : RecoveryPc, todo : SUBSET Signals, tx : Nat]
        /\ next.todo = rest /\ next.pc \in {"idle", "attest"} /\ (next.pc # "idle" => rest # {})
    <2> HIDE DEF rest
    <2> QED
      BY <1>1 DEF RecoveryPc, NoTx
  <1>3. recovery' = [recovery EXCEPT ![r] = next]
    BY DEF RecoveryNext, RecoveryAt
  <1>4. recovery \in [Recoverers -> [pc : RecoveryPc, todo : SUBSET Signals, tx : Nat]]
    BY DEF TypeOK
  <1> HIDE DEF next
  <1> QED
    BY <1>2, <1>3, <1>4

\* A recoverer that holds a tx.
Takes(r, pc, tx) == recovery' = [recovery EXCEPT ![r].pc = pc, ![r].tx = tx]

LEMMA RecoveryTakes ==
    ASSUME TypeOK, NEW r \in Recoverers, NEW pc \in RecoveryPc, NEW tx \in Nat, Takes(r, pc, tx)
    PROVE  /\ recovery' \in [Recoverers -> [pc : RecoveryPc, todo : SUBSET Signals, tx : Nat]]
           /\ \A q \in Recoverers : q # r => recovery'[q] = recovery[q]
           /\ recovery'[r].todo = recovery[r].todo
           /\ recovery'[r].pc = pc /\ recovery'[r].tx = tx
  <1> DEFINE next == [pc |-> pc, todo |-> recovery[r].todo, tx |-> tx]
             moved == [recovery[r] EXCEPT !.pc = pc]
             settled == [moved EXCEPT !.tx = tx]
  <1>1. recovery \in [Recoverers -> [pc : RecoveryPc, todo : SUBSET Signals, tx : Nat]]
    BY DEF TypeOK
  <1>2. recovery[r] \in [pc : RecoveryPc, todo : SUBSET Signals, tx : Nat]
    BY <1>1
  <1>3. /\ next \in [pc : RecoveryPc, todo : SUBSET Signals, tx : Nat]
        /\ next.pc = pc /\ next.tx = tx /\ next.todo = recovery[r].todo
    BY <1>2
  <1>4. moved = [pc |-> pc, todo |-> recovery[r].todo, tx |-> recovery[r].tx]
    BY <1>2
  <1>5. settled = next
    <2> HIDE DEF moved
    <2> QED
      BY <1>4
  <1>6. recovery' = [recovery EXCEPT ![r] = settled]
    BY <1>1 DEF Takes
  <1> HIDE DEF next, settled
  <1> QED
    BY <1>1, <1>3, <1>5, <1>6

\* A recoverer at another step of the same signal.
LEMMA RecoveryMoves ==
    ASSUME TypeOK, NEW r \in Recoverers, NEW pc \in RecoveryPc,
           recovery' = [recovery EXCEPT ![r].pc = pc]
    PROVE  /\ recovery' \in [Recoverers -> [pc : RecoveryPc, todo : SUBSET Signals, tx : Nat]]
           /\ \A q \in Recoverers : q # r => recovery'[q] = recovery[q]
           /\ recovery'[r].todo = recovery[r].todo
           /\ recovery'[r].pc = pc /\ recovery'[r].tx = recovery[r].tx
  <1> DEFINE next == [recovery[r] EXCEPT !.pc = pc]
  <1>1. recovery \in [Recoverers -> [pc : RecoveryPc, todo : SUBSET Signals, tx : Nat]]
    BY DEF TypeOK
  <1>2. recovery[r] \in [pc : RecoveryPc, todo : SUBSET Signals, tx : Nat]
    BY <1>1
  <1>3. /\ next \in [pc : RecoveryPc, todo : SUBSET Signals, tx : Nat]
        /\ next.pc = pc /\ next.tx = recovery[r].tx /\ next.todo = recovery[r].todo
    BY <1>2
  <1>4. recovery' = [recovery EXCEPT ![r] = next]
    BY <1>1
  <1> HIDE DEF next
  <1> QED
    BY <1>1, <1>3, <1>4

\* A pass that begins, or a recoverer that is put back to its start.
LEMMA RecoveryBegins ==
    ASSUME TypeOK, NEW r \in Recoverers, NEW pc \in RecoveryPc, NEW todo \in SUBSET Signals,
           recovery' = [recovery EXCEPT ![r] = [pc |-> pc, todo |-> todo, tx |-> NoTx]]
    PROVE  /\ recovery' \in [Recoverers -> [pc : RecoveryPc, todo : SUBSET Signals, tx : Nat]]
           /\ \A q \in Recoverers : q # r => recovery'[q] = recovery[q]
           /\ recovery'[r].todo = todo /\ recovery'[r].pc = pc
  <1> DEFINE next == [pc |-> pc, todo |-> todo, tx |-> NoTx]
  <1>1. recovery \in [Recoverers -> [pc : RecoveryPc, todo : SUBSET Signals, tx : Nat]]
    BY DEF TypeOK
  <1>2. /\ next \in [pc : RecoveryPc, todo : SUBSET Signals, tx : Nat]
        /\ next.pc = pc /\ next.todo = todo
    BY DEF NoTx
  <1>3. recovery' = [recovery EXCEPT ![r] = next]
    OBVIOUS
  <1> HIDE DEF next
  <1> QED
    BY <1>1, <1>2, <1>3

\* The enrich stage after a signal: the copy of its row is gone.
LEMMA EnrichNextIs ==
    ASSUME TypeOK, EnrichNext, EnrichAt \in Signals
    PROVE  /\ enrich' \in [pc : EnrichPc, todo : SUBSET Signals, seen : [Signals -> Row]]
           /\ enrich'.todo = enrich.todo \ {EnrichAt}
           /\ enrich'.pc \in {"idle", "note"} /\ (enrich'.pc # "idle" => enrich'.todo # {})
           /\ \A s \in Signals : enrich'.seen[s] = IF s = EnrichAt THEN NewRow ELSE enrich.seen[s]
  <1> DEFINE rest == enrich.todo \ {EnrichAt}
             left == [enrich.seen EXCEPT ![EnrichAt] = NewRow]
  <1>1. NewRow \in Row
    BY DEF NewRow, Row, Statuses, NoTx
  <1>2. enrich.seen \in [Signals -> Row] /\ rest \in SUBSET Signals
    BY DEF TypeOK
  <1>3. /\ left \in [Signals -> Row]
        /\ \A s \in Signals : left[s] = IF s = EnrichAt THEN NewRow ELSE enrich.seen[s]
    BY <1>1, <1>2
  <1>4. enrich' = [pc |-> IF rest = {} THEN "idle" ELSE "note", todo |-> rest, seen |-> left]
    BY DEF EnrichNext, EnrichAt
  <1> HIDE DEF rest, left
  <1>5. enrich'.seen = left /\ enrich'.todo = rest
    BY <1>4
  <1>6. enrich'.pc \in {"idle", "note"} /\ (enrich'.pc # "idle" => rest # {})
    BY <1>4
  <1>7. enrich' \in [pc : EnrichPc, todo : SUBSET Signals, seen : [Signals -> Row]]
    BY <1>2, <1>3, <1>4 DEF EnrichPc
  <1> QED
    BY <1>3, <1>5, <1>6, <1>7 DEF rest

\* A fault is counted.
LEMMA FaultIs ==
    ASSUME faults \in 0..MaxFaults, NEW kind, Fault(kind)
    PROVE  faults' \in 0..MaxFaults /\ faults' = faults + 1
  BY PipelineAssumption DEF Fault

\* A status that is written, or left.
LEMMA TryIs ==
    ASSUME rows \in [Signals -> Row], NEW s \in Signals, NEW status \in Statuses,
           TrySetStatus(s, status)
    PROVE  /\ rows' \in [Signals -> Row]
           /\ rows'[s].status = status \/ rows'[s] = rows[s]
           /\ \A u \in Signals :
                 /\ u # s => rows'[u] = rows[u]
                 /\ rows'[u].attestTx = rows[u].attestTx /\ rows'[u].note = rows[u].note
                 /\ rows'[u].messageId = rows[u].messageId
  BY RowWrites DEF TrySetStatus

\* The detect stage at another step of the same signal.
LEMMA HotMoves ==
    ASSUME TypeOK, NEW pc \in HotPc, NEW tx \in Nat,
           \/ hot' = [hot EXCEPT !.pc = pc, !.tx = tx]
           \/ hot' = [hot EXCEPT !.pc = pc] /\ tx = hot.tx
    PROVE  /\ hot' \in [pc : HotPc, todo : SUBSET Signals, tx : Nat]
           /\ hot'.todo = hot.todo /\ hot'.pc = pc /\ hot'.tx = tx
  BY DEF TypeOK

\* The enrich stage at another step of the same signal.
LEMMA EnrichMoves ==
    ASSUME TypeOK, NEW pc \in EnrichPc, enrich' = [enrich EXCEPT !.pc = pc]
    PROVE  /\ enrich' \in [pc : EnrichPc, todo : SUBSET Signals, seen : [Signals -> Row]]
           /\ enrich'.todo = enrich.todo /\ enrich'.seen = enrich.seen /\ enrich'.pc = pc
  BY DEF TypeOK

\* The rows a pass of the enrich stage takes, as they are now.
LEMMA EnrichBegins ==
    ASSUME TypeOK, EnrichPass
    PROVE  /\ enrich' \in [pc : EnrichPc, todo : SUBSET Signals, seen : [Signals -> Row]]
           /\ enrich'.pc = "note" /\ enrich'.todo # {} /\ enrich'.todo \subseteq Inserted
           /\ \A s \in Signals : enrich'.seen[s] \in {rows[s], NewRow}
  <1> DEFINE needing == Newest({s \in Inserted : ~rows[s].note}, EnrichBatch)
             seen == [s \in Signals |-> IF s \in needing THEN rows[s] ELSE NewRow]
  <1>1. needing \subseteq Inserted
    BY DEF Newest
  <1>2. Inserted \subseteq Signals
    BY PipelineAssumption DEF TypeOK, Inserted, Signals
  <1>3. enrich' = [pc |-> "note", todo |-> needing, seen |-> seen] /\ needing # {}
    BY DEF EnrichPass
  <1> HIDE DEF needing
  <1>4. NewRow \in Row /\ rows \in [Signals -> Row]
    BY DEF NewRow, Row, Statuses, NoTx, TypeOK
  <1>5. seen \in [Signals -> Row] /\ \A s \in Signals : seen[s] \in {rows[s], NewRow}
    BY <1>4
  <1> HIDE DEF seen
  <1>6. enrich'.seen = seen /\ enrich'.todo = needing /\ enrich'.pc = "note"
    BY <1>3
  <1>7. enrich' \in [pc : EnrichPc, todo : SUBSET Signals, seen : [Signals -> Row]]
    BY <1>1, <1>2, <1>3, <1>5 DEF EnrichPc
  <1> QED
    BY <1>1, <1>3, <1>5, <1>6, <1>7

\* The edit shows the note and the snapshot's tx, or nothing changes.
LEMMA EditIs ==
    ASSUME TypeOK, EnrichEdit, EnrichAt \in Signals
    PROVE  \/ UNCHANGED alert
           \/ /\ enrich.seen[EnrichAt].messageId
              /\ alert' \in [Signals -> Alert]
              /\ alert'[EnrichAt].note /\ alert'[EnrichAt].sent = alert[EnrichAt].sent
              /\ alert'[EnrichAt].proof = enrich.seen[EnrichAt].attestTx
              /\ \A u \in Signals : u # EnrichAt => alert'[u] = alert[u]
  <1>1. CASE UNCHANGED alert
    BY <1>1
  <1>2. CASE ~UNCHANGED alert
    <2> DEFINE tx == enrich.seen[EnrichAt].attestTx
               noted == [alert[EnrichAt] EXCEPT !.note = TRUE]
               shown == [noted EXCEPT !.proof = tx]
    <2>1. /\ enrich.seen[EnrichAt].messageId
          /\ alert' = [alert EXCEPT ![EnrichAt].note = TRUE, ![EnrichAt].proof = tx]
      BY <1>2 DEF EnrichEdit, EnrichAt
    <2>2. tx \in Nat /\ alert \in [Signals -> Alert]
      BY DEF TypeOK, Row
    <2>3. alert[EnrichAt] \in Alert
      BY <2>2
    <2>4. alert' = [alert EXCEPT ![EnrichAt] = shown]
      BY <2>1, <2>2
    <2>5. noted \in Alert /\ noted.note /\ noted.sent = alert[EnrichAt].sent
      BY <2>3 DEF Alert
    <2>6. /\ shown \in Alert /\ shown.note /\ shown.sent = alert[EnrichAt].sent
          /\ shown.proof = tx
      <3> HIDE DEF noted, tx
      <3> QED
        BY <2>2, <2>5 DEF Alert
    <2> HIDE DEF shown, tx
    <2> QED
      BY <2>1, <2>2, <2>4, <2>6 DEF tx
  <1> QED
    BY <1>1, <1>2

-----------------------------------------------------------------------------
\* A signal is inserted into a row nobody has touched.
LEMMA InsertIs ==
    ASSUME TypeOK, ScanInserts
    PROVE  /\ nextId \in Signals /\ nextId' = nextId + 1
           /\ rows' \in [Signals -> Row] /\ rows'[nextId] = NewRow
           /\ \A u \in Signals : u # nextId => rows'[u] = rows[u]
           /\ hot' \in [pc : HotPc, todo : SUBSET Signals, tx : Nat]
           /\ hot'.todo = hot.todo \cup {nextId} /\ hot'.pc = hot.pc /\ hot'.tx = hot.tx
  <1>1. nextId \in Signals
    BY PipelineAssumption DEF TypeOK, ScanInserts, Signals
  <1>2. NewRow \in Row
    BY DEF NewRow, Row, Statuses, NoTx
  <1> QED
    BY <1>1, <1>2 DEF TypeOK, ScanInserts

\* The types after a step of the detect stage.
LEMMA HotType ==
    ASSUME TypeOK, WorkInv, ScanInserts \/ ScanReturns \/ ScanFails \/ HotStep
    PROVE  TypeOK' /\ WorkInv'
  <1> USE DEF NoTx
  <1>1. CASE ScanInserts
    <2>1. nextId' \in 1..(NumSignals + 1) /\ Inserted' = Inserted \cup {nextId}
      BY <1>1, PipelineAssumption DEF TypeOK, ScanInserts, Inserted
    <2> QED
      BY <1>1, <2>1, InsertIs DEF TypeOK, WorkInv, ScanInserts
  <1>2. CASE ScanReturns
    BY <1>2, HotMoves DEF TypeOK, WorkInv, ScanReturns, HotPc, Inserted
  <1>3. CASE ScanFails
    BY <1>3 DEF TypeOK, WorkInv, ScanFails, HotStart, HotPc, Inserted
  <1>4. ASSUME HotStep PROVE TypeOK' /\ WorkInv'
    <2>1. hot.pc # "scan" /\ HotAt \in hot.todo /\ HotAt \in Signals
      BY <1>4, AtWork DEF AtInv, HotStep, HotAttest, HotAttestFails, HotPersist, HotPersistFails,
        HotSubmit, HotDispatch, HotDispatchFails, HotSetAlerted, HotRecordId
    <2>2. UNCHANGED <<nextId, recovery, enrich>>
      BY <1>4 DEF HotStep, HotAttest, HotAttestFails, HotPersist, HotPersistFails,
        HotSubmit, HotDispatch, HotDispatchFails, HotSetAlerted, HotRecordId
    <2>3. /\ rows' \in [Signals -> Row] /\ onChain' \in [Signals -> Nat]
          /\ alert' \in [Signals -> Alert] /\ faults' \in 0..MaxFaults
          /\ hot' \in [pc : HotPc, todo : SUBSET Signals, tx : Nat]
          /\ hot'.todo \subseteq hot.todo /\ (hot'.pc # "scan" => hot'.todo # {})
      <3> USE DEF HotAt
      <3>1. CASE HotAttest
        <4>1. onChain[HotAt] + 1 \in Nat /\ "persist" \in HotPc
          BY <2>1 DEF TypeOK, HotPc
        <4>2. hot' = [hot EXCEPT !.pc = "persist", !.tx = onChain[HotAt] + 1]
          BY <3>1 DEF HotAttest
        <4>3. hot'.todo = hot.todo /\ hot' \in [pc : HotPc, todo : SUBSET Signals, tx : Nat]
          BY <4>1, <4>2, HotMoves
        <4>4. onChain' \in [Signals -> Nat]
          BY <2>1, <3>1, BroadcastIs DEF HotAttest, TypeOK
        <4> QED
          BY <2>1, <3>1, <4>3, <4>4 DEF HotAttest, TypeOK
      <3>2. CASE HotAttestFails
        <4>1. hot'.todo = hot.todo /\ hot' \in [pc : HotPc, todo : SUBSET Signals, tx : Nat]
          BY <3>2, HotMoves DEF HotAttestFails, HotPc, TypeOK
        <4> QED
          BY <2>1, <3>2, <4>1, BroadcastIs, FaultIs DEF HotAttestFails, TypeOK
      <3>3. CASE HotPersist
        BY <2>1, <3>3, RowWrites, HotMoves DEF HotPersist, TypeOK, HotPc
      <3>4. CASE HotPersistFails
        BY <2>1, <3>4, FaultIs, HotMoves DEF HotPersistFails, TypeOK, HotPc
      <3>5. CASE HotSubmit
        BY <2>1, <3>5, TryIs, HotMoves DEF HotSubmit, TypeOK, HotPc, Statuses
      <3>6. CASE HotDispatch
        BY <2>1, <3>6, DeliveredIs, HotMoves DEF HotDispatch, TypeOK, HotPc
      <3>7. CASE HotDispatchFails
        <4>1. hot.tx \in Nat
          BY DEF TypeOK
        <4> QED
          BY <2>1, <3>7, <4>1, DeliveredIs, HotNextIs DEF HotDispatchFails, TypeOK
      <3>8. CASE HotSetAlerted
        BY <2>1, <3>8, TryIs, HotMoves DEF HotSetAlerted, TypeOK, HotPc, Statuses
      <3>9. CASE HotRecordId
        BY <2>1, <3>9, RowWrites, HotNextIs DEF HotRecordId, TypeOK
      <3> QED
        BY <1>4, <3>1, <3>2, <3>3, <3>4, <3>5, <3>6, <3>7, <3>8, <3>9 DEF HotStep
    <2> QED
      BY <2>2, <2>3 DEF TypeOK, WorkInv, Inserted
  <1> QED
    BY <1>1, <1>2, <1>3, <1>4

\* The types after a step of a recoverer.
LEMMA RecoveryType ==
    ASSUME TypeOK, WorkInv, NEW r \in Recoverers, RecoveryStep(r)
    PROVE  TypeOK' /\ WorkInv'
  <1> USE DEF NoTx
  <1>1. UNCHANGED <<nextId, alert, hot, enrich>>
    BY DEF RecoveryStep, RecoveryPass, RecoveryAttest, RecoveryAttestFails, RecoveryPersist,
      RecoverySubmit
  <1>2. ~RecoveryPass(r) => RecoveryAt(r) \in recovery[r].todo /\ RecoveryAt(r) \in Signals
    BY AtWork DEF AtInv, RecoveryStep, RecoveryAttest, RecoveryAttestFails, RecoveryPersist,
      RecoverySubmit
  <1>3. /\ rows' \in [Signals -> Row] /\ onChain' \in [Signals -> Nat]
        /\ faults' \in 0..MaxFaults
        /\ recovery' \in [Recoverers -> [pc : RecoveryPc, todo : SUBSET Signals, tx : Nat]]
        /\ \A q \in Recoverers : q # r => recovery'[q] = recovery[q]
        /\ recovery'[r].todo \subseteq Inserted
        /\ recovery'[r].pc # "idle" => recovery'[r].todo # {}
    <2> USE DEF RecoveryAt
    <2>1. CASE RecoveryPass(r)
      <3> DEFINE pending == {s \in Scanned(r) : rows[s].attestTx = NoTx}
      <3>1. pending \subseteq Inserted /\ pending # {}
        BY <2>1 DEF RecoveryPass, Scanned, Newest
      <3>2. pending \in SUBSET Signals
        BY <3>1, PipelineAssumption DEF TypeOK, Inserted, Signals
      <3>3. recovery' = [recovery EXCEPT ![r] = [pc |-> "attest", todo |-> pending, tx |-> NoTx]]
        BY <2>1 DEF RecoveryPass
      <3>4. UNCHANGED <<rows, onChain, faults>>
        BY <2>1 DEF RecoveryPass
      <3> HIDE DEF pending
      <3> QED
        BY <3>1, <3>2, <3>3, <3>4, RecoveryBegins DEF TypeOK, RecoveryPc
    <2>2. CASE RecoveryAttest(r)
      <3>1. onChain[RecoveryAt(r)] + 1 \in Nat /\ ~RecoveryPass(r)
        BY <1>2, <2>2 DEF TypeOK, RecoveryAttest, RecoveryPass
      <3>2. Takes(r, "persist", onChain[RecoveryAt(r)] + 1)
        BY <2>2 DEF RecoveryAttest, Takes
      <3>3. "persist" \in RecoveryPc
        BY DEF RecoveryPc
      <3>4. /\ recovery' \in [Recoverers -> [pc : RecoveryPc, todo : SUBSET Signals, tx : Nat]]
            /\ \A q \in Recoverers : q # r => recovery'[q] = recovery[q]
            /\ recovery'[r].todo = recovery[r].todo
        BY <3>1, <3>2, <3>3, RecoveryTakes
      <3>5. onChain' \in [Signals -> Nat]
        BY <1>2, <2>2, <3>1, BroadcastIs DEF RecoveryAttest, TypeOK
      <3> QED
        BY <1>2, <2>2, <3>1, <3>4, <3>5 DEF RecoveryAttest, TypeOK, WorkInv
    <2>3. CASE RecoveryAttestFails(r)
      <3>1. ~RecoveryPass(r)
        BY <2>3 DEF RecoveryAttestFails, RecoveryPass
      <3>2. /\ recovery' \in [Recoverers -> [pc : RecoveryPc, todo : SUBSET Signals, tx : Nat]]
            /\ \A q \in Recoverers : q # r => recovery'[q] = recovery[q]
            /\ recovery'[r].todo \subseteq Inserted
            /\ recovery'[r].pc # "idle" => recovery'[r].todo # {}
        BY <2>3, RecoveryNextIs DEF RecoveryAttestFails, WorkInv
      <3> QED
        BY <1>2, <2>3, <3>1, <3>2, BroadcastIs, FaultIs DEF RecoveryAttestFails, TypeOK
    <2>4. CASE RecoveryPersist(r)
      <3>1. recovery[r].tx \in Nat /\ ~RecoveryPass(r)
        BY <2>4 DEF TypeOK, RecoveryPersist, RecoveryPass
      <3>2. /\ recovery' \in [Recoverers -> [pc : RecoveryPc, todo : SUBSET Signals, tx : Nat]]
            /\ \A q \in Recoverers : q # r => recovery'[q] = recovery[q]
            /\ recovery'[r].todo = recovery[r].todo
        BY <2>4, <3>1, RecoveryMoves DEF RecoveryPersist, RecoveryPc
      <3>3. recovery[r].todo # {}
        BY <1>2, <3>1
      <3> QED
        BY <1>2, <2>4, <3>1, <3>2, <3>3, RowWrites, FaultIs DEF RecoveryPersist, TypeOK, WorkInv
    <2>5. CASE RecoverySubmit(r)
      <3>1. ~RecoveryPass(r)
        BY <2>5 DEF RecoverySubmit, RecoveryPass
      <3> QED
        BY <1>2, <2>5, <3>1, TryIs, RecoveryNextIs DEF RecoverySubmit, TypeOK, WorkInv, Statuses
    <2> QED
      BY <2>1, <2>2, <2>3, <2>4, <2>5 DEF RecoveryStep
  <1>4. TypeOK'
    BY <1>1, <1>3 DEF TypeOK
  <1>5. WorkInv'
    <2>1. Inserted' = Inserted
      BY <1>1 DEF Inserted
    <2> QED
      BY <1>1, <1>3, <2>1 DEF WorkInv
  <1> QED
    BY <1>4, <1>5

\* The types after a step of the enrich stage.
LEMMA EnrichType ==
    ASSUME TypeOK, WorkInv, EnrichStep
    PROVE  TypeOK' /\ WorkInv'
  <1>1. UNCHANGED <<nextId, onChain, hot, recovery, faults>>
    BY DEF EnrichStep, EnrichPass, EnrichNote, EnrichNoteFails, EnrichStatus, EnrichEdit
  <1>2. ~EnrichPass => EnrichAt \in enrich.todo /\ EnrichAt \in Signals
    BY AtWork DEF AtInv, EnrichStep, EnrichNote, EnrichNoteFails, EnrichStatus, EnrichEdit
  <1>3. /\ rows' \in [Signals -> Row] /\ alert' \in [Signals -> Alert]
        /\ enrich' \in [pc : EnrichPc, todo : SUBSET Signals, seen : [Signals -> Row]]
        /\ enrich'.todo \subseteq Inserted
        /\ enrich'.pc # "idle" => enrich'.todo # {}
    <2> USE DEF EnrichAt
    <2>1. CASE EnrichPass
      <3>1. UNCHANGED <<rows, alert>>
        BY <2>1 DEF EnrichPass
      <3> QED
        BY <2>1, <3>1, EnrichBegins DEF TypeOK
    <2>2. CASE EnrichNote
      <3>1. ~EnrichPass
        BY <2>2 DEF EnrichNote, EnrichPass
      <3> QED
        BY <1>2, <2>2, <3>1, RowWrites, EnrichMoves DEF EnrichNote, TypeOK, EnrichPc, WorkInv
    <2>3. CASE EnrichNoteFails
      <3>1. ~EnrichPass
        BY <2>3 DEF EnrichNoteFails, EnrichPass
      <3> QED
        BY <1>2, <2>3, <3>1, EnrichNextIs DEF EnrichNoteFails, TypeOK, WorkInv
    <2>4. CASE EnrichStatus
      <3>1. ~EnrichPass
        BY <2>4 DEF EnrichStatus, EnrichPass
      <3>2. rows' \in [Signals -> Row]
        BY <1>2, <2>4, <3>1, TryIs DEF EnrichStatus, TypeOK, Statuses
      <3> QED
        BY <1>2, <2>4, <3>1, <3>2, EnrichMoves DEF EnrichStatus, TypeOK, EnrichPc, WorkInv
    <2>5. CASE EnrichEdit
      <3>1. ~EnrichPass
        BY <2>5 DEF EnrichEdit, EnrichPass
      <3>2. alert' \in [Signals -> Alert]
        BY <1>2, <2>5, <3>1, EditIs DEF TypeOK
      <3> QED
        BY <1>2, <2>5, <3>1, <3>2, EnrichNextIs DEF EnrichEdit, TypeOK, WorkInv
    <2> QED
      BY <2>1, <2>2, <2>3, <2>4, <2>5 DEF EnrichStep
  <1>4. TypeOK'
    BY <1>1, <1>3 DEF TypeOK
  <1>5. WorkInv'
    <2>1. Inserted' = Inserted
      BY <1>1 DEF Inserted
    <2> QED
      BY <1>1, <1>3, <2>1 DEF WorkInv
  <1> QED
    BY <1>4, <1>5

\* A crash takes every stage of the supervisor back to its start.
LEMMA CrashIs ==
    ASSUME TypeOK, Crash
    PROVE  /\ hot' = HotStart /\ HotStart.pc = "scan" /\ HotStart.todo = {} /\ HotStart.tx = NoTx
           /\ recovery' \in [Recoverers -> [pc : RecoveryPc, todo : SUBSET Signals, tx : Nat]]
           /\ \A q \in Recoverers : q # Loop => recovery'[q] = recovery[q]
           /\ recovery'[Loop].todo = {} /\ recovery'[Loop].pc = "idle"
           /\ enrich' = EnrichStart /\ EnrichStart.pc = "idle" /\ EnrichStart.todo = {}
           /\ \A s \in Signals : EnrichStart.seen[s] = NewRow
           /\ faults' \in 0..MaxFaults /\ faults' = faults + 1
  <1>1. Loop \in Recoverers /\ {} \in SUBSET Signals /\ "idle" \in RecoveryPc
    BY DEF Recoverers, RecoveryPc
  <1>2. recovery' = [recovery EXCEPT ![Loop] = [pc |-> "idle", todo |-> {}, tx |-> NoTx]]
    BY DEF Crash, RecoveryStart
  <1>3. /\ recovery' \in [Recoverers -> [pc : RecoveryPc, todo : SUBSET Signals, tx : Nat]]
        /\ \A q \in Recoverers : q # Loop => recovery'[q] = recovery[q]
        /\ recovery'[Loop].todo = {} /\ recovery'[Loop].pc = "idle"
    BY <1>1, <1>2, RecoveryBegins
  <1> QED
    BY <1>3, FaultIs DEF Crash, TypeOK, HotStart, EnrichStart

\* The types after a crash, or the death of a command.
LEMMA CrashType ==
    ASSUME TypeOK, WorkInv, Crash \/ \E r \in Commands : CommandDies(r)
    PROVE  TypeOK' /\ WorkInv'
  <1>1. CASE Crash
    <2>1. hot' \in [pc : HotPc, todo : SUBSET Signals, tx : Nat]
      BY <1>1 DEF Crash, HotStart, HotPc, NoTx
    <2>2. enrich' \in [pc : EnrichPc, todo : SUBSET Signals, seen : [Signals -> Row]]
      <3>1. NewRow \in Row
        BY DEF NewRow, Row, Statuses, NoTx
      <3> QED
        BY <1>1, <3>1 DEF Crash, EnrichStart, EnrichPc
    <2>3. UNCHANGED <<rows, nextId, onChain, alert>> /\ Inserted' = Inserted
      BY <1>1 DEF Crash, Inserted
    <2>4. TypeOK'
      BY <1>1, <2>1, <2>2, <2>3, CrashIs DEF TypeOK
    <2>5. WorkInv'
      BY <1>1, <2>3, CrashIs DEF WorkInv
    <2> QED
      BY <2>4, <2>5
  <1>2. ASSUME NEW r \in Commands, CommandDies(r) PROVE TypeOK' /\ WorkInv'
    <2>1. r \in Recoverers /\ {} \in SUBSET Signals /\ "idle" \in RecoveryPc
      BY DEF Recoverers, RecoveryPc
    <2>2. recovery' = [recovery EXCEPT ![r] = [pc |-> "idle", todo |-> {}, tx |-> NoTx]]
      BY <1>2 DEF CommandDies, RecoveryStart
    <2>3. /\ recovery' \in [Recoverers -> [pc : RecoveryPc, todo : SUBSET Signals, tx : Nat]]
          /\ \A q \in Recoverers : q # r => recovery'[q] = recovery[q]
          /\ recovery'[r].todo = {} /\ recovery'[r].pc = "idle"
      BY <2>1, <2>2, RecoveryBegins
    <2>4. UNCHANGED <<rows, nextId, onChain, alert, hot, enrich>> /\ Inserted' = Inserted
      BY <1>2 DEF CommandDies, Inserted
    <2>5. TypeOK'
      BY <1>2, <2>3, <2>4, FaultIs DEF TypeOK, CommandDies
    <2>6. WorkInv'
      BY <2>3, <2>4 DEF WorkInv
    <2> QED
      BY <2>5, <2>6
  <1> QED
    BY <1>1, <1>2

\* Every step keeps the types, and the work of the stages on inserted rows.
LEMMA TypeStep ==
    ASSUME TypeOK, WorkInv, [Next]_vars
    PROVE  TypeOK' /\ WorkInv'
  <1>1. CASE UNCHANGED vars
    BY <1>1 DEF vars, TypeOK, WorkInv, Inserted
  <1> QED
    BY <1>1, HotType, RecoveryType, EnrichType, CrashType DEF Next

-----------------------------------------------------------------------------
\* What the detect stage does keeps the table, the alerts and the stages truthful.
LEMMA HotTruth ==
    ASSUME IndInv, HotStep, TypeOK', WorkInv'
    PROVE  TruthInv'
  <1> USE DEF NoTx
  <1>1. /\ HotAt \in hot.todo /\ HotAt \in Signals /\ HotAt < nextId /\ hot.pc # "scan"
        /\ hot'.pc # "scan" => HotAt' \in hot'.todo /\ HotAt' \in Signals
    BY AtWork, AtWorkNext DEF IndInv, AtInv, HotStep, HotAttest, HotAttestFails, HotPersist,
      HotPersistFails, HotSubmit, HotDispatch, HotDispatchFails, HotSetAlerted, HotRecordId,
      Signals
  <1>2. /\ nextId' = nextId /\ recovery' = recovery /\ enrich' = enrich
        /\ EnrichAt' = EnrichAt /\ \A r \in Recoverers : RecoveryAt(r)' = RecoveryAt(r)
    BY DEF HotStep, HotAttest, HotAttestFails, HotPersist, HotPersistFails,
      HotSubmit, HotDispatch, HotDispatchFails, HotSetAlerted, HotRecordId, EnrichAt, RecoveryAt
  <1>3. \A r \in Recoverers : recovery[r].pc # "idle" => RecoveryAt(r) \in Signals
    BY AtWork DEF IndInv, AtInv
  <1>4. enrich.pc # "idle" => EnrichAt \in Signals
    BY AtWork DEF IndInv, AtInv
  <1>5. TypeOK /\ UnseenInv /\ TxInv /\ DoneInv /\ StatusTruthful /\ AlertHonest /\ ProofInv
    BY DEF IndInv, TruthInv
  <1>6. CASE HotAttest
    <2>1. /\ rows' = rows /\ alert' = alert /\ faults' = faults
          /\ hot.pc = "attest" /\ hot'.pc = "persist" /\ hot'.tx = onChain[HotAt] + 1
          /\ onChain'[HotAt] = onChain[HotAt] + 1
          /\ \A u \in Signals : u # HotAt => onChain'[u] = onChain[u]
          /\ HotAt' = HotAt /\ hot'.todo = hot.todo
      BY <1>1, <1>5, <1>6, BroadcastIs DEF HotAttest, HotAt, TypeOK
    <2>2. UnseenInv'
      BY <1>1, <1>2, <1>5, <2>1 DEF UnseenInv, TypeOK, Signals
    <2>3. TxInv'
      <3>1. \A u \in Signals : onChain[u] \in Nat /\ onChain'[u] \in Nat /\ onChain'[u] >= onChain[u]
        BY <1>1, <1>2, <1>5, <2>1 DEF TypeOK
      <3> QED
        BY <1>1, <1>2, <1>5, <2>1, <1>3, <3>1 DEF TxInv, TypeOK, Row
    <2>4. DoneInv'
      BY <1>1, <1>2, <1>5, <2>1, <1>3, <1>4 DEF DoneInv, TxInv, TypeOK, Row
    <2>5. StatusTruthful'
      BY <1>1, <1>2, <1>5, <2>1 DEF StatusTruthful, DoneInv, TxInv, TypeOK, Row
    <2>6. AlertHonest'
      BY <1>1, <1>2, <1>5, <2>1 DEF AlertHonest, TxInv, TypeOK, Row, Alert
    <2>7. ProofInv'
      BY <1>1, <1>2, <1>5, <2>1 DEF ProofInv, HotSilent, DoneInv, TxInv, TypeOK, Row, Alert
    <2> QED
      BY <2>2, <2>3, <2>4, <2>5, <2>6, <2>7 DEF TruthInv
  <1>7. CASE HotAttestFails
    <2>1. /\ rows' = rows /\ alert' = alert /\ (faults' = faults \/ faults' = faults + 1)
          /\ hot.pc = "attest" /\ hot'.pc = "dispatch" /\ hot'.tx = hot.tx
          /\ \A u \in Signals : onChain'[u] >= onChain[u]
          /\ \A u \in Signals : u # HotAt => onChain'[u] = onChain[u]
          /\ HotAt' = HotAt /\ hot'.todo = hot.todo
      BY <1>1, <1>5, <1>7, BroadcastIs, FaultIs DEF HotAttestFails, HotAt, TypeOK
    <2>2. UnseenInv'
      BY <1>1, <1>2, <1>5, <2>1 DEF UnseenInv, TypeOK, Signals
    <2>3. TxInv'
      BY <1>1, <1>2, <1>5, <2>1, <1>3 DEF TxInv, TypeOK, Row
    <2>4. DoneInv'
      BY <1>1, <1>2, <1>5, <2>1, <1>3, <1>4 DEF DoneInv, TxInv, TypeOK, Row
    <2>5. StatusTruthful'
      BY <1>1, <1>2, <1>5, <2>1 DEF StatusTruthful, DoneInv, TxInv, TypeOK, Row
    <2>6. AlertHonest'
      BY <1>1, <1>2, <1>5, <2>1 DEF AlertHonest, TxInv, TypeOK, Row, Alert
    <2>7. ProofInv'
      BY <1>1, <1>2, <1>5, <2>1 DEF ProofInv, HotSilent, DoneInv, TxInv, TypeOK, Row, Alert
    <2> QED
      BY <2>2, <2>3, <2>4, <2>5, <2>6, <2>7 DEF TruthInv
  <1>8. CASE HotPersist
    <2>1. /\ onChain' = onChain /\ alert' = alert /\ faults' = faults
          /\ hot.pc = "persist" /\ hot'.pc = "submit" /\ hot'.tx = hot.tx
          /\ rows'[HotAt].attestTx = hot.tx
          /\ \A u \in Signals :
                /\ u # HotAt => rows'[u] = rows[u]
                /\ rows'[u].status = rows[u].status /\ rows'[u].note = rows[u].note
                /\ rows'[u].messageId = rows[u].messageId
          /\ HotAt' = HotAt /\ hot'.todo = hot.todo
      BY <1>1, <1>5, <1>8, RowWrites DEF HotPersist, HotAt, TypeOK
    <2>2. UnseenInv'
      BY <1>1, <1>2, <1>5, <2>1 DEF UnseenInv, TypeOK, Signals
    <2>3. TxInv'
      BY <1>1, <1>2, <1>5, <2>1, <1>3 DEF TxInv, TypeOK, Row
    <2>4. DoneInv'
      <3>1. HotAt \in Signals /\ hot.tx # NoTx
        BY <1>1, <1>5, <2>1 DEF TxInv
      <3>2. \A u \in Signals : /\ rows'[u].note = rows[u].note
                              /\ rows[u].attestTx # NoTx => rows'[u].attestTx # NoTx
        <4>1. \A u \in Signals : u # HotAt => rows'[u] = rows[u]
          BY <2>1
        <4> QED
          BY <2>1, <3>1, <4>1
      <3>3. /\ recovery' = recovery /\ enrich' = enrich
            /\ \A q \in Recoverers : RecoveryAt(q)' = RecoveryAt(q)
            /\ EnrichAt' = EnrichAt
        BY <1>2
      <3>4. /\ \A q \in Recoverers : recovery[q].pc = "submit" => RecoveryAt(q) \in Signals
            /\ enrich.pc # "idle" => EnrichAt \in Signals
        BY <1>3, <1>4
      <3>5. rows'[HotAt'].attestTx # NoTx
        BY <2>1, <3>1
      <3> QED
        BY <1>5, <2>1, <3>2, <3>3, <3>4, <3>5 DEF DoneInv
    <2>5. StatusTruthful'
      <3>1. \A u \in Signals : rows[u].attestTx # NoTx => rows'[u].attestTx # NoTx
        <4>1. \A u \in Signals : u # HotAt => rows'[u] = rows[u]
          BY <2>1
        <4>2. hot.tx # NoTx
          BY <1>5, <2>1 DEF TxInv
        <4> QED
          BY <2>1, <4>1, <4>2
      <3> QED
        BY <1>5, <2>1, <3>1 DEF StatusTruthful
    <2>6. AlertHonest'
      BY <1>1, <1>2, <1>5, <2>1 DEF AlertHonest, TxInv, TypeOK, Row, Alert
    <2>7. ProofInv'
      <3>1. \A s \in Signals : HotSilent(s)' => HotSilent(s)
        BY <1>1, <1>2, <1>5, <2>1 DEF HotSilent
      <3>2. \A s \in Signals : rows[s].attestTx # 0 => rows'[s].attestTx # 0
        BY <1>1, <1>5, <2>1 DEF TxInv
      <3> QED
        BY <1>2, <1>5, <2>1, <3>1, <3>2 DEF ProofInv
    <2> QED
      BY <2>2, <2>3, <2>4, <2>5, <2>6, <2>7 DEF TruthInv
  <1>9. CASE HotPersistFails
    <2>1. /\ rows' = rows /\ onChain' = onChain /\ alert' = alert /\ faults' = faults + 1
          /\ hot.pc = "persist" /\ hot'.pc = "dispatch" /\ hot'.tx = hot.tx
          /\ HotAt' = HotAt /\ hot'.todo = hot.todo
      BY <1>1, <1>5, <1>9, FaultIs DEF HotPersistFails, HotAt, TypeOK
    <2>2. UnseenInv'
      BY <1>1, <1>2, <1>5, <2>1 DEF UnseenInv, TypeOK, Signals
    <2>3. TxInv'
      BY <1>1, <1>2, <1>5, <2>1, <1>3 DEF TxInv, TypeOK, Row
    <2>4. DoneInv'
      BY <1>1, <1>2, <1>5, <2>1, <1>3, <1>4 DEF DoneInv, TxInv, TypeOK, Row
    <2>5. StatusTruthful'
      BY <1>1, <1>2, <1>5, <2>1 DEF StatusTruthful, DoneInv, TxInv, TypeOK, Row
    <2>6. AlertHonest'
      BY <1>1, <1>2, <1>5, <2>1 DEF AlertHonest, TxInv, TypeOK, Row, Alert
    <2>7. ProofInv'
      BY <1>1, <1>2, <1>5, <2>1 DEF ProofInv, HotSilent, DoneInv, TxInv, TypeOK, Row, Alert
    <2> QED
      BY <2>2, <2>3, <2>4, <2>5, <2>6, <2>7 DEF TruthInv
  <1>10. CASE HotSubmit
    <2>1. /\ onChain' = onChain /\ alert' = alert /\ faults' = faults
          /\ hot.pc = "submit" /\ hot'.pc = "dispatch" /\ hot'.tx = hot.tx
          /\ rows'[HotAt].status = "submitted" \/ rows'[HotAt] = rows[HotAt]
          /\ \A u \in Signals :
                /\ u # HotAt => rows'[u] = rows[u]
                /\ rows'[u].attestTx = rows[u].attestTx /\ rows'[u].note = rows[u].note
                /\ rows'[u].messageId = rows[u].messageId
          /\ HotAt' = HotAt /\ hot'.todo = hot.todo
      BY <1>1, <1>5, <1>10, TryIs DEF HotSubmit, HotAt, TypeOK, Statuses
    <2>2. UnseenInv'
      BY <1>1, <1>2, <1>5, <2>1 DEF UnseenInv, TypeOK, Signals
    <2>3. TxInv'
      BY <1>1, <1>2, <1>5, <2>1, <1>3 DEF TxInv, TypeOK, Row
    <2>4. DoneInv'
      BY <1>1, <1>2, <1>5, <2>1, <1>3, <1>4 DEF DoneInv, TxInv, TypeOK, Row
    <2>5. StatusTruthful'
      <3> SUFFICES ASSUME NEW s \in Signals
                   PROVE  /\ rows'[s].status = "enriched" => rows'[s].note
                          /\ rows'[s].status = "submitted" => onChain'[s] > 0
                          /\ rows'[s].status = "submitted" /\ faults' = 0 => rows'[s].attestTx # NoTx
                          /\ rows'[s].status = "alerted" => alert'[s].sent
        BY DEF StatusTruthful
      <3>1. CASE s # HotAt \/ rows'[s] = rows[s]
        BY <1>1, <1>2, <1>5, <2>1, <3>1 DEF StatusTruthful
      <3>2. CASE s = HotAt /\ rows'[s] # rows[s]
        BY <1>1, <1>2, <1>5, <2>1, <3>2 DEF DoneInv, TxInv, TypeOK, Row
      <3> QED
        BY <3>1, <3>2
    <2>6. AlertHonest'
      BY <1>1, <1>2, <1>5, <2>1 DEF AlertHonest, TxInv, TypeOK, Row, Alert
    <2>7. ProofInv'
      BY <1>1, <1>2, <1>5, <2>1 DEF ProofInv, HotSilent, DoneInv, TxInv, TypeOK, Row, Alert
    <2> QED
      BY <2>2, <2>3, <2>4, <2>5, <2>6, <2>7 DEF TruthInv
  <1>11. CASE HotDispatch
    <2>1. /\ rows' = rows /\ onChain' = onChain /\ faults' = faults
          /\ hot.pc = "dispatch" /\ hot'.pc = "setAlerted" /\ hot'.tx = hot.tx
          /\ alert'[HotAt].sent /\ alert'[HotAt].proof = hot.tx /\ ~alert'[HotAt].note
          /\ \A u \in Signals : u # HotAt => alert'[u] = alert[u]
          /\ HotAt' = HotAt /\ hot'.todo = hot.todo
      BY <1>1, <1>5, <1>11, DeliveredIs DEF HotDispatch, HotAt, TypeOK
    <2>2. UnseenInv'
      BY <1>1, <1>2, <1>5, <2>1 DEF UnseenInv, TypeOK, Signals
    <2>3. TxInv'
      BY <1>1, <1>2, <1>5, <2>1, <1>3 DEF TxInv, TypeOK, Row
    <2>4. DoneInv'
      BY <1>1, <1>2, <1>5, <2>1, <1>3, <1>4 DEF DoneInv, TxInv, TypeOK, Row
    <2>5. StatusTruthful'
      BY <1>1, <1>2, <1>5, <2>1 DEF StatusTruthful, DoneInv, TxInv, TypeOK, Row
    <2>6. AlertHonest'
      BY <1>1, <1>2, <1>5, <2>1 DEF AlertHonest, TxInv, TypeOK, Row, Alert
    <2>7. ProofInv'
      <3>1. \A s \in Signals : HotSilent(s)' => HotSilent(s) /\ s # HotAt
        BY <1>1, <1>2, <1>5, <2>1 DEF HotSilent, TypeOK, Signals
      <3>2. ~alert[HotAt].sent
        BY <1>1, <1>2, <1>5, <2>1 DEF ProofInv, HotSilent
      <3>3. ~rows[HotAt].messageId /\ ~enrich.seen[HotAt].messageId
        BY <1>1, <1>2, <1>5, <2>1, <3>2 DEF ProofInv
      <3>4. alert'[HotAt].proof # 0 /\ faults' = 0 => rows[HotAt].attestTx # 0
        BY <1>1, <1>2, <1>5, <2>1, <3>2 DEF ProofInv, DoneInv
      <3> QED
        BY <1>1, <1>2, <1>5, <2>1, <3>1, <3>2, <3>3, <3>4 DEF ProofInv
    <2> QED
      BY <2>2, <2>3, <2>4, <2>5, <2>6, <2>7 DEF TruthInv
  <1>12. CASE HotDispatchFails
    <2>1. /\ rows' = rows /\ onChain' = onChain /\ faults' = faults
          /\ hot.pc = "dispatch" /\ hot'.pc \in {"scan", "attest"} /\ hot'.tx = 0
          /\ \/ alert' = alert
             \/ alert'[HotAt].sent /\ alert'[HotAt].proof = hot.tx /\ ~alert'[HotAt].note
          /\ \A u \in Signals : u # HotAt => alert'[u] = alert[u]
          /\ hot'.todo = hot.todo \ {HotAt}
      BY <1>1, <1>5, <1>12, DeliveredIs, HotNextIs DEF HotDispatchFails, HotAt, TypeOK
    <2>2. UnseenInv'
      BY <1>1, <1>2, <1>5, <2>1 DEF UnseenInv, TypeOK, Signals
    <2>3. TxInv'
      BY <1>1, <1>2, <1>5, <2>1, <1>3 DEF TxInv, TypeOK, Row
    <2>4. DoneInv'
      BY <1>1, <1>2, <1>5, <2>1, <1>3, <1>4 DEF DoneInv, TxInv, TypeOK, Row
    <2>5. StatusTruthful'
      BY <1>1, <1>2, <1>5, <2>1 DEF StatusTruthful, DoneInv, TxInv, TypeOK, Row
    <2>6. AlertHonest'
      BY <1>1, <1>2, <1>5, <2>1 DEF AlertHonest, TxInv, TypeOK, Row, Alert
    <2>7. ProofInv'
      <3>1. \A s \in Signals : HotSilent(s)' => HotSilent(s) /\ s # HotAt
        BY <1>1, <1>2, <1>5, <2>1 DEF HotSilent, TypeOK, Signals
      <3>2. ~alert[HotAt].sent
        BY <1>1, <1>2, <1>5, <2>1 DEF ProofInv, HotSilent
      <3>3. ~rows[HotAt].messageId /\ ~enrich.seen[HotAt].messageId
        BY <1>1, <1>2, <1>5, <2>1, <3>2 DEF ProofInv
      <3>4. alert'[HotAt].proof # 0 /\ faults' = 0 => rows[HotAt].attestTx # 0
        BY <1>1, <1>2, <1>5, <2>1, <3>2 DEF ProofInv, DoneInv
      <3> QED
        BY <1>1, <1>2, <1>5, <2>1, <3>1, <3>2, <3>3, <3>4 DEF ProofInv
    <2> QED
      BY <2>2, <2>3, <2>4, <2>5, <2>6, <2>7 DEF TruthInv
  <1>13. CASE HotSetAlerted
    <2>1. /\ onChain' = onChain /\ alert' = alert /\ faults' = faults
          /\ hot.pc = "setAlerted" /\ hot'.pc = "recordId" /\ hot'.tx = hot.tx
          /\ rows'[HotAt].status = "alerted" \/ rows'[HotAt] = rows[HotAt]
          /\ \A u \in Signals :
                /\ u # HotAt => rows'[u] = rows[u]
                /\ rows'[u].attestTx = rows[u].attestTx /\ rows'[u].note = rows[u].note
                /\ rows'[u].messageId = rows[u].messageId
          /\ HotAt' = HotAt /\ hot'.todo = hot.todo
      BY <1>1, <1>5, <1>13, TryIs DEF HotSetAlerted, HotAt, TypeOK, Statuses
    <2>2. UnseenInv'
      BY <1>1, <1>2, <1>5, <2>1 DEF UnseenInv, TypeOK, Signals
    <2>3. TxInv'
      BY <1>1, <1>2, <1>5, <2>1, <1>3 DEF TxInv, TypeOK, Row
    <2>4. DoneInv'
      BY <1>1, <1>2, <1>5, <2>1, <1>3, <1>4 DEF DoneInv, TxInv, TypeOK, Row
    <2>5. StatusTruthful'
      <3> SUFFICES ASSUME NEW s \in Signals
                   PROVE  /\ rows'[s].status = "enriched" => rows'[s].note
                          /\ rows'[s].status = "submitted" => onChain'[s] > 0
                          /\ rows'[s].status = "submitted" /\ faults' = 0 => rows'[s].attestTx # NoTx
                          /\ rows'[s].status = "alerted" => alert'[s].sent
        BY DEF StatusTruthful
      <3>1. CASE s # HotAt \/ rows'[s] = rows[s]
        BY <1>1, <1>2, <1>5, <2>1, <3>1 DEF StatusTruthful
      <3>2. CASE s = HotAt /\ rows'[s] # rows[s]
        BY <1>1, <1>2, <1>5, <2>1, <3>2 DEF DoneInv, TypeOK, Row
      <3> QED
        BY <3>1, <3>2
    <2>6. AlertHonest'
      BY <1>1, <1>2, <1>5, <2>1 DEF AlertHonest, TxInv, TypeOK, Row, Alert
    <2>7. ProofInv'
      BY <1>1, <1>2, <1>5, <2>1 DEF ProofInv, HotSilent, DoneInv, TxInv, TypeOK, Row, Alert
    <2> QED
      BY <2>2, <2>3, <2>4, <2>5, <2>6, <2>7 DEF TruthInv
  <1>14. CASE HotRecordId
    <2>1. /\ onChain' = onChain /\ alert' = alert /\ faults' = faults
          /\ hot.pc = "recordId" /\ hot'.pc \in {"scan", "attest"} /\ hot'.tx = 0
          /\ \A u \in Signals :
                /\ u # HotAt => rows'[u] = rows[u]
                /\ rows'[u].attestTx = rows[u].attestTx /\ rows'[u].note = rows[u].note
                /\ rows'[u].status = rows[u].status
          /\ hot'.todo = hot.todo \ {HotAt}
      BY <1>1, <1>5, <1>14, RowWrites, HotNextIs DEF HotRecordId, HotAt, TypeOK
    <2>2. UnseenInv'
      BY <1>1, <1>2, <1>5, <2>1 DEF UnseenInv, TypeOK, Signals
    <2>3. TxInv'
      BY <1>1, <1>2, <1>5, <2>1, <1>3 DEF TxInv, TypeOK, Row
    <2>4. DoneInv'
      BY <1>1, <1>2, <1>5, <2>1, <1>3, <1>4 DEF DoneInv, TxInv, TypeOK, Row
    <2>5. StatusTruthful'
      BY <1>1, <1>2, <1>5, <2>1 DEF StatusTruthful, DoneInv, TxInv, TypeOK, Row
    <2>6. AlertHonest'
      BY <1>1, <1>2, <1>5, <2>1 DEF AlertHonest, TxInv, TypeOK, Row, Alert
    <2>7. ProofInv'
      BY <1>1, <1>2, <1>5, <2>1 DEF ProofInv, HotSilent, DoneInv, TxInv, TypeOK, Row, Alert
    <2> QED
      BY <2>2, <2>3, <2>4, <2>5, <2>6, <2>7 DEF TruthInv
  <1> QED
    BY <1>6, <1>7, <1>8, <1>9, <1>10, <1>11, <1>12, <1>13, <1>14 DEF HotStep

\* So does a scan: an inserted row starts afresh.
LEMMA ScanTruth ==
    ASSUME IndInv, ScanInserts \/ ScanReturns \/ ScanFails, TypeOK', WorkInv'
    PROVE  TruthInv'
  <1> USE DEF NoTx
  <1>1. TypeOK /\ WorkInv /\ UnseenInv /\ TxInv /\ DoneInv /\ StatusTruthful /\ AlertHonest /\ ProofInv
    BY DEF IndInv, TruthInv
  <1>2. /\ onChain' = onChain /\ alert' = alert /\ faults' = faults
        /\ recovery' = recovery /\ enrich' = enrich
        /\ EnrichAt' = EnrichAt /\ \A r \in Recoverers : RecoveryAt(r)' = RecoveryAt(r)
        /\ hot.pc = "scan" /\ hot'.pc \in {"scan", "attest"} /\ hot'.tx = NoTx
    <2>1. /\ onChain' = onChain /\ alert' = alert /\ faults' = faults
          /\ recovery' = recovery /\ enrich' = enrich /\ hot.pc = "scan"
      BY DEF ScanInserts, ScanReturns, ScanFails
    <2>2. hot'.pc \in {"scan", "attest"} /\ hot'.tx = NoTx
      <3>1. hot.tx = NoTx
        BY <1>1, <2>1 DEF TxInv
      <3>2. CASE ScanInserts
        BY <1>1, <2>1, <3>1, <3>2, InsertIs
      <3>3. CASE ScanReturns
        BY <1>1, <3>1, <3>3, HotMoves DEF ScanReturns, HotPc, TypeOK
      <3>4. CASE ScanFails
        BY <3>4 DEF ScanFails, HotStart
      <3> QED
        BY <3>2, <3>3, <3>4
    <2> QED
      BY <2>1, <2>2 DEF EnrichAt, RecoveryAt
  <1>3. /\ \A r \in Recoverers : recovery[r].pc # "idle" =>
              RecoveryAt(r) \in Signals /\ RecoveryAt(r) < nextId
        /\ enrich.pc # "idle" => EnrichAt \in Signals /\ EnrichAt < nextId
    BY <1>1, AtWork DEF AtInv
  <1>4. nextId' >= nextId /\ nextId \in Int /\ \A u \in Signals : u \in Int
    BY <1>1, InsertIs DEF TypeOK, Signals, ScanInserts, ScanReturns, ScanFails
  <1>5. \A u \in Signals :
           \/ rows'[u] = rows[u]
           \/ rows'[u] = NewRow /\ u >= nextId /\ ScanInserts
    BY <1>1, <1>4, InsertIs DEF ScanInserts, ScanReturns, ScanFails
  <1>6. ScanInserts => \A u \in Signals : u >= nextId' => rows'[u] = rows[u] /\ u >= nextId
    BY <1>1, <1>4, InsertIs
  <1>7. ~ScanInserts => rows' = rows /\ nextId' = nextId
    BY DEF ScanReturns, ScanFails
  <1>8. hot'.pc # "scan" => HotAt' \in Signals
    BY AtWorkNext DEF AtInv, Signals
  <1>9. \A u \in Signals : u >= nextId => rows[u] = NewRow
    BY <1>1 DEF UnseenInv
  <1>10. \A u \in Signals : rows'[u] = rows[u]
    BY <1>5, <1>9
  <1>11. UnseenInv'
    BY <1>1, <1>2, <1>6, <1>7 DEF UnseenInv
  <1>12. TxInv'
    BY <1>1, <1>2, <1>3, <1>8, <1>10 DEF TxInv, TypeOK
  <1>13. DoneInv'
    BY <1>1, <1>2, <1>3, <1>10 DEF DoneInv
  <1>14. StatusTruthful'
    BY <1>1, <1>2, <1>10 DEF StatusTruthful
  <1>15. AlertHonest'
    BY <1>1, <1>2, <1>10 DEF AlertHonest
  <1>16. ProofInv'
    <2>1. \A s \in Signals : HotSilent(s)' => HotSilent(s)
      <3>1. CASE ScanInserts
        BY <1>1, <1>2, <1>4, <3>1, InsertIs DEF HotSilent
      <3>2. CASE ScanReturns
        BY <1>1, <1>2, <1>7, <3>2 DEF HotSilent, ScanReturns, ScanInserts, TypeOK
      <3>3. CASE ScanFails
        BY <1>1, <1>2, <1>7, <3>3 DEF HotSilent, ScanFails, ScanInserts, HotStart
      <3> QED
        BY <3>1, <3>2, <3>3
    <2> QED
      BY <1>1, <1>2, <1>10, <2>1 DEF ProofInv
  <1> QED
    BY <1>11, <1>12, <1>13, <1>14, <1>15, <1>16 DEF TruthInv

\* So does recovery: it adds a broadcast, its record and its status.
LEMMA RecoveryTruth ==
    ASSUME IndInv, NEW r \in Recoverers, RecoveryStep(r), TypeOK', WorkInv'
    PROVE  TruthInv'
  <1> USE DEF NoTx
  <1>1. TypeOK /\ UnseenInv /\ TxInv /\ DoneInv /\ StatusTruthful /\ AlertHonest /\ ProofInv
    BY DEF IndInv, TruthInv
  <1>2. /\ nextId' = nextId /\ alert' = alert /\ hot' = hot /\ enrich' = enrich
        /\ HotAt' = HotAt /\ EnrichAt' = EnrichAt
        /\ \A s \in Signals : HotSilent(s)' = HotSilent(s)
    BY DEF RecoveryStep, RecoveryPass, RecoveryAttest, RecoveryAttestFails, RecoveryPersist,
      RecoverySubmit, HotAt, EnrichAt, HotSilent
  <1>3. /\ hot.pc # "scan" => HotAt \in Signals
        /\ enrich.pc # "idle" => EnrichAt \in Signals
        /\ \A q \in Recoverers : recovery[q].pc # "idle" =>
              RecoveryAt(q) \in Signals /\ RecoveryAt(q) < nextId
        /\ recovery[r].pc = "idle" => RecoveryPass(r)
    BY AtWork DEF IndInv, AtInv, RecoveryStep, RecoveryAttest, RecoveryAttestFails,
      RecoveryPersist, RecoverySubmit
  <1>4. /\ \A q \in Recoverers : q # r => recovery'[q] = recovery[q] /\ RecoveryAt(q)' = RecoveryAt(q)
        /\ \/ recovery'[r].pc \in {"idle", "attest"}
           \/ /\ recovery[r].pc = "attest" /\ recovery'[r].pc = "persist"
              /\ recovery'[r].tx = onChain[RecoveryAt(r)] + 1
              /\ onChain'[RecoveryAt(r)] = onChain[RecoveryAt(r)] + 1
              /\ RecoveryAt(r)' = RecoveryAt(r)
           \/ /\ recovery[r].pc = "persist" /\ recovery'[r].pc = "submit"
              /\ recovery'[r].tx = recovery[r].tx /\ RecoveryAt(r)' = RecoveryAt(r)
              /\ faults' # 0 \/ rows'[RecoveryAt(r)].attestTx = recovery[r].tx
    <2>1. CASE RecoveryPass(r)
      <3> DEFINE pending == {s \in Scanned(r) : rows[s].attestTx = NoTx}
      <3>1. pending \in SUBSET Signals
        BY <1>1, PipelineAssumption DEF TypeOK, Inserted, Signals, Scanned, Newest
      <3>2. recovery' = [recovery EXCEPT ![r] = [pc |-> "attest", todo |-> pending, tx |-> NoTx]]
        BY <2>1 DEF RecoveryPass
      <3> HIDE DEF pending
      <3> QED
        BY <1>1, <3>1, <3>2, RecoveryBegins DEF RecoveryPc, RecoveryAt
    <2>2. CASE RecoveryAttest(r)
      <3>1. RecoveryAt(r) \in Signals /\ onChain[RecoveryAt(r)] + 1 \in Nat /\ "persist" \in RecoveryPc
        BY <1>1, <1>3, <2>2 DEF TypeOK, RecoveryAttest, RecoveryPc
      <3>2. Takes(r, "persist", onChain[RecoveryAt(r)] + 1)
        BY <2>2 DEF RecoveryAttest, RecoveryAt, Takes
      <3>3. /\ \A q \in Recoverers : q # r => recovery'[q] = recovery[q]
            /\ recovery'[r].todo = recovery[r].todo
            /\ recovery'[r].pc = "persist" /\ recovery'[r].tx = onChain[RecoveryAt(r)] + 1
        BY <1>1, <3>1, <3>2, RecoveryTakes
      <3>4. onChain'[RecoveryAt(r)] = onChain[RecoveryAt(r)] + 1
        BY <1>1, <2>2, <3>1, BroadcastIs DEF RecoveryAttest, TypeOK, RecoveryAt
      <3> QED
        BY <2>2, <3>3, <3>4 DEF RecoveryAttest, RecoveryAt
    <2>3. CASE RecoveryAttestFails(r)
      BY <1>1, <2>3, RecoveryNextIs DEF RecoveryAttestFails, RecoveryAt
    <2>4. CASE RecoveryPersist(r)
      <3>1. recovery[r].tx \in Nat /\ RecoveryAt(r) \in Signals /\ "submit" \in RecoveryPc
        BY <1>1, <1>3, <2>4 DEF TypeOK, RecoveryPersist, RecoveryPc
      <3>2. recovery' = [recovery EXCEPT ![r].pc = "submit"] /\ recovery[r].pc = "persist"
        BY <2>4 DEF RecoveryPersist
      <3>3. /\ \A q \in Recoverers : q # r => recovery'[q] = recovery[q]
            /\ recovery'[r].todo = recovery[r].todo
            /\ recovery'[r].pc = "submit" /\ recovery'[r].tx = recovery[r].tx
        BY <1>1, <3>1, <3>2, RecoveryMoves
      <3>4. faults' # 0 \/ rows'[RecoveryAt(r)].attestTx = recovery[r].tx
        BY <1>1, <2>4, <3>1, RowWrites, FaultIs DEF RecoveryPersist, RecoveryAt, TypeOK
      <3> QED
        BY <3>2, <3>3, <3>4 DEF RecoveryAt
    <2>5. CASE RecoverySubmit(r)
      BY <1>1, <2>5, RecoveryNextIs DEF RecoverySubmit, RecoveryAt
    <2> QED
      BY <2>1, <2>2, <2>3, <2>4, <2>5 DEF RecoveryStep
  <1>5. \A u \in Signals : onChain[u] \in Nat /\ onChain'[u] \in Nat /\ onChain'[u] >= onChain[u]
    <2>1. onChain \in [Signals -> Nat]
      BY <1>1 DEF TypeOK
    <2>2. CASE onChain' = onChain
      BY <2>1, <2>2
    <2>3. CASE RecoveryAt(r) \in Signals /\ Broadcast(RecoveryAt(r))
      BY <2>1, <2>3, BroadcastIs
    <2> QED
      BY <1>3, <2>2, <2>3 DEF RecoveryStep, RecoveryPass, RecoveryAttest, RecoveryAttestFails,
        RecoveryPersist, RecoverySubmit, RecoveryAt
  <1>6. /\ faults \in Nat /\ faults' \in Nat /\ faults' >= faults
        /\ \A u \in Signals : u >= nextId => rows'[u] = rows[u] /\ onChain'[u] = onChain[u]
    <2>1. faults \in Nat /\ faults' \in Nat /\ faults' >= faults
      BY <1>1, FaultIs DEF RecoveryStep, RecoveryPass, RecoveryAttest, RecoveryAttestFails,
        RecoveryPersist, RecoverySubmit, TypeOK
    <2>2. nextId \in Int /\ RecoveryAt(r) \in Signals => ~(RecoveryAt(r) >= nextId /\ RecoveryAt(r) < nextId)
      BY DEF Signals
    <2>3. nextId \in Int
      BY <1>1 DEF TypeOK
    <2>4. CASE RecoveryPass(r)
      BY <2>1, <2>4 DEF RecoveryPass
    <2>5. CASE RecoveryAttest(r) \/ RecoveryAttestFails(r)
      BY <1>1, <1>3, <2>1, <2>2, <2>3, <2>5, BroadcastIs DEF RecoveryAttest, RecoveryAttestFails,
        RecoveryAt, TypeOK
    <2>6. CASE RecoveryPersist(r)
      <3>1. recovery[r].tx \in Nat /\ RecoveryAt(r) \in Signals /\ RecoveryAt(r) < nextId
        BY <1>1, <1>3, <2>6 DEF TypeOK, RecoveryPersist
      <3> QED
        BY <1>1, <2>1, <2>2, <2>3, <2>6, <3>1, RowWrites DEF RecoveryPersist, RecoveryAt, TypeOK
    <2>7. CASE RecoverySubmit(r)
      <3>1. RecoveryAt(r) \in Signals /\ RecoveryAt(r) < nextId
        BY <1>3, <2>7 DEF RecoverySubmit
      <3> QED
        BY <1>1, <2>1, <2>2, <2>3, <2>7, <3>1, TryIs DEF RecoverySubmit, RecoveryAt, TypeOK, Statuses
    <2> QED
      BY <2>4, <2>5, <2>6, <2>7 DEF RecoveryStep
  <1>7. \A u \in Signals :
           /\ rows'[u].note = rows[u].note /\ rows'[u].messageId = rows[u].messageId
           /\ \/ rows'[u].attestTx = rows[u].attestTx
              \/ /\ recovery[r].pc = "persist" /\ u = RecoveryAt(r)
                 /\ rows'[u].attestTx = recovery[r].tx
           /\ \/ rows'[u].status = rows[u].status
              \/ /\ rows'[u].status = "submitted" /\ rows'[u].attestTx = rows[u].attestTx
                 /\ recovery[r].pc = "submit" /\ u = RecoveryAt(r)
    <2>1. CASE RecoveryPass(r) \/ RecoveryAttest(r) \/ RecoveryAttestFails(r)
      BY <2>1 DEF RecoveryPass, RecoveryAttest, RecoveryAttestFails
    <2>2. CASE RecoveryPersist(r)
      <3>1. recovery[r].tx \in Nat /\ RecoveryAt(r) \in Signals /\ recovery[r].pc = "persist"
        BY <1>1, <1>3, <2>2 DEF TypeOK, RecoveryPersist
      <3> QED
        BY <1>1, <2>2, <3>1, RowWrites DEF RecoveryPersist, RecoveryAt, TypeOK
    <2>3. CASE RecoverySubmit(r)
      <3>1. RecoveryAt(r) \in Signals /\ recovery[r].pc = "submit"
        BY <1>3, <2>3 DEF RecoverySubmit
      <3> QED
        BY <1>1, <2>3, <3>1, TryIs DEF RecoverySubmit, RecoveryAt, TypeOK, Statuses
    <2> QED
      BY <2>1, <2>2, <2>3 DEF RecoveryStep
  <1>8. \A u \in Signals : rows[u].attestTx \in Nat /\ (rows[u].attestTx # 0 => rows'[u].attestTx # 0)
    BY <1>1, <1>7 DEF TxInv, TypeOK, Row
  <1>9. UnseenInv'
    BY <1>1, <1>2, <1>6 DEF UnseenInv
  <1>10. TxInv'
    <2>1. \A s \in Signals : rows'[s].attestTx <= onChain'[s] /\ enrich'.seen[s].attestTx <= onChain'[s]
      <3>1. /\ \A s \in Signals : rows[s].attestTx <= onChain[s] /\ enrich.seen[s].attestTx <= onChain[s]
            /\ recovery[r].pc = "persist" => recovery[r].tx <= onChain[RecoveryAt(r)]
        BY <1>1 DEF TxInv
      <3>2. \A s \in Signals : rows[s].attestTx \in Nat /\ enrich.seen[s].attestTx \in Nat
        BY <1>1 DEF TypeOK, Row
      <3>3. recovery[r].tx \in Nat
        BY <1>1 DEF TypeOK
      <3>4. \A s \in Signals : rows'[s].attestTx <= onChain[s] /\ rows'[s].attestTx \in Nat
        BY <1>7, <3>1, <3>2, <3>3
      <3> QED
        BY <1>2, <1>5, <3>1, <3>2, <3>4
    <2>2. /\ hot'.pc \in {"scan", "attest"} => hot'.tx = NoTx
          /\ hot'.pc # "scan" => hot'.tx <= onChain'[HotAt']
          /\ hot'.pc \in {"persist", "submit"} => hot'.tx # NoTx
      BY <1>1, <1>2, <1>3, <1>5 DEF TxInv, TypeOK
    <2>3. \A q \in Recoverers : recovery'[q].pc \in {"persist", "submit"} =>
             recovery'[q].tx # NoTx /\ recovery'[q].tx <= onChain'[RecoveryAt(q)']
      <3> SUFFICES ASSUME NEW q \in Recoverers, recovery'[q].pc \in {"persist", "submit"}
                   PROVE  recovery'[q].tx # NoTx /\ recovery'[q].tx <= onChain'[RecoveryAt(q)']
        OBVIOUS
      <3>1. CASE q # r
        BY <1>1, <1>3, <1>4, <1>5, <3>1 DEF TxInv, TypeOK
      <3>2. CASE q = r
        BY <1>1, <1>3, <1>4, <1>5, <3>2 DEF TxInv, TypeOK
      <3> QED
        BY <3>1, <3>2
    <2> QED
      BY <2>1, <2>2, <2>3 DEF TxInv
  <1>11. DoneInv'
    <2>1. \A q \in Recoverers : recovery'[q].pc = "submit" /\ faults' = 0 =>
             rows'[RecoveryAt(q)'].attestTx # NoTx
      <3> SUFFICES ASSUME NEW q \in Recoverers, recovery'[q].pc = "submit", faults' = 0
                   PROVE  rows'[RecoveryAt(q)'].attestTx # NoTx
        OBVIOUS
      <3>1. CASE q # r
        BY <1>1, <1>3, <1>4, <1>6, <1>8, <3>1 DEF DoneInv
      <3>2. CASE q = r
        BY <1>1, <1>3, <1>4, <3>2 DEF TxInv
      <3> QED
        BY <3>1, <3>2
    <2>2. faults' = 0 => faults = 0
      BY <1>6
    <2> QED
      BY <1>1, <1>2, <1>3, <1>7, <1>8, <2>1, <2>2 DEF DoneInv
  <1>12. StatusTruthful'
    <2> SUFFICES ASSUME NEW s \in Signals
                 PROVE  /\ rows'[s].status = "enriched" => rows'[s].note
                        /\ rows'[s].status = "submitted" => onChain'[s] > 0
                        /\ rows'[s].status = "submitted" /\ faults' = 0 => rows'[s].attestTx # NoTx
                        /\ rows'[s].status = "alerted" => alert'[s].sent
      BY DEF StatusTruthful
    <2>1. faults' = 0 => faults = 0
      BY <1>6
    <2>2. CASE rows'[s].status = rows[s].status
      BY <1>1, <1>2, <1>5, <1>7, <1>8, <2>1, <2>2 DEF StatusTruthful
    <2>3. CASE rows'[s].status = "submitted" /\ recovery[r].pc = "submit" /\ s = RecoveryAt(r)
      <3>1. onChain[s] > 0
        BY <1>1, <1>5, <2>3 DEF TxInv, TypeOK
      <3> QED
        BY <1>1, <1>5, <1>8, <2>1, <2>3, <3>1 DEF DoneInv
    <2> QED
      BY <1>7, <2>2, <2>3
  <1>13. AlertHonest'
    BY <1>1, <1>2, <1>5, <1>7 DEF AlertHonest, TypeOK, Alert
  <1>14. ProofInv'
    <2>1. faults' = 0 => faults = 0
      BY <1>6
    <2> QED
      BY <1>1, <1>2, <1>7, <1>8, <2>1 DEF ProofInv
  <1> QED
    BY <1>9, <1>10, <1>11, <1>12, <1>13, <1>14 DEF TruthInv

\* So does the enrich stage, which writes its note before it shows it and renders
\* an alert from rows as they once were.
LEMMA EnrichTruth ==
    ASSUME IndInv, EnrichStep, TypeOK', WorkInv'
    PROVE  TruthInv'
  <1> USE DEF NoTx
  <1>1. TypeOK /\ UnseenInv /\ TxInv /\ DoneInv /\ StatusTruthful /\ AlertHonest /\ ProofInv
    BY DEF IndInv, TruthInv
  <1>2. /\ nextId' = nextId /\ onChain' = onChain /\ hot' = hot /\ recovery' = recovery
        /\ faults' = faults
        /\ HotAt' = HotAt /\ \A r \in Recoverers : RecoveryAt(r)' = RecoveryAt(r)
        /\ \A s \in Signals : HotSilent(s)' = HotSilent(s)
    BY DEF EnrichStep, EnrichPass, EnrichNote, EnrichNoteFails, EnrichStatus, EnrichEdit,
      HotAt, RecoveryAt, HotSilent
  <1>3. /\ hot.pc # "scan" => HotAt \in Signals
        /\ \A r \in Recoverers : recovery[r].pc # "idle" => RecoveryAt(r) \in Signals
        /\ enrich.pc # "idle" => EnrichAt \in Signals /\ EnrichAt < nextId
        /\ enrich.pc = "idle" => EnrichPass
        /\ nextId \in Int /\ \A s \in Signals : s \in Int
    BY <1>1, AtWork DEF IndInv, AtInv, EnrichStep, EnrichNote, EnrichNoteFails, EnrichStatus,
      EnrichEdit, TypeOK, Signals
  <1>4. \A s \in Signals : onChain[s] \in Nat /\ NewRow.attestTx = 0 /\ ~NewRow.messageId
    BY <1>1 DEF TypeOK, NewRow
  <1>5. CASE EnrichPass
    <2>1. /\ rows' = rows /\ alert' = alert /\ enrich'.pc = "note"
          /\ \A s \in Signals : enrich'.seen[s] \in {rows[s], NewRow}
      BY <1>1, <1>5, EnrichBegins DEF EnrichPass
    <2>2. UnseenInv' /\ StatusTruthful' /\ AlertHonest'
      BY <1>1, <1>2, <2>1 DEF UnseenInv, StatusTruthful, AlertHonest
    <2>3. TxInv'
      BY <1>1, <1>2, <1>4, <2>1 DEF TxInv
    <2>4. DoneInv'
      BY <1>1, <1>2, <2>1 DEF DoneInv
    <2>5. ProofInv'
      BY <1>1, <1>2, <1>4, <2>1 DEF ProofInv
    <2> QED
      BY <2>2, <2>3, <2>4, <2>5 DEF TruthInv
  <1>6. CASE EnrichNote
    <2>1. EnrichAt \in Signals /\ EnrichAt < nextId /\ UpdateSignalNote(EnrichAt)
      BY <1>3, <1>6 DEF EnrichNote, EnrichAt
    <2>2. /\ rows'[EnrichAt].note
          /\ \A u \in Signals :
                /\ u # EnrichAt => rows'[u] = rows[u]
                /\ rows'[u].attestTx = rows[u].attestTx /\ rows'[u].status = rows[u].status
                /\ rows'[u].messageId = rows[u].messageId
      BY <1>1, <2>1, RowWrites DEF TypeOK
    <2>3. alert' = alert /\ enrich'.pc = "status" /\ enrich'.seen = enrich.seen /\ EnrichAt' = EnrichAt
      BY <1>1, <1>6, EnrichMoves DEF EnrichNote, EnrichPc, EnrichAt
    <2>4. \A u \in Signals : rows[u].note => rows'[u].note
      BY <2>2
    <2>5. UnseenInv'
      BY <1>1, <1>2, <1>3, <2>1, <2>2 DEF UnseenInv
    <2>6. TxInv'
      BY <1>1, <1>2, <2>2, <2>3 DEF TxInv
    <2>7. DoneInv'
      BY <1>1, <1>2, <1>3, <2>2, <2>3, <2>4 DEF DoneInv
    <2>8. StatusTruthful' /\ AlertHonest' /\ ProofInv'
      BY <1>1, <1>2, <2>2, <2>3, <2>4 DEF StatusTruthful, AlertHonest, ProofInv
    <2> QED
      BY <2>5, <2>6, <2>7, <2>8 DEF TruthInv
  <1>7. CASE EnrichNoteFails
    <2>1. EnrichAt \in Signals
      BY <1>3, <1>7 DEF EnrichNoteFails
    <2>2. /\ rows' = rows /\ alert' = alert /\ enrich'.pc \in {"idle", "note"}
          /\ \A s \in Signals : enrich'.seen[s] = IF s = EnrichAt THEN NewRow ELSE enrich.seen[s]
      BY <1>1, <1>7, <2>1, EnrichNextIs DEF EnrichNoteFails
    <2>3. UnseenInv' /\ StatusTruthful' /\ AlertHonest'
      BY <1>1, <1>2, <2>2 DEF UnseenInv, StatusTruthful, AlertHonest
    <2>4. TxInv'
      BY <1>1, <1>2, <1>4, <2>2 DEF TxInv, TypeOK
    <2>5. DoneInv'
      BY <1>1, <1>2, <2>2 DEF DoneInv
    <2>6. ProofInv'
      BY <1>1, <1>2, <1>4, <2>2 DEF ProofInv
    <2> QED
      BY <2>3, <2>4, <2>5, <2>6 DEF TruthInv
  <1>8. CASE EnrichStatus
    <2>1. EnrichAt \in Signals /\ EnrichAt < nextId /\ rows[EnrichAt].note
      BY <1>1, <1>3, <1>8 DEF EnrichStatus, DoneInv
    <2>2. /\ rows'[EnrichAt].status = "enriched" \/ rows'[EnrichAt] = rows[EnrichAt]
          /\ \A u \in Signals :
                /\ u # EnrichAt => rows'[u] = rows[u]
                /\ rows'[u].attestTx = rows[u].attestTx /\ rows'[u].note = rows[u].note
                /\ rows'[u].messageId = rows[u].messageId
      <3>1. rows' = rows \/ TrySetStatus(EnrichAt, "enriched")
        BY <1>8 DEF EnrichStatus, EnrichAt
      <3> QED
        BY <1>1, <2>1, <3>1, TryIs DEF TypeOK, Statuses
    <2>3. alert' = alert /\ enrich'.pc = "edit" /\ enrich'.seen = enrich.seen /\ EnrichAt' = EnrichAt
      BY <1>1, <1>8, EnrichMoves DEF EnrichStatus, EnrichPc, EnrichAt
    <2>4. UnseenInv'
      BY <1>1, <1>2, <1>3, <2>1, <2>2 DEF UnseenInv
    <2>5. TxInv'
      BY <1>1, <1>2, <2>2, <2>3 DEF TxInv
    <2>6. DoneInv'
      BY <1>1, <1>2, <1>3, <2>1, <2>2, <2>3 DEF DoneInv
    <2>7. StatusTruthful'
      BY <1>1, <1>2, <2>1, <2>2, <2>3 DEF StatusTruthful
    <2>8. AlertHonest' /\ ProofInv'
      BY <1>1, <1>2, <2>2, <2>3 DEF AlertHonest, ProofInv
    <2> QED
      BY <2>4, <2>5, <2>6, <2>7, <2>8 DEF TruthInv
  <1>9. CASE EnrichEdit
    <2>1. EnrichAt \in Signals /\ rows[EnrichAt].note
      BY <1>1, <1>3, <1>9 DEF EnrichEdit, DoneInv
    <2>2. /\ rows' = rows /\ enrich'.pc \in {"idle", "note"}
          /\ \A s \in Signals : enrich'.seen[s] = IF s = EnrichAt THEN NewRow ELSE enrich.seen[s]
      BY <1>1, <1>9, <2>1, EnrichNextIs DEF EnrichEdit
    <2>3. \/ alert' = alert
          \/ /\ enrich.seen[EnrichAt].messageId
             /\ alert'[EnrichAt].note /\ alert'[EnrichAt].sent = alert[EnrichAt].sent
             /\ alert'[EnrichAt].proof = enrich.seen[EnrichAt].attestTx
             /\ \A u \in Signals : u # EnrichAt => alert'[u] = alert[u]
      BY <1>1, <1>9, <2>1, EditIs
    <2>4. enrich.seen[EnrichAt].attestTx # 0 => rows[EnrichAt].attestTx # 0
      BY <1>1, <2>1 DEF ProofInv
    <2>5. UnseenInv'
      BY <1>1, <1>2, <2>2 DEF UnseenInv
    <2>6. TxInv'
      BY <1>1, <1>2, <1>4, <2>2 DEF TxInv, TypeOK
    <2>7. DoneInv'
      BY <1>1, <1>2, <1>3, <2>2, <2>3 DEF DoneInv
    <2>8. StatusTruthful'
      BY <1>1, <1>2, <2>2, <2>3 DEF StatusTruthful
    <2>9. AlertHonest'
      BY <1>1, <1>2, <2>1, <2>2, <2>3 DEF AlertHonest, TxInv, ProofInv
    <2>10. ProofInv'
      BY <1>1, <1>2, <1>4, <2>1, <2>2, <2>3, <2>4 DEF ProofInv
    <2> QED
      BY <2>5, <2>6, <2>7, <2>8, <2>9, <2>10 DEF TruthInv
  <1> QED
    BY <1>5, <1>6, <1>7, <1>8, <1>9 DEF EnrichStep

\* So does a crash, or the death of a command: nothing is in hand any more.
LEMMA CrashTruth ==
    ASSUME IndInv, Crash \/ \E r \in Commands : CommandDies(r), TypeOK', WorkInv'
    PROVE  TruthInv'
  <1> USE DEF NoTx
  <1>1. TypeOK /\ UnseenInv /\ TxInv /\ DoneInv /\ StatusTruthful /\ AlertHonest /\ ProofInv
    BY DEF IndInv, TruthInv
  <1>2. \A s \in Signals : onChain[s] \in Nat /\ NewRow.attestTx = 0 /\ ~NewRow.messageId
    BY <1>1 DEF TypeOK, NewRow
  <1>3. CASE Crash
    <2>1. /\ rows' = rows /\ nextId' = nextId /\ onChain' = onChain /\ alert' = alert
          /\ faults' # 0
      BY <1>1, <1>3, CrashIs DEF Crash, TypeOK
    <2>2. /\ hot'.pc = "scan" /\ hot'.tx = 0 /\ hot'.todo = {} /\ enrich'.pc = "idle"
          /\ \A s \in Signals : enrich'.seen[s] = NewRow
      BY <1>1, <1>3, CrashIs
    <2>3. \A r \in Recoverers :
             \/ recovery'[r] = recovery[r] /\ RecoveryAt(r)' = RecoveryAt(r)
             \/ recovery'[r].pc = "idle"
      BY <1>1, <1>3, CrashIs DEF RecoveryAt
    <2>4. UnseenInv' /\ AlertHonest'
      BY <1>1, <2>1 DEF UnseenInv, AlertHonest
    <2>5. StatusTruthful'
      BY <1>1, <2>1 DEF StatusTruthful
    <2>6. TxInv'
      BY <1>1, <1>2, <2>1, <2>2, <2>3 DEF TxInv
    <2>7. DoneInv'
      BY <1>1, <2>1, <2>2, <2>3 DEF DoneInv
    <2>8. ProofInv'
      <3>1. \A s \in Signals : HotSilent(s)' => HotSilent(s)
        BY <2>1, <2>2 DEF HotSilent
      <3> QED
        BY <1>1, <1>2, <2>1, <2>2, <3>1 DEF ProofInv
    <2> QED
      BY <2>4, <2>5, <2>6, <2>7, <2>8 DEF TruthInv
  <1>4. ASSUME NEW r \in Commands, CommandDies(r) PROVE TruthInv'
    <2>1. /\ rows' = rows /\ nextId' = nextId /\ onChain' = onChain /\ alert' = alert
          /\ hot' = hot /\ enrich' = enrich /\ HotAt' = HotAt /\ EnrichAt' = EnrichAt
          /\ faults' # 0
          /\ \A s \in Signals : HotSilent(s)' = HotSilent(s)
      BY <1>1, <1>4, FaultIs DEF CommandDies, TypeOK, HotAt, EnrichAt, HotSilent
    <2>2. \A q \in Recoverers :
             \/ recovery'[q] = recovery[q] /\ RecoveryAt(q)' = RecoveryAt(q)
             \/ recovery'[q].pc = "idle"
      <3>1. r \in Recoverers /\ {} \in SUBSET Signals /\ "idle" \in RecoveryPc
        BY DEF Recoverers, RecoveryPc
      <3>2. recovery' = [recovery EXCEPT ![r] = [pc |-> "idle", todo |-> {}, tx |-> NoTx]]
        BY <1>4 DEF CommandDies, RecoveryStart
      <3> QED
        BY <1>1, <3>1, <3>2, RecoveryBegins DEF RecoveryAt
    <2>3. UnseenInv' /\ StatusTruthful' /\ AlertHonest' /\ ProofInv'
      BY <1>1, <2>1 DEF UnseenInv, StatusTruthful, AlertHonest, ProofInv
    <2>4. TxInv' /\ DoneInv'
      BY <1>1, <2>1, <2>2 DEF TxInv, DoneInv
    <2> QED
      BY <2>3, <2>4 DEF TruthInv
  <1> QED
    BY <1>3, <1>4

LEMMA TruthStep ==
    ASSUME IndInv, [Next]_vars
    PROVE  TruthInv'
  <1>1. TypeOK' /\ WorkInv'
    BY TypeStep DEF IndInv
  <1>2. CASE UNCHANGED vars
    BY <1>2 DEF vars, IndInv, TruthInv, UnseenInv, TxInv, DoneInv, StatusTruthful, AlertHonest,
      ProofInv, HotSilent, HotAt, RecoveryAt, EnrichAt
  <1> QED
    BY <1>1, <1>2, HotTruth, ScanTruth, RecoveryTruth, EnrichTruth, CrashTruth DEF Next

-----------------------------------------------------------------------------
\* Sets of recoverers can be counted.
LEMMA Counted ==
    ASSUME NEW A \in SUBSET Recoverers, NEW B \in SUBSET Recoverers
    PROVE  /\ Cardinality(A) \in Nat /\ Cardinality(A) <= Cardinality(Recoverers)
           /\ Cardinality(Recoverers) \in Nat
           /\ A \subseteq B => Cardinality(A) <= Cardinality(B)
           /\ \A r \in Recoverers :
                 /\ A \ {r} \subseteq B => Cardinality(A) <= Cardinality(B) + 1
                 /\ r \notin A /\ A \cup {r} \subseteq B => Cardinality(A) + 1 <= Cardinality(B)
  <1>1. IsFiniteSet(Recoverers)
    <2>1. Recoverers = Commands \cup {Loop}
      BY DEF Recoverers
    <2> QED
      BY <2>1, FS_AddElement, PipelineAssumption
  <1>2. /\ IsFiniteSet(A) /\ IsFiniteSet(B) /\ Cardinality(A) <= Cardinality(Recoverers)
    BY <1>1, FS_Subset
  <1>3. /\ Cardinality(A) \in Nat /\ Cardinality(B) \in Nat /\ Cardinality(Recoverers) \in Nat
    BY <1>1, <1>2, FS_CardinalityType
  <1>4. A \subseteq B => Cardinality(A) <= Cardinality(B)
    BY <1>2, FS_Subset
  <1>5. ASSUME NEW r \in Recoverers, A \ {r} \subseteq B
        PROVE  Cardinality(A) <= Cardinality(B) + 1
    <2>1. Cardinality(A \ {r}) = IF r \in A THEN Cardinality(A) - 1 ELSE Cardinality(A)
      BY <1>2, FS_RemoveElement
    <2>2. Cardinality(A \ {r}) <= Cardinality(B)
      BY <1>2, <1>5, FS_Subset
    <2> QED
      BY <1>3, <2>1, <2>2
  <1>6. ASSUME NEW r \in Recoverers, r \notin A, A \cup {r} \subseteq B
        PROVE  Cardinality(A) + 1 <= Cardinality(B)
    <2>1. Cardinality(A \cup {r}) = Cardinality(A) + 1
      BY <1>2, <1>6, FS_AddElement
    <2>2. Cardinality(A \cup {r}) <= Cardinality(B)
      BY <1>2, <1>6, FS_Subset
    <2> QED
      BY <2>1, <2>2
  <1> QED
    BY <1>2, <1>3, <1>4, <1>5, <1>6

\* What is left to show of a step: it pays for what it broadcasts.
Ahead(s) == IF HotAhead(s) THEN 1 ELSE 0

LEMMA SpentTypes ==
    ASSUME TypeOK, NEW s \in Signals
    PROVE  /\ onChain[s] \in Nat /\ faults \in Nat /\ Ahead(s) \in {0, 1}
           /\ Spent(s) \in SUBSET Recoverers /\ Cardinality(Spent(s)) \in Nat
  <1>1. Spent(s) \in SUBSET Recoverers
    BY DEF Spent
  <1>2. Cardinality(Spent(s)) \in Nat
    BY <1>1, Counted
  <1> QED
    BY <1>1, <1>2 DEF TypeOK, Ahead

LEMMA SpentTypesNext ==
    ASSUME TypeOK', NEW s \in Signals
    PROVE  /\ onChain'[s] \in Nat /\ faults' \in Nat /\ Ahead(s)' \in {0, 1}
           /\ Spent(s)' \in SUBSET Recoverers /\ Cardinality(Spent(s)') \in Nat
  <1>1. Spent(s)' \in SUBSET Recoverers
    BY DEF Spent
  <1>2. Cardinality(Spent(s)') \in Nat
    BY <1>1, Counted
  <1>3. Ahead(s)' \in {0, 1}
    BY DEF Ahead
  <1>4. onChain'[s] \in Nat /\ faults' \in Nat
    BY DEF TypeOK
  <1> QED
    BY <1>1, <1>2, <1>3, <1>4

\* The hot path is done with a signal for good, and no recoverer counts for less.
LEMMA HotSpent ==
    ASSUME IndInv, ScanInserts \/ ScanReturns \/ ScanFails \/ HotStep, TypeOK', NEW s \in Signals
    PROVE  onChain'[s] + Ahead(s)' <= 1 + faults' + Cardinality(Spent(s)')
  <1> USE DEF NoTx
  <1>1. TypeOK /\ WorkInv /\ AtInv /\ UnseenInv /\ TxInv
    BY AtWork DEF IndInv, TruthInv
  <1>2. recovery' = recovery /\ \A r \in Recoverers : RecoveryAt(r)' = RecoveryAt(r)
    BY DEF ScanInserts, ScanReturns, ScanFails, HotStep, HotAttest, HotAttestFails, HotPersist,
      HotPersistFails, HotSubmit, HotDispatch, HotDispatchFails, HotSetAlerted, HotRecordId,
      RecoveryAt
  <1>3. ASSUME rows[s].attestTx # 0 => rows'[s].attestTx # 0
        PROVE  Cardinality(Spent(s)) <= Cardinality(Spent(s)')
    <2>1. Spent(s) \subseteq Spent(s)'
      BY <1>2, <1>3 DEF Spent, Holding, Past
    <2> QED
      BY <1>1, <2>1, SpentTypes, SpentTypesNext, Counted
  <1>4. onChain[s] + Ahead(s) <= 1 + faults + Cardinality(Spent(s))
    BY DEF IndInv, SpentInv, Ahead
  <1>5. SUFFICES /\ rows[s].attestTx # 0 => rows'[s].attestTx # 0
                 /\ onChain'[s] + Ahead(s)' + faults <= onChain[s] + Ahead(s) + faults'
    BY <1>1, <1>3, <1>4, SpentTypes, SpentTypesNext
  <1>6. CASE ScanInserts
    <2>1. /\ nextId \in Signals /\ nextId \in Int /\ s \in Int /\ nextId' = nextId + 1
          /\ rows'[nextId] = NewRow /\ rows[nextId] = NewRow
          /\ \A u \in Signals : u # nextId => rows'[u] = rows[u]
          /\ hot.pc = "scan" /\ hot'.pc = "scan" /\ hot'.todo = hot.todo \cup {nextId}
          /\ onChain' = onChain /\ faults' = faults
      BY <1>1, <1>6, InsertIs DEF UnseenInv, ScanInserts, Signals
    <2>2. HotAhead(s)' => HotAhead(s)
      BY <2>1 DEF HotAhead
    <2> QED
      BY <1>1, <2>1, <2>2, SpentTypes DEF Ahead
  <1>7. CASE ScanReturns \/ ScanFails
    <2>1. /\ nextId' = nextId /\ rows' = rows /\ hot.pc = "scan"
          /\ hot'.todo = {} \/ (hot'.todo = hot.todo /\ hot'.pc = "attest")
          /\ onChain' = onChain /\ faults' = faults
      <3>1. CASE ScanReturns
        BY <1>1, <3>1, HotMoves DEF ScanReturns, HotPc, TypeOK
      <3>2. CASE ScanFails
        BY <3>2 DEF ScanFails, HotStart
      <3> QED
        BY <1>7, <3>1, <3>2
    <2>2. HotAhead(s)' => HotAhead(s)
      BY <2>1 DEF HotAhead
    <2> QED
      BY <1>1, <2>1, <2>2, SpentTypes DEF Ahead
  <1>8. ASSUME HotStep
        PROVE  /\ rows[s].attestTx # 0 => rows'[s].attestTx # 0
               /\ onChain'[s] + Ahead(s)' + faults <= onChain[s] + Ahead(s) + faults'
    <2>1. HotAt \in Signals /\ HotAt < nextId /\ HotAt \in hot.todo
          /\ hot.tx \in Nat /\ nextId' = nextId /\ nextId \in Int /\ s \in Int
      BY <1>1, <1>8 DEF AtInv, HotStep, HotAttest, HotAttestFails, HotPersist, HotPersistFails,
        HotSubmit, HotDispatch, HotDispatchFails, HotSetAlerted, HotRecordId, TypeOK, Signals
    <2>2. CASE hot.pc = "attest"
      <3>1. /\ rows' = rows /\ hot'.todo = hot.todo /\ HotAt' = HotAt
            /\ hot'.pc \in {"persist", "dispatch"}
            /\ \/ onChain' = onChain
               \/ onChain'[HotAt] = onChain[HotAt] + 1
            /\ \A u \in Signals : u # HotAt => onChain'[u] = onChain[u]
            /\ faults' = faults \/ faults' = faults + 1
        <4>1. CASE HotAttest
          BY <1>1, <2>1, <4>1, BroadcastIs DEF HotAttest, HotAt, TypeOK
        <4>2. CASE HotAttestFails
          BY <1>1, <2>1, <4>2, BroadcastIs, FaultIs DEF HotAttestFails, HotAt, TypeOK
        <4> QED
          BY <1>8, <2>2, <4>1, <4>2 DEF HotStep, HotPersist, HotPersistFails, HotSubmit,
            HotDispatch, HotDispatchFails, HotSetAlerted, HotRecordId
      <3>2. HotAhead(HotAt) /\ ~HotAhead(HotAt)'
        BY <2>1, <2>2, <3>1 DEF HotAhead
      <3>3. s # HotAt => (HotAhead(s)' <=> HotAhead(s))
        BY <2>1, <3>1 DEF HotAhead
      <3>4. CASE s = HotAt
        BY <1>1, <3>1, <3>2, <3>4, SpentTypes DEF Ahead
      <3>5. CASE s # HotAt
        BY <1>1, <3>1, <3>3, <3>5, SpentTypes DEF Ahead
      <3> QED
        BY <3>4, <3>5
    <2>3. CASE hot.pc # "attest"
      <3>1. /\ onChain' = onChain /\ (faults' = faults \/ faults' = faults + 1)
            /\ rows'[s].attestTx = rows[s].attestTx \/ rows'[s].attestTx = hot.tx
            /\ rows'[s].attestTx # rows[s].attestTx => hot.pc = "persist"
        <4>1. CASE HotPersist
          BY <1>1, <2>1, <4>1, RowWrites DEF HotPersist, HotAt, TypeOK
        <4>2. CASE HotPersistFails
          BY <1>1, <4>2, FaultIs DEF HotPersistFails, TypeOK
        <4>3. CASE HotSubmit
          BY <1>1, <2>1, <4>3, TryIs DEF HotSubmit, HotAt, TypeOK, Statuses
        <4>4. CASE HotDispatch \/ HotDispatchFails
          BY <4>4 DEF HotDispatch, HotDispatchFails
        <4>5. CASE HotSetAlerted
          BY <1>1, <2>1, <4>5, TryIs DEF HotSetAlerted, HotAt, TypeOK, Statuses
        <4>6. CASE HotRecordId
          BY <1>1, <2>1, <4>6, RowWrites DEF HotRecordId, HotAt, TypeOK
        <4> QED
          BY <1>8, <2>3, <4>1, <4>2, <4>3, <4>4, <4>5, <4>6 DEF HotStep, HotAttest, HotAttestFails
      <3>2. \/ hot'.todo = hot.todo \ {HotAt}
            \/ hot'.todo = hot.todo /\ hot'.pc \notin {"scan", "attest"}
        <4>1. CASE HotPersist
          BY <1>1, <4>1, HotMoves DEF HotPersist, HotPc, TypeOK
        <4>2. CASE HotPersistFails
          BY <1>1, <4>2, HotMoves DEF HotPersistFails, HotPc, TypeOK
        <4>3. CASE HotSubmit
          BY <1>1, <4>3, HotMoves DEF HotSubmit, HotPc, TypeOK
        <4>4. CASE HotDispatch
          BY <1>1, <4>4, HotMoves DEF HotDispatch, HotPc, TypeOK
        <4>5. CASE HotSetAlerted
          BY <1>1, <4>5, HotMoves DEF HotSetAlerted, HotPc, TypeOK
        <4>6. CASE HotRecordId \/ HotDispatchFails
          BY <1>1, <4>6, HotNextIs DEF HotRecordId, HotDispatchFails
        <4> QED
          BY <1>8, <2>3, <4>1, <4>2, <4>3, <4>4, <4>5, <4>6 DEF HotStep, HotAttest, HotAttestFails
      <3>3. HotAhead(s)' => HotAhead(s)
        BY <2>1, <2>3, <3>2 DEF HotAhead, HotAt
      <3>4. rows[s].attestTx # 0 => rows'[s].attestTx # 0
        BY <1>1, <3>1 DEF TxInv
      <3> QED
        BY <1>1, <3>1, <3>3, <3>4, SpentTypes DEF Ahead
    <2> QED
      BY <2>2, <2>3
  <1> QED
    BY <1>6, <1>7, <1>8

\* A recoverer that leaves the signal it is at is past it.
LEMMA LeavesPast ==
    ASSUME TypeOK, NEW r \in Recoverers, NEW s \in Signals, recovery[r].pc \notin {"idle", "persist"},
           recovery'[r].todo = recovery[r].todo \ {RecoveryAt(r)},
           recovery'[r].pc \in {"idle", "attest"},
           \A q \in Recoverers : q # r => recovery'[q] = recovery[q],
           rows'[s].attestTx = rows[s].attestTx
    PROVE  Spent(s) \subseteq Spent(s)'
  <1>1. \A q \in Recoverers : q # r => RecoveryAt(q)' = RecoveryAt(q)
    BY DEF RecoveryAt
  <1>2. ~Holding(r, s) /\ (Past(r, s) => Past(r, s)')
    BY DEF Holding, Past
  <1> QED
    BY <1>1, <1>2 DEF Spent, Holding, Past

\* A broadcast of a recoverer is paid for by it, or by a fault.
LEMMA RecoverySpent ==
    ASSUME IndInv, NEW r \in Recoverers, RecoveryStep(r), TypeOK', NEW s \in Signals
    PROVE  onChain'[s] + Ahead(s)' <= 1 + faults' + Cardinality(Spent(s)')
  <1> USE DEF NoTx
  <1>1. TypeOK /\ WorkInv /\ AtInv /\ TxInv
    BY AtWork DEF IndInv, TruthInv
  <1>2. Ahead(s)' = Ahead(s)
    BY DEF RecoveryStep, RecoveryPass, RecoveryAttest, RecoveryAttestFails, RecoveryPersist,
      RecoverySubmit, Ahead, HotAhead, HotAt
  <1>3. onChain[s] + Ahead(s) <= 1 + faults + Cardinality(Spent(s))
    BY DEF IndInv, SpentInv, Ahead
  <1>4. CASE RecoveryPass(r)
    <2> DEFINE pending == {u \in Scanned(r) : rows[u].attestTx = NoTx}
    <2>1. pending \in SUBSET Signals
      BY <1>1, PipelineAssumption DEF TypeOK, Inserted, Signals, Scanned, Newest
    <2>2. recovery' = [recovery EXCEPT ![r] = [pc |-> "attest", todo |-> pending, tx |-> NoTx]]
      BY <1>4 DEF RecoveryPass
    <2>3. /\ \A q \in Recoverers : q # r => recovery'[q] = recovery[q]
          /\ recovery'[r].todo = pending
      <3> HIDE DEF pending
      <3> QED
        BY <1>1, <2>1, <2>2, RecoveryBegins DEF RecoveryPc
    <2>4. rows' = rows /\ onChain' = onChain /\ faults' = faults /\ recovery[r].pc = "idle"
      BY <1>4 DEF RecoveryPass
    <2>5. Spent(s) \subseteq Spent(s)'
      <3>1. \A q \in Recoverers : q # r => RecoveryAt(q)' = RecoveryAt(q)
        BY <2>3 DEF RecoveryAt
      <3>2. ~Holding(r, s) /\ (rows[s].attestTx # NoTx => Past(r, s)')
        BY <2>3, <2>4 DEF Holding, Past
      <3> QED
        BY <2>3, <2>4, <3>1, <3>2 DEF Spent, Holding, Past
    <2> QED
      BY <1>1, <1>2, <1>3, <2>4, <2>5, SpentTypes, SpentTypesNext, Counted
  <1>5. CASE RecoveryAttest(r)
    <2>1. /\ RecoveryAt(r) \in Signals /\ RecoveryAt(r) \in recovery[r].todo
          /\ onChain[RecoveryAt(r)] + 1 \in Nat /\ "persist" \in RecoveryPc
      BY <1>1, <1>5 DEF TypeOK, AtInv, RecoveryAttest, RecoveryPc
    <2>2. Takes(r, "persist", onChain[RecoveryAt(r)] + 1)
      BY <1>5 DEF RecoveryAttest, RecoveryAt, Takes
    <2>3. /\ \A q \in Recoverers : q # r => recovery'[q] = recovery[q]
          /\ recovery'[r].todo = recovery[r].todo
      BY <1>1, <2>1, <2>2, RecoveryTakes
    <2>4. recovery'[r].pc = "persist"
      BY <1>1, <2>1, <2>2, RecoveryTakes
    <2>5. rows' = rows /\ faults' = faults /\ recovery[r].pc = "attest"
      BY <1>5 DEF RecoveryAttest
    <2>6. \A q \in Recoverers : RecoveryAt(q)' = RecoveryAt(q)
      BY <2>3 DEF RecoveryAt
    <2>7. CASE s = RecoveryAt(r)
      <3>1. r \notin Spent(s) /\ Spent(s) \cup {r} \subseteq Spent(s)'
        BY <2>1, <2>3, <2>4, <2>5, <2>6, <2>7 DEF Spent, Holding, Past
      <3>2. onChain'[s] = onChain[s] + 1
        BY <1>1, <1>5, <2>7, BroadcastIs DEF RecoveryAttest, RecoveryAt, TypeOK
      <3> QED
        BY <1>1, <1>2, <1>3, <2>5, <3>1, <3>2, SpentTypes, SpentTypesNext, Counted
    <2>8. CASE s # RecoveryAt(r)
      <3>1. Spent(s) \subseteq Spent(s)'
        BY <2>3, <2>4, <2>5, <2>6, <2>8 DEF Spent, Holding, Past
      <3>2. onChain'[s] = onChain[s]
        BY <1>1, <1>5, <2>1, <2>8, BroadcastIs DEF RecoveryAttest, RecoveryAt, TypeOK
      <3> QED
        BY <1>1, <1>2, <1>3, <2>5, <3>1, <3>2, SpentTypes, SpentTypesNext, Counted
    <2> QED
      BY <2>7, <2>8
  <1>6. CASE RecoveryAttestFails(r)
    <2>1. rows' = rows /\ recovery[r].pc = "attest" /\ RecoveryAt(r) \in Signals
      BY <1>1, <1>6 DEF RecoveryAttestFails, AtInv
    <2>2. Spent(s) \subseteq Spent(s)'
      BY <1>1, <1>6, <2>1, RecoveryNextIs, LeavesPast DEF RecoveryAttestFails
    <2>3. onChain'[s] + faults <= onChain[s] + faults'
      <3>1. CASE onChain' = onChain /\ faults' = faults
        BY <1>1, <3>1, SpentTypes
      <3>2. CASE Broadcast(RecoveryAt(r)) /\ Fault("rpc")
        BY <1>1, <2>1, <3>2, BroadcastIs, FaultIs, SpentTypes DEF TypeOK
      <3> QED
        BY <1>6, <3>1, <3>2 DEF RecoveryAttestFails, RecoveryAt
    <2> QED
      BY <1>1, <1>2, <1>3, <2>2, <2>3, SpentTypes, SpentTypesNext, Counted
  <1>7. CASE RecoveryPersist(r)
    <2>1. /\ recovery[r].tx \in Nat /\ RecoveryAt(r) \in Signals /\ "submit" \in RecoveryPc
          /\ recovery[r].pc = "persist" /\ recovery[r].tx # 0 /\ onChain' = onChain
      BY <1>1, <1>7 DEF TypeOK, AtInv, RecoveryPersist, RecoveryPc, TxInv
    <2>2. recovery' = [recovery EXCEPT ![r].pc = "submit"]
      BY <1>7 DEF RecoveryPersist
    <2>3. /\ \A q \in Recoverers : q # r => recovery'[q] = recovery[q]
          /\ recovery'[r].todo = recovery[r].todo /\ recovery'[r].pc = "submit"
      BY <1>1, <2>1, <2>2, RecoveryMoves
    <2>4. \A q \in Recoverers : RecoveryAt(q)' = RecoveryAt(q)
      BY <2>3 DEF RecoveryAt
    <2>5. CASE UpdateSignalAttest(RecoveryAt(r), recovery[r].tx) /\ faults' = faults
      <3>1. /\ rows'[RecoveryAt(r)].attestTx # 0
            /\ s # RecoveryAt(r) => rows'[s].attestTx = rows[s].attestTx
        BY <1>1, <2>1, <2>5, RowWrites DEF TypeOK
      <3>2. Spent(s) \subseteq Spent(s)'
        BY <2>1, <2>3, <2>4, <3>1 DEF Spent, Holding, Past
      <3> QED
        BY <1>1, <1>2, <1>3, <2>1, <2>5, <3>2, SpentTypes, SpentTypesNext, Counted
    <2>6. CASE Fault("db") /\ rows' = rows
      <3>1. Spent(s) \ {r} \subseteq Spent(s)'
        BY <2>3, <2>4, <2>6 DEF Spent, Holding, Past
      <3>2. faults' = faults + 1
        BY <1>1, <2>6, FaultIs DEF TypeOK
      <3> QED
        BY <1>1, <1>2, <1>3, <2>1, <3>1, <3>2, SpentTypes, SpentTypesNext, Counted
    <2> QED
      BY <1>7, <2>5, <2>6 DEF RecoveryPersist, RecoveryAt
  <1>8. CASE RecoverySubmit(r)
    <2>1. /\ onChain' = onChain /\ faults' = faults /\ recovery[r].pc = "submit"
          /\ RecoveryAt(r) \in Signals
      BY <1>1, <1>8 DEF RecoverySubmit, AtInv
    <2>2. rows'[s].attestTx = rows[s].attestTx
      BY <1>1, <1>8, <2>1, TryIs DEF RecoverySubmit, RecoveryAt, TypeOK, Statuses
    <2>3. Spent(s) \subseteq Spent(s)'
      BY <1>1, <1>8, <2>1, <2>2, RecoveryNextIs, LeavesPast DEF RecoverySubmit
    <2> QED
      BY <1>1, <1>2, <1>3, <2>1, <2>3, SpentTypes, SpentTypesNext, Counted
  <1> QED
    BY <1>4, <1>5, <1>6, <1>7, <1>8 DEF RecoveryStep

\* A crash is a fault: it takes at most the one recoverer's broadcast with it.
LEMMA CrashSpent ==
    ASSUME IndInv, Crash \/ \E r \in Commands : CommandDies(r), TypeOK', NEW s \in Signals
    PROVE  onChain'[s] + Ahead(s)' <= 1 + faults' + Cardinality(Spent(s)')
  <1>1. TypeOK
    BY DEF IndInv
  <1>2. onChain[s] + Ahead(s) <= 1 + faults + Cardinality(Spent(s))
    BY DEF IndInv, SpentInv, Ahead
  <1>3. SUFFICES ASSUME NEW r \in Recoverers,
                        \A q \in Recoverers : q # r => recovery'[q] = recovery[q],
                        rows' = rows, onChain' = onChain, faults' = faults + 1,
                        HotAhead(s)' => HotAhead(s)
                 PROVE  onChain'[s] + Ahead(s)' <= 1 + faults' + Cardinality(Spent(s)')
    <2>1. CASE Crash
      <3>1. Loop \in Recoverers
        BY DEF Recoverers
      <3>2. HotAhead(s)' => HotAhead(s)
        BY <1>1, <2>1, CrashIs DEF HotAhead, Crash
      <3> QED
        BY <1>1, <1>3, <2>1, <3>1, <3>2, CrashIs DEF Crash
    <2>2. ASSUME NEW r \in Commands, CommandDies(r)
          PROVE  onChain'[s] + Ahead(s)' <= 1 + faults' + Cardinality(Spent(s)')
      <3>1. r \in Recoverers /\ \A q \in Recoverers : q # r => recovery'[q] = recovery[q]
        BY <1>1, <2>2 DEF CommandDies, Recoverers, TypeOK
      <3>2. /\ rows' = rows /\ onChain' = onChain /\ faults' = faults + 1
            /\ HotAhead(s)' => HotAhead(s)
        BY <1>1, <2>2, FaultIs DEF CommandDies, TypeOK, HotAhead, HotAt
      <3> QED
        BY <1>3, <3>1, <3>2
    <2> QED
      BY <2>1, <2>2
  <1>4. \A q \in Recoverers : q # r => RecoveryAt(q)' = RecoveryAt(q)
    BY <1>3 DEF RecoveryAt
  <1>5. Spent(s) \ {r} \subseteq Spent(s)'
    BY <1>3, <1>4 DEF Spent, Holding, Past
  <1>6. Cardinality(Spent(s)) <= Cardinality(Spent(s)') + 1
    BY <1>1, <1>5, SpentTypes, SpentTypesNext, Counted
  <1>7. Ahead(s)' <= Ahead(s)
    BY <1>3 DEF Ahead
  <1> QED
    BY <1>1, <1>2, <1>3, <1>6, <1>7, SpentTypes, SpentTypesNext

LEMMA SpentStep ==
    ASSUME IndInv, [Next]_vars
    PROVE  SpentInv'
  <1>1. TypeOK'
    BY TypeStep DEF IndInv
  <1>2. SUFFICES ASSUME NEW s \in Signals
                 PROVE  onChain'[s] + Ahead(s)' <= 1 + faults' + Cardinality(Spent(s)')
    BY DEF SpentInv, Ahead
  <1>3. ASSUME EnrichStep \/ UNCHANGED vars
        PROVE  onChain'[s] + Ahead(s)' <= 1 + faults' + Cardinality(Spent(s)')
    <2>1. /\ onChain' = onChain /\ faults' = faults /\ recovery' = recovery
          /\ nextId' = nextId /\ hot' = hot
      BY <1>3 DEF vars, EnrichStep, EnrichPass, EnrichNote, EnrichNoteFails, EnrichStatus, EnrichEdit
    <2>2. rows'[s].attestTx = rows[s].attestTx
      <3>1. TypeOK /\ AtInv
        BY AtWork DEF IndInv
      <3>2. CASE rows' = rows
        BY <3>2
      <3>3. CASE EnrichNote
        BY <3>1, <3>3, RowWrites DEF EnrichNote, AtInv, EnrichAt, TypeOK
      <3>4. CASE EnrichStatus
        BY <3>1, <3>4, TryIs DEF EnrichStatus, AtInv, EnrichAt, TypeOK, Statuses
      <3> QED
        BY <1>3, <3>2, <3>3, <3>4 DEF vars, EnrichStep, EnrichPass, EnrichNoteFails, EnrichEdit
    <2>3. Ahead(s)' = Ahead(s)
      BY <2>1 DEF Ahead, HotAhead, HotAt
    <2>4. Spent(s)' = Spent(s)
      BY <2>1, <2>2 DEF Spent, Holding, Past, RecoveryAt
    <2>5. onChain[s] + Ahead(s) <= 1 + faults + Cardinality(Spent(s))
      BY DEF IndInv, SpentInv, Ahead
    <2> QED
      BY <2>1, <2>3, <2>4, <2>5
  <1> QED
    BY <1>1, <1>3, HotSpent, RecoverySpent, CrashSpent DEF Next

\* Nothing is inserted, broadcast or sent at the start.
LEMMA InitInd == Init => IndInv
  <1> SUFFICES ASSUME Init PROVE IndInv
    OBVIOUS
  <1> USE DEF NoTx
  <1>1. NewRow \in Row /\ NewRow.attestTx = 0 /\ ~NewRow.messageId /\ ~NewRow.note /\ NewRow.status = "new"
    BY DEF NewRow, Row, Statuses
  <1>2. NoAlert \in Alert /\ ~NoAlert.sent /\ ~NoAlert.note /\ NoAlert.proof = 0
    BY DEF NoAlert, Alert
  <1>3. /\ hot.pc = "scan" /\ hot.todo = {} /\ hot.tx = 0
        /\ hot \in [pc : HotPc, todo : SUBSET Signals, tx : Nat]
    BY DEF Init, HotStart, HotPc
  <1>4. /\ \A r \in Recoverers : recovery[r].pc = "idle" /\ recovery[r].todo = {}
        /\ recovery \in [Recoverers -> [pc : RecoveryPc, todo : SUBSET Signals, tx : Nat]]
    BY DEF Init, RecoveryStart, RecoveryPc
  <1>5. /\ enrich.pc = "idle" /\ enrich.todo = {} /\ \A s \in Signals : enrich.seen[s] = NewRow
        /\ enrich \in [pc : EnrichPc, todo : SUBSET Signals, seen : [Signals -> Row]]
    BY <1>1 DEF Init, EnrichStart, EnrichPc
  <1>6. \A s \in Signals : rows[s] = NewRow /\ onChain[s] = 0 /\ alert[s] = NoAlert
    BY DEF Init
  <1>7. TypeOK
    BY <1>1, <1>2, <1>3, <1>4, <1>5, PipelineAssumption DEF Init, TypeOK
  <1>8. WorkInv
    BY <1>3, <1>4, <1>5 DEF WorkInv
  <1>9. UnseenInv /\ TxInv /\ DoneInv
    BY <1>1, <1>3, <1>4, <1>5, <1>6 DEF UnseenInv, TxInv, DoneInv
  <1>10. StatusTruthful /\ AlertHonest /\ ProofInv
    BY <1>1, <1>2, <1>5, <1>6 DEF StatusTruthful, AlertHonest, ProofInv
  <1>11. SpentInv
    <2> SUFFICES ASSUME NEW s \in Signals
                 PROVE  onChain[s] + Ahead(s) <= 1 + faults + Cardinality(Spent(s))
      BY DEF SpentInv, Ahead
    <2>1. onChain[s] = 0 /\ faults = 0
      BY <1>6 DEF Init
    <2> QED
      BY <1>7, <2>1, SpentTypes
  <1> QED
    BY <1>7, <1>8, <1>9, <1>10, <1>11 DEF IndInv, TruthInv

-----------------------------------------------------------------------------
\* Table, stages, chain and channel stay consistent in every reachable state.
THEOREM Inductive == Spec => []IndInv
  <1>1. IndInv /\ [Next]_vars => IndInv'
    BY TypeStep, TruthStep, SpentStep DEF IndInv
  <1> QED
    BY <1>1, InitInd, PTL DEF Spec

\* Every variable keeps its type, however the stages interleave and fail.
THEOREM TypeCorrect == Spec => []TypeOK
  <1>1. IndInv => TypeOK
    BY DEF IndInv
  <1> QED
    BY <1>1, Inductive, PTL

\* Whichever of the stages and commands wrote it last, and from however old a copy
\* of the row, the status column claims only what has happened.
THEOREM StatusIsTruthful == Spec => []StatusTruthful
  <1>1. IndInv => StatusTruthful
    BY DEF IndInv, TruthInv
  <1> QED
    BY <1>1, Inductive, PTL

\* An alert shows only notes the table has and transactions that were broadcast.
THEOREM AlertsAreHonest == Spec => []AlertHonest
  <1>1. IndInv => AlertHonest
    BY DEF IndInv, TruthInv
  <1> QED
    BY <1>1, Inductive, PTL

\* A signal is broadcast once by the hot path, once by each recoverer, and once more
\* for each fault at most.
THEOREM BroadcastsAreBounded == Spec => []AttestBound
  <1>1. IndInv => AttestBound
    <2> SUFFICES ASSUME IndInv, NEW s \in Signals
                 PROVE  onChain[s] <= 1 + Cardinality(Recoverers) + faults
      BY DEF AttestBound
    <2>1. TypeOK /\ onChain[s] + Ahead(s) <= 1 + faults + Cardinality(Spent(s))
      BY DEF IndInv, SpentInv, Ahead
    <2>2. /\ Cardinality(Spent(s)) <= Cardinality(Recoverers)
          /\ Cardinality(Recoverers) \in Nat
      BY <2>1, SpentTypes, Counted
    <2> QED
      BY <2>1, <2>2, SpentTypes
  <1> QED
    BY <1>1, Inductive, PTL

\* Faults are only counted up.
LEMMA FaultsGrow ==
    ASSUME TypeOK, [Next]_vars
    PROVE  faults' = faults \/ faults' = faults + 1
  <1>1. faults \in 0..MaxFaults
    BY DEF TypeOK
  <1>2. CASE UNCHANGED vars \/ ScanInserts \/ ScanReturns \/ ScanFails \/ EnrichStep
    BY <1>2 DEF vars, ScanInserts, ScanReturns, ScanFails, EnrichStep, EnrichPass, EnrichNote,
      EnrichNoteFails, EnrichStatus, EnrichEdit
  <1>3. CASE HotStep
    BY <1>1, <1>3, FaultIs DEF HotStep, HotAttest, HotAttestFails, HotPersist, HotPersistFails,
      HotSubmit, HotDispatch, HotDispatchFails, HotSetAlerted, HotRecordId
  <1>4. ASSUME NEW r \in Recoverers, RecoveryStep(r) PROVE faults' = faults \/ faults' = faults + 1
    BY <1>1, <1>4, FaultIs DEF RecoveryStep, RecoveryPass, RecoveryAttest, RecoveryAttestFails,
      RecoveryPersist, RecoverySubmit
  <1>5. CASE Crash \/ \E r \in Commands : CommandDies(r)
    BY <1>1, <1>5, FaultIs DEF Crash, CommandDies
  <1> QED
    BY <1>2, <1>3, <1>4, <1>5 DEF Next

\* Only a dispatch and an edit change what an alert shows.
LEMMA AlertChanges ==
    ASSUME [Next]_vars, alert' # alert
    PROVE  HotDispatch \/ HotDispatchFails \/ EnrichEdit
  <1>1. ~UNCHANGED vars /\ ~ScanInserts /\ ~ScanReturns /\ ~ScanFails
    BY DEF vars, ScanInserts, ScanReturns, ScanFails
  <1>2. ASSUME NEW r \in Recoverers PROVE ~RecoveryStep(r)
    BY DEF RecoveryStep, RecoveryPass, RecoveryAttest, RecoveryAttestFails, RecoveryPersist,
      RecoverySubmit
  <1>3. ~Crash /\ \A r \in Commands : ~CommandDies(r)
    BY DEF Crash, CommandDies
  <1>4. HotStep => HotDispatch \/ HotDispatchFails
    BY DEF HotStep, HotAttest, HotAttestFails, HotPersist, HotPersistFails, HotSubmit,
      HotSetAlerted, HotRecordId
  <1>5. EnrichStep => EnrichEdit
    BY DEF EnrichStep, EnrichPass, EnrichNote, EnrichNoteFails, EnrichStatus
  <1> QED
    BY <1>1, <1>2, <1>3, <1>4, <1>5 DEF Next

\* Without a fault, an alert that has its proof link keeps one: an edit renders a row
\* that had its tx hash before it had its message id.
THEOREM ProofsAreKept == Spec => ProofKept
  <1>1. ASSUME IndInv, IndInv', [Next]_vars
        PROVE  \A s \in Signals :
                  alert[s].proof # NoTx /\ faults' = 0 => alert'[s].proof # NoTx
    <2> SUFFICES ASSUME NEW s \in Signals, alert[s].proof # NoTx, faults' = 0,
                        alert'[s] # alert[s]
                 PROVE  alert'[s].proof # NoTx
      OBVIOUS
    <2>6. TypeOK /\ WorkInv /\ ProofInv
      BY <1>1 DEF IndInv, TruthInv
    <2>1. TypeOK /\ AtInv /\ ProofInv
      BY <2>6, AtWork
    <2>5. alert[s].sent
      BY <2>1 DEF ProofInv
    <2>2. faults = 0
      BY <1>1, <2>1, FaultsGrow DEF TypeOK
    <2>3. CASE HotDispatch \/ HotDispatchFails
      <3>1. HotAt \in Signals /\ HotAt \in hot.todo /\ hot.pc = "dispatch" /\ hot.tx \in Nat
        BY <2>1, <2>3 DEF AtInv, HotDispatch, HotDispatchFails, TypeOK
      <3>2. s = HotAt
        BY <2>1, <2>3, <3>1, DeliveredIs DEF HotDispatch, HotDispatchFails, HotAt, TypeOK
      <3>3. HotSilent(s)
        BY <3>1, <3>2 DEF HotSilent
      <3> QED
        BY <2>1, <2>5, <3>3 DEF ProofInv
    <2>4. CASE EnrichEdit
      <3>1. EnrichAt \in Signals
        BY <2>1, <2>4 DEF AtInv, EnrichEdit
      <3> QED
        BY <2>1, <2>2, <2>4, <3>1, EditIs DEF ProofInv
    <2> QED
      BY <1>1, <2>3, <2>4, AlertChanges
  <1>2. IndInv /\ IndInv' /\ [Next]_vars =>
           [\A s \in Signals : alert[s].proof # NoTx /\ faults' = 0 => alert'[s].proof # NoTx]_vars
    BY <1>1
  <1> QED
    BY <1>2, Inductive, PTL DEF Spec, ProofKept
=============================================================================

--------------------------- MODULE SignalPipeline ---------------------------
(***************************************************************************)
(* The life of a signal after detection (cmd/ocr/main.go): three stages of *)
(* the supervisor work on the rows of the signals table at the same time.  *)
(*   hot       detectLoop and processSignal: insert, attest, alert         *)
(*   recovery  attestPendingOnce: attest the rows without an attest_tx,    *)
(*             in the supervisor's loop and in attest-pending commands       *)
(*   enrich    enrichPass and enrichOne: write the analyst note and edit   *)
(*             it into the alert already sent                              *)
(* Recovery and enrich work through a snapshot of the rows taken when the  *)
(* pass starts. The signals are numbered in the order of their insertion.  *)
(***************************************************************************)
EXTENDS Integers, FiniteSetsExt

CONSTANTS
    NumSignals,     \* bound: signals the detectors insert
    Loop,           \* the recovery loop of the supervisor
    Commands,       \* attest-pending commands, processes of their own
    AttestScan,     \* attestPendingScan: rows a pass of the loop looks at
    EnrichBatch,    \* enrichBatch: note-less rows an enrich pass takes
    Failing,        \* what may fail: "rpc", "db", "telegram", "llm", "process"
    MaxFaults       \* bound: faults that lose the record of a broadcast

ASSUME PipelineAssumption ==
    /\ NumSignals \in Nat /\ AttestScan \in Nat /\ EnrichBatch \in Nat
    /\ MaxFaults \in Nat
    /\ IsFiniteSet(Commands) /\ Loop \notin Commands
    /\ Failing \subseteq {"rpc", "db", "telegram", "llm", "process"}

Signals == 1..NumSignals
Recoverers == {Loop} \cup Commands

VARIABLES
    rows,       \* the signals table
    nextId,     \* the id the next inserted signal gets
    onChain,    \* per signal: attest() transactions broadcast for it
    alert,      \* per signal: what the Telegram message about it shows
    hot,        \* the detect stage
    recovery,   \* per recoverer: its pass
    enrich,     \* the enrich stage
    faults      \* history: faults that lost the record of a broadcast

vars == <<rows, nextId, onChain, alert, hot, recovery, enrich, faults>>

NoTx == 0       \* attest_tx is empty; otherwise the k-th broadcast of the signal

Statuses == {"new", "enriched", "submitted", "alerted"}
Row == [status : Statuses, attestTx : Nat, note : BOOLEAN, messageId : BOOLEAN]
Alert == [sent : BOOLEAN, proof : Nat, note : BOOLEAN]

HotPc == {"scan", "attest", "persist", "submit", "dispatch", "setAlerted", "recordId"}
RecoveryPc == {"idle", "attest", "persist", "submit"}
EnrichPc == {"idle", "note", "status", "edit"}

TypeOK ==
    /\ rows \in [Signals -> Row]
    /\ nextId \in 1..(NumSignals + 1)
    /\ onChain \in [Signals -> Nat]
    /\ alert \in [Signals -> Alert]
    /\ hot \in [pc : HotPc, todo : SUBSET Signals, tx : Nat]
    /\ recovery \in [Recoverers -> [pc : RecoveryPc, todo : SUBSET Signals, tx : Nat]]
    /\ enrich \in [pc : EnrichPc, todo : SUBSET Signals, seen : [Signals -> Row]]
    /\ faults \in 0..MaxFaults

\* InsertSignal: status new, the other columns NULL.
NewRow == [status |-> "new", attestTx |-> NoTx, note |-> FALSE, messageId |-> FALSE]
NoAlert == [sent |-> FALSE, proof |-> NoTx, note |-> FALSE]

HotStart == [pc |-> "scan", todo |-> {}, tx |-> NoTx]
RecoveryStart == [pc |-> "idle", todo |-> {}, tx |-> NoTx]
EnrichStart == [pc |-> "idle", todo |-> {}, seen |-> [s \in Signals |-> NewRow]]

Init ==
    /\ rows = [s \in Signals |-> NewRow]
    /\ nextId = 1
    /\ onChain = [s \in Signals |-> 0]
    /\ alert = [s \in Signals |-> NoAlert]
    /\ hot = HotStart
    /\ recovery = [r \in Recoverers |-> RecoveryStart]
    /\ enrich = EnrichStart
    /\ faults = 0

Inserted == 1..(nextId - 1)

\* The LIMIT of a newest-first query.
Newest(ids, limit) == {s \in ids : Cardinality({t \in ids : t > s}) < limit}

Fails(kind) == kind \in Failing

Fault(kind) ==
    /\ Fails(kind)
    /\ faults < MaxFaults
    /\ faults' = faults + 1

-----------------------------------------------------------------------------
(* Single statements on a row; each is one UPDATE.                         *)

SetSignalStatus(s, status) == rows' = [rows EXCEPT ![s].status = status]
UpdateSignalAttest(s, tx) == rows' = [rows EXCEPT ![s].attestTx = tx]
UpdateSignalNote(s) == rows' = [rows EXCEPT ![s].note = TRUE]
UpdateSignalTGMessageID(s) == rows' = [rows EXCEPT ![s].messageId = TRUE]

\* A status write whose failure is logged and ignored.
TrySetStatus(s, status) ==
    \/ SetSignalStatus(s, status)
    \/ Fails("db") /\ UNCHANGED rows

-----------------------------------------------------------------------------
(* The detect stage.                                                       *)

Oldest(todo) == Min(todo)

\* A scan inserts signals one by one and returns them when it ends.
ScanInserts ==
    /\ hot.pc = "scan"
    /\ nextId <= NumSignals
    /\ rows' = [rows EXCEPT ![nextId] = NewRow]
    /\ hot' = [hot EXCEPT !.todo = @ \cup {nextId}]
    /\ nextId' = nextId + 1
    /\ UNCHANGED <<onChain, alert, recovery, enrich, faults>>

ScanReturns ==
    /\ hot.pc = "scan"
    /\ hot.todo # {}
    /\ hot' = [hot EXCEPT !.pc = "attest"]
    /\ UNCHANGED <<rows, nextId, onChain, alert, recovery, enrich, faults>>

\* A scan that fails half way: detectLoop drops the signals it had inserted.
ScanFails ==
    /\ hot.pc = "scan"
    /\ hot.todo # {}
    /\ Fails("db")
    /\ hot' = HotStart
    /\ UNCHANGED <<rows, nextId, onChain, alert, recovery, enrich, faults>>

\* Attestor.Attest for one signal: broadcast and acknowledged, failed before
\* anything was sent, or broadcast and its answer lost.
Broadcast(s) == onChain' = [onChain EXCEPT ![s] = @ + 1]

\* Fault: the status is written at once, the tx hash is not persisted first.
HotAttestUnrecorded ==
    LET s == Oldest(hot.todo) IN
    /\ hot.pc = "attest"
    /\ Broadcast(s)
    /\ hot' = [hot EXCEPT !.pc = "submit", !.tx = onChain[s] + 1]
    /\ UNCHANGED <<rows, nextId, alert, recovery, enrich, faults>>

HotAttest ==
    LET s == Oldest(hot.todo) IN
    /\ hot.pc = "attest"
    /\ Broadcast(s)
    /\ hot' = [hot EXCEPT !.pc = "persist", !.tx = onChain[s] + 1]
    /\ UNCHANGED <<rows, nextId, alert, recovery, enrich, faults>>

HotAttestFails ==
    /\ hot.pc = "attest"
    /\ Fails("rpc")
    /\ hot' = [hot EXCEPT !.pc = "dispatch"]
    /\ \/ UNCHANGED <<onChain, faults>>
       \/ Broadcast(Oldest(hot.todo)) /\ Fault("rpc")
    /\ UNCHANGED <<rows, nextId, alert, recovery, enrich>>

HotPersist ==
    /\ hot.pc = "persist"
    /\ UpdateSignalAttest(Oldest(hot.todo), hot.tx)
    /\ hot' = [hot EXCEPT !.pc = "submit"]
    /\ UNCHANGED <<nextId, onChain, alert, recovery, enrich, faults>>

\* All attempts of persistAttestTx failed.
HotPersistFails ==
    /\ hot.pc = "persist"
    /\ Fault("db")
    /\ hot' = [hot EXCEPT !.pc = "dispatch"]
    /\ UNCHANGED <<rows, nextId, onChain, alert, recovery, enrich>>

HotSubmit ==
    /\ hot.pc = "submit"
    /\ TrySetStatus(Oldest(hot.todo), "submitted")
    /\ hot' = [hot EXCEPT !.pc = "dispatch"]
    /\ UNCHANGED <<nextId, onChain, alert, recovery, enrich, faults>>

\* processSignal returns; detectLoop takes the next signal or scans again.
HotNext ==
    LET rest == hot.todo \ {Oldest(hot.todo)} IN
    hot' = [pc |-> IF rest = {} THEN "scan" ELSE "attest", todo |-> rest, tx |-> NoTx]

\* Dispatch: the alert goes out as a card, or as text if the card does not.
Delivered(s, tx) == alert' = [alert EXCEPT ![s] = [sent |-> TRUE, proof |-> tx, note |-> FALSE]]

HotDispatch ==
    /\ hot.pc = "dispatch"
    /\ Delivered(Oldest(hot.todo), hot.tx)
    /\ hot' = [hot EXCEPT !.pc = "setAlerted"]
    /\ UNCHANGED <<rows, nextId, onChain, recovery, enrich, faults>>

\* Nothing was sent, or it was and the answer is lost.
HotDispatchFails ==
    /\ hot.pc = "dispatch"
    /\ Fails("telegram")
    /\ Delivered(Oldest(hot.todo), hot.tx) \/ UNCHANGED alert
    /\ HotNext
    /\ UNCHANGED <<rows, nextId, onChain, recovery, enrich, faults>>

HotSetAlerted ==
    /\ hot.pc = "setAlerted"
    /\ TrySetStatus(Oldest(hot.todo), "alerted")
    /\ hot' = [hot EXCEPT !.pc = "recordId"]
    /\ UNCHANGED <<nextId, onChain, alert, recovery, enrich, faults>>

HotRecordId ==
    /\ hot.pc = "recordId"
    /\ \/ UpdateSignalTGMessageID(Oldest(hot.todo))
       \/ Fails("db") /\ UNCHANGED rows
    /\ HotNext
    /\ UNCHANGED <<nextId, onChain, alert, recovery, enrich, faults>>

HotStep ==
    \/ HotAttest \/ HotAttestFails \/ HotPersist \/ HotPersistFails \/ HotSubmit
    \/ HotDispatch \/ HotDispatchFails \/ HotSetAlerted \/ HotRecordId

-----------------------------------------------------------------------------
(* Recovery: attestPendingOnce, run by the loop and by the commands.       *)

Latest(todo) == Max(todo)

\* The loop reads the newest rows, a command the whole table (10000 rows).
Scanned(r) == IF r = Loop THEN Newest(Inserted, AttestScan) ELSE Inserted

\* Fault: the attest_tx the pass read is not looked at.
RecoveryPassAll(r) ==
    /\ recovery[r].pc = "idle"
    /\ Scanned(r) # {}
    /\ recovery' = [recovery EXCEPT ![r] = [pc |-> "attest", todo |-> Scanned(r), tx |-> NoTx]]
    /\ UNCHANGED <<rows, nextId, onChain, alert, hot, enrich, faults>>

\* Fault: only the rows still in status new are attested.
RecoveryPassNew(r) ==
    LET pending == {s \in Scanned(r) : rows[s].status = "new"} IN
    /\ recovery[r].pc = "idle"
    /\ pending # {}
    /\ recovery' = [recovery EXCEPT ![r] = [pc |-> "attest", todo |-> pending, tx |-> NoTx]]
    /\ UNCHANGED <<rows, nextId, onChain, alert, hot, enrich, faults>>

\* The pass takes its rows and skips those whose attest_tx is set.
RecoveryPass(r) ==
    LET pending == {s \in Scanned(r) : rows[s].attestTx = NoTx} IN
    /\ recovery[r].pc = "idle"
    /\ pending # {}
    /\ recovery' = [recovery EXCEPT ![r] = [pc |-> "attest", todo |-> pending, tx |-> NoTx]]
    /\ UNCHANGED <<rows, nextId, onChain, alert, hot, enrich, faults>>

RecoveryNext(r) ==
    LET rest == recovery[r].todo \ {Latest(recovery[r].todo)}
        pc == IF rest = {} THEN "idle" ELSE "attest"
    IN  recovery' = [recovery EXCEPT ![r] = [pc |-> pc, todo |-> rest, tx |-> NoTx]]

RecoveryAttest(r) ==
    LET s == Latest(recovery[r].todo) IN
    /\ recovery[r].pc = "attest"
    /\ Broadcast(s)
    /\ recovery' = [recovery EXCEPT ![r].pc = "persist", ![r].tx = onChain[s] + 1]
    /\ UNCHANGED <<rows, nextId, alert, hot, enrich, faults>>

RecoveryAttestFails(r) ==
    /\ recovery[r].pc = "attest"
    /\ Fails("rpc")
    /\ \/ UNCHANGED <<onChain, faults>>
       \/ Broadcast(Latest(recovery[r].todo)) /\ Fault("rpc")
    /\ RecoveryNext(r)
    /\ UNCHANGED <<rows, nextId, alert, hot, enrich>>

\* A failed persist is logged and the status is set all the same.
RecoveryPersist(r) ==
    /\ recovery[r].pc = "persist"
    /\ \/ UpdateSignalAttest(Latest(recovery[r].todo), recovery[r].tx) /\ UNCHANGED faults
       \/ Fault("db") /\ UNCHANGED rows
    /\ recovery' = [recovery EXCEPT ![r].pc = "submit"]
    /\ UNCHANGED <<nextId, onChain, alert, hot, enrich>>

RecoverySubmit(r) ==
    /\ recovery[r].pc = "submit"
    /\ TrySetStatus(Latest(recovery[r].todo), "submitted")
    /\ RecoveryNext(r)
    /\ UNCHANGED <<nextId, onChain, alert, hot, enrich, faults>>

RecoveryStep(r) ==
    \/ RecoveryPass(r) \/ RecoveryAttest(r) \/ RecoveryAttestFails(r)
    \/ RecoveryPersist(r) \/ RecoverySubmit(r)

-----------------------------------------------------------------------------
(* The enrich stage.                                                       *)

EnrichPass ==
    LET needing == Newest({s \in Inserted : ~rows[s].note}, EnrichBatch) IN
    /\ enrich.pc = "idle"
    /\ needing # {}
    /\ enrich' = [pc |-> "note", todo |-> needing,
                  seen |-> [s \in Signals |-> IF s \in needing THEN rows[s] ELSE NewRow]]
    /\ UNCHANGED <<rows, nextId, onChain, alert, hot, recovery, faults>>

\* enrichOne returns; the pass goes on with the next row of its snapshot.
EnrichNext ==
    LET s == Latest(enrich.todo)
        rest == enrich.todo \ {s}
    IN  enrich' = [pc |-> IF rest = {} THEN "idle" ELSE "note", todo |-> rest,
                   seen |-> [enrich.seen EXCEPT ![s] = NewRow]]

EnrichNote ==
    /\ enrich.pc = "note"
    /\ UpdateSignalNote(Latest(enrich.todo))
    /\ enrich' = [enrich EXCEPT !.pc = "status"]
    /\ UNCHANGED <<nextId, onChain, alert, hot, recovery, faults>>

\* Fault: a note that could not be written is shown all the same.
EnrichNoteFailsOn ==
    /\ enrich.pc = "note"
    /\ Fails("llm") \/ Fails("db")
    /\ enrich' = [enrich EXCEPT !.pc = "edit"]
    /\ UNCHANGED <<rows, nextId, onChain, alert, hot, recovery, faults>>

\* No note from the LLM, or the note could not be written.
EnrichNoteFails ==
    /\ enrich.pc = "note"
    /\ Fails("llm") \/ Fails("db")
    /\ EnrichNext
    /\ UNCHANGED <<rows, nextId, onChain, alert, hot, recovery, faults>>

\* Only a row the snapshot shows as new is moved.
EnrichStatus ==
    LET s == Latest(enrich.todo) IN
    /\ enrich.pc = "status"
    /\ IF enrich.seen[s].status = "new" THEN TrySetStatus(s, "enriched") ELSE UNCHANGED rows
    /\ enrich' = [enrich EXCEPT !.pc = "edit"]
    /\ UNCHANGED <<nextId, onChain, alert, hot, recovery, faults>>

\* Fault: the message id is read again, the rest of the row is not.
EnrichEditCurrent ==
    LET s == Latest(enrich.todo)
        edited == [alert EXCEPT ![s].note = TRUE, ![s].proof = enrich.seen[s].attestTx]
    IN
    /\ enrich.pc = "edit"
    /\ \/ rows[s].messageId /\ alert' = edited
       \/ (rows[s].messageId => Fails("telegram")) /\ UNCHANGED alert
    /\ EnrichNext
    /\ UNCHANGED <<rows, nextId, onChain, hot, recovery, faults>>

\* The alert is rendered again from the snapshot, now with the note, when the
\* snapshot has the id of a message to edit.
EnrichEdit ==
    LET s == Latest(enrich.todo)
        edited == [alert EXCEPT ![s].note = TRUE, ![s].proof = enrich.seen[s].attestTx]
    IN
    /\ enrich.pc = "edit"
    /\ \/ enrich.seen[s].messageId /\ alert' = edited
       \/ (enrich.seen[s].messageId => Fails("telegram")) /\ UNCHANGED alert
    /\ EnrichNext
    /\ UNCHANGED <<rows, nextId, onChain, hot, recovery, faults>>

EnrichStep == EnrichPass \/ EnrichNote \/ EnrichNoteFails \/ EnrichStatus \/ EnrichEdit

-----------------------------------------------------------------------------

\* The supervisor process dies and is started again; the table, the chain and
\* Telegram keep what they have.
Crash ==
    /\ Fault("process")
    /\ hot' = HotStart
    /\ recovery' = [recovery EXCEPT ![Loop] = RecoveryStart]
    /\ enrich' = EnrichStart
    /\ UNCHANGED <<rows, nextId, onChain, alert>>

\* An attest-pending command is killed.
CommandDies(r) ==
    /\ Fault("process")
    /\ recovery[r].pc # "idle"
    /\ recovery' = [recovery EXCEPT ![r] = RecoveryStart]
    /\ UNCHANGED <<rows, nextId, onChain, alert, hot, enrich>>

Next ==
    \/ ScanInserts \/ ScanReturns \/ ScanFails
    \/ HotStep \/ EnrichStep
    \/ \E r \in Recoverers : RecoveryStep(r)
    \/ Crash \/ \E r \in Commands : CommandDies(r)

Spec == Init /\ [][Next]_vars

\* Every stage is a goroutine with a ticker of its own and bounded steps. The
\* node, Postgres and the LLM answer again and again: what is retried in every
\* pass succeeds in one of them.
Fairness ==
    /\ WF_vars(ScanReturns \/ HotStep)
    /\ WF_vars(RecoveryStep(Loop)) /\ SF_vars(RecoveryAttest(Loop))
    /\ WF_vars(EnrichStep) /\ SF_vars(EnrichNote)

FairSpec == Spec /\ Fairness

-----------------------------------------------------------------------------
(* Properties.                                                             *)

\* Duplicates on chain are bounded: the hot path and each recoverer can attest a
\* signal once, and one more broadcast needs a fault that lost the record of an
\* earlier one.
AttestBound ==
    \A s \in Signals : onChain[s] <= 1 + Cardinality(Recoverers) + faults

\* The status column never claims what did not happen: an enriched signal has
\* its note, a submitted one was broadcast, and the tx hash was recorded before
\* unless a fault lost it, an alerted one has its message (processSignal,
\* attestPendingOnce, enrichOne).
StatusTruthful ==
    \A s \in Signals :
        /\ rows[s].status = "enriched" => rows[s].note
        /\ rows[s].status = "submitted" => onChain[s] > 0
        /\ rows[s].status = "submitted" /\ faults = 0 => rows[s].attestTx # NoTx
        /\ rows[s].status = "alerted" => alert[s].sent

\* A note shown to the channel is one the dashboard has, and the proof link of an
\* alert is a transaction that was broadcast for this signal.
AlertHonest ==
    \A s \in Signals :
        /\ alert[s].note => rows[s].note /\ alert[s].sent
        /\ alert[s].proof <= onChain[s]

\* Without a fault no edit takes the proof link away from an alert that has one:
\* the message id is recorded only after the tx hash is.
ProofKept ==
    [][\A s \in Signals : alert[s].proof # NoTx /\ faults' = 0 => alert'[s].proof # NoTx]_vars

\* Recovery and the retries heal every gap: each inserted signal gets a recorded
\* attestation and its analyst note, whatever failed in the hot path or dropped
\* the signal before it got there.
EventuallyHealed ==
    \A s \in Signals :
        /\ s < nextId ~> rows[s].attestTx # NoTx
        /\ s < nextId ~> rows[s].note
=============================================================================

------------------------------ MODULE Outcome ------------------------------
(***************************************************************************)
(* Outcome grading (internal/outcome/outcome.go): when the horizon of a    *)
(* signal has passed, a pass reads the buckets before and after it, stores *)
(* a report card once and for all, and commits its hash on chain. The      *)
(* supervisor's outcome stage and the one-shot outcomes command run the    *)
(* same pass, in processes of their own.                                   *)
(*                                                                         *)
(* One pool. Time is counted in buckets; a signal is named by its bucket.  *)
(* Of the aggregator and the detector there is what the graders see: how   *)
(* far the buckets are counted, and which buckets have a signal.           *)
(***************************************************************************)
EXTENDS Integers, FiniteSetsExt

CONSTANTS
    Loop,           \* the outcome stage of the supervisor
    Commands,       \* outcomes commands, processes of their own
    MaxTime,        \* bound: the last bucket
    MaxSignals,     \* bound: signals inserted
    Horizon,        \* OutcomeHorizonHours, in buckets
    MinPre,         \* minPreBuckets
    Batch,          \* batchLimit of Measure
    AttestBatch,    \* outcomeAttestBatch
    MaxFaults       \* bound: failures

ASSUME OutcomeAssumption ==
    /\ MaxTime \in Nat /\ MaxSignals \in Nat /\ MaxFaults \in Nat
    /\ Horizon \in Nat \ {0} /\ MinPre \in Nat \ {0}
    /\ Batch \in Nat \ {0} /\ AttestBatch \in Nat \ {0}
    /\ Loop \notin Commands /\ IsFiniteSet(Commands)

Times == 0..MaxTime
Graders == {Loop} \cup Commands

\* The settle margin: two buckets.
Settle == 2

VARIABLES
    now,        \* the bucket the clock is in
    traded,     \* buckets with a trade
    counted,    \* the bucket the aggregator has counted up to
    signals,    \* the signals table: the buckets with a signal
    outcomes,   \* the signal_outcomes table: per signal its card and attest_tx
    reports,    \* per signal: the cards committed on chain
    sent,       \* per signal: attestOutcome() transactions broadcast
    grader,     \* per process: its pass
    late,       \* history: signals graded with the aggregator far behind
    overlapped, \* history: signals that a pass took to attest while another had them
    faults      \* failures so far

world == <<now, traded, counted, signals>>
vars == <<now, traded, counted, signals, outcomes, reports, sent, grader, late, overlapped, faults>>

NoTx == 0
NoCard == {}

GraderPc == {"idle", "grade", "insert", "list", "attest", "persist"}
Cards == SUBSET (Times \X BOOLEAN)

TypeOK ==
    /\ now \in Times
    /\ traded \in SUBSET Times
    /\ counted \in Times /\ counted <= now
    /\ signals \in SUBSET Times
    /\ outcomes \in [Times -> [card : Cards, tx : Nat]]
    /\ reports \in [Times -> SUBSET Cards]
    /\ sent \in [Times -> Nat]
    /\ grader \in [Graders -> [pc : GraderPc, todo : SUBSET Times, card : Cards,
                              rows : [Times -> Cards], tx : Nat]]
    /\ late \in SUBSET Times
    /\ overlapped \in SUBSET Times
    /\ faults \in 0..MaxFaults

NoRows == [t \in Times |-> NoCard]
Rest == [pc |-> "idle", todo |-> {}, card |-> NoCard, rows |-> NoRows, tx |-> NoTx]

Init ==
    /\ now = 0
    /\ traded \in SUBSET {0}
    /\ counted = 0
    /\ signals = {}
    /\ outcomes = [t \in Times |-> [card |-> NoCard, tx |-> NoTx]]
    /\ reports = [t \in Times |-> {}]
    /\ sent = [t \in Times |-> 0]
    /\ grader = [g \in Graders |-> Rest]
    /\ late = {}
    /\ overlapped = {}
    /\ faults = 0

Fault == faults < MaxFaults /\ faults' = faults + 1

-----------------------------------------------------------------------------
(* The world around the graders.                                           *)

Tick ==
    /\ now < MaxTime
    /\ now' = now + 1
    /\ traded' \in {traded, traded \cup {now + 1}}
    /\ UNCHANGED <<counted, signals, outcomes, reports, sent, grader, late, overlapped, faults>>

\* The buckets table has the buckets up to counted; the last one may still grow.
Aggregate ==
    /\ counted < now
    /\ counted' \in (counted + 1)..now
    /\ UNCHANGED <<now, traded, signals, outcomes, reports, sent, grader, late, overlapped, faults>>

Present == {b \in traded : b <= counted}

\* The detector looks at the pool's latest bucket.
Detect ==
    /\ Cardinality(signals) < MaxSignals
    /\ Present # {}
    /\ Max(Present) \notin signals
    /\ signals' = signals \cup {Max(Present)}
    /\ UNCHANGED <<now, traded, counted, outcomes, reports, sent, grader, late, overlapped, faults>>

-----------------------------------------------------------------------------
(* Measure.                                                                *)

Measured(t) == outcomes[t].card # NoCard

\* Fault: a signal is graded as soon as its horizon has passed.
MaturedUnsettled(t) == t + Horizon <= now

Matured(t) == t + Horizon + Settle <= now

\* The LIMIT of an oldest-first query.
Oldest(ids, limit) == {t \in ids : Cardinality({u \in ids : u < t}) < limit}

\* Fault: the newest signals come first.
SignalsAwaitingOutcomeNewest ==
    LET awaiting == {t \in signals : Matured(t) /\ ~Measured(t)} IN
    {t \in awaiting : Cardinality({u \in awaiting : u > t}) < Batch}

SignalsAwaitingOutcome == Oldest({t \in signals : Matured(t) /\ ~Measured(t)}, Batch)

\* Fault: the attest_tx already recorded is not looked at.
OutcomesAwaitingAttestAll == Oldest({t \in signals : Measured(t)}, AttestBatch)

OutcomesAwaitingAttest ==
    Oldest({t \in signals : Measured(t) /\ outcomes[t].tx = NoTx}, AttestBatch)

\* A bucket as it is read: whether it has all its trades.
Read(buckets) == {<<b, b < counted>> : b \in buckets}

\* BucketsBetween leaves its start out, and Measure drops the signal's own bucket.
Pre(t) == {b \in Present : t - Horizon < b /\ b < t}
Post(t) == {b \in Present : t < b /\ b <= t + Horizon}

\* The rest of a list, or the next part of the pass.
GoOn(g, rest, then) ==
    grader' = [grader EXCEPT ![g] =
        IF rest = {} THEN [Rest EXCEPT !.pc = then]
        ELSE [Rest EXCEPT !.pc = IF then = "list" THEN "grade" ELSE "attest",
                          !.todo = rest, !.rows = grader[g].rows]]

MeasurePass(g) ==
    /\ grader[g].pc = "idle"
    /\ SignalsAwaitingOutcome # {} \/ OutcomesAwaitingAttest # {}
    /\ GoOn(g, SignalsAwaitingOutcome, "list")
    /\ UNCHANGED <<world, outcomes, reports, sent, late, overlapped, faults>>

\* The signals cannot be listed: the loop attests all the same, a command ends.
MeasureFails(g) ==
    /\ grader[g].pc = "idle"
    /\ Fault
    /\ GoOn(g, {}, IF g = Loop THEN "list" ELSE "idle")
    /\ UNCHANGED <<world, outcomes, reports, sent, late, overlapped>>

\* ScoreOutcome: a card from the windows, unless there is not enough to grade.
Grade(g) ==
    LET t == Min(grader[g].todo)
        card == Read(Pre(t) \cup Post(t))
    IN
    /\ grader[g].pc = "grade"
    /\ IF Cardinality(Pre(t)) >= MinPre /\ Post(t) # {}
       THEN /\ grader' = [grader EXCEPT ![g].pc = "insert", ![g].card = card]
            /\ late' = IF now - counted >= Settle THEN late \cup {t} ELSE late
       ELSE GoOn(g, grader[g].todo \ {t}, "list") /\ UNCHANGED late
    /\ UNCHANGED <<world, outcomes, reports, sent, overlapped, faults>>

\* Fault: a second measurement replaces the first.
StoreReplacing(t, card) == outcomes' = [outcomes EXCEPT ![t].card = card]

\* INSERT ... ON CONFLICT DO NOTHING.
Store(t, card) ==
    outcomes' = IF Measured(t) THEN outcomes ELSE [outcomes EXCEPT ![t].card = card]

InsertOutcome(g) ==
    LET t == Min(grader[g].todo) IN
    /\ grader[g].pc = "insert"
    /\ \/ Store(t, grader[g].card) /\ UNCHANGED faults
       \/ Fault /\ UNCHANGED outcomes
    /\ GoOn(g, grader[g].todo \ {t}, "list")
    /\ UNCHANGED <<world, reports, sent, late, overlapped>>

-----------------------------------------------------------------------------
(* AttestPending.                                                          *)

\* A pass that has the signal among the rows it took.
Attests(g, t) == grader[g].pc \in {"attest", "persist"} /\ t \in grader[g].todo

\* The pass takes its rows, with the cards they have now.
AttestPass(g) ==
    LET rows == OutcomesAwaitingAttest IN
    /\ grader[g].pc = "list"
    /\ grader' = [grader EXCEPT ![g] =
          IF rows = {} THEN Rest
          ELSE [Rest EXCEPT !.pc = "attest", !.todo = rows,
                            !.rows = [t \in Times |-> outcomes[t].card]]]
    /\ overlapped' = overlapped \cup {t \in rows : \E h \in Graders \ {g} : Attests(h, t)}
    /\ UNCHANGED <<world, outcomes, reports, sent, late, faults>>

Broadcast(g, t) ==
    /\ reports' = [reports EXCEPT ![t] = @ \cup {grader[g].rows[t]}]
    /\ sent' = [sent EXCEPT ![t] = @ + 1]

AttestOutcome(g) ==
    LET t == Min(grader[g].todo) IN
    /\ grader[g].pc = "attest"
    /\ Broadcast(g, t)
    /\ grader' = [grader EXCEPT ![g].pc = "persist", ![g].tx = sent[t] + 1]
    /\ UNCHANGED <<world, outcomes, late, overlapped, faults>>

\* Failed before anything was sent, or broadcast and the answer lost.
AttestOutcomeFails(g) ==
    LET t == Min(grader[g].todo) IN
    /\ grader[g].pc = "attest"
    /\ Fault
    /\ Broadcast(g, t) \/ UNCHANGED <<reports, sent>>
    /\ GoOn(g, grader[g].todo \ {t}, "idle")
    /\ UNCHANGED <<world, outcomes, late, overlapped>>

\* UpdateOutcomeAttest, or every attempt of it failed.
PersistOutcomeAttestTx(g) ==
    LET t == Min(grader[g].todo) IN
    /\ grader[g].pc = "persist"
    /\ \/ outcomes' = [outcomes EXCEPT ![t].tx = grader[g].tx] /\ UNCHANGED faults
       \/ Fault /\ UNCHANGED outcomes
    /\ GoOn(g, grader[g].todo \ {t}, "idle")
    /\ UNCHANGED <<world, reports, sent, late, overlapped>>

Dies(g) ==
    /\ grader[g] # Rest
    /\ Fault
    /\ grader' = [grader EXCEPT ![g] = Rest]
    /\ UNCHANGED <<world, outcomes, reports, sent, late, overlapped>>

Pass(g) ==
    \/ MeasurePass(g) \/ Grade(g) \/ InsertOutcome(g)
    \/ AttestPass(g) \/ AttestOutcome(g) \/ PersistOutcomeAttestTx(g)

Next ==
    \/ Tick \/ Aggregate \/ Detect
    \/ \E g \in Graders : Pass(g) \/ MeasureFails(g) \/ AttestOutcomeFails(g) \/ Dies(g)

Spec == Init /\ [][Next]_vars

\* The clock, the aggregator and the stage go on, a command may stop anywhere;
\* failures are finitely many.
Fairness ==
    /\ WF_vars(Tick) /\ WF_vars(Aggregate)
    /\ WF_vars(Pass(Loop))

FairSpec == Spec /\ Fairness

-----------------------------------------------------------------------------
(* Properties.                                                             *)

\* Whatever is on chain for a signal is the card the table has, so that its hash can
\* be recomputed: two graders with different buckets in hand never both count.
ReportsMatch == \A t \in Times : reports[t] \subseteq {outcomes[t].card}

\* Measure's settle margin: "grade only once the full post window (up to T+H) is
\* aggregated". A card has every traded bucket of its window, none still growing,
\* unless it was graded with the aggregator the margin or more behind the clock.
FullWindow ==
    \A t \in Times : Measured(t) /\ t \notin late =>
        {b \in traded : t < b /\ b <= t + Horizon} \X {TRUE} \subseteq outcomes[t].card

\* An outcome is broadcast once, and once more for each failure that lost the record of
\* a broadcast: "re-running never double-attests", unless two passes overlap, when
\* each grader may broadcast it once.
AttestBound ==
    \A t \in Times :
        sent[t] <= faults + IF t \in overlapped THEN Cardinality(Graders) ELSE 1

Gradeable(t) == Cardinality(Pre(t)) >= MinPre /\ Post(t) # {}
Due == {t \in signals : Matured(t)}

\* A matured signal that can be graded gets its card and its attestation, whatever is
\* behind it in the backlog, unless signals older than it that never can be graded fill
\* every batch: those are read again and again, and it is starved.
EventuallyRecorded ==
    <>[](\A t \in Due :
            Gradeable(t) /\ Cardinality({u \in Due : u < t /\ ~Gradeable(u)}) < Batch =>
                Measured(t) /\ outcomes[t].tx # NoTx)
=============================================================================

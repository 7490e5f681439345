---------------------------- MODULE OutcomeProofs ----------------------------
(***************************************************************************)
(* Proofs about Outcome, for any number of commands, signals and faults    *)
(* and any horizon and batch sizes: what is on chain is the stored card, a *)
(* card has its full window, and duplicates on chain are bounded.          *)
(***************************************************************************)
EXTENDS Outcome, FiniteSetTheorems, TLAPS

Attesting(g) == grader[g].pc \in {"attest", "persist"}
Grading(g) == grader[g].pc \in {"grade", "insert"}

\* The signal a grader works on.
At(g) == Min(grader[g].todo)

\* A pass that works has work: matured signals, then rows with the cards they have
\* for good; and a tx of its own broadcast to record.
PassInv ==
    \A g \in Graders :
        /\ Attesting(g) \/ Grading(g) => grader[g].todo # {}
        /\ Grading(g) => \A t \in grader[g].todo : Matured(t)
        /\ Attesting(g) => \A t \in grader[g].todo :
              Measured(t) /\ grader[g].rows[t] = outcomes[t].card
        /\ grader[g].pc = "persist" => grader[g].tx # NoTx

\* Only a card that is stored for good is committed.
CommitInv ==
    \A t \in Times :
        /\ reports[t] \subseteq {outcomes[t].card}
        /\ reports[t] # {} => Measured(t)

\* A card, before it is stored and after, has its window or is late.
Full(t, card) == {b \in traded : t < b /\ b <= t + Horizon} \X {TRUE} \subseteq card

WindowInv ==
    /\ \A t \in Times : Measured(t) /\ t \notin late => t + Horizon <= now /\ Full(t, outcomes[t].card)
    /\ \A g \in Graders : grader[g].pc = "insert" =>
          At(g) \in late \/ Full(At(g), grader[g].card)

\* Graders that have no broadcast of the signal in hand: while no tx is recorded,
\* those that hold one to be recorded; then, those that will not send another.
Holding(g, t) == grader[g].pc = "persist" /\ t = At(g)
Past(g, t) == Attesting(g) /\ t \in grader[g].todo => Holding(g, t)
Spent(t) == {g \in Graders : IF outcomes[t].tx = NoTx THEN Holding(g, t) ELSE Past(g, t)}

\* A signal that no two passes had at once: the one that has it found no tx recorded,
\* and until it broadcasts there was no broadcast but for a fault.
Once(t) ==
    /\ \A g, h \in Graders : Attests(g, t) /\ Attests(h, t) => g = h
    /\ \A g \in Graders : Attests(g, t) => outcomes[t].tx = NoTx
    /\ sent[t] <= faults + 1
    /\ outcomes[t].tx = NoTx /\ (\A g \in Graders : ~Holding(g, t)) => sent[t] <= faults

OnceInv == \A t \in Times \ overlapped : Once(t)

\* A broadcast belongs to a fault or to one grader that has spent its own.
SpentInv == \A t \in Times : sent[t] <= Cardinality(Spent(t)) + faults

IndInv == TypeOK /\ PassInv /\ CommitInv /\ WindowInv /\ OnceInv /\ SpentInv

-----------------------------------------------------------------------------
\* A finite set of buckets that is not empty has a least element: of the sets of
\* buckets below one of its buckets one is minimal.
LEMMA MinIn ==
    ASSUME NEW S \in SUBSET Int, IsFiniteSet(S), S # {}
    PROVE  Min(S) \in S /\ \A y \in S : Min(S) <= y
  <1> DEFINE Below(x) == {y \in S : y < x}
             Family == {Below(x) : x \in S}
  <1>1. IsWellFoundedOn(StrictSubsetOrdering(S), SUBSET S)
    BY FS_StrictSubsetOrderingWellFounded, FS_FiniteSubsetsOfFinite
  <1>2. Family \subseteq SUBSET S /\ Family # {}
    OBVIOUS
  <1>3. PICK F \in Family : \A G \in Family : <<G, F>> \notin StrictSubsetOrdering(S)
    <2> HIDE DEF Family
    <2> QED
      BY <1>1, <1>2, WFMin
  <1>4. PICK x \in S : F = Below(x)
    BY <1>3
  <1>5. \A y \in S : x <= y
    <2> SUFFICES ASSUME NEW y \in S, y < x PROVE FALSE
      OBVIOUS
    <2>1. y \in Below(x) /\ y \notin Below(y)
      OBVIOUS
    <2>3. Below(y) \subseteq Below(x)
      <3> SUFFICES ASSUME NEW z \in S, z < y PROVE z < x
        OBVIOUS
      <3> QED
        OBVIOUS
    <2>2. <<Below(y), Below(x)>> \in StrictSubsetOrdering(S)
      BY <2>1, <2>3 DEF StrictSubsetOrdering
    <2> QED
      BY <1>3, <1>4, <2>2
  <1> QED
    BY <1>5 DEF Min

\* And a greatest one.
LEMMA MaxIn ==
    ASSUME NEW S \in SUBSET Int, IsFiniteSet(S), S # {}
    PROVE  Max(S) \in S
  <1> DEFINE Above(x) == {y \in S : y > x}
             Family == {Above(x) : x \in S}
  <1>1. IsWellFoundedOn(StrictSubsetOrdering(S), SUBSET S)
    BY FS_StrictSubsetOrderingWellFounded, FS_FiniteSubsetsOfFinite
  <1>2. Family \subseteq SUBSET S /\ Family # {}
    OBVIOUS
  <1>3. PICK F \in Family : \A G \in Family : <<G, F>> \notin StrictSubsetOrdering(S)
    <2> HIDE DEF Family
    <2> QED
      BY <1>1, <1>2, WFMin
  <1>4. PICK x \in S : F = Above(x)
    BY <1>3
  <1>5. \A y \in S : x >= y
    <2> SUFFICES ASSUME NEW y \in S, y > x PROVE FALSE
      OBVIOUS
    <2>1. y \in Above(x) /\ y \notin Above(y)
      OBVIOUS
    <2>3. Above(y) \subseteq Above(x)
      <3> SUFFICES ASSUME NEW z \in S, z > y PROVE z > x
        OBVIOUS
      <3> QED
        OBVIOUS
    <2>2. <<Above(y), Above(x)>> \in StrictSubsetOrdering(S)
      BY <2>1, <2>3 DEF StrictSubsetOrdering
    <2> QED
      BY <1>3, <1>4, <2>2
  <1> QED
    BY <1>5 DEF Max

\* Every set of buckets is finite, and has a first and a last one.
LEMMA InTimes ==
    ASSUME NEW S \in SUBSET Times
    PROVE  /\ Times \subseteq Int /\ IsFiniteSet(S) /\ Cardinality(S) \in Nat
           /\ S # {} => Min(S) \in S /\ Max(S) \in S
  <1>1. IsFiniteSet(Times) /\ Times \subseteq Int
    <2>1. IsFiniteSet(0..MaxTime)
      BY FS_Interval, OutcomeAssumption
    <2> QED
      BY <2>1 DEF Times
  <1>2. IsFiniteSet(S) /\ S \in SUBSET Int
    BY <1>1, FS_Subset
  <1>3. Cardinality(S) \in Nat
    BY <1>2, FS_CardinalityType
  <1>4. S # {} => Min(S) \in S /\ Max(S) \in S
    BY <1>2, MinIn, MaxIn
  <1> QED
    BY <1>1, <1>2, <1>3, <1>4

-----------------------------------------------------------------------------
\* What a pass of a grader is made of.
Passes == [pc : GraderPc, todo : SUBSET Times, card : Cards, rows : [Times -> Cards], tx : Nat]

\* A step of one grader leaves the others alone.
Alone(g) ==
    /\ grader' \in [Graders -> Passes]
    /\ \A h \in Graders : h # g => grader'[h] = grader[h]

\* A grader that works is at a signal of its list.
LEMMA AtWork ==
    ASSUME TypeOK, PassInv, NEW g \in Graders, Attesting(g) \/ Grading(g)
    PROVE  At(g) \in grader[g].todo /\ At(g) \in Times
  <1>1. grader[g].todo \in SUBSET Times /\ grader[g].todo # {}
    BY DEF TypeOK, PassInv
  <1> QED
    BY <1>1, InTimes DEF At

LEMMA RestIs ==
    /\ Rest \in Passes /\ Rest.pc = "idle" /\ Rest.todo = {} /\ NoRows \in [Times -> Cards]
    /\ Rest = [pc |-> "idle", todo |-> {}, card |-> NoCard, rows |-> NoRows, tx |-> NoTx]
  BY DEF Rest, Passes, GraderPc, NoRows, NoCard, Cards, NoTx

\* A pass is replaced.
LEMMA Replaced ==
    ASSUME TypeOK, NEW g \in Graders, NEW pass \in Passes, grader' = [grader EXCEPT ![g] = pass]
    PROVE  Alone(g) /\ grader'[g] = pass
  <1>1. grader \in [Graders -> Passes]
    BY DEF TypeOK, Passes
  <1> QED
    BY <1>1 DEF Alone

\* What a grader does with the rest of its list.
LEMMA GoOnIs ==
    ASSUME TypeOK, NEW g \in Graders, NEW rest \in SUBSET Times, NEW then \in {"list", "idle"},
           GoOn(g, rest, then)
    PROVE  /\ Alone(g)
           /\ grader'[g].todo = rest
           /\ rest = {} => grader'[g].pc = then
           /\ rest # {} => /\ grader'[g].pc = (IF then = "list" THEN "grade" ELSE "attest")
                           /\ grader'[g].rows = grader[g].rows
  <1>1. grader[g].rows \in [Times -> Cards]
    BY DEF TypeOK
  <1> DEFINE idle == [Rest EXCEPT !.pc = then]
             next == [Rest EXCEPT !.pc = IF then = "list" THEN "grade" ELSE "attest",
                                  !.todo = rest, !.rows = grader[g].rows]
  <1>2. idle \in Passes /\ idle.pc = then /\ idle.todo = {}
    BY RestIs DEF Passes, GraderPc
  <1>3. /\ next \in Passes /\ next.pc = (IF then = "list" THEN "grade" ELSE "attest")
        /\ next.todo = rest /\ next.rows = grader[g].rows
    BY <1>1, RestIs DEF Passes, GraderPc
  <1>4. grader' = [grader EXCEPT ![g] = IF rest = {} THEN idle ELSE next]
    BY DEF GoOn
  <1> HIDE DEF idle, next
  <1>5. CASE rest = {}
    <2>1. grader' = [grader EXCEPT ![g] = idle]
      BY <1>4, <1>5
    <2> QED
      BY <1>2, <1>5, <2>1, Replaced
  <1>6. CASE rest # {}
    <2>1. grader' = [grader EXCEPT ![g] = next]
      BY <1>4, <1>6
    <2> QED
      BY <1>3, <1>6, <2>1, Replaced
  <1> QED
    BY <1>5, <1>6

-----------------------------------------------------------------------------
\* What the steps of a pass do.

\* A grader that went on with the rest of a list of signals.
GoesOn(g, rest) ==
    /\ Alone(g)
    /\ grader'[g].todo = rest
    /\ grader'[g].pc = IF rest = {} THEN "list" ELSE "grade"

LEMMA OldestIs == \A S, limit : Oldest(S, limit) \subseteq S
  BY DEF Oldest

LEMMA MeasureIs ==
    ASSUME TypeOK, NEW g \in Graders, MeasurePass(g) \/ MeasureFails(g)
    PROVE  /\ Alone(g) /\ grader[g].pc = "idle"
           /\ \/ grader'[g].pc = "grade" /\ grader'[g].todo # {} /\ \A t \in grader'[g].todo : Matured(t)
              \/ grader'[g].pc \in {"list", "idle"}
           /\ UNCHANGED <<now, traded, counted, signals, outcomes, reports, sent, late, overlapped>>
           /\ UNCHANGED faults \/ Fault
  <1>1. CASE MeasurePass(g)
    <2>1. SignalsAwaitingOutcome \in SUBSET Times /\ \A t \in SignalsAwaitingOutcome : Matured(t)
      BY OldestIs DEF SignalsAwaitingOutcome, TypeOK
    <2>2. GoOn(g, SignalsAwaitingOutcome, "list")
      BY <1>1 DEF MeasurePass
    <2>3. /\ Alone(g) /\ grader'[g].todo = SignalsAwaitingOutcome
          /\ SignalsAwaitingOutcome = {} => grader'[g].pc = "list"
          /\ SignalsAwaitingOutcome # {} => grader'[g].pc = "grade"
      BY <2>1, <2>2, GoOnIs
    <2> QED
      BY <1>1, <2>1, <2>3 DEF MeasurePass, world
  <1>2. CASE MeasureFails(g)
    <2> DEFINE then == IF g = Loop THEN "list" ELSE "idle"
    <2>1. GoOn(g, {}, then) /\ then \in {"list", "idle"} /\ {} \in SUBSET Times
      BY <1>2 DEF MeasureFails
    <2> HIDE DEF then
    <2>2. Alone(g) /\ grader'[g].pc = then
      BY <2>1, GoOnIs
    <2> QED
      BY <1>2, <2>1, <2>2 DEF MeasureFails, world
  <1> QED
    BY <1>1, <1>2

LEMMA GradeIs ==
    ASSUME TypeOK, PassInv, NEW g \in Graders, Grade(g)
    PROVE  /\ Alone(g) /\ grader[g].pc = "grade"
           /\ \/ /\ grader'[g].pc = "insert" /\ grader'[g].todo = grader[g].todo
                 /\ grader'[g].card = Read(Pre(At(g)) \cup Post(At(g)))
                 /\ late' = (IF now - counted >= Settle THEN late \cup {At(g)} ELSE late)
              \/ GoesOn(g, grader[g].todo \ {At(g)}) /\ late' = late
           /\ UNCHANGED <<now, traded, counted, signals, outcomes, reports, sent, overlapped, faults>>
  <1> DEFINE t == At(g)
             card == Read(Pre(t) \cup Post(t))
             pass == [grader[g] EXCEPT !.pc = "insert", !.card = card]
  <1>1. grader[g] \in Passes /\ grader[g].pc = "grade"
    BY DEF TypeOK, Passes, Grade
  <1>2. t \in Times /\ grader[g].todo \ {t} \in SUBSET Times
    BY <1>1, AtWork DEF Grading, Passes
  <1>3. card \in Cards
    <2>1. Pre(t) \cup Post(t) \subseteq Times
      BY DEF Pre, Post, Present, TypeOK
    <2>2. \A b \in Times : (b < counted) \in BOOLEAN
      OBVIOUS
    <2>3. \A b \in Times : <<b, b < counted>> \in Times \X BOOLEAN
      BY <2>2
    <2> QED
      BY <2>1, <2>3 DEF Cards, Read
  <1>4. /\ pass \in Passes /\ pass.pc = "insert" /\ pass.todo = grader[g].todo
        /\ pass.card = card
    BY <1>1, <1>3 DEF Passes, GraderPc
  <1>5. \/ /\ grader' = [grader EXCEPT ![g] = pass]
           /\ late' = (IF now - counted >= Settle THEN late \cup {t} ELSE late)
        \/ GoOn(g, grader[g].todo \ {t}, "list") /\ late' = late
    BY <1>1 DEF Grade, At, TypeOK
  <1>6. UNCHANGED <<now, traded, counted, signals, outcomes, reports, sent, overlapped, faults>>
    BY DEF Grade, world
  <1> HIDE DEF pass, card, t
  <1>7. CASE grader' = [grader EXCEPT ![g] = pass]
                /\ late' = (IF now - counted >= Settle THEN late \cup {t} ELSE late)
    <2>1. Alone(g) /\ grader'[g] = pass
      BY <1>4, <1>7, Replaced
    <2> QED
      BY <1>1, <1>4, <1>6, <1>7, <2>1 DEF t, card
  <1>8. CASE GoOn(g, grader[g].todo \ {t}, "list") /\ late' = late
    <2>1. GoesOn(g, grader[g].todo \ {t})
      BY <1>2, <1>8, GoOnIs DEF GoesOn
    <2> QED
      BY <1>1, <1>6, <1>8, <2>1 DEF t, GoesOn
  <1> QED
    BY <1>5, <1>7, <1>8

LEMMA InsertIs ==
    ASSUME TypeOK, PassInv, NEW g \in Graders, InsertOutcome(g)
    PROVE  /\ grader[g].pc = "insert" /\ GoesOn(g, grader[g].todo \ {At(g)})
           /\ \/ outcomes' = outcomes
              \/ ~Measured(At(g)) /\ outcomes' = [outcomes EXCEPT ![At(g)].card = grader[g].card]
           /\ UNCHANGED <<now, traded, counted, signals, reports, sent, late, overlapped>>
           /\ UNCHANGED faults \/ Fault
  <1> DEFINE t == At(g)
  <1>1. grader[g].todo \ {t} \in SUBSET Times
    BY DEF TypeOK
  <1>2. GoOn(g, grader[g].todo \ {t}, "list") /\ grader[g].pc = "insert"
    BY DEF InsertOutcome, At
  <1>3. GoesOn(g, grader[g].todo \ {t})
    BY <1>1, <1>2, GoOnIs DEF GoesOn
  <1> QED
    BY <1>2, <1>3 DEF InsertOutcome, At, Store, world

LEMMA ListIs ==
    ASSUME TypeOK, NEW g \in Graders, AttestPass(g)
    PROVE  /\ Alone(g) /\ grader[g].pc = "list"
           /\ \/ grader'[g].pc = "idle"
              \/ /\ grader'[g].pc = "attest" /\ grader'[g].todo # {}
                 /\ \A t \in grader'[g].todo :
                       /\ Measured(t) /\ outcomes[t].tx = NoTx
                       /\ grader'[g].rows[t] = outcomes[t].card
                       /\ t \in overlapped' \/ \A h \in Graders : h # g => ~Attests(h, t)
           /\ overlapped' \in SUBSET Times /\ overlapped \subseteq overlapped'
           /\ UNCHANGED <<now, traded, counted, signals, outcomes, reports, sent, late, faults>>
  <1> DEFINE todo == OutcomesAwaitingAttest
             cards == [t \in Times |-> outcomes[t].card]
             pass == [Rest EXCEPT !.pc = "attest", !.todo = todo, !.rows = cards]
  <1>1. todo \in SUBSET Times /\ \A t \in todo : Measured(t) /\ outcomes[t].tx = NoTx
    BY OldestIs DEF OutcomesAwaitingAttest, TypeOK
  <1>2. cards \in [Times -> Cards] /\ \A t \in Times : cards[t] = outcomes[t].card
    BY DEF TypeOK
  <1>3. /\ grader[g].pc = "list"
        /\ UNCHANGED <<now, traded, counted, signals, outcomes, reports, sent, late, faults>>
        /\ grader' = [grader EXCEPT ![g] = IF todo = {} THEN Rest ELSE pass]
    BY DEF AttestPass, world
  <1>7. /\ overlapped' \in SUBSET Times /\ overlapped \subseteq overlapped'
        /\ \A t \in todo : t \in overlapped' \/ \A h \in Graders : h # g => ~Attests(h, t)
    BY <1>1 DEF AttestPass, TypeOK
  <1> HIDE DEF todo, cards
  <1>4. pass \in Passes /\ pass.pc = "attest" /\ pass.todo = todo /\ pass.rows = cards
    BY <1>1, <1>2, RestIs DEF Passes, GraderPc
  <1> HIDE DEF pass
  <1>5. CASE todo = {}
    <2>1. grader' = [grader EXCEPT ![g] = Rest]
      BY <1>3, <1>5
    <2>2. Alone(g) /\ grader'[g] = Rest
      BY <2>1, RestIs, Replaced
    <2> QED
      BY <1>3, <1>7, <2>2, RestIs
  <1>6. CASE todo # {}
    <2>1. grader' = [grader EXCEPT ![g] = pass]
      BY <1>3, <1>6
    <2>2. Alone(g) /\ grader'[g] = pass
      BY <1>4, <2>1, Replaced
    <2> QED
      BY <1>1, <1>2, <1>3, <1>4, <1>6, <1>7, <2>2
  <1> QED
    BY <1>5, <1>6

\* A grader that went on with the rest of its rows.
SendsOn(g) ==
    /\ Alone(g)
    /\ grader'[g].todo = grader[g].todo \ {At(g)}
    /\ grader'[g].todo = {} => grader'[g].pc = "idle"
    /\ grader'[g].todo # {} => grader'[g].pc = "attest" /\ grader'[g].rows = grader[g].rows

LEMMA SendsOnIs ==
    ASSUME TypeOK, NEW g \in Graders, GoOn(g, grader[g].todo \ {At(g)}, "idle")
    PROVE  SendsOn(g)
  <1> DEFINE rest == grader[g].todo \ {At(g)}
  <1>1. rest \in SUBSET Times /\ GoOn(g, rest, "idle")
    BY DEF TypeOK
  <1> HIDE DEF rest
  <1>2. /\ Alone(g) /\ grader'[g].todo = rest
        /\ rest = {} => grader'[g].pc = "idle"
        /\ rest # {} => grader'[g].pc = "attest" /\ grader'[g].rows = grader[g].rows
    BY <1>1, GoOnIs
  <1> QED
    BY <1>2 DEF SendsOn, rest

LEMMA AttestIs ==
    ASSUME TypeOK, PassInv, NEW g \in Graders, AttestOutcome(g)
    PROVE  /\ Alone(g) /\ grader[g].pc = "attest"
           /\ grader'[g].pc = "persist" /\ grader'[g].todo = grader[g].todo
           /\ grader'[g].rows = grader[g].rows /\ grader'[g].tx # NoTx
           /\ Broadcast(g, At(g))
           /\ UNCHANGED <<now, traded, counted, signals, outcomes, late, overlapped, faults>>
  <1> DEFINE tx == sent[At(g)] + 1
             pass == [grader[g] EXCEPT !.pc = "persist", !.tx = tx]
  <1>1. grader[g] \in Passes /\ grader[g].pc = "attest"
    BY DEF TypeOK, Passes, AttestOutcome
  <1>2. tx \in Nat /\ tx # NoTx
    BY <1>1, AtWork DEF Attesting, TypeOK, NoTx
  <1>3. /\ grader' = [grader EXCEPT ![g] = pass]
        /\ Broadcast(g, At(g)) /\ UNCHANGED <<now, traded, counted, signals, outcomes, late, overlapped, faults>>
    BY DEF AttestOutcome, At, world
  <1> HIDE DEF tx
  <1>4. /\ pass \in Passes /\ pass.pc = "persist" /\ pass.todo = grader[g].todo
        /\ pass.rows = grader[g].rows /\ pass.tx = tx
    BY <1>1, <1>2 DEF Passes, GraderPc
  <1> HIDE DEF pass
  <1>5. Alone(g) /\ grader'[g] = pass
    BY <1>3, <1>4, Replaced
  <1> QED
    BY <1>1, <1>2, <1>3, <1>4, <1>5

LEMMA AttestFailsIs ==
    ASSUME TypeOK, NEW g \in Graders, AttestOutcomeFails(g)
    PROVE  /\ grader[g].pc = "attest" /\ SendsOn(g)
           /\ Broadcast(g, At(g)) \/ UNCHANGED <<reports, sent>>
           /\ UNCHANGED <<now, traded, counted, signals, outcomes, late, overlapped>>
           /\ Fault
  <1>1. GoOn(g, grader[g].todo \ {At(g)}, "idle")
    BY DEF AttestOutcomeFails, At
  <1>2. SendsOn(g)
    BY <1>1, SendsOnIs
  <1> QED
    BY <1>2 DEF AttestOutcomeFails, At, world

LEMMA PersistIs ==
    ASSUME TypeOK, NEW g \in Graders, PersistOutcomeAttestTx(g)
    PROVE  /\ grader[g].pc = "persist" /\ SendsOn(g)
           /\ \/ outcomes' = [outcomes EXCEPT ![At(g)].tx = grader[g].tx] /\ UNCHANGED faults
              \/ outcomes' = outcomes /\ Fault
           /\ UNCHANGED <<now, traded, counted, signals, reports, sent, late, overlapped>>
  <1>1. GoOn(g, grader[g].todo \ {At(g)}, "idle")
    BY DEF PersistOutcomeAttestTx, At
  <1>2. SendsOn(g)
    BY <1>1, SendsOnIs
  <1> QED
    BY <1>2 DEF PersistOutcomeAttestTx, At, world

LEMMA DiesIs ==
    ASSUME TypeOK, NEW g \in Graders, Dies(g)
    PROVE  /\ Alone(g) /\ grader'[g].pc = "idle"
           /\ UNCHANGED <<now, traded, counted, signals, outcomes, reports, sent, late, overlapped>>
           /\ Fault
  <1>1. grader' = [grader EXCEPT ![g] = Rest]
    BY DEF Dies
  <1>2. Alone(g) /\ grader'[g] = Rest
    BY <1>1, RestIs, Replaced
  <1> QED
    BY <1>2, RestIs DEF Dies, world

-----------------------------------------------------------------------------
\* Every step keeps the types.
LEMMA TypeStep ==
    ASSUME TypeOK, PassInv, [Next]_vars
    PROVE  TypeOK'
  <1>0. /\ now \in Times /\ traded \in SUBSET Times /\ counted \in Times /\ counted <= now
        /\ signals \in SUBSET Times /\ outcomes \in [Times -> [card : Cards, tx : Nat]]
        /\ reports \in [Times -> SUBSET Cards] /\ sent \in [Times -> Nat]
        /\ grader \in [Graders -> Passes] /\ late \in SUBSET Times /\ faults \in 0..MaxFaults
        /\ overlapped \in SUBSET Times
    BY DEF TypeOK, Passes
  <1>f. Fault => faults' \in 0..MaxFaults
    BY <1>0, OutcomeAssumption DEF Fault
  <1>1. CASE Tick
    BY <1>0, <1>1, OutcomeAssumption DEF Tick, TypeOK, Times
  <1>2. CASE Aggregate
    <2>0. counted \in Nat /\ now \in Nat /\ MaxTime \in Nat /\ now <= MaxTime
      BY <1>0, OutcomeAssumption DEF Times
    <2>1. counted' \in Times /\ counted' <= now
      <3>1. counted' \in Int /\ counted + 1 <= counted' /\ counted' <= now
        BY <1>2, <2>0 DEF Aggregate
      <3> QED
        BY <2>0, <3>1 DEF Times
    <2> QED
      BY <1>0, <1>2, <2>1 DEF Aggregate, TypeOK
  <1>3. CASE Detect
    <2>1. Present \in SUBSET Times /\ Present # {}
      BY <1>0, <1>3 DEF Present, Detect
    <2>2. Max(Present) \in Times
      BY <2>1, InTimes
    <2> QED
      BY <1>0, <1>3, <2>2 DEF Detect, TypeOK
  <1>4. ASSUME NEW g \in Graders, Attesting(g) \/ Grading(g)
        PROVE  At(g) \in Times /\ grader[g] \in Passes
    BY <1>0, <1>4, AtWork
  <1>5. ASSUME NEW g \in Graders, Attesting(g), Broadcast(g, At(g))
        PROVE  reports' \in [Times -> SUBSET Cards] /\ sent' \in [Times -> Nat]
    <2>1. At(g) \in Times /\ grader[g].rows[At(g)] \in Cards
      BY <1>4, <1>5 DEF Passes
    <2>2. reports[At(g)] \cup {grader[g].rows[At(g)]} \in SUBSET Cards /\ sent[At(g)] + 1 \in Nat
      BY <1>0, <2>1
    <2> QED
      BY <1>0, <1>5, <2>1, <2>2 DEF Broadcast
  <1>6. ASSUME NEW g \in Graders, MeasurePass(g) \/ MeasureFails(g) PROVE TypeOK'
    BY <1>0, <1>f, <1>6, MeasureIs DEF Alone, TypeOK, Passes
  <1>7. ASSUME NEW g \in Graders, Grade(g) PROVE TypeOK'
    <2>1. grader[g].pc = "grade" /\ late' \in {late, late \cup {At(g)}}
      BY <1>7, GradeIs
    <2>2. late' \in SUBSET Times
      BY <1>0, <1>4, <2>1 DEF Grading
    <2> QED
      BY <1>0, <1>7, <2>2, GradeIs DEF Alone, GoesOn, TypeOK, Passes
  <1>8. ASSUME NEW g \in Graders, InsertOutcome(g) PROVE TypeOK'
    <2>1. At(g) \in Times /\ grader[g].card \in Cards
      BY <1>4, <1>8, InsertIs DEF Grading, Passes
    <2>2. outcomes' \in [Times -> [card : Cards, tx : Nat]]
      <3>1. \/ outcomes' = outcomes
            \/ outcomes' = [outcomes EXCEPT ![At(g)].card = grader[g].card]
        BY <1>8, InsertIs
      <3> QED
        BY <1>0, <2>1, <3>1
    <2> QED
      BY <1>0, <1>f, <1>8, <2>2, InsertIs DEF Alone, GoesOn, TypeOK, Passes
  <1>9. ASSUME NEW g \in Graders, AttestPass(g) PROVE TypeOK'
    BY <1>0, <1>9, ListIs DEF Alone, TypeOK, Passes
  <1>10. ASSUME NEW g \in Graders, AttestOutcome(g) PROVE TypeOK'
    BY <1>0, <1>5, <1>10, AttestIs DEF Attesting, Alone, TypeOK, Passes
  <1>11. ASSUME NEW g \in Graders, AttestOutcomeFails(g) PROVE TypeOK'
    <2>1. reports' \in [Times -> SUBSET Cards] /\ sent' \in [Times -> Nat]
      BY <1>0, <1>5, <1>11, AttestFailsIs DEF Attesting
    <2> QED
      BY <1>0, <1>f, <1>11, <2>1, AttestFailsIs DEF SendsOn, Alone, TypeOK, Passes
  <1>12. ASSUME NEW g \in Graders, PersistOutcomeAttestTx(g) PROVE TypeOK'
    <2>1. At(g) \in Times /\ grader[g].tx \in Nat
      BY <1>4, <1>12, PersistIs DEF Attesting, Passes
    <2>2. outcomes' \in [Times -> [card : Cards, tx : Nat]]
      <3>1. outcomes' = outcomes \/ outcomes' = [outcomes EXCEPT ![At(g)].tx = grader[g].tx]
        BY <1>12, PersistIs
      <3> QED
        BY <1>0, <2>1, <3>1
    <2> QED
      BY <1>0, <1>f, <1>12, <2>2, PersistIs DEF SendsOn, Alone, TypeOK, Passes
  <1>13. ASSUME NEW g \in Graders, Dies(g) PROVE TypeOK'
    BY <1>0, <1>f, <1>13, DiesIs DEF Alone, TypeOK, Passes
  <1>14. CASE UNCHANGED vars
    BY <1>14 DEF vars, world, TypeOK
  <1> QED
    BY <1>1, <1>2, <1>3, <1>6, <1>7, <1>8, <1>9, <1>10, <1>11, <1>12, <1>13, <1>14
       DEF Next, Pass

-----------------------------------------------------------------------------
\* Writing a card leaves every tx as it was; writing a tx, every card and the tx of
\* every other signal.
LEMMA ColumnWrites ==
    ASSUME NEW f \in [Times -> [card : Cards, tx : Nat]], NEW k, NEW x, NEW t \in Times
    PROVE  /\ [f EXCEPT ![k].card = x][t].tx = f[t].tx
           /\ t # k => [f EXCEPT ![k].tx = x][t].tx = f[t].tx
           /\ t = k => [f EXCEPT ![k].tx = x][t].tx = x
           /\ t # k => [f EXCEPT ![k].card = x][t].card = f[t].card
           /\ [f EXCEPT ![k].tx = x][t].card = f[t].card
  <1>1. CASE t = k
    <2>1. /\ [f EXCEPT ![k].card = x][t] = [f[t] EXCEPT !.card = x]
          /\ [f EXCEPT ![k].tx = x][t] = [f[t] EXCEPT !.tx = x]
      BY <1>1
    <2>2. f[t] \in [card : Cards, tx : Nat]
      OBVIOUS
    <2>3. /\ [f[t] EXCEPT !.card = x].tx = f[t].tx /\ [f[t] EXCEPT !.tx = x].tx = x
          /\ [f[t] EXCEPT !.tx = x].card = f[t].card
      BY <2>2
    <2> QED
      BY <1>1, <2>1, <2>3
  <1>2. CASE t # k
    BY <1>2
  <1> QED
    BY <1>1, <1>2

\* A card is stored once and for all, and time does not go back.
LEMMA Lasting ==
    ASSUME TypeOK, PassInv, [Next]_vars
    PROVE  /\ now' >= now /\ traded \subseteq traded' /\ traded' \ traded \subseteq {now'} \ {now}
           /\ \A t \in Times : Matured(t) => Matured(t)'
           /\ \A t \in Times : Measured(t) => Measured(t)' /\ outcomes'[t].card = outcomes[t].card
  <1> USE DEF Matured, Measured
  <1>1. now \in Int /\ Times \subseteq Int /\ Horizon \in Int /\ Settle \in Int
    BY InTimes, OutcomeAssumption DEF TypeOK, Times, Settle
  <1>2. CASE Tick
    BY <1>1, <1>2 DEF Tick, TypeOK
  <1>3. CASE Aggregate \/ Detect \/ UNCHANGED vars
    BY <1>1, <1>3 DEF Aggregate, Detect, vars, world
  <1>4. ASSUME NEW g \in Graders,
               MeasurePass(g) \/ MeasureFails(g) \/ Grade(g) \/ AttestPass(g)
               \/ AttestOutcome(g) \/ AttestOutcomeFails(g) \/ Dies(g)
        PROVE  UNCHANGED <<now, traded, outcomes>>
    BY <1>4 DEF MeasurePass, MeasureFails, Grade, AttestPass, AttestOutcome, AttestOutcomeFails,
      Dies, world
  <1>5. ASSUME NEW g \in Graders, InsertOutcome(g)
        PROVE  /\ UNCHANGED <<now, traded>>
               /\ \A t \in Times : Measured(t) => outcomes'[t].card = outcomes[t].card
    <2>1. CASE outcomes' = outcomes
      BY <1>5, <2>1, InsertIs
    <2>2. CASE ~Measured(At(g)) /\ outcomes' = [outcomes EXCEPT ![At(g)].card = grader[g].card]
      <3>1. \A t \in Times : t # At(g) => outcomes'[t].card = outcomes[t].card
        <4>1. outcomes \in [Times -> [card : Cards, tx : Nat]]
          BY DEF TypeOK
        <4> HIDE DEF At
        <4> QED
          BY <2>2, <4>1, ColumnWrites
      <3> QED
        BY <1>5, <2>2, <3>1, InsertIs
    <2> QED
      BY <1>5, <2>1, <2>2, InsertIs
  <1>6. ASSUME NEW g \in Graders, PersistOutcomeAttestTx(g)
        PROVE  UNCHANGED <<now, traded>> /\ \A t \in Times : outcomes'[t].card = outcomes[t].card
    <2>1. CASE outcomes' = outcomes
      BY <1>6, <2>1, PersistIs
    <2>2. CASE outcomes' = [outcomes EXCEPT ![At(g)].tx = grader[g].tx]
      <3>1. outcomes \in [Times -> [card : Cards, tx : Nat]]
        BY DEF TypeOK
      <3>2. \A t \in Times : outcomes'[t].card = outcomes[t].card
        BY <2>2, <3>1, ColumnWrites
      <3> QED
        BY <1>6, <3>2, PersistIs
    <2> QED
      BY <1>6, <2>1, <2>2, PersistIs
  <1>7. ASSUME NEW g \in Graders, Pass(g) \/ MeasureFails(g) \/ AttestOutcomeFails(g) \/ Dies(g)
        PROVE  /\ UNCHANGED <<now, traded>>
               /\ \A t \in Times : Measured(t) => outcomes'[t].card = outcomes[t].card
    BY <1>4, <1>5, <1>6, <1>7 DEF Pass
  <1>8. CASE \E g \in Graders : Pass(g) \/ MeasureFails(g) \/ AttestOutcomeFails(g) \/ Dies(g)
    BY <1>1, <1>7, <1>8
  <1> QED
    BY <1>2, <1>3, <1>8 DEF Next

\* Every step keeps what is known of the graders' passes.
LEMMA PassStep ==
    ASSUME TypeOK, PassInv, [Next]_vars
    PROVE  PassInv'
  <1> DEFINE Working(g) ==
        /\ Attesting(g) \/ Grading(g) => grader[g].todo # {}
        /\ Grading(g) => \A t \in grader[g].todo : Matured(t)
        /\ Attesting(g) => \A t \in grader[g].todo :
              Measured(t) /\ grader[g].rows[t] = outcomes[t].card
        /\ grader[g].pc = "persist" => grader[g].tx # NoTx
  <1>1. /\ \A t \in Times : Matured(t) => Matured(t)'
        /\ \A t \in Times : Measured(t) => Measured(t)' /\ outcomes'[t].card = outcomes[t].card
        /\ \A g \in Graders : grader[g].todo \in SUBSET Times /\ Working(g)
    BY Lasting DEF TypeOK, PassInv
  <1>2. ASSUME NEW h \in Graders, grader'[h] = grader[h] PROVE Working(h)'
    BY <1>1, <1>2 DEF Attesting, Grading
  <1>3. CASE Tick \/ Aggregate \/ Detect \/ UNCHANGED vars
    BY <1>2, <1>3 DEF Tick, Aggregate, Detect, vars, PassInv
  <1>4. ASSUME NEW g \in Graders, Pass(g) \/ MeasureFails(g) \/ AttestOutcomeFails(g) \/ Dies(g)
        PROVE  Alone(g) /\ Working(g)'
    <2> USE DEF Attesting, Grading
    <2>0. TypeOK'
      BY TypeStep
    <2>9. grader'[g].todo \in SUBSET Times
      BY <2>0 DEF TypeOK
    <2>1. CASE MeasurePass(g) \/ MeasureFails(g)
      BY <1>1, <2>1, <2>9, MeasureIs
    <2>2. CASE Grade(g)
      BY <1>1, <2>2, <2>9, GradeIs DEF GoesOn
    <2>3. CASE InsertOutcome(g)
      BY <1>1, <2>3, <2>9, InsertIs DEF GoesOn
    <2>4. CASE AttestPass(g)
      BY <1>1, <2>4, <2>9, ListIs
    <2>5. CASE AttestOutcome(g)
      BY <1>1, <2>5, <2>9, AttestIs
    <2>6. CASE AttestOutcomeFails(g)
      BY <1>1, <2>6, <2>9, AttestFailsIs DEF SendsOn
    <2>7. CASE PersistOutcomeAttestTx(g)
      BY <1>1, <2>7, <2>9, PersistIs DEF SendsOn
    <2>8. CASE Dies(g)
      BY <2>8, DiesIs
    <2> QED
      BY <1>4, <2>1, <2>2, <2>3, <2>4, <2>5, <2>6, <2>7, <2>8 DEF Pass
  <1>5. CASE \E g \in Graders : Pass(g) \/ MeasureFails(g) \/ AttestOutcomeFails(g) \/ Dies(g)
    <2>1. \A h \in Graders : Working(h)'
      BY <1>2, <1>4, <1>5 DEF Alone
    <2> QED
      BY <2>1 DEF PassInv, Attesting, Grading
  <1> QED
    BY <1>3, <1>5 DEF Next

\* Every step keeps what is on chain in line with the table.
LEMMA CommitStep ==
    ASSUME TypeOK, PassInv, CommitInv, [Next]_vars
    PROVE  CommitInv'
  <1>1. \A t \in Times : Measured(t) => Measured(t)' /\ outcomes'[t].card = outcomes[t].card
    BY Lasting
  <1>2. ASSUME reports' = reports PROVE CommitInv'
    BY <1>1, <1>2 DEF CommitInv
  <1>3. ASSUME NEW g \in Graders, grader[g].pc = "attest", Broadcast(g, At(g)) PROVE CommitInv'
    <2>1. At(g) \in Times /\ Measured(At(g)) /\ grader[g].rows[At(g)] = outcomes[At(g)].card
      BY <1>3, AtWork DEF Attesting, PassInv
    <2>2. /\ reports'[At(g)] = reports[At(g)] \cup {outcomes[At(g)].card}
          /\ \A t \in Times : t # At(g) => reports'[t] = reports[t]
      BY <1>3, <2>1 DEF Broadcast, TypeOK
    <2> QED
      BY <1>1, <2>1, <2>2 DEF CommitInv
  <1>4. CASE Tick \/ Aggregate \/ Detect \/ UNCHANGED vars
    BY <1>2, <1>4 DEF Tick, Aggregate, Detect, vars
  <1>5. ASSUME NEW g \in Graders, Pass(g) \/ MeasureFails(g) \/ AttestOutcomeFails(g) \/ Dies(g)
        PROVE  CommitInv'
    <2>1. CASE AttestOutcome(g)
      BY <1>3, <2>1, AttestIs
    <2>2. CASE AttestOutcomeFails(g)
      BY <1>2, <1>3, <2>2, AttestFailsIs
    <2>3. CASE MeasurePass(g) \/ MeasureFails(g) \/ Grade(g) \/ InsertOutcome(g) \/ AttestPass(g)
               \/ PersistOutcomeAttestTx(g) \/ Dies(g)
      BY <1>2, <2>3 DEF MeasurePass, MeasureFails, Grade, InsertOutcome, AttestPass,
        PersistOutcomeAttestTx, Dies
    <2> QED
      BY <1>5, <2>1, <2>2, <2>3 DEF Pass
  <1> QED
    BY <1>4, <1>5 DEF Next

-----------------------------------------------------------------------------
\* A window that has passed does not change.
LEMMA FullLasts ==
    ASSUME TypeOK, PassInv, [Next]_vars, NEW t \in Times, NEW card, t + Horizon <= now, Full(t, card)
    PROVE  Full(t, card)'
  <1>1. now' >= now /\ traded' \ traded \subseteq {now'} \ {now}
    BY Lasting
  <1>2. now \in Int /\ now' \in Int /\ t \in Int /\ Horizon \in Int
    <2>1. now \in Times /\ now' \in Times
      <3>1. TypeOK'
        BY TypeStep
      <3> QED
        BY <3>1 DEF TypeOK
    <2>2. Times \subseteq Int /\ Horizon \in Int
      BY InTimes, OutcomeAssumption DEF Times
    <2> QED
      BY <2>1, <2>2
  <1>3. ASSUME NEW b \in traded', b <= t + Horizon, b \notin traded PROVE FALSE
    <2>1. b = now' /\ now' # now
      BY <1>1, <1>3
    <2> QED
      BY <1>1, <1>2, <1>3, <2>1
  <1> DEFINE window == {b \in traded : t < b /\ b <= t + Horizon}
             after == {b \in traded' : t < b /\ b <= t + Horizon}
  <1>4. after \subseteq window
    BY <1>3
  <1>5. window \X {TRUE} \subseteq card
    BY DEF Full
  <1>6. Full(t, card)' <=> after \X {TRUE} \subseteq card
    BY DEF Full
  <1> HIDE DEF window, after
  <1>7. after \X {TRUE} \subseteq window \X {TRUE}
    BY <1>4
  <1> QED
    BY <1>5, <1>6, <1>7

LEMMA PairIs ==
    ASSUME NEW A, NEW B, NEW x \in A \X B
    PROVE  x[1] \in A /\ x[2] \in B /\ x = <<x[1], x[2]>>
  OBVIOUS

\* What grading finds, if the aggregator is not far behind.
LEMMA GradedFull ==
    ASSUME TypeOK, NEW t \in Times, Matured(t), now - counted < Settle
    PROVE  Full(t, Read(Pre(t) \cup Post(t)))
  <1>1. now \in Int /\ counted \in Int /\ Times \subseteq Int /\ t \in Int /\ Horizon \in Int
    BY InTimes, OutcomeAssumption DEF TypeOK, Times
  <1>2. ASSUME NEW b \in traded, t < b, b <= t + Horizon
        PROVE  <<b, TRUE>> \in Read(Pre(t) \cup Post(t))
    <2>1. b \in Int
      BY <1>1 DEF TypeOK
    <2>2. b < counted
      BY <1>1, <1>2, <2>1 DEF Matured, Settle
    <2>3. b \in Post(t) /\ (b < counted) = TRUE
      BY <1>1, <1>2, <2>1, <2>2 DEF Post, Present
    <2> QED
      BY <2>3 DEF Read
  <1> DEFINE window == {b \in traded : t < b /\ b <= t + Horizon}
  <1>3. ASSUME NEW x \in window \X {TRUE} PROVE x \in Read(Pre(t) \cup Post(t))
    <2>1. \A b \in window : <<b, TRUE>> \in Read(Pre(t) \cup Post(t))
      BY <1>2
    <2> DEFINE truth == {TRUE}
    <2>4. x \in window \X truth
      BY <1>3
    <2> HIDE DEF window, truth
    <2>2. x[1] \in window /\ x[2] \in truth /\ x = <<x[1], x[2]>>
      BY <2>4, PairIs
    <2>3. x = <<x[1], TRUE>>
      BY <2>2, Zenon DEF truth
    <2> QED
      BY <2>1, <2>2, <2>3
  <1> QED
    BY <1>3 DEF Full

\* Every step keeps the windows of the cards.
LEMMA WindowStep ==
    ASSUME TypeOK, PassInv, WindowInv, [Next]_vars
    PROVE  WindowInv'
  <1>1. /\ now' >= now /\ now \in Int /\ now' \in Int /\ Times \subseteq Int /\ Horizon \in Nat
        /\ \A t \in Times : Measured(t) => outcomes'[t].card = outcomes[t].card
    BY Lasting, TypeStep, InTimes, OutcomeAssumption DEF TypeOK, Times
  <1>2. \A t \in Times : \A card : t + Horizon <= now /\ Full(t, card) => Full(t, card)'
    BY FullLasts
  <1>3. ASSUME NEW g \in Graders, Grading(g)
        PROVE  At(g) \in Times /\ Matured(At(g)) /\ At(g) + Horizon <= now
    <2>1. At(g) \in Times /\ Matured(At(g))
      BY <1>3, AtWork DEF PassInv
    <2>2. At(g) \in Int /\ At(g) + Horizon + 2 <= now
      BY <1>1, <2>1 DEF Matured, Settle
    <2> QED
      BY <1>1, <2>1, <2>2
  <1>4. late \subseteq late'
    BY GradeIs DEF Next, Pass, Tick, Aggregate, Detect, MeasurePass, MeasureFails, Grade,
      InsertOutcome, AttestPass, AttestOutcome, AttestOutcomeFails, PersistOutcomeAttestTx, Dies, vars
  <1> DEFINE Kept(t) == Measured(t) /\ t \notin late => t + Horizon <= now /\ Full(t, outcomes[t].card)
             Sound(g) == grader[g].pc = "insert" => At(g) \in late \/ Full(At(g), grader[g].card)
  <1>5. ASSUME NEW t \in Times, outcomes'[t].card = outcomes[t].card PROVE Kept(t)'
    <2> SUFFICES ASSUME Measured(t)', t \notin late' PROVE t + Horizon <= now' /\ Full(t, outcomes[t].card)'
      OBVIOUS
    <2>1. t + Horizon <= now /\ Full(t, outcomes[t].card)
      BY <1>4, <1>5 DEF WindowInv, Measured
    <2>2. Full(t, outcomes[t].card)'
      <3> DEFINE card == outcomes[t].card
      <3>1. Full(t, card) /\ card' = card
        BY <1>5, <2>1
      <3> HIDE DEF card
      <3>2. {b \in traded' : t < b /\ b <= t + Horizon} \X {TRUE} \subseteq card
        BY <1>2, <2>1, <3>1 DEF Full
      <3> QED
        BY <3>1, <3>2 DEF Full, card
    <2> QED
      BY <1>1, <2>1, <2>2
  <1>6. ASSUME NEW h \in Graders, grader'[h] = grader[h] PROVE Sound(h)'
    <2> SUFFICES ASSUME grader[h].pc = "insert", At(h) \notin late
                 PROVE  Full(At(h), grader[h].card)'
      BY <1>4, <1>6 DEF At
    <2> DEFINE t == At(h)
               card == grader[h].card
    <2>1. t \in Times /\ t + Horizon <= now /\ Full(t, card) /\ t' = t /\ card' = card
      BY <1>3, <1>6 DEF Grading, WindowInv, At
    <2> HIDE DEF t, card
    <2>2. {b \in traded' : t < b /\ b <= t + Horizon} \X {TRUE} \subseteq card
      BY <1>2, <2>1 DEF Full
    <2>3. Full(t, card)'
      BY <2>1, <2>2 DEF Full
    <2> QED
      BY <2>3 DEF t, card
  <1>7. ASSUME \A t \in Times : Kept(t)', \A h \in Graders : Sound(h)' PROVE WindowInv'
    BY <1>7 DEF WindowInv
  <1>8. CASE Tick \/ Aggregate \/ Detect \/ UNCHANGED vars
    <2>1. UNCHANGED <<outcomes, grader>>
      BY <1>8 DEF Tick, Aggregate, Detect, vars
    <2> QED
      BY <1>5, <1>6, <1>7, <2>1
  <1>9. ASSUME NEW g \in Graders, Pass(g) \/ MeasureFails(g) \/ AttestOutcomeFails(g) \/ Dies(g)
        PROVE  WindowInv'
    <2>1. CASE Grade(g)
      <3>1. Alone(g) /\ outcomes' = outcomes /\ grader[g].pc = "grade"
        BY <2>1, GradeIs DEF GoesOn
      <3>2. Sound(g)'
        <4> SUFFICES ASSUME grader'[g].pc = "insert", At(g)' \notin late'
                     PROVE  Full(At(g), grader[g].card)'
          OBVIOUS
        <4>1. /\ grader'[g].todo = grader[g].todo
              /\ grader'[g].card = Read(Pre(At(g)) \cup Post(At(g)))
              /\ late' = (IF now - counted >= Settle THEN late \cup {At(g)} ELSE late)
          BY <2>1, GradeIs DEF GoesOn
        <4>2. At(g)' = At(g)
          BY <4>1 DEF At
        <4>3. now - counted < Settle
          BY <1>1, <4>1, <4>2 DEF TypeOK, Settle
        <4>4. At(g) \in Times /\ Matured(At(g)) /\ At(g) + Horizon <= now
          BY <1>3, <3>1 DEF Grading
        <4> DEFINE t == At(g)
                   card == Read(Pre(t) \cup Post(t))
        <4>5. Full(t, card)
          BY <4>3, <4>4, GradedFull
        <4>6. t' = t /\ grader'[g].card = card /\ t \in Times /\ t + Horizon <= now
          BY <4>1, <4>2, <4>4
        <4> HIDE DEF t, card
        <4>7. {b \in traded' : t < b /\ b <= t + Horizon} \X {TRUE} \subseteq card
          BY <1>2, <4>5, <4>6 DEF Full
        <4>8. Full(t, grader[g].card)'
          BY <4>6, <4>7 DEF Full
        <4> QED
          BY <4>8 DEF t
      <3> QED
        BY <1>5, <1>6, <1>7, <3>1, <3>2 DEF Alone
    <2>2. CASE InsertOutcome(g)
      <3>1. GoesOn(g, grader[g].todo \ {At(g)}) /\ grader[g].pc = "insert"
        BY <2>2, InsertIs
      <3>2. Sound(g)' /\ \A h \in Graders : h # g => Sound(h)'
        BY <1>6, <3>1 DEF GoesOn, Alone
      <3>3. CASE outcomes' = outcomes
        BY <1>5, <1>7, <3>2, <3>3
      <3>4. CASE ~Measured(At(g)) /\ outcomes' = [outcomes EXCEPT ![At(g)].card = grader[g].card]
        <4>1. /\ \A t \in Times : t # At(g) => outcomes'[t] = outcomes[t]
              /\ At(g) \in Times /\ At(g) + Horizon <= now
              /\ outcomes'[At(g)].card = grader[g].card
          BY <1>3, <3>1, <3>4 DEF TypeOK, Grading
        <4>2. \A t \in Times : t # At(g) => Kept(t)'
          BY <1>5, <4>1
        <4>3. At(g) \in late \/ Full(At(g), grader[g].card)
          BY <3>1 DEF WindowInv
        <4> DEFINE t == At(g)
                   card == grader[g].card
        <4>4. /\ t \in Times /\ t + Horizon <= now /\ outcomes'[t].card = card
              /\ t \in late \/ Full(t, card)
          BY <4>1, <4>3
        <4> HIDE DEF t, card
        <4>5. t \in late' \/ {b \in traded' : t < b /\ b <= t + Horizon} \X {TRUE} \subseteq card
          BY <1>2, <1>4, <4>4 DEF Full
        <4>6. t \in late' \/ {b \in traded' : t < b /\ b <= t + Horizon} \X {TRUE}
                                 \subseteq outcomes'[t].card
          BY <4>4, <4>5
        <4>7. ASSUME NEW u \in Times, u = t PROVE Kept(u)'
          <5>1. u + Horizon <= now'
            BY <1>1, <4>4, <4>7
          <5>2. u \in late' \/ Full(u, outcomes[u].card)'
            BY <4>6, <4>7 DEF Full
          <5> QED
            BY <5>1, <5>2
        <4>8. \A u \in Times : Kept(u)'
          BY <4>2, <4>7 DEF t
        <4> QED
          BY <1>7, <3>2, <4>8
      <3> QED
        BY <2>2, <3>3, <3>4, InsertIs
    <2>3. CASE PersistOutcomeAttestTx(g)
      <3>3. /\ SendsOn(g)
            /\ outcomes' = outcomes \/ outcomes' = [outcomes EXCEPT ![At(g)].tx = grader[g].tx]
        BY <2>3, PersistIs
      <3>1. \A t \in Times : outcomes'[t].card = outcomes[t].card
        BY <3>3 DEF TypeOK
      <3>2. Sound(g)'
        BY <3>3 DEF SendsOn
      <3> QED
        BY <1>5, <1>6, <1>7, <3>1, <3>2, <3>3 DEF SendsOn, Alone
    <2>4. CASE MeasurePass(g) \/ MeasureFails(g) \/ AttestPass(g) \/ AttestOutcome(g)
               \/ AttestOutcomeFails(g) \/ Dies(g)
      <3>1. Alone(g) /\ grader'[g].pc # "insert" /\ outcomes' = outcomes
        BY <2>4, MeasureIs, ListIs, AttestIs, AttestFailsIs, DiesIs DEF SendsOn
      <3> QED
        BY <1>5, <1>6, <1>7, <3>1 DEF Alone
    <2> QED
      BY <1>9, <2>1, <2>2, <2>3, <2>4 DEF Pass
  <1> QED
    BY <1>8, <1>9 DEF Next

-----------------------------------------------------------------------------
\* Sets of graders can be counted.
LEMMA Counted ==
    ASSUME NEW A \in SUBSET Graders, NEW B \in SUBSET Graders, NEW g \in Graders
    PROVE  /\ Cardinality(A) \in Nat /\ Cardinality(A) <= Cardinality(Graders)
           /\ Cardinality(Graders) \in Nat
           /\ A \subseteq B => Cardinality(A) <= Cardinality(B)
           /\ A \ {g} \subseteq B => Cardinality(A) <= Cardinality(B) + 1
           /\ g \notin A /\ A \cup {g} \subseteq B => Cardinality(A) + 1 <= Cardinality(B)
  <1>1. IsFiniteSet(Graders)
    <2>1. Graders = Commands \cup {Loop}
      BY DEF Graders
    <2> QED
      BY <2>1, FS_AddElement, OutcomeAssumption
  <1>2. IsFiniteSet(A) /\ IsFiniteSet(B) /\ Cardinality(A) <= Cardinality(Graders)
    BY <1>1, FS_Subset
  <1>3. Cardinality(A) \in Nat /\ Cardinality(B) \in Nat /\ Cardinality(Graders) \in Nat
    BY <1>1, <1>2, FS_CardinalityType
  <1>4. A \subseteq B => Cardinality(A) <= Cardinality(B)
    BY <1>2, FS_Subset
  <1>5. ASSUME A \ {g} \subseteq B PROVE Cardinality(A) <= Cardinality(B) + 1
    <2>1. Cardinality(A \ {g}) = IF g \in A THEN Cardinality(A) - 1 ELSE Cardinality(A)
      BY <1>2, FS_RemoveElement
    <2>2. Cardinality(A \ {g}) <= Cardinality(B)
      BY <1>2, <1>5, FS_Subset
    <2> QED
      BY <1>3, <2>1, <2>2
  <1>6. ASSUME g \notin A, A \cup {g} \subseteq B PROVE Cardinality(A) + 1 <= Cardinality(B)
    <2>1. Cardinality(A \cup {g}) = Cardinality(A) + 1
      BY <1>2, <1>6, FS_AddElement
    <2>2. Cardinality(A \cup {g}) <= Cardinality(B)
      BY <1>2, <1>6, FS_Subset
    <2> QED
      BY <2>1, <2>2
  <1> QED
    BY <1>2, <1>3, <1>4, <1>5, <1>6

\* A step of one grader pays for what it broadcasts: with its own share, which the
\* others' do not depend on, or with a fault.
LEMMA Pays ==
    ASSUME TypeOK, TypeOK', SpentInv, NEW g \in Graders, Alone(g), NEW t \in Times,
           outcomes[t].tx # NoTx => outcomes'[t].tx # NoTx,
           \/ sent'[t] = sent[t] /\ faults' = faults + 1
           \/ sent'[t] = sent[t] /\ faults' = faults /\ (g \in Spent(t) => g \in Spent(t)')
           \/ sent'[t] = sent[t] + 1 /\ faults' = faults + 1 /\ (g \in Spent(t) => g \in Spent(t)')
           \/ sent'[t] = sent[t] + 1 /\ faults' = faults /\ g \notin Spent(t) /\ g \in Spent(t)'
    PROVE  sent'[t] <= Cardinality(Spent(t)') + faults'
  <1>1. Spent(t) \in SUBSET Graders /\ Spent(t)' \in SUBSET Graders
    BY DEF Spent
  <1>2. \A h \in Graders : h # g => (Holding(h, t)' <=> Holding(h, t)) /\ (Past(h, t)' <=> Past(h, t))
    BY DEF Alone, Holding, Past, Attesting, At
  <1>3. \A h \in Graders : Holding(h, t) => Past(h, t)
    BY DEF Past
  <1>4. Spent(t) \ {g} \subseteq Spent(t)'
    BY <1>2, <1>3 DEF Spent
  <1> DEFINE before == Spent(t)
             after == Spent(t)'
  <1> HIDE DEF before, after
  <1>5. /\ Cardinality(before) \in Nat /\ Cardinality(after) \in Nat
        /\ before \subseteq after => Cardinality(before) <= Cardinality(after)
        /\ before \ {g} \subseteq after => Cardinality(before) <= Cardinality(after) + 1
        /\ g \notin before /\ before \cup {g} \subseteq after
              => Cardinality(before) + 1 <= Cardinality(after)
    BY <1>1, Counted DEF before, after
  <1>6. before \ {g} \subseteq after
    BY <1>4 DEF before, after
  <1>7. sent[t] <= Cardinality(before) + faults
    BY DEF SpentInv, before
  <1>8. sent[t] \in Nat /\ faults \in Nat
    BY DEF TypeOK
  <1>9. \/ sent'[t] = sent[t] /\ faults' = faults + 1
        \/ sent'[t] = sent[t] /\ faults' = faults /\ (g \in before => g \in after)
        \/ sent'[t] = sent[t] + 1 /\ faults' = faults + 1 /\ (g \in before => g \in after)
        \/ sent'[t] = sent[t] + 1 /\ faults' = faults /\ g \notin before /\ g \in after
    BY DEF before, after
  <1>10. sent'[t] <= Cardinality(after) + faults'
    <2>1. CASE sent'[t] = sent[t] /\ faults' = faults + 1
      BY <1>5, <1>6, <1>7, <1>8, <2>1
    <2>2. CASE g \in before => g \in after
      <3>1. before \subseteq after
        BY <1>6, <2>2
      <3> QED
        BY <1>5, <1>7, <1>8, <1>9, <3>1
    <2>3. CASE sent'[t] = sent[t] + 1 /\ faults' = faults /\ g \notin before /\ g \in after
      <3>1. before \cup {g} \subseteq after
        BY <1>6, <2>3
      <3> QED
        BY <1>5, <1>7, <1>8, <2>3, <3>1
    <2> QED
      BY <1>9, <2>1, <2>2, <2>3
  <1> QED
    BY <1>10 DEF after

\* Every step pays for what it broadcasts.
LEMMA SpentStep ==
    ASSUME TypeOK, PassInv, SpentInv, [Next]_vars
    PROVE  SpentInv'
  <1>1. TypeOK'
    BY TypeStep
  <1>2. CASE Tick \/ Aggregate \/ Detect \/ UNCHANGED vars
    BY <1>2 DEF Tick, Aggregate, Detect, vars, SpentInv, Spent, Holding, Past, Attesting, At
  <1>3. ASSUME NEW g \in Graders, Pass(g) \/ MeasureFails(g) \/ AttestOutcomeFails(g) \/ Dies(g),
               NEW t \in Times
        PROVE  sent'[t] <= Cardinality(Spent(t)') + faults'
    <2> USE DEF Spent, Holding, Past, Attesting, At
    <2>1. CASE MeasurePass(g) \/ MeasureFails(g)
      <3>1. /\ Alone(g) /\ UNCHANGED <<outcomes, sent>>
            /\ faults' = faults \/ faults' = faults + 1
            /\ grader[g].pc = "idle" /\ grader'[g].pc \in {"grade", "list", "idle"}
        BY <2>1, MeasureIs DEF Fault
      <3>2. ~Attesting(g) /\ ~Attesting(g)' /\ outcomes' = outcomes
        BY <3>1
      <3>3. g \in Spent(t) => g \in Spent(t)'
        BY <3>2
      <3>4. CASE faults' = faults
        BY <1>1, <3>1, <3>3, <3>4, Pays
      <3>5. CASE faults' = faults + 1
        BY <1>1, <3>1, <3>5, Pays
      <3> QED
        BY <3>1, <3>4, <3>5
    <2>2. CASE Grade(g)
      <3>1. /\ Alone(g) /\ UNCHANGED <<outcomes, sent, faults>>
            /\ grader[g].pc = "grade" /\ grader'[g].pc \in {"insert", "grade", "list"}
        BY <2>2, GradeIs DEF GoesOn
      <3>2. g \in Spent(t) => g \in Spent(t)'
        BY <3>1
      <3> QED
        BY <1>1, <3>1, <3>2, Pays
    <2>3. CASE InsertOutcome(g)
      <3>1. /\ Alone(g) /\ UNCHANGED sent
            /\ faults' = faults \/ faults' = faults + 1
            /\ grader[g].pc = "insert" /\ grader'[g].pc \in {"grade", "list"}
            /\ \/ outcomes' = outcomes
               \/ outcomes' = [outcomes EXCEPT ![At(g)].card = grader[g].card]
        BY <2>3, InsertIs DEF GoesOn, Fault
      <3>2. outcomes'[t].tx = outcomes[t].tx
        <4>1. outcomes \in [Times -> [card : Cards, tx : Nat]]
          BY DEF TypeOK
        <4> HIDE DEF At
        <4> QED
          BY <3>1, <4>1, ColumnWrites
      <3>3. g \in Spent(t) => g \in Spent(t)'
        BY <3>1, <3>2
      <3>4. CASE faults' = faults
        BY <1>1, <3>1, <3>2, <3>3, <3>4, Pays
      <3>5. CASE faults' = faults + 1
        BY <1>1, <3>1, <3>2, <3>5, Pays
      <3> QED
        BY <3>1, <3>4, <3>5
    <2>4. CASE AttestPass(g)
      <3>1. /\ Alone(g) /\ UNCHANGED <<outcomes, sent, faults>>
            /\ grader[g].pc = "list"
            /\ \/ grader'[g].pc = "idle"
               \/ grader'[g].pc = "attest" /\ \A u \in grader'[g].todo : outcomes[u].tx = NoTx
        BY <2>4, ListIs
      <3>2. g \in Spent(t) => g \in Spent(t)'
        BY <3>1
      <3> QED
        BY <1>1, <3>1, <3>2, Pays
    <2>5. CASE AttestOutcome(g)
      <3>1. /\ Alone(g) /\ UNCHANGED <<outcomes, faults>>
            /\ grader[g].pc = "attest" /\ grader'[g].pc = "persist"
            /\ grader'[g].todo = grader[g].todo
            /\ sent' = [sent EXCEPT ![At(g)] = @ + 1]
        BY <2>5, AttestIs DEF Broadcast
      <3>2. At(g) \in grader[g].todo /\ At(g)' = At(g)
        BY <3>1, AtWork
      <3>3. CASE t = At(g)
        <4>1. sent'[t] = sent[t] + 1
          BY <3>1, <3>3 DEF TypeOK
        <4>2. g \notin Spent(t) /\ g \in Spent(t)'
          BY <3>1, <3>2, <3>3
        <4> QED
          BY <1>1, <3>1, <4>1, <4>2, Pays
      <3>4. CASE t # At(g)
        <4>1. sent'[t] = sent[t]
          BY <3>1, <3>4 DEF TypeOK
        <4>2. g \in Spent(t) => g \in Spent(t)'
          BY <3>1, <3>2, <3>4
        <4> QED
          BY <1>1, <3>1, <4>1, <4>2, Pays
      <3> QED
        BY <3>3, <3>4
    <2>6. CASE AttestOutcomeFails(g)
      <3>1. /\ SendsOn(g) /\ Alone(g) /\ UNCHANGED outcomes /\ faults' = faults + 1
            /\ grader[g].pc = "attest"
            /\ sent' = sent \/ sent' = [sent EXCEPT ![At(g)] = @ + 1]
        BY <2>6, AttestFailsIs DEF Broadcast, SendsOn, Fault
      <3>2. sent'[t] = sent[t] \/ sent'[t] = sent[t] + 1
        BY <3>1 DEF TypeOK
      <3>3. g \in Spent(t) => g \in Spent(t)'
        BY <3>1 DEF SendsOn
      <3> QED
        BY <1>1, <3>1, <3>2, <3>3, Pays
    <2>7. CASE PersistOutcomeAttestTx(g)
      <3>1. /\ SendsOn(g) /\ Alone(g) /\ UNCHANGED sent /\ grader[g].pc = "persist"
            /\ grader[g].tx # NoTx
            /\ \/ /\ outcomes' = [outcomes EXCEPT ![At(g)].tx = grader[g].tx]
                  /\ faults' = faults
               \/ outcomes' = outcomes /\ faults' = faults + 1
        BY <2>7, PersistIs DEF SendsOn, Fault, PassInv
      <3>2. outcomes[t].tx # NoTx => outcomes'[t].tx # NoTx
        <4>1. outcomes \in [Times -> [card : Cards, tx : Nat]]
          BY DEF TypeOK
        <4> HIDE DEF At
        <4> QED
          BY <3>1, <4>1, ColumnWrites
      <3>3. CASE outcomes' = outcomes /\ faults' = faults + 1
        BY <1>1, <3>1, <3>2, <3>3, Pays
      <3>4. CASE outcomes' = [outcomes EXCEPT ![At(g)].tx = grader[g].tx] /\ faults' = faults
        <4>0. outcomes \in [Times -> [card : Cards, tx : Nat]]
          BY DEF TypeOK
        <4>1. t = At(g) => outcomes'[t].tx # NoTx
          <5> HIDE DEF At
          <5> QED
            BY <3>1, <3>4, <4>0, ColumnWrites
        <4>2. g \in Spent(t) => t = At(g) \/ t \notin grader[g].todo
          BY <3>1
        <4>3. t # At(g) => outcomes'[t].tx = outcomes[t].tx
          <5> HIDE DEF At
          <5> QED
            BY <3>4, <4>0, ColumnWrites
        <4>4. g \in Spent(t) => g \in Spent(t)'
          BY <3>1, <4>1, <4>2, <4>3 DEF SendsOn
        <4> QED
          BY <1>1, <3>1, <3>2, <3>4, <4>4, Pays
      <3> QED
        BY <3>1, <3>3, <3>4
    <2>8. CASE Dies(g)
      <3>1. Alone(g) /\ UNCHANGED <<outcomes, sent>> /\ faults' = faults + 1
        BY <2>8, DiesIs DEF Fault
      <3> QED
        BY <1>1, <3>1, Pays
    <2> QED
      BY <1>3, <2>1, <2>2, <2>3, <2>4, <2>5, <2>6, <2>7, <2>8 DEF Pass
  <1>4. CASE \E g \in Graders : Pass(g) \/ MeasureFails(g) \/ AttestOutcomeFails(g) \/ Dies(g)
    BY <1>3, <1>4 DEF SpentInv
  <1> QED
    BY <1>2, <1>4 DEF Next

\* A step of one grader fails, having broadcast the signal if it had it in hand.
LEMMA FailsOnce ==
    ASSUME TypeOK, TypeOK', PassInv, NEW g \in Graders, Alone(g), NEW t \in Times, Once(t),
           Fault, outcomes'[t].tx = outcomes[t].tx, Attests(g, t)' => Attests(g, t),
           \/ sent'[t] = sent[t]
           \/ sent'[t] = sent[t] + 1 /\ Attests(g, t) /\ ~Holding(g, t)
    PROVE  Once(t)'
  <1>1. \A h \in Graders : h # g => (Attests(h, t)' <=> Attests(h, t))
    BY DEF Alone, Attests
  <1>2. \A h \in Graders : Holding(h, t) => Attests(h, t)
    BY AtWork DEF Holding, Attests, Attesting
  <1>3. Attests(g, t) /\ ~Holding(g, t) => sent[t] <= faults
    BY <1>2 DEF Once
  <1>4. sent[t] \in Nat /\ faults \in Nat /\ sent'[t] \in Nat /\ faults' \in Nat /\ sent[t] <= faults + 1
    BY DEF TypeOK, Once
  <1>5. sent'[t] <= faults' /\ sent'[t] <= faults' + 1
    BY <1>3, <1>4 DEF Fault
  <1> QED
    BY <1>1, <1>5 DEF Once

\* It leaves the signal alone, or takes it to attest while no other has it.
LEMMA TakesOnce ==
    ASSUME TypeOK, NEW g \in Graders, Alone(g), NEW t \in Times, Once(t),
           faults' = faults, outcomes'[t].tx = outcomes[t].tx, sent'[t] = sent[t],
           Holding(g, t) => Holding(g, t)',
           Attests(g, t)' => \/ Attests(g, t)
                             \/ outcomes[t].tx = NoTx /\ \A h \in Graders : h # g => ~Attests(h, t)
    PROVE  Once(t)'
  <1>1. \A h \in Graders : h # g => (Holding(h, t)' <=> Holding(h, t)) /\ (Attests(h, t)' <=> Attests(h, t))
    BY DEF Alone, Holding, Attests, At
  <1> QED
    BY <1>1 DEF Once

\* It broadcasts the signal it has in hand.
LEMMA SendsOnce ==
    ASSUME TypeOK, TypeOK', PassInv, NEW g \in Graders, Alone(g), NEW t \in Times, Once(t),
           faults' = faults, outcomes'[t].tx = outcomes[t].tx, sent'[t] = sent[t] + 1,
           Attests(g, t), ~Holding(g, t), Holding(g, t)'
    PROVE  Once(t)'
  <1>1. \A h \in Graders : h # g => (Attests(h, t)' <=> Attests(h, t))
    BY DEF Alone, Attests
  <1>2. \A h \in Graders : Holding(h, t) => Attests(h, t)
    BY AtWork DEF Holding, Attests, Attesting
  <1>3. sent[t] <= faults
    BY <1>2 DEF Once
  <1>4. sent'[t] <= faults' + 1
    BY <1>3 DEF TypeOK
  <1> QED
    BY <1>1, <1>4 DEF Once

\* It records the tx.
LEMMA RecordsOnce ==
    ASSUME NEW g \in Graders, Alone(g), NEW t \in Times, Once(t),
           faults' = faults, sent'[t] = sent[t], outcomes'[t].tx # NoTx,
           Attests(g, t), ~Attests(g, t)'
    PROVE  Once(t)'
  <1>1. \A h \in Graders : h # g => (Attests(h, t)' <=> Attests(h, t))
    BY DEF Alone, Attests
  <1> QED
    BY <1>1 DEF Once

\* Every step keeps to it.
LEMMA OnceStep ==
    ASSUME TypeOK, PassInv, OnceInv, [Next]_vars
    PROVE  OnceInv'
  <1>1. TypeOK'
    BY TypeStep
  <1>2. CASE Tick \/ Aggregate \/ Detect \/ UNCHANGED vars
    BY <1>2 DEF Tick, Aggregate, Detect, vars, OnceInv, Once, Holding, Attests, At
  <1>3. ASSUME NEW g \in Graders, Pass(g) \/ MeasureFails(g) \/ AttestOutcomeFails(g) \/ Dies(g),
               NEW t \in Times, t \notin overlapped'
        PROVE  Once(t)'
    <2>9. overlapped \subseteq overlapped'
      BY <1>3, MeasureIs, GradeIs, InsertIs, ListIs, AttestIs, AttestFailsIs, PersistIs, DiesIs DEF Pass
    <2>0. Once(t)
      BY <1>3, <2>9 DEF OnceInv
    <2> USE DEF Holding, Attests, At
    <2>1. CASE MeasurePass(g) \/ MeasureFails(g)
      <3>1. /\ Alone(g) /\ UNCHANGED <<outcomes, sent>>
            /\ faults' = faults \/ Fault
            /\ grader[g].pc = "idle" /\ grader'[g].pc \in {"grade", "list", "idle"}
        BY <2>1, MeasureIs
      <3>2. ~Attests(g, t)' /\ ~Holding(g, t)
        BY <3>1
      <3>3. CASE faults' = faults
        BY <2>0, <3>1, <3>2, <3>3, TakesOnce
      <3>4. CASE Fault
        BY <1>1, <2>0, <3>1, <3>2, <3>4, FailsOnce
      <3> QED
        BY <3>1, <3>3, <3>4
    <2>2. CASE Grade(g)
      <3>1. /\ Alone(g) /\ UNCHANGED <<outcomes, sent, faults>>
            /\ grader[g].pc = "grade" /\ grader'[g].pc \in {"insert", "grade", "list"}
        BY <2>2, GradeIs DEF GoesOn
      <3>2. ~Attests(g, t)' /\ ~Holding(g, t)
        BY <3>1
      <3> QED
        BY <2>0, <3>1, <3>2, TakesOnce
    <2>3. CASE InsertOutcome(g)
      <3>1. /\ Alone(g) /\ UNCHANGED sent
            /\ faults' = faults \/ Fault
            /\ grader[g].pc = "insert" /\ grader'[g].pc \in {"grade", "list"}
            /\ \/ outcomes' = outcomes
               \/ outcomes' = [outcomes EXCEPT ![At(g)].card = grader[g].card]
        BY <2>3, InsertIs DEF GoesOn
      <3>2. outcomes'[t].tx = outcomes[t].tx
        <4>1. outcomes \in [Times -> [card : Cards, tx : Nat]]
          BY DEF TypeOK
        <4> HIDE DEF At
        <4> QED
          BY <3>1, <4>1, ColumnWrites
      <3>3. ~Attests(g, t)' /\ ~Holding(g, t)
        BY <3>1
      <3>4. CASE faults' = faults
        BY <2>0, <3>1, <3>2, <3>3, <3>4, TakesOnce
      <3>5. CASE Fault
        BY <1>1, <2>0, <3>1, <3>2, <3>3, <3>5, FailsOnce
      <3> QED
        BY <3>1, <3>4, <3>5
    <2>4. CASE AttestPass(g)
      <3>1. /\ Alone(g) /\ UNCHANGED <<outcomes, sent, faults>>
            /\ grader[g].pc = "list"
            /\ \/ grader'[g].pc = "idle"
               \/ \A u \in grader'[g].todo :
                    /\ outcomes[u].tx = NoTx
                    /\ u \in overlapped' \/ \A h \in Graders : h # g => ~Attests(h, u)
        BY <2>4, ListIs
      <3>2. ~Holding(g, t) /\ (Attests(g, t)' => /\ outcomes[t].tx = NoTx
                                                /\ \A h \in Graders : h # g => ~Attests(h, t))
        BY <1>3, <3>1
      <3> QED
        BY <2>0, <3>1, <3>2, TakesOnce
    <2>5. CASE AttestOutcome(g)
      <3>1. /\ Alone(g) /\ UNCHANGED <<outcomes, faults>>
            /\ grader[g].pc = "attest" /\ grader'[g].pc = "persist"
            /\ grader'[g].todo = grader[g].todo
            /\ sent' = [sent EXCEPT ![At(g)] = @ + 1]
        BY <2>5, AttestIs DEF Broadcast
      <3>2. At(g) \in grader[g].todo /\ At(g)' = At(g)
        BY <3>1, AtWork DEF Attesting
      <3>3. CASE t = At(g)
        <4>1. sent'[t] = sent[t] + 1
          BY <3>1, <3>3 DEF TypeOK
        <4>2. Attests(g, t) /\ ~Holding(g, t) /\ Holding(g, t)'
          BY <3>1, <3>2, <3>3
        <4> QED
          BY <1>1, <2>0, <3>1, <4>1, <4>2, SendsOnce
      <3>4. CASE t # At(g)
        <4>1. sent'[t] = sent[t]
          BY <3>1, <3>4 DEF TypeOK
        <4>2. ~Holding(g, t) /\ (Attests(g, t)' => Attests(g, t))
          BY <3>1
        <4> QED
          BY <2>0, <3>1, <4>1, <4>2, TakesOnce
      <3> QED
        BY <3>3, <3>4
    <2>6. CASE AttestOutcomeFails(g)
      <3>1. /\ SendsOn(g) /\ Alone(g) /\ UNCHANGED outcomes /\ Fault
            /\ grader[g].pc = "attest"
            /\ sent' = sent \/ sent' = [sent EXCEPT ![At(g)] = @ + 1]
        BY <2>6, AttestFailsIs DEF Broadcast, SendsOn
      <3>2. \/ sent'[t] = sent[t]
            \/ sent'[t] = sent[t] + 1 /\ t = At(g)
        BY <3>1 DEF TypeOK
      <3>3. ~Holding(g, t) /\ (Attests(g, t)' => Attests(g, t)) /\ (t = At(g) => Attests(g, t))
        BY <3>1, AtWork DEF SendsOn, Attesting
      <3> QED
        BY <1>1, <2>0, <3>1, <3>2, <3>3, FailsOnce
    <2>7. CASE PersistOutcomeAttestTx(g)
      <3>1. /\ SendsOn(g) /\ Alone(g) /\ UNCHANGED sent /\ grader[g].pc = "persist"
            /\ grader[g].tx # NoTx
            /\ \/ /\ outcomes' = [outcomes EXCEPT ![At(g)].tx = grader[g].tx]
                  /\ faults' = faults
               \/ outcomes' = outcomes /\ Fault
        BY <2>7, PersistIs DEF SendsOn, PassInv
      <3>2. Attests(g, t)' => Attests(g, t)
        BY <3>1 DEF SendsOn
      <3>3. CASE outcomes' = outcomes /\ Fault
        BY <1>1, <2>0, <3>1, <3>2, <3>3, FailsOnce
      <3>4. CASE outcomes' = [outcomes EXCEPT ![At(g)].tx = grader[g].tx] /\ faults' = faults
        <4>1. outcomes \in [Times -> [card : Cards, tx : Nat]]
          BY DEF TypeOK
        <4>2. CASE t = At(g)
          <5>1. outcomes'[t].tx # NoTx
            <6> HIDE DEF At
            <6> QED
              BY <3>1, <3>4, <4>1, <4>2, ColumnWrites
          <5>2. Attests(g, t) /\ ~Attests(g, t)'
            BY <3>1, <4>2, AtWork DEF SendsOn, Attesting
          <5> QED
            BY <2>0, <3>1, <3>4, <5>1, <5>2, RecordsOnce
        <4>3. CASE t # At(g)
          <5>1. outcomes'[t].tx = outcomes[t].tx
            <6> HIDE DEF At
            <6> QED
              BY <3>4, <4>1, <4>3, ColumnWrites
          <5>2. ~Holding(g, t)
            BY <4>3
          <5> QED
            BY <2>0, <3>1, <3>2, <3>4, <5>1, <5>2, TakesOnce
        <4> QED
          BY <4>2, <4>3
      <3> QED
        BY <3>1, <3>3, <3>4
    <2>8. CASE Dies(g)
      <3>1. /\ Alone(g) /\ UNCHANGED <<outcomes, sent>> /\ Fault
            /\ grader'[g].pc = "idle"
        BY <2>8, DiesIs
      <3>2. ~Attests(g, t)'
        BY <3>1
      <3> QED
        BY <1>1, <2>0, <3>1, <3>2, FailsOnce
    <2> QED
      BY <1>3, <2>1, <2>2, <2>3, <2>4, <2>5, <2>6, <2>7, <2>8 DEF Pass
  <1>4. CASE \E g \in Graders : Pass(g) \/ MeasureFails(g) \/ AttestOutcomeFails(g) \/ Dies(g)
    BY <1>3, <1>4 DEF OnceInv
  <1> QED
    BY <1>2, <1>4 DEF Next

-----------------------------------------------------------------------------
LEMMA InitInd == Init => IndInv
  <1> SUFFICES ASSUME Init PROVE IndInv
    OBVIOUS
  <1>1. /\ Rest \in Passes /\ Rest.pc = "idle"
        /\ \A g \in Graders : grader[g] = Rest
        /\ \A t \in Times : outcomes[t].card = NoCard /\ reports[t] = {} /\ sent[t] = 0
    BY RestIs DEF Init
  <1>2. TypeOK
    <2>1. 0 \in Times /\ 0 \in 0..MaxFaults
      BY OutcomeAssumption DEF Times
    <2>2. grader \in [Graders -> Passes]
      BY <1>1 DEF Init
    <2>3. outcomes \in [Times -> [card : Cards, tx : Nat]]
      BY DEF Init, NoCard, NoTx, Cards
    <2>4. reports \in [Times -> SUBSET Cards] /\ sent \in [Times -> Nat]
      BY DEF Init
    <2>5. now \in Times /\ traded \in SUBSET Times /\ counted \in Times /\ counted <= now
      BY <2>1 DEF Init
    <2> QED
      BY <2>1, <2>2, <2>3, <2>4, <2>5 DEF Init, TypeOK, Passes
  <1>3. PassInv /\ CommitInv
    BY <1>1 DEF PassInv, CommitInv, Attesting, Grading
  <1>4. WindowInv
    BY <1>1 DEF WindowInv, Measured
  <1>5. SpentInv
    <2>1. \A t \in Times : Spent(t) \in SUBSET Graders
      BY DEF Spent
    <2>2. \A t \in Times : Cardinality(Spent(t)) \in Nat
      BY <2>1, Counted
    <2>3. faults = 0
      BY DEF Init
    <2> QED
      BY <1>1, <2>2, <2>3 DEF SpentInv
  <1>6. OnceInv
    BY <1>1, <1>2, RestIs DEF Init, OnceInv, Once, Attests, TypeOK
  <1> QED
    BY <1>2, <1>3, <1>4, <1>5, <1>6 DEF IndInv

\* The strengthened invariant: what graders have in hand, what the table has and what
\* is on chain stay in line (Measure, AttestPending).
THEOREM Inductive == Spec => []IndInv
  <1>1. IndInv /\ [Next]_vars => IndInv'
    BY TypeStep, PassStep, CommitStep, WindowStep, OnceStep, SpentStep DEF IndInv
  <1> QED
    BY InitInd, <1>1, PTL DEF Spec

\* Every variable of Outcome keeps its type, for any commands and bounds.
THEOREM TypeCorrect == Spec => []TypeOK
  <1>1. IndInv => TypeOK
    BY DEF IndInv
  <1> QED
    BY Inductive, <1>1, PTL

\* Whatever is on chain for a signal is the card the table has, for any number of
\* graders (Measure inserts with ON CONFLICT DO NOTHING, AttestPending reads it back).
THEOREM ReportsAreStored == Spec => []ReportsMatch
  <1>1. IndInv => ReportsMatch
    BY DEF IndInv, CommitInv, ReportsMatch
  <1> QED
    BY Inductive, <1>1, PTL

\* A card has its whole window, for any horizon, unless the aggregator was behind by
\* the settle margin when it was graded (Measure).
THEOREM WindowsAreFull == Spec => []FullWindow
  <1>1. IndInv => FullWindow
    BY DEF IndInv, WindowInv, Full, FullWindow
  <1> QED
    BY Inductive, <1>1, PTL

\* An outcome is broadcast once and once more per fault; after two passes had it at once,
\* at most once by each grader and once more per fault (AttestPending).
THEOREM BroadcastsAreBounded == Spec => []AttestBound
  <1>1. IndInv => AttestBound
    <2> SUFFICES ASSUME IndInv, NEW t \in Times
                 PROVE  sent[t] <= faults + IF t \in overlapped THEN Cardinality(Graders) ELSE 1
      BY DEF AttestBound
    <2>1. sent[t] \in Nat /\ faults \in Nat /\ sent[t] <= Cardinality(Spent(t)) + faults
      BY DEF IndInv, TypeOK, SpentInv
    <2>2. Spent(t) \in SUBSET Graders /\ Loop \in Graders
      BY DEF Spent, Graders
    <2>3. /\ Cardinality(Spent(t)) \in Nat /\ Cardinality(Graders) \in Nat
          /\ Cardinality(Spent(t)) <= Cardinality(Graders)
      BY <2>2, Counted
    <2>4. sent[t] <= faults + Cardinality(Graders)
      BY <2>1, <2>3
    <2>5. t \notin overlapped => sent[t] <= faults + 1
      BY DEF IndInv, OnceInv, Once
    <2> QED
      BY <2>4, <2>5
  <1> QED
    BY Inductive, <1>1, PTL
=============================================================================

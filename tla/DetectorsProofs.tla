-------------------------- MODULE DetectorsProofs --------------------------
(***************************************************************************)
(* Proofs about Detectors, for any events, pools, wallets, commands,       *)
(* windows, cooldowns and faults.                                          *)
(*                                                                         *)
(* A step is one of six: the clock, an event, a process that turns to its  *)
(* next scan, that looks at an item, that inserts, that folds (StepsAre).  *)
(* What a step of one process is to the others (Touches), to itself and to *)
(* the table are separate lemmas. What is not missed has an invariant of   *)
(* its own: what a scan answers for is still before it, or in its hands,   *)
(* or noticed.                                                             *)
(***************************************************************************)
EXTENDS Detectors, SequenceTheorems, FiniteSetTheorems, TLAPS

\* Awake: in the middle of a round of scans.
Active(p) == det[p].pc \notin {"idle", "done"}

Rows == DOMAIN signals

\* Where a process is in its round.
PlaceInv(p) ==
    /\ det[p].round <= now
    /\ Active(p) => det[p].at <= now /\ det[p].round \in Times
    /\ det[p].pc = "ledger" => Scan(p) = "smart"
    /\ det[p].pc = "insert" => det[p].pick.type = Scan(p)
    /\ det[p].pc = "fold" => Scan(p) = "lst"
    /\ ~Active(p) => det[p].out = {}
    /\ p = Loop => det[p].pc # "done"
    /\ \A e \in det[p].found : event[e] # NotYet
    /\ Active(p) /\ Scan(p) \in {"lending", "lst"} =>
          \A e \in det[p].todo : /\ e \in Events /\ event[e] # NotYet
                               /\ event[e].where = IF Scan(p) = "lst" THEN Token ELSE Aave

\* Rows a process has inserted are of its rounds so far; of this round there are
\* those of the scans so far, and the smart-money ones are known to the whale scan.
OwnInv(p) ==
    /\ \A i \in Rows : signals[i].by = p /\ det[p].pc # "done" =>
          /\ signals[i].round <= det[p].round
          /\ Active(p) /\ signals[i].round = det[p].round =>
                /\ signals[i].type = "smart" =>
                      det[p].scan >= 2 /\ (det[p].scan <= 3 => signals[i].ref \in det[p].fired)
                /\ signals[i].type = "whale" => det[p].scan >= 3
    /\ det[p].pc = "insert" /\ det[p].pick.type = "whale" => det[p].pick.ref \notin det[p].fired

\* What a scan fired on has a row.
FiredInv(p) ==
    \A e \in det[p].fired : \E i \in Rows : signals[i].type = "smart" /\ signals[i].ref = e

\* Signals on the way to the hot path are rows of the process, and nowhere else.
OutInv(p) ==
    \A i \in det[p].out :
        i \in Rows /\ signals[i].by = p /\ handed[i] = 0 /\ i \notin dropped

\* The cooldown of a type of signals.
Span(type) ==
    CASE type = "smart" -> ActorCooldown [] type = "depeg" -> DepegCooldown [] OTHER -> Cooldown

\* Between the look-up and the insert only other processes insert; what the look-up saw
\* stays old enough.
CoolInv(p) ==
    det[p].pc = "insert" =>
        /\ det[p].pick.seen <= Len(signals)
        /\ \A i \in Rows :
              /\ i > det[p].pick.seen => signals[i].by # p
              /\ i <= det[p].pick.seen /\ Throttles(signals[i], det[p].pick) =>
                    ~(now - signals[i].created < Span(det[p].pick.type))

\* What is about to be inserted,
AimInv(p) ==
    det[p].pc = "insert" =>
        LET pick == det[p].pick IN
        /\ pick.type = "smart" => pick.ref \in Events
        /\ pick.type = "lending" => pick.where = Aave
        /\ pick.type = "whale" =>
              /\ pick.ref \in Events /\ event[pick.ref] # NotYet
              /\ event[pick.ref].at + Recent >= det[p].at /\ event[pick.ref].at <= now
        /\ pick.type = "lst" =>
              pick.where = Token /\ pick.ref \in Events /\ pick.refs = {pick.ref} /\ pick.count = 1

\* and what is about to be written back.
FoldInv(p) ==
    det[p].pc = "fold" =>
        LET d == det[p] IN
        /\ d.pick.type = "lst" /\ d.into \in Rows /\ signals[d.into].type = "lst"
        /\ signals[d.into].ref \in d.pick.refs /\ d.pick.ref \in d.pick.refs
        /\ IsFiniteSet(d.pick.refs) /\ d.pick.count = Cardinality(d.pick.refs)

ProcInv(p) ==
    PlaceInv(p) /\ OwnInv(p) /\ FiredInv(p) /\ OutInv(p) /\ CoolInv(p) /\ AimInv(p) /\ FoldInv(p)

\* A row: what it is about, and where it is on its way to the hot path.
RowInv(i) ==
    LET s == signals[i] IN
    /\ s.created <= now
    /\ s.type = "lending" => s.where = Aave
    /\ s.type = "whale" => /\ s.ref \in Events /\ event[s.ref] # NotYet
                           /\ event[s.ref].at <= s.created
    /\ s.type = "lst" => /\ s.where = Token /\ s.ref \in s.refs
                         /\ IsFiniteSet(s.refs) /\ s.count = Cardinality(s.refs)
    /\ handed[i] \in {0, 1}
    /\ i \in dropped => handed[i] = 0
    /\ i \notin dropped /\ handed[i] = 0 => \E p \in Processes : i \in det[p].out

\* No two rows have the same key.
KeyInv ==
    \A i, j \in Rows : signals[i].type = signals[j].type /\ signals[i].where = signals[j].where
                       /\ signals[i].ref = signals[j].ref => i = j

EventInv ==
    \A e \in Events : event[e] # NotYet =>
        /\ event[e].at <= now
        /\ event[e].kind = "transfer" <=> event[e].where = Token
        /\ event[e].kind = "loan" <=> event[e].where = Aave

IndInv ==
    /\ TypeOK /\ EventInv /\ KeyInv /\ Throttled /\ RicherWins
    /\ \A p \in Processes : ProcInv(p)
    /\ \A i \in Rows : RowInv(i)

-----------------------------------------------------------------------------
(* What the steps do.                                                      *)

LEMMA ScansAre ==
    /\ Len(Scans) = 6
    /\ Scans[1] = "flow" /\ Scans[2] = "smart" /\ Scans[3] = "whale"
    /\ Scans[4] = "lending" /\ Scans[5] = "lst" /\ Scans[6] = "depeg"
    /\ \A k \in 1..6 : Scans[k] \in Types
  BY DEF Scans, Types

LEMMA ListedIs ==
    ASSUME NEW scan \in Types
    PROVE  Listed(scan) \in SUBSET (Pools \cup Wallets \cup Events)
  BY DetectorsAssumption DEF Listed, FreshLogs, Types

\* A scan that begins.
LEMMA BeginIs ==
    ASSUME NEW d, NEW k \in 1..6
    PROVE  LET n == Begin(d, k) IN
           /\ n.pc = IF Scans[k] = "smart" THEN "ledger" ELSE "item"
           /\ n.scan = k /\ n.at = now /\ n.todo = Listed(Scans[k])
           /\ n.fired = IF Scans[k] = "whale" THEN d.fired ELSE {}
           /\ n.found = {} /\ n.out = {} /\ n.pick = NoPick /\ n.into = 0 /\ n.round = d.round
           /\ Scans[k] \in Types /\ now \in Times /\ d.fired \in SUBSET Events
                 /\ d.round \in Times => n \in Detector
  BY ScansAre, ListedIs DEF Begin, Rest, Detector, Pc, Pick

\* A process turns to its next scan, or comes to the end of its round.
Turned(p, n) ==
    \/ /\ n.pc = IF n.scan = 2 THEN "ledger" ELSE "item"
       /\ n.scan \in 1..6 /\ n.todo = Listed(Scans[n.scan])
       /\ n.at = now /\ n.round \in Times
       /\ \/ /\ det[p].pc = "idle" /\ det[p].round < n.round /\ n.round <= now
             /\ n.scan = 1 /\ n.fired = {}
          \/ /\ Active(p) /\ n.scan = det[p].scan + 1 /\ n.round = det[p].round
             /\ n.fired = IF n.scan = 3 THEN det[p].fired ELSE {}
    \/ /\ n.pc = "idle" /\ n.scan = 1 /\ p = Loop /\ Active(p)
       /\ n.round = det[p].round /\ n.fired = {}
    \/ n.pc = "done" /\ n.scan = 1 /\ p # Loop /\ Active(p) /\ n.round = -1 /\ n.fired = {}

Turns(p) ==
    /\ Turn(p, det'[p])
    /\ det'[p] \in Detector /\ Turned(p, det'[p])
    /\ det'[p].out = {} /\ det'[p].found = {} /\ det'[p].pick = NoPick /\ det'[p].into = 0
    /\ UNCHANGED <<now, tables>>

LEMMA RestIs == Rest \in Detector
  BY ScansAre, DetectorsAssumption DEF Rest, Detector, Pc, Pick, NoPick, Times

\* Ends of rounds.
LEMMA ProceedIs ==
    ASSUME TypeOK, NEW p \in Processes, PlaceInv(p), Active(p)
    PROVE  LET n == Proceed(det[p], p) IN
           /\ n \in Detector /\ Turned(p, n)
           /\ n.out = {} /\ n.found = {} /\ n.pick = NoPick /\ n.into = 0
  <1> DEFINE d == det[p]
             n == Proceed(d, p)
  <1>1. /\ d \in Detector /\ now \in Times /\ d.scan \in 1..6 /\ d.fired \in SUBSET Events
        /\ d.round \in Times
    BY ScansAre DEF TypeOK, Detector, PlaceInv
  <1>2. CASE d.scan < 6
    <2> DEFINE k == d.scan + 1
    <2>1. k \in 1..6 /\ n = Begin(d, k) /\ k # 1
      BY <1>1, <1>2, ScansAre DEF Proceed
    <2>2. Scans[k] = "smart" <=> k = 2
      BY <2>1, ScansAre
    <2>3. Scans[k] = "whale" <=> k = 3
      BY <2>1, ScansAre
    <2> HIDE DEF k, n
    <2>4. /\ n.pc = IF Scans[k] = "smart" THEN "ledger" ELSE "item"
          /\ n.scan = k /\ n.at = now /\ n.todo = Listed(Scans[k])
          /\ n.fired = IF Scans[k] = "whale" THEN d.fired ELSE {}
          /\ n.found = {} /\ n.out = {} /\ n.pick = NoPick /\ n.into = 0 /\ n.round = d.round
          /\ n \in Detector
      BY <1>1, <2>1, BeginIs, ScansAre
    <2>5. Turned(p, n)
      BY <1>1, <2>1, <2>2, <2>3, <2>4 DEF Turned, k
    <2> QED
      BY <2>4, <2>5 DEF n
  <1>3. CASE d.scan = 6 /\ p = Loop
    <2>1. n = [Rest EXCEPT !.round = d.round]
      BY <1>1, <1>3, ScansAre DEF Proceed
    <2> QED
      BY <1>1, <1>3, <2>1, RestIs DEF Turned, Detector, Rest
  <1>4. CASE d.scan = 6 /\ p # Loop
    <2>1. n = [Rest EXCEPT !.pc = "done"]
      BY <1>1, <1>4, ScansAre DEF Proceed
    <2> QED
      BY <1>1, <1>4, <2>1, RestIs DEF Turned, Detector, Rest, Pc
  <1> QED
    BY <1>1, <1>2, <1>3, <1>4

LEMMA TurnsAre ==
    ASSUME TypeOK, NEW p \in Processes, PlaceInv(p),
           StartRound(p) \/ EndScan(p) \/ ScanFails(p) \/ (p = Loop /\ Restart)
    PROVE  Turns(p)
  <1> DEFINE d == det[p]
  <1>1. d \in Detector /\ now \in Times /\ now \in Int /\ det \in [Processes -> Detector]
    BY DEF TypeOK, Times
  <1>2. ASSUME NEW n \in Detector, Turn(p, n), Turned(p, n), n.out = {},
               n.found = {}, n.pick = NoPick, n.into = 0, UNCHANGED <<now, tables>>
        PROVE  Turns(p)
    <2>1. det'[p] = n
      BY <1>1, <1>2 DEF Turn
    <2> QED
      BY <1>2, <2>1 DEF Turns
  <1>3. CASE StartRound(p)
    <2> DEFINE r == [Rest EXCEPT !.round = Round(p)]
               n == Begin(r, 1)
    <2>0. Round(p) \in Times /\ Round(p) <= now
      BY <1>1, DetectorsAssumption DEF Round, TypeOK, Times
    <2>1. r \in Detector /\ r.round = Round(p) /\ r.fired = {}
      BY <2>0, RestIs DEF Detector, Rest
    <2>2. /\ Turn(p, n) /\ UNCHANGED <<now, tables>>
          /\ d.pc = "idle" /\ d.round < Round(p)
      BY <1>3 DEF StartRound, At
    <2> HIDE DEF r, n
    <2>3. /\ n.pc = "item" /\ n.scan = 1 /\ n.at = now /\ n.todo = Listed(Scans[1]) /\ n.fired = {}
          /\ n.found = {} /\ n.out = {} /\ n.pick = NoPick /\ n.into = 0 /\ n.round = Round(p)
          /\ n \in Detector
      BY <1>1, <2>0, <2>1, BeginIs, ScansAre DEF n
    <2>4. n.scan \in 1..6 /\ n.todo = Listed(Scans[n.scan])
      BY <2>3
    <2>5. Turned(p, n)
      BY <1>1, <2>0, <2>2, <2>3, <2>4 DEF Turned
    <2> QED
      BY <1>2, <2>2, <2>3, <2>5
  <1>4. CASE EndScan(p) \/ (ScanFails(p) /\ p = Loop)
    <2> DEFINE n == Proceed(d, p)
    <2>1. Turn(p, n) /\ UNCHANGED <<now, tables>> /\ Active(p)
      BY <1>1, <1>4 DEF EndScan, ScanFails, At, Active
    <2>2. n \in Detector /\ Turned(p, n) /\ n.out = {} /\ n.found = {} /\ n.pick = NoPick /\ n.into = 0
      BY <2>1, ProceedIs
    <2> HIDE DEF n
    <2> QED
      BY <1>2, <2>1, <2>2
  <1>5. CASE ScanFails(p) /\ p # Loop
    <2> DEFINE n == [Rest EXCEPT !.pc = "done"]
    <2>1. Turn(p, n) /\ UNCHANGED <<now, tables>> /\ Active(p)
      BY <1>1, <1>5 DEF ScanFails, Active
    <2>2. /\ n \in Detector /\ n.pc = "done" /\ n.scan = 1 /\ n.round = -1 /\ n.fired = {}
          /\ n.out = {} /\ n.found = {} /\ n.pick = NoPick /\ n.into = 0
      BY RestIs DEF Rest, Detector, Pc
    <2> HIDE DEF n
    <2> QED
      BY <1>2, <1>5, <2>1, <2>2 DEF Turned
  <1>6. CASE p = Loop /\ Restart
    <2> DEFINE n == [Rest EXCEPT !.round = d.round]
    <2>1. Turn(p, n) /\ UNCHANGED <<now, tables>> /\ Active(p)
      BY <1>1, <1>6 DEF Restart, Active, PlaceInv
    <2>2. /\ n \in Detector /\ n.pc = "idle" /\ n.scan = 1 /\ n.round = d.round /\ n.fired = {}
          /\ n.out = {} /\ n.found = {} /\ n.pick = NoPick /\ n.into = 0
      BY <1>1, RestIs DEF Rest, Detector, Pc
    <2> HIDE DEF n
    <2> QED
      BY <1>2, <1>6, <2>1, <2>2 DEF Turned
  <1> QED
    BY <1>3, <1>4, <1>5, <1>6

\* A step of one process: what the others see of it.
Moves(p) ==
    /\ det' \in [Processes -> Detector]
    /\ \A q \in Processes \ {p} : det'[q] = det[q]
Kept(p) ==
    /\ det'[p].scan = det[p].scan /\ det'[p].at = det[p].at /\ det'[p].round = det[p].round
    /\ det'[p].out = det[p].out /\ det'[p].fired = det[p].fired

\* What an item may choose to insert.
Aim(p, pick) ==
    /\ pick \in Pick /\ pick.type \in Types /\ pick.type = Scan(p) /\ pick.seen = Len(signals)
    /\ \A i \in Rows :
          Throttles(signals[i], pick) => ~(now - signals[i].created < Span(pick.type))
    /\ pick.type = "smart" => pick.ref \in Events
    /\ pick.type = "lending" => pick.where = Aave
    /\ pick.type = "whale" =>
          /\ pick.ref \in Events /\ event[pick.ref] # NotYet
          /\ event[pick.ref].at + Recent >= det[p].at /\ event[pick.ref].at <= now
          /\ pick.ref \notin det[p].fired
    /\ pick.type = "lst" =>
          pick.where = Token /\ pick.ref \in Events /\ pick.refs = {pick.ref} /\ pick.count = 1

Skipped(p) ==
    /\ Moves(p) /\ Kept(p) /\ det'[p].todo \subseteq det[p].todo
    /\ det'[p].pc = det[p].pc /\ det'[p].pick = det[p].pick
    /\ det'[p].into = det[p].into /\ det'[p].found = det[p].found

Aimed(p) ==
    /\ Moves(p) /\ Kept(p) /\ det'[p].todo \subseteq det[p].todo
    /\ det'[p].pc = "insert" /\ Aim(p, det'[p].pick)
    /\ det'[p].into = det[p].into /\ det'[p].found = det[p].found

LEMMA SkipIs ==
    ASSUME TypeOK, NEW p \in Processes, NEW item, Skip(p, item)
    PROVE  Skipped(p)
  BY DEF TypeOK, Skip, Skipped, Moves, Kept, Detector

LEMMA InsertIs ==
    ASSUME TypeOK, NEW p \in Processes, NEW item, NEW pick, Insert(p, item, pick), Aim(p, pick)
    PROVE  Aimed(p)
  <1>1. pick \in Pick
    BY DEF Aim
  <1>2. /\ Moves(p) /\ Kept(p) /\ det'[p].todo \subseteq det[p].todo
        /\ det'[p].pc = "insert" /\ det'[p].pick = pick
        /\ det'[p].into = det[p].into /\ det'[p].found = det[p].found
    <2> DEFINE d == det[p]
               n == [d EXCEPT !.todo = @ \ {item}, !.pc = "insert", !.pick = pick]
    <2>1. d \in Detector /\ det' = [det EXCEPT ![p] = n]
      BY DEF TypeOK, Insert
    <2>2. /\ n \in Detector /\ n.todo = d.todo \ {item} /\ n.pc = "insert" /\ n.pick = pick
          /\ n.scan = d.scan /\ n.at = d.at /\ n.round = d.round /\ n.out = d.out
          /\ n.fired = d.fired /\ n.into = d.into /\ n.found = d.found
      BY <1>1, <2>1 DEF Detector, Pc
    <2> HIDE DEF n
    <2> QED
      BY <2>1, <2>2 DEF TypeOK, Moves, Kept
  <1> QED
    BY <1>2 DEF Aimed

\* A signal's pick is well formed.
LEMMA PickIs ==
    ASSUME TypeOK, NEW type \in Types, NEW where \in Subjects, NEW actor \in Wallets \cup {Other},
           NEW ref \in Events \cup Times
    PROVE  LET pick == SignalOn(type, where, actor, ref) IN
           /\ pick.type = type /\ pick.where = where /\ pick.actor = actor /\ pick.ref = ref
           /\ pick.seen = Len(signals)
           /\ type = "lst" => pick.refs = {ref} /\ pick.count = 1
           /\ type # "lst" \/ ref \in Events => pick \in Pick
  <1> DEFINE r == IF type = "lst" THEN {ref} ELSE {}
  <1>1. type # "lst" \/ ref \in Events => r \in SUBSET Events
    OBVIOUS
  <1>2. Len(signals) \in Nat
    BY DEF TypeOK
  <1> QED
    BY <1>1, <1>2 DEF SignalOn, Pick

LEMMA FlowIs ==
    ASSUME TypeOK, NEW p \in Processes, NEW pool, PlaceInv(p), FlowItem(p, pool)
    PROVE  Skipped(p) \/ Aimed(p)
  <1>1. CASE Skip(p, pool)
    BY <1>1, SkipIs
  <1>2. ASSUME ~Cooling(OfPool(pool), Cooldown), NEW e \in Outlier(pool),
               Insert(p, pool, SignalOn("flow", pool, Other, event[e].at \div Width))
        PROVE  Aimed(p)
    <2> DEFINE ref == event[e].at \div Width
               pick == SignalOn("flow", pool, Other, ref)
    <2>1. e \in Events /\ event[e] \in Event /\ event[e].where = pool /\ event[e] # NotYet
      BY <1>2 DEF Outlier, TypeOK
    <2>2. pool \in Subjects /\ event[e].at \in Times
      BY <2>1 DEF Event, Subjects
    <2>3. ref \in Times
      BY <2>2, DetectorsAssumption DEF Times
    <2> HIDE DEF ref
    <2>4. pick \in Pick /\ pick.type = "flow" /\ pick.where = pool /\ pick.seen = Len(signals)
      BY <2>2, <2>3, PickIs DEF Types
    <2>5. Scan(p) = "flow"
      BY DEF FlowItem
    <2>6. \A i \in Rows : signals[i].where = pool => ~(now - signals[i].created < Cooldown)
      BY <1>2 DEF Cooling, OfPool, Rows
    <2> HIDE DEF pick
    <2>7. Aim(p, pick)
      BY <2>4, <2>5, <2>6 DEF Aim, Throttles, Span, Types
    <2> QED
      BY <1>2, <2>7, InsertIs DEF pick, ref
  <1> QED
    BY <1>1, <1>2 DEF FlowItem

LEMMA SmartIs ==
    ASSUME TypeOK, NEW p \in Processes, NEW actor, PlaceInv(p), SmartItem(p, actor)
    PROVE  Skipped(p) \/ Aimed(p)
  <1>1. CASE Skip(p, actor)
    BY <1>1, SkipIs
  <1>2. ASSUME ~Cooling(OfActor(actor), ActorCooldown),
               NEW e \in LargestOf({f \in det[p].found : event[f].actor = actor}),
               Insert(p, actor, SignalOn("smart", event[e].where, actor, e))
        PROVE  Aimed(p)
    <2> DEFINE pick == SignalOn("smart", event[e].where, actor, e)
    <2>1. e \in det[p].found /\ event[e].actor = actor
      BY <1>2 DEF LargestOf
    <2>2. e \in Events /\ event[e] \in Event /\ event[e] # NotYet
      BY <2>1 DEF TypeOK, Detector, PlaceInv
    <2>3. event[e].where \in Subjects /\ actor \in Wallets
      BY <2>1, <2>2 DEF Event, Subjects
    <2>4. /\ pick \in Pick /\ pick.type = "smart" /\ pick.actor = actor /\ pick.ref = e
          /\ pick.seen = Len(signals)
      BY <2>2, <2>3, PickIs DEF Types
    <2>5. Scan(p) = "smart"
      BY DEF SmartItem
    <2>6. \A i \in Rows : signals[i].actor = actor /\ signals[i].type = "smart"
             => ~(now - signals[i].created < ActorCooldown)
      BY <1>2 DEF Cooling, OfActor, Rows
    <2> HIDE DEF pick
    <2>7. Aim(p, pick)
      BY <2>2, <2>4, <2>5, <2>6 DEF Aim, Throttles, Span, Types
    <2> QED
      BY <1>2, <2>7, InsertIs DEF pick
  <1> QED
    BY <1>1, <1>2 DEF SmartItem

LEMMA WhaleIs ==
    ASSUME TypeOK, EventInv, NEW p \in Processes, NEW pool, PlaceInv(p), Active(p),
           WhaleItem(p, pool)
    PROVE  Skipped(p) \/ Aimed(p)
  <1>1. CASE Skip(p, pool)
    BY <1>1, SkipIs
  <1>2. ASSUME ~Cooling(OfPoolAndType(pool, "whale"), Cooldown),
               NEW e \in LargestOf(Whales(p, pool)),
               Insert(p, pool, SignalOn("whale", pool, Other, e))
        PROVE  Aimed(p)
    <2> DEFINE pick == SignalOn("whale", pool, Other, e)
    <2>1. e \in FreshLogs(det[p].at, pool) /\ e \notin det[p].fired
      BY <1>2 DEF LargestOf, Whales
    <2>2. e \in Events /\ event[e] \in Event /\ event[e].where = pool /\ event[e] # NotYet
          /\ event[e].at + Recent >= det[p].at
      BY <2>1 DEF FreshLogs, TypeOK
    <2>3. event[e].at <= now
      BY <2>2 DEF EventInv
    <2>4. pool \in Subjects
      BY <2>2 DEF Event, Subjects
    <2>5. /\ pick \in Pick /\ pick.type = "whale" /\ pick.where = pool /\ pick.ref = e
          /\ pick.seen = Len(signals)
      BY <2>2, <2>4, PickIs DEF Types
    <2>6. Scan(p) = "whale"
      BY DEF WhaleItem
    <2>7. \A i \in Rows : signals[i].where = pool /\ signals[i].type = "whale"
             => ~(now - signals[i].created < Cooldown)
      BY <1>2 DEF Cooling, OfPoolAndType, Rows
    <2> HIDE DEF pick
    <2>8. Aim(p, pick)
      BY <2>1, <2>2, <2>3, <2>5, <2>6, <2>7 DEF Aim, Throttles, Span, Types
    <2> QED
      BY <1>2, <2>8, InsertIs DEF pick
  <1> QED
    BY <1>1, <1>2 DEF WhaleItem

LEMMA LendingIs ==
    ASSUME TypeOK, NEW p \in Processes, NEW e \in det[p].todo, PlaceInv(p), Active(p),
           LendingItem(p, e)
    PROVE  Aimed(p)
  <1>1. Scan(p) = "lending" /\ e \in Events /\ event[e] \in Event /\ event[e] # NotYet
    BY DEF LendingItem, PlaceInv, TypeOK
  <1>2. PICK actor \in {event[e].actor, Other} : Insert(p, e, SignalOn("lending", Aave, actor, e))
    BY DEF LendingItem
  <1> DEFINE pick == SignalOn("lending", Aave, actor, e)
  <1>3. actor \in Wallets \cup {Other} /\ Aave \in Subjects
    BY <1>1 DEF Event, Subjects, Places
  <1>4. pick \in Pick /\ pick.type = "lending" /\ pick.where = Aave /\ pick.seen = Len(signals)
    BY <1>1, <1>3, PickIs DEF Types
  <1> HIDE DEF pick
  <1>5. Aim(p, pick)
    BY <1>1, <1>4 DEF Aim, Throttles, Types
  <1> QED
    BY <1>2, <1>5, InsertIs DEF pick

LEMMA DepegIs ==
    ASSUME TypeOK, NEW p \in Processes, NEW pool, PlaceInv(p), DepegItem(p, pool)
    PROVE  Skipped(p) \/ Aimed(p)
  <1>1. CASE Skip(p, pool)
    BY <1>1, SkipIs
  <1>2. ASSUME ~Cooling(OfPoolAndType(Dollar, "depeg"), DepegCooldown),
               Insert(p, pool, SignalOn("depeg", Dollar, Other, det[p].at \div Width))
        PROVE  Aimed(p)
    <2> DEFINE ref == det[p].at \div Width
               pick == SignalOn("depeg", Dollar, Other, ref)
    <2>1. det[p].at \in Times
      BY DEF TypeOK, Detector
    <2>2. ref \in Times
      BY <2>1, DetectorsAssumption DEF Times
    <2> HIDE DEF ref
    <2>3. pick \in Pick /\ pick.type = "depeg" /\ pick.where = Dollar /\ pick.seen = Len(signals)
      BY <2>2, PickIs DEF Types, Subjects
    <2>4. Scan(p) = "depeg"
      BY DEF DepegItem
    <2>5. \A i \in Rows : signals[i].where = Dollar /\ signals[i].type = "depeg"
             => ~(now - signals[i].created < DepegCooldown)
      BY <1>2 DEF Cooling, OfPoolAndType, Rows
    <2> HIDE DEF pick
    <2>6. Aim(p, pick)
      BY <2>3, <2>4, <2>5 DEF Aim, Throttles, Span, Types
    <2> QED
      BY <1>2, <2>6, InsertIs DEF pick, ref
  <1> QED
    BY <1>1, <1>2 DEF DepegItem

\* Of some rows one is the last: of the sets of rows after one of them one is minimal.
LEMMA LastRow ==
    ASSUME NEW S \in SUBSET Int, IsFiniteSet(S), S # {}
    PROVE  \E i \in S : \A j \in S : j <= i
  <1> DEFINE Above(i) == {j \in S : j > i}
             Family == {Above(i) : i \in S}
  <1>1. IsWellFoundedOn(StrictSubsetOrdering(S), SUBSET S)
    BY FS_StrictSubsetOrderingWellFounded, FS_FiniteSubsetsOfFinite
  <1>2. Family \subseteq SUBSET S /\ Family # {}
    OBVIOUS
  <1>3. PICK F \in Family : \A G \in Family : <<G, F>> \notin StrictSubsetOrdering(S)
    <2> HIDE DEF Family
    <2> QED
      BY <1>1, <1>2, WFMin
  <1>4. PICK i \in S : F = Above(i)
    BY <1>3
  <1>5. ASSUME NEW j \in S, j > i
        PROVE  FALSE
    <2>1. \A k \in S : k > j => k > i
      BY <1>5
    <2>2. Above(j) \subseteq Above(i) /\ j \in Above(i)
      BY <1>5, <2>1
    <2>3. j \notin Above(j)
      OBVIOUS
    <2>4. <<Above(j), F>> \in StrictSubsetOrdering(S)
      BY <1>4, <2>2, <2>3 DEF StrictSubsetOrdering
    <2> QED
      BY <1>3, <2>4
  <1> QED
    BY <1>5

\* An open aggregate is one of the actor's rows.
LEMMA OpenIs ==
    ASSUME TypeOK, NEW p \in Processes, NEW actor, OpenAggregates(p, actor) # {}
    PROVE  OpenAggregate(p, actor) \in OpenAggregates(p, actor)
  <1> DEFINE S == OpenAggregates(p, actor)
  <1>1. S \subseteq 1..Len(signals) /\ Len(signals) \in Nat
    BY DEF OpenAggregates, TypeOK
  <1>2. IsFiniteSet(S) /\ S \in SUBSET Int
    <2> HIDE DEF S
    <2>1. IsFiniteSet(1..Len(signals)) /\ 1..Len(signals) \subseteq Int
      BY <1>1, FS_Interval
    <2> QED
      BY <1>1, <2>1, FS_Subset
  <1> HIDE DEF S
  <1>3. \E i \in S : \A j \in S : j <= i
    BY <1>2, LastRow DEF S
  <1> QED
    BY <1>3 DEF OpenAggregate, S

\* What an item may choose to write back.
Folding(p) ==
    LET n == det'[p] IN
    /\ Moves(p) /\ Kept(p) /\ n.todo \subseteq det[p].todo
    /\ n.pc = "fold" /\ n.found = det[p].found /\ n.pick.type = "lst"
    /\ Scan(p) = "lst" /\ n.into \in Rows /\ signals[n.into].type = "lst"
    /\ \E e \in det[p].todo \ signals[n.into].refs :
          /\ e \in Events /\ n.pick.ref = e /\ n.pick.refs = signals[n.into].refs \cup {e}
          /\ n.pick.count = signals[n.into].count + 1

LEMMA LstIs ==
    ASSUME TypeOK, NEW p \in Processes, NEW e \in det[p].todo, PlaceInv(p), Active(p),
           LstItem(p, e)
    PROVE  Skipped(p) \/ Aimed(p) \/ Folding(p)
  <1>1. Scan(p) = "lst" /\ e \in Events /\ event[e] \in Event /\ event[e] # NotYet
    BY DEF LstItem, PlaceInv, TypeOK
  <1>2. PICK actor \in {event[e].actor, Other} :
           IF OpenAggregates(p, actor) = {}
           THEN Insert(p, e, SignalOn("lst", Token, actor, e))
           ELSE LET i == OpenAggregate(p, actor) IN
                  IF e \in signals[i].refs THEN Skip(p, e) ELSE Fold(p, e, i, actor)
    BY DEF LstItem
  <1> DEFINE pick == SignalOn("lst", Token, actor, e)
  <1>3. actor \in Wallets \cup {Other} /\ Token \in Subjects
    BY <1>1 DEF Event, Subjects, Places
  <1>4. /\ pick \in Pick /\ pick.type = "lst" /\ pick.where = Token /\ pick.ref = e
        /\ pick.refs = {e} /\ pick.count = 1 /\ pick.seen = Len(signals)
    BY <1>1, <1>3, PickIs DEF Types
  <1>5. CASE OpenAggregates(p, actor) = {}
    <2> HIDE DEF pick
    <2>1. Aim(p, pick)
      BY <1>1, <1>4 DEF Aim, Throttles, Types
    <2>2. Insert(p, e, pick)
      BY <1>2, <1>5 DEF pick
    <2> QED
      BY <2>1, <2>2, InsertIs
  <1>6. CASE OpenAggregates(p, actor) # {}
    <2> DEFINE i == OpenAggregate(p, actor)
    <2>1. i \in Rows /\ signals[i] \in Signal /\ signals[i].type = "lst"
      <3>1. i \in OpenAggregates(p, actor)
        BY <1>6, OpenIs
      <3> HIDE DEF i
      <3>2. i \in Rows /\ signals[i].type = "lst"
        BY <3>1 DEF OpenAggregates, Rows
      <3> QED
        BY <3>2 DEF TypeOK, Rows
    <2>2. CASE e \in signals[i].refs
      BY <1>2, <1>6, <2>2, SkipIs
    <2>3. CASE e \notin signals[i].refs
      <3> DEFINE d == det[p]
                 refs == signals[i].refs \cup {e}
                 count == signals[i].count + 1
                 full == [pick EXCEPT !.refs = refs, !.count = count]
                 n == [d EXCEPT !.todo = @ \ {e}, !.pc = "fold", !.into = i, !.pick = full]
      <3>1. det' = [det EXCEPT ![p] = n]
        BY <1>2, <1>6, <2>3 DEF Fold
      <3>2. refs \in SUBSET Events /\ count \in Nat
        BY <1>1, <2>1 DEF Signal
      <3> HIDE DEF pick, i
      <3>3. full \in Pick /\ full.type = "lst" /\ full.ref = e /\ full.refs = refs /\ full.count = count
        <4>1. pick # NoPick
          BY <1>4 DEF NoPick
        <4> HIDE DEF refs, count
        <4> QED
          BY <1>4, <3>2, <4>1 DEF Pick
      <3> HIDE DEF full
      <3>4. d \in Detector /\ i \in Nat
        BY <2>1 DEF TypeOK, Rows
      <3>5. /\ n \in Detector /\ n.todo = d.todo \ {e} /\ n.pc = "fold" /\ n.pick = full
            /\ n.into = i /\ n.scan = d.scan /\ n.at = d.at /\ n.round = d.round
            /\ n.out = d.out /\ n.fired = d.fired /\ n.found = d.found
        BY <3>3, <3>4 DEF Detector, Pc
      <3> HIDE DEF n
      <3>6. Moves(p) /\ Kept(p) /\ det'[p] = n
        BY <3>1, <3>5 DEF TypeOK, Moves, Kept
      <3> QED
        BY <1>1, <2>1, <2>3, <3>3, <3>5, <3>6 DEF Folding
    <2> QED
      BY <2>2, <2>3
  <1> QED
    BY <1>5, <1>6

\* A step of a process that changes no signal.
Works(p) ==
    /\ Active(p) /\ Moves(p) /\ Kept(p)
    /\ UNCHANGED <<now, event, signals, handed, dropped, due>>
    /\ ledger' \in SUBSET Events /\ faults' \in 0..MaxFaults /\ faults' >= faults
    /\ \A e \in det'[p].found : event[e] # NotYet
    /\ det'[p].todo \subseteq det[p].todo \/ Scan(p) = "smart"
    /\ \/ det'[p].pc = "item"
       \/ det'[p].pc = "ledger" /\ det[p].pc = "ledger"
       \/ det'[p].pc = "insert" /\ Aim(p, det'[p].pick)
       \/ Folding(p)

LEMMA LedgerIs ==
    ASSUME TypeOK, NEW p \in Processes, PlaceInv(p), LedgerCandidates(p)
    PROVE  Works(p)
  <1> DEFINE d == det[p]
  <1>1. PICK pool \in d.todo, unresolved \in SUBSET Events :
          LET candidates == {e \in FreshLogs(d.at, pool) : event[e].kind # "offpeg"}
              found == candidates \ unresolved
              all == d.found \cup found
              rest == d.todo \ {pool}
          IN
          /\ unresolved # {} => faults < MaxFaults
          /\ faults' = faults + IF unresolved = {} THEN 0 ELSE 1
          /\ ledger' = ledger \cup found
          /\ det' = [det EXCEPT ![p] =
                IF rest # {} THEN [@ EXCEPT !.todo = rest, !.found = all]
                ELSE [@ EXCEPT !.pc = "item", !.found = all, !.todo = {event[e].actor : e \in all}]]
    BY DEF LedgerCandidates
  <1> DEFINE found == {e \in FreshLogs(d.at, pool) : event[e].kind # "offpeg"} \ unresolved
             all == d.found \cup found
             rest == d.todo \ {pool}
             actors == {event[e].actor : e \in all}
             more == [d EXCEPT !.todo = rest, !.found = all]
             last == [d EXCEPT !.pc = "item", !.found = all, !.todo = actors]
  <1>2. d \in Detector /\ d.pc = "ledger" /\ Scan(p) = "smart"
    BY DEF TypeOK, LedgerCandidates, At, PlaceInv
  <1>3. all \in SUBSET Events /\ \A e \in all : event[e] # NotYet
    BY <1>2 DEF FreshLogs, Detector, PlaceInv
  <1>4. actors \subseteq Wallets
    <2> HIDE DEF all
    <2>1. \A e \in all : event[e] \in Event /\ event[e] # NotYet
      BY <1>3 DEF TypeOK
    <2> QED
      BY <2>1 DEF Event
  <1>5. faults' \in 0..MaxFaults /\ faults' >= faults
    BY <1>1, DetectorsAssumption DEF TypeOK
  <1>6. ledger' \in SUBSET Events
    BY <1>1, <1>3 DEF TypeOK
  <1>7. det' = [det EXCEPT ![p] = IF rest # {} THEN more ELSE last]
    BY <1>1
  <1> HIDE DEF all, actors, rest
  <1>8. rest \subseteq d.todo
    BY DEF rest
  <1>9. /\ more \in Detector /\ last \in Detector
        /\ more.scan = d.scan /\ more.at = d.at /\ more.round = d.round /\ more.out = d.out
        /\ more.fired = d.fired /\ more.pc = d.pc /\ more.found = all
        /\ last.scan = d.scan /\ last.at = d.at /\ last.round = d.round /\ last.out = d.out
        /\ last.fired = d.fired /\ last.pc = "item" /\ last.found = all
    BY <1>2, <1>3, <1>4, <1>8 DEF Detector, Pc
  <1> HIDE DEF more, last
  <1>10. /\ Moves(p) /\ Kept(p) /\ det'[p].found = all
         /\ det'[p].pc = "item" \/ (det'[p].pc = "ledger" /\ det[p].pc = "ledger")
    <2>1. det'[p] \in {more, last} /\ det'[p] \in Detector
      BY <1>7, <1>9 DEF TypeOK
    <2>2. Moves(p)
      BY <1>7, <1>9 DEF TypeOK, Moves
    <2> QED
      BY <1>2, <1>9, <2>1, <2>2 DEF Kept
  <1>11. UNCHANGED <<now, event, signals, handed, dropped, due>> /\ Active(p)
    BY <1>2 DEF LedgerCandidates, Active
  <1> QED
    BY <1>2, <1>3, <1>5, <1>6, <1>10, <1>11 DEF Works

LEMMA ItemIs ==
    ASSUME TypeOK, EventInv, NEW p \in Processes, PlaceInv(p), Item(p)
    PROVE  Works(p)
  <1>1. Active(p) /\ det[p].pc = "item" /\ UNCHANGED <<now, event, signals, handed, dropped, due>>
    BY DEF Item, At, Active
  <1>2. PICK item \in det[p].todo :
          \/ FlowItem(p, item) \/ SmartItem(p, item) \/ WhaleItem(p, item)
          \/ LendingItem(p, item) \/ LstItem(p, item) \/ DepegItem(p, item)
    BY DEF Item
  <1>3. Skipped(p) \/ Aimed(p) \/ Folding(p)
    BY <1>1, <1>2, FlowIs, SmartIs, WhaleIs, LendingIs, LstIs, DepegIs
  <1>4. ledger' = ledger
    BY <1>2 DEF FlowItem, SmartItem, WhaleItem, LendingItem, LstItem, DepegItem
  <1>5. faults' \in 0..MaxFaults /\ faults' >= faults
    <2>1. faults' = faults \/ (faults < MaxFaults /\ faults' = faults + 1)
      <3>1. CASE FlowItem(p, item) \/ SmartItem(p, item) \/ WhaleItem(p, item) \/ DepegItem(p, item)
        BY <3>1 DEF FlowItem, SmartItem, WhaleItem, DepegItem
      <3>2. CASE LendingItem(p, item)
        BY <3>2 DEF LendingItem, TypeOK
      <3>3. CASE LstItem(p, item)
        BY <3>3 DEF LstItem, TypeOK
      <3> QED
        BY <1>2, <3>1, <3>2, <3>3
    <2> QED
      BY <2>1, DetectorsAssumption DEF TypeOK
  <1> QED
    <2>1. \A e \in det[p].found : event[e] # NotYet
      BY DEF PlaceInv
    <2>2. Moves(p) /\ Kept(p) /\ det'[p].found = det[p].found /\ det'[p].todo \subseteq det[p].todo
      BY <1>3 DEF Skipped, Aimed, Folding
    <2>3. det'[p].pc = "item" \/ (det'[p].pc = "insert" /\ Aim(p, det'[p].pick)) \/ Folding(p)
      BY <1>1, <1>3 DEF Skipped, Aimed
    <2> QED
      BY <1>1, <1>4, <1>5, <2>1, <2>2, <2>3 DEF Works, TypeOK

\* A key that is there.
LEMMA ConflictIs ==
    ASSUME TypeOK, NEW p \in Processes, PlaceInv(p), InsertSignal(p), Recorded(det[p].pick) # {}
    PROVE  Works(p)
  <1> DEFINE d == det[p]
             n == Conflict(d)
  <1>1. /\ det' = [det EXCEPT ![p] = n] /\ d \in Detector /\ Active(p)
        /\ UNCHANGED <<now, event, ledger, signals, handed, dropped, due, faults>>
    BY DEF InsertSignal, TypeOK, At, Active
  <1>2. /\ n \in Detector /\ n.pc = "item" /\ n.scan = d.scan /\ n.at = d.at /\ n.round = d.round
        /\ n.out = d.out /\ n.fired = d.fired /\ n.found = d.found /\ n.todo = d.todo
    BY <1>1 DEF Conflict, Detector, Pc, Pick
  <1> HIDE DEF n
  <1>3. Moves(p) /\ Kept(p) /\ det'[p] = n
    BY <1>1, <1>2 DEF TypeOK, Moves, Kept
  <1> QED
    BY <1>1, <1>2, <1>3 DEF Works, TypeOK, PlaceInv

\* A new row, the last one.
Adds(p) ==
    LET d == det[p]
        n == det'[p]
        id == Len(signals) + 1
    IN
    /\ d.pc = "insert" /\ Recorded(d.pick) = {}
    /\ UNCHANGED <<now, event, ledger, dropped, due, faults>>
    /\ id \notin Rows /\ Rows' = Rows \cup {id}
    /\ \A i \in Rows : signals'[i] = signals[i] /\ handed'[i] = handed[i]
    /\ signals' \in Seq(Signal) /\ handed' \in [Rows' -> Nat] /\ handed'[id] = 0
    /\ signals'[id].type = d.pick.type /\ signals'[id].where = d.pick.where
    /\ signals'[id].actor = d.pick.actor /\ signals'[id].ref = d.pick.ref
    /\ signals'[id].refs = d.pick.refs /\ signals'[id].count = d.pick.count
    /\ signals'[id].created = now /\ signals'[id].round = d.round /\ signals'[id].by = p
    /\ signals'[id].raced = Raced(d.pick)
    /\ Moves(p) /\ n.pc = "item" /\ n.scan = d.scan /\ n.at = d.at /\ n.round = d.round
    /\ n.todo = d.todo /\ n.found = d.found /\ n.out = d.out \cup {id}
    /\ n.fired = d.fired \cup IF d.pick.type = "smart" THEN {d.pick.ref} ELSE {}

LEMMA AddsIs ==
    ASSUME TypeOK, NEW p \in Processes, PlaceInv(p), AimInv(p), InsertSignal(p),
           Recorded(det[p].pick) = {}
    PROVE  Adds(p)
  <1> DEFINE d == det[p]
             id == Len(signals) + 1
             s == [type |-> d.pick.type, where |-> d.pick.where, actor |-> d.pick.actor,
                   ref |-> d.pick.ref, created |-> now, refs |-> d.pick.refs,
                   count |-> d.pick.count, raced |-> Raced(d.pick), round |-> d.round, by |-> p]
             n == [d EXCEPT !.pc = "item", !.pick = NoPick, !.out = @ \cup {id},
                            !.fired = @ \cup IF d.pick.type = "smart" THEN {d.pick.ref} ELSE {}]
  <1>1. /\ d.pc = "insert" /\ UNCHANGED <<now, event, ledger, dropped, due, faults>>
        /\ signals' = Append(signals, s) /\ det' = [det EXCEPT ![p] = n]
        /\ handed' = [i \in 1..id |-> IF i = id THEN 0 ELSE handed[i]]
    BY DEF InsertSignal, At
  <1>2. /\ d \in Detector /\ now \in Times /\ d.pick.type = Scan(p) /\ Scan(p) \in Types
        /\ d.scan \in 1..6
    BY <1>1, ScansAre DEF TypeOK, PlaceInv, Detector, Scan
  <1>3. /\ d.pick \in [type : Types, where : Subjects, actor : Wallets \cup {Other},
                         ref : Events \cup Times, refs : SUBSET Events, count : Nat, seen : Nat]
        /\ d.round \in Times /\ Raced(d.pick) \in SUBSET Nat
    <2>1. d.pick \in Pick /\ d.pick.type # "none" /\ d.round \in Times
      BY <1>1, <1>2 DEF Detector, Types, PlaceInv, Active
    <2>2. Raced(d.pick) \in SUBSET Nat
      BY DEF Raced, TypeOK
    <2> QED
      BY <2>1, <2>2 DEF Pick, NoPick
  <1>4. /\ s \in Signal /\ s.type = d.pick.type /\ s.where = d.pick.where
        /\ s.actor = d.pick.actor /\ s.ref = d.pick.ref /\ s.refs = d.pick.refs
        /\ s.count = d.pick.count /\ s.created = now /\ s.round = d.round /\ s.by = p
        /\ s.raced = Raced(d.pick)
    BY <1>2, <1>3 DEF Signal
  <1> HIDE DEF s
  <1>5. /\ Len(signals) \in Nat /\ Rows = 1..Len(signals) /\ signals \in Seq(Signal)
        /\ handed \in [Rows -> Nat]
    BY DEF TypeOK, Rows
  <1>6. /\ signals' \in Seq(Signal) /\ Rows' = 1..id
        /\ signals'[id] = s /\ \A i \in Rows : signals'[i] = signals[i]
    BY <1>1, <1>4, <1>5 DEF Rows
  <1>7. id \notin Rows /\ Rows' = Rows \cup {id}
    BY <1>5, <1>6
  <1>8. handed' \in [Rows' -> Nat] /\ handed'[id] = 0 /\ \A i \in Rows : handed'[i] = handed[i]
    <2> HIDE DEF id
    <2>1. handed' = [i \in Rows' |-> IF i = id THEN 0 ELSE handed[i]]
      BY <1>1, <1>6
    <2> QED
      BY <1>5, <1>7, <2>1
  <1>9. /\ n \in Detector /\ n.pc = "item" /\ n.scan = d.scan /\ n.at = d.at
        /\ n.round = d.round /\ n.todo = d.todo /\ n.found = d.found /\ n.out = d.out \cup {id}
        /\ n.fired = d.fired \cup IF d.pick.type = "smart" THEN {d.pick.ref} ELSE {}
    <2>1. d.pick.type = "smart" => d.pick.ref \in Events
      BY <1>1 DEF AimInv
    <2>2. id \in Nat
      BY <1>5
    <2> HIDE DEF id
    <2> QED
      BY <1>2, <2>1, <2>2 DEF Detector, Pc, Pick
  <1> HIDE DEF n
  <1>10. Moves(p) /\ det'[p] = n
    BY <1>1, <1>9 DEF TypeOK, Moves
  <1> QED
    BY <1>1, <1>4, <1>6, <1>7, <1>8, <1>9, <1>10 DEF Adds

\* An aggregate is written back.
Folds(p) ==
    LET d == det[p]
        n == det'[p]
    IN
    /\ d.pc = "fold" /\ d.into \in Rows
    /\ UNCHANGED <<now, event, ledger, handed, dropped, faults>>
    /\ due' = [q \in Processes |-> due[q] \ (signals[d.into].refs \ d.pick.refs)]
    /\ Rows' = Rows /\ signals' \in Seq(Signal) /\ Len(signals') = Len(signals)
    /\ \A i \in Rows \ {d.into} : signals'[i] = signals[i]
    /\ LET s == signals'[d.into] IN
       /\ s.type = signals[d.into].type /\ s.where = signals[d.into].where
       /\ s.actor = signals[d.into].actor /\ s.ref = signals[d.into].ref
       /\ s.created = signals[d.into].created /\ s.round = signals[d.into].round
       /\ s.by = signals[d.into].by /\ s.raced = signals[d.into].raced
       /\ s.refs = d.pick.refs /\ s.count = d.pick.count
    /\ Moves(p) /\ Kept(p) /\ n.pc = "item" /\ n.todo = d.todo /\ n.found = d.found

LEMMA FoldsIs ==
    ASSUME TypeOK, NEW p \in Processes, FoldInv(p), FoldIntoAggregate(p)
    PROVE  Folds(p)
  <1> DEFINE d == det[p]
             b == signals[d.into]
             s == [b EXCEPT !.refs = d.pick.refs, !.count = d.pick.count]
             n == [d EXCEPT !.pc = "item", !.pick = NoPick, !.into = 0]
  <1>1. /\ d.pc = "fold" /\ UNCHANGED <<now, event, ledger, handed, dropped, faults>>
        /\ due' = [q \in Processes |-> due[q] \ (b.refs \ d.pick.refs)]
        /\ signals' = [signals EXCEPT ![d.into] = s] /\ det' = [det EXCEPT ![p] = n]
    BY DEF FoldIntoAggregate, At
  <1>2. /\ d \in Detector /\ d.into \in Rows /\ signals \in Seq(Signal) /\ b \in Signal
        /\ d.pick.refs \in SUBSET Events /\ d.pick.count \in Nat
    <2>1. d.pick \in Pick /\ d.pick.type = "lst"
      BY <1>1 DEF TypeOK, FoldInv, Detector
    <2>2. d.pick.refs \in SUBSET Events /\ d.pick.count \in Nat
      BY <2>1 DEF Pick, NoPick
    <2> QED
      BY <1>1, <2>2 DEF TypeOK, FoldInv, Rows
  <1>3. /\ s \in Signal /\ s.type = b.type /\ s.where = b.where /\ s.actor = b.actor
        /\ s.ref = b.ref /\ s.created = b.created /\ s.round = b.round /\ s.by = b.by
        /\ s.raced = b.raced
        /\ s.refs = d.pick.refs /\ s.count = d.pick.count
    BY <1>2 DEF Signal
  <1> HIDE DEF s
  <1>4. /\ signals' \in Seq(Signal) /\ Rows' = Rows /\ signals'[d.into] = s
        /\ Len(signals') = Len(signals)
        /\ \A i \in Rows \ {d.into} : signals'[i] = signals[i]
    BY <1>1, <1>2, <1>3 DEF Rows
  <1>5. /\ n \in Detector /\ n.pc = "item" /\ n.scan = d.scan /\ n.at = d.at
        /\ n.round = d.round /\ n.todo = d.todo /\ n.found = d.found /\ n.out = d.out
        /\ n.fired = d.fired
    BY <1>2 DEF Detector, Pc, Pick
  <1> HIDE DEF n
  <1>6. Moves(p) /\ Kept(p) /\ det'[p] = n
    BY <1>1, <1>5 DEF TypeOK, Moves, Kept
  <1> QED
    BY <1>1, <1>2, <1>3, <1>4, <1>5, <1>6 DEF Folds

\* What a scan that ends or fails does to the signals it inserted.
Hands(p) ==
    /\ handed' \in [Rows -> Nat] /\ dropped' \in SUBSET Rows /\ faults' \in 0..MaxFaults
    /\ \A i \in Rows \ det[p].out : handed'[i] = handed[i] /\ (i \in dropped' <=> i \in dropped)
    /\ \A i \in Rows \cap det[p].out :
          \/ handed'[i] = handed[i] + 1 /\ (i \in dropped' <=> i \in dropped)
          \/ handed'[i] = handed[i] /\ i \in dropped'

LEMMA HandsIs ==
    ASSUME TypeOK, NEW p \in Processes, PlaceInv(p), OutInv(p),
           StartRound(p) \/ EndScan(p) \/ ScanFails(p) \/ (p = Loop /\ Restart)
    PROVE  Hands(p)
  <1> DEFINE out == det[p].out
  <1>1. out \subseteq Rows /\ handed \in [Rows -> Nat] /\ dropped \in SUBSET Rows
    BY DEF OutInv, TypeOK, Rows
  <1> HIDE DEF out
  <1>2. CASE StartRound(p)
    <2>1. out = {} /\ UNCHANGED <<handed, dropped, faults>>
      BY <1>2 DEF StartRound, At, PlaceInv, Active, out
    <2> QED
      BY <1>1, <2>1 DEF Hands, out, TypeOK
  <1>3. CASE EndScan(p)
    <2>1. /\ handed' = [i \in DOMAIN handed |-> handed[i] + IF i \in out THEN 1 ELSE 0]
          /\ UNCHANGED <<dropped, faults>>
      BY <1>3 DEF EndScan, out
    <2>2. handed' \in [Rows -> Nat]
      BY <1>1, <2>1
    <2>3. \A i \in Rows \ out : handed'[i] = handed[i]
      BY <1>1, <2>1
    <2>4. \A i \in Rows \cap out : handed'[i] = handed[i] + 1
      BY <1>1, <2>1
    <2> QED
      BY <1>1, <2>1, <2>2, <2>3, <2>4 DEF Hands, out, TypeOK
  <1>4. CASE ScanFails(p) \/ (p = Loop /\ Restart)
    <2>1. handed' = handed /\ dropped' = dropped \cup out /\ faults' = faults + 1 /\ faults < MaxFaults
      BY <1>4 DEF ScanFails, Restart, out
    <2>2. faults' \in 0..MaxFaults
      BY <2>1, DetectorsAssumption DEF TypeOK
    <2> QED
      BY <1>1, <2>1, <2>2 DEF Hands, out
  <1> QED
    BY <1>2, <1>3, <1>4

\* There is nothing else a step can be.
LEMMA StepsAre ==
    ASSUME TypeOK, EventInv, \A p \in Processes : ProcInv(p), [Next]_vars
    PROVE  \/ UNCHANGED vars \/ Tick \/ \E e \in Events : Arrive(e)
           \/ \E p \in Processes : Turns(p) /\ Hands(p)
           \/ \E p \in Processes : Works(p) \/ Adds(p) \/ Folds(p)
  <1>1. CASE Restart
    <2>1. Loop \in Processes
      BY DEF Processes
    <2> QED
      BY <1>1, <2>1, TurnsAre, HandsIs DEF ProcInv
  <1>2. ASSUME NEW p \in Processes, StartRound(p) \/ EndScan(p) \/ ScanFails(p)
        PROVE  Turns(p) /\ Hands(p)
    BY <1>2, TurnsAre, HandsIs DEF ProcInv
  <1>3. ASSUME NEW p \in Processes, LedgerCandidates(p) \/ Item(p)
        PROVE  Works(p)
    BY <1>3, LedgerIs, ItemIs DEF ProcInv
  <1>4. ASSUME NEW p \in Processes, InsertSignal(p)
        PROVE  Works(p) \/ Adds(p)
    BY <1>4, ConflictIs, AddsIs DEF ProcInv
  <1>5. ASSUME NEW p \in Processes, FoldIntoAggregate(p)
        PROVE  Folds(p)
    BY <1>5, FoldsIs DEF ProcInv
  <1> QED
    BY <1>1, <1>2, <1>3, <1>4, <1>5 DEF Next, Step

-----------------------------------------------------------------------------
(* What a step of one process is to the others.                            *)

\* A row stays what it was, but for what an aggregate counts.
Same(i) ==
    /\ i \in Rows'
    /\ signals'[i].type = signals[i].type /\ signals'[i].where = signals[i].where
    /\ signals'[i].actor = signals[i].actor /\ signals'[i].ref = signals[i].ref
    /\ signals'[i].created = signals[i].created /\ signals'[i].round = signals[i].round
    /\ signals'[i].by = signals[i].by /\ signals'[i].raced = signals[i].raced

Touches(p) ==
    /\ UNCHANGED <<now, event>> /\ Moves(p)
    /\ \A i \in Rows : Same(i)
    /\ \A i \in Rows' \ Rows : /\ signals'[i].created = now /\ signals'[i].by = p
                               /\ i > Len(signals)
    /\ Len(signals') >= Len(signals)

LEMMA TouchesIs ==
    ASSUME TypeOK, NEW p \in Processes, Turns(p) \/ Works(p) \/ Adds(p) \/ Folds(p)
    PROVE  Touches(p)
  <1>0. Len(signals) \in Nat
    BY DEF TypeOK
  <1>1. CASE Turns(p)
    <2>1. Moves(p)
      <3> DEFINE n == det'[p]
      <3>1. det' = [det EXCEPT ![p] = n] /\ n \in Detector
        BY <1>1 DEF Turns, Turn
      <3> HIDE DEF n
      <3> QED
        BY <3>1 DEF Moves, TypeOK
    <2> QED
      BY <1>0, <1>1, <2>1 DEF Turns, Touches, Same, Rows, tables
  <1>2. CASE Works(p)
    BY <1>0, <1>2 DEF Works, Touches, Same, Rows
  <1>3. CASE Adds(p)
    <2> DEFINE id == Len(signals) + 1
    <2>1. /\ Rows' = Rows \cup {id} /\ \A i \in Rows : signals'[i] = signals[i]
          /\ signals'[id].created = now /\ signals'[id].by = p
          /\ Moves(p) /\ UNCHANGED <<now, event>>
      BY <1>3 DEF Adds
    <2>3. Len(signals') = id /\ id > Len(signals)
      <3>1. signals' \in Seq(Signal)
        BY <1>3 DEF Adds
      <3>2. Rows' = 1..Len(signals') /\ Len(signals') \in Nat /\ Rows = 1..Len(signals)
        BY <3>1 DEF Rows, TypeOK
      <3> QED
        BY <1>0, <2>1, <3>2
    <2> HIDE DEF id
    <2>2. \A i \in Rows : Same(i)
      BY <2>1 DEF Same
    <2> QED
      BY <1>0, <2>1, <2>2, <2>3 DEF Touches
  <1>4. CASE Folds(p)
    <2>1. /\ Rows' = Rows /\ \A i \in Rows \ {det[p].into} : signals'[i] = signals[i]
          /\ Moves(p) /\ UNCHANGED <<now, event>> /\ Len(signals') = Len(signals)
      BY <1>4 DEF Folds
    <2>2. Same(det[p].into)
      BY <1>4 DEF Folds, Same
    <2>3. \A i \in Rows : Same(i)
      BY <2>1, <2>2 DEF Same
    <2> QED
      BY <1>0, <2>1, <2>3 DEF Touches
  <1> QED
    BY <1>1, <1>2, <1>3, <1>4

LEMMA OthersKeep ==
    ASSUME TypeOK, TypeOK', NEW p \in Processes, NEW q \in Processes, q # p, ProcInv(q), Touches(p)
    PROVE  /\ PlaceInv(q)' /\ OwnInv(q)' /\ FiredInv(q)'
           /\ CoolInv(q)' /\ AimInv(q)' /\ FoldInv(q)'
  <1>1. /\ det'[q] = det[q] /\ UNCHANGED <<now, event>> /\ (\A i \in Rows : Same(i))
        /\ \A i \in Rows' \ Rows : /\ signals'[i].created = now /\ signals'[i].by = p
                                   /\ i > Len(signals)
        /\ Len(signals') >= Len(signals)
    BY DEF Touches, Moves
  <1>2. PlaceInv(q)'
    BY <1>1 DEF ProcInv, PlaceInv, Active, Scan
  <1>3. OwnInv(q)'
    BY <1>1 DEF ProcInv, OwnInv, Active, Same
  <1>4. FiredInv(q)'
    BY <1>1 DEF ProcInv, FiredInv, Same
  <1>5. CoolInv(q)'
    <2> DEFINE pick == det[q].pick
    <2>1. SUFFICES ASSUME det[q].pc = "insert"
          PROVE  /\ pick.seen <= Len(signals')
                 /\ \A i \in Rows' :
                       /\ i > pick.seen => signals'[i].by # q
                       /\ i <= pick.seen /\ Throttles(signals'[i], pick) =>
                             ~(now - signals'[i].created < Span(pick.type))
      BY <1>1 DEF CoolInv
    <2>2. pick.seen \in Nat /\ pick.seen <= Len(signals) /\ Len(signals) \in Nat
      <3>1. pick \in Pick /\ pick.type # "none"
        BY <2>1, ScansAre DEF TypeOK, Detector, ProcInv, PlaceInv, Scan, Types
      <3> QED
        BY <2>1, <3>1 DEF TypeOK, ProcInv, CoolInv, Pick, NoPick
    <2>3. Rows' \subseteq Nat /\ Len(signals') \in Nat
      BY DEF Rows, TypeOK
    <2>4. ASSUME NEW i \in Rows
          PROVE  /\ i > pick.seen => signals'[i].by # q
                 /\ i <= pick.seen /\ Throttles(signals'[i], pick) =>
                       ~(now - signals'[i].created < Span(pick.type))
      <3>1. Same(i)
        BY <1>1
      <3>2. Throttles(signals'[i], pick) <=> Throttles(signals[i], pick)
        BY <3>1 DEF Throttles, Same
      <3> QED
        BY <2>1, <3>1, <3>2 DEF ProcInv, CoolInv, Same
    <2>5. ASSUME NEW i \in Rows' \ Rows
          PROVE  ~(i <= pick.seen) /\ signals'[i].by # q
      BY <1>1, <2>2, <2>3
    <2> QED
      BY <1>1, <2>2, <2>3, <2>4, <2>5
  <1>6. AimInv(q)'
    BY <1>1 DEF ProcInv, AimInv
  <1>7. FoldInv(q)'
    BY <1>1 DEF ProcInv, FoldInv, Same
  <1> QED
    BY <1>2, <1>3, <1>4, <1>5, <1>6, <1>7

-----------------------------------------------------------------------------
(* What it is to the process itself.                                       *)

LEMMA TurnKeeps ==
    ASSUME TypeOK, NEW p \in Processes, ProcInv(p), Turns(p)
    PROVE  ProcInv(p)'
  <1> DEFINE d == det[p]
             n == det'[p]
  <1>1. /\ n \in Detector /\ Turned(p, n) /\ n.out = {} /\ n.found = {}
        /\ UNCHANGED <<now, event, signals>> /\ Rows' = Rows
    BY DEF Turns, tables, Rows
  <1>2. d \in Detector /\ now \in Int /\ d.round \in Int /\ d.round <= now
    BY DEF TypeOK, Detector, ProcInv, PlaceInv, Times
  <1>3. Active(p) => d.round \in Times /\ d.scan \in Int
    BY <1>2, ScansAre DEF ProcInv, PlaceInv, Detector
  <1>4. n.pc \in {"item", "ledger", "idle", "done"}
    BY <1>1 DEF Turned
  <1>5. PlaceInv(p)'
    <2>1. CASE n.pc \in {"item", "ledger"}
      <3>1. /\ n.pc = IF n.scan = 2 THEN "ledger" ELSE "item"
            /\ n.scan \in 1..6 /\ n.todo = Listed(Scans[n.scan]) /\ n.at = now
            /\ n.round \in Times /\ n.round <= now
        BY <1>1, <1>2, <2>1 DEF Turned
      <3>2. Scans[n.scan] \in {"lending", "lst"} =>
               \A e \in n.todo : /\ e \in Events /\ event[e] # NotYet
                                 /\ event[e].where = IF Scans[n.scan] = "lst" THEN Token ELSE Aave
        BY <3>1 DEF Listed, FreshLogs
      <3>3. n.pc = "ledger" => Scans[n.scan] = "smart"
        BY <3>1, ScansAre
      <3> QED
        BY <1>1, <1>2, <2>1, <3>1, <3>2, <3>3 DEF PlaceInv, Active, Scan
    <2>2. CASE n.pc \in {"idle", "done"}
      <3>1. n.round = -1 \/ n.round = d.round
        BY <1>1, <2>2 DEF Turned
      <3>2. n.round <= now
        BY <1>2, <3>1 DEF TypeOK, Times
      <3>3. p = Loop => n.pc # "done"
        BY <1>1, <2>2 DEF Turned
      <3> QED
        BY <1>1, <2>2, <3>2, <3>3 DEF PlaceInv, Active
    <2> QED
      BY <1>4, <2>1, <2>2
  <1>6. OwnInv(p)'
    <2>1. SUFFICES ASSUME NEW i \in Rows, signals[i].by = p, n.pc # "done"
          PROVE  /\ signals[i].round <= n.round
                 /\ n.pc \notin {"idle", "done"} /\ signals[i].round = n.round =>
                       /\ signals[i].type = "smart" =>
                             n.scan >= 2 /\ (n.scan <= 3 => signals[i].ref \in n.fired)
                       /\ signals[i].type = "whale" => n.scan >= 3
      BY <1>1, <1>4 DEF OwnInv, Active
    <2>2. d.pc # "done"
      BY <1>1, <2>1 DEF Turned, Active
    <2>3. /\ signals[i].round <= d.round
          /\ Active(p) /\ signals[i].round = d.round =>
                /\ signals[i].type = "smart" =>
                      d.scan >= 2 /\ (d.scan <= 3 => signals[i].ref \in d.fired)
                /\ signals[i].type = "whale" => d.scan >= 3
      BY <2>1, <2>2 DEF ProcInv, OwnInv
    <2>4. signals[i].round \in Int
      <3>1. signals[i] \in Signal
        BY DEF TypeOK, Rows
      <3> QED
        BY <3>1 DEF Signal, Times
    <2>5. CASE n.pc = "idle"
      BY <1>1, <2>3, <2>5 DEF Turned
    <2>6. CASE n.pc # "idle" /\ d.pc = "idle"
      <3>1. d.round < n.round /\ n.round \in Int
        BY <1>1, <2>1, <2>6 DEF Turned, Active, Times
      <3> QED
        BY <1>2, <2>3, <2>4, <3>1
    <2>7. CASE n.pc # "idle" /\ d.pc # "idle"
      <3>1. /\ n.round = d.round /\ n.scan = d.scan + 1 /\ Active(p)
            /\ n.fired = IF n.scan = 3 THEN d.fired ELSE {}
        BY <1>1, <2>1, <2>7 DEF Turned
      <3> QED
        BY <1>3, <2>3, <3>1
    <2> QED
      BY <2>5, <2>6, <2>7
  <1>7. FiredInv(p)'
    <2>1. n.fired \subseteq d.fired
      BY <1>1 DEF Turned
    <2> QED
      BY <1>1, <2>1 DEF ProcInv, FiredInv
  <1>8. OutInv(p)' /\ CoolInv(p)' /\ AimInv(p)' /\ FoldInv(p)'
    BY <1>1, <1>4 DEF OutInv, CoolInv, AimInv, FoldInv
  <1> QED
    BY <1>5, <1>6, <1>7, <1>8 DEF ProcInv

LEMMA WorksKeep ==
    ASSUME TypeOK, NEW p \in Processes, ProcInv(p), \A i \in Rows : RowInv(i), Works(p)
    PROVE  ProcInv(p)'
  <1> DEFINE d == det[p]
             n == det'[p]
  <1>1. /\ Active(p) /\ n.scan = d.scan /\ n.at = d.at /\ n.round = d.round
        /\ n.out = d.out /\ n.fired = d.fired /\ n \in Detector
        /\ UNCHANGED <<now, event, signals, handed, dropped, due>> /\ Rows' = Rows
    BY DEF Works, Moves, Kept, Rows
  <1>2. /\ n.pc \in {"item", "ledger", "insert", "fold"}
        /\ n.pc = "ledger" => d.pc = "ledger"
        /\ n.pc = "insert" => Aim(p, n.pick)
        /\ n.pc = "fold" => Folding(p)
    BY DEF Works, Folding
  <1>3. Active(p)' /\ Scan(p)' = Scan(p)
    BY <1>1, <1>2 DEF Active, Scan
  <1>4. PlaceInv(p)'
    <2>1. /\ d.round <= now /\ d.at <= now /\ d.round \in Times
          /\ d.pc = "ledger" => Scan(p) = "smart"
          /\ Scan(p) \in {"lending", "lst"} =>
               \A e \in d.todo : /\ e \in Events /\ event[e] # NotYet
                                 /\ event[e].where = IF Scan(p) = "lst" THEN Token ELSE Aave
      BY <1>1 DEF ProcInv, PlaceInv
    <2>2. n.pc = "insert" => n.pick.type = Scan(p)
      BY <1>2 DEF Aim
    <2>3. n.pc = "fold" => Scan(p) = "lst"
      BY <1>2 DEF Folding
    <2>4. \A e \in n.found : event[e] # NotYet
      BY DEF Works
    <2>5. n.todo \subseteq d.todo \/ Scan(p) = "smart"
      BY DEF Works
    <2>6. n.pc # "done"
      BY <1>2
    <2> QED
      BY <1>1, <1>2, <1>3, <2>1, <2>2, <2>3, <2>4, <2>5, <2>6 DEF PlaceInv
  <1>5. OwnInv(p)'
    <2>1. d.pc # "done"
      BY <1>1 DEF Active
    <2>2. n.pc = "insert" /\ n.pick.type = "whale" => n.pick.ref \notin d.fired
      BY <1>2 DEF Aim
    <2> QED
      BY <1>1, <1>3, <2>1, <2>2 DEF ProcInv, OwnInv
  <1>6. FiredInv(p)' /\ OutInv(p)'
    BY <1>1 DEF ProcInv, FiredInv, OutInv
  <1>7. CoolInv(p)'
    <2>1. ASSUME NEW i \in Rows, n.pc = "insert", Throttles(signals[i], n.pick)
          PROVE  ~(now - signals[i].created < Span(n.pick.type))
      BY <1>2, <2>1 DEF Aim
    <2>2. n.pc = "insert" => n.pick.seen = Len(signals)
      BY <1>2 DEF Aim
    <2>3. Len(signals) \in Nat /\ \A i \in Rows : i \in Nat /\ ~(i > Len(signals))
      BY DEF TypeOK, Rows
    <2>4. \A i \in Rows : Throttles(signals'[i], n.pick) <=> Throttles(signals[i], n.pick)
      BY <1>1 DEF Throttles
    <2> QED
      BY <1>1, <2>1, <2>2, <2>3, <2>4 DEF CoolInv
  <1>8. AimInv(p)'
    BY <1>1, <1>2 DEF AimInv, Aim
  <1>9. FoldInv(p)'
    <2>1. ASSUME n.pc = "fold"
          PROVE  /\ n.pick.type = "lst" /\ n.into \in Rows /\ signals[n.into].type = "lst"
                 /\ signals[n.into].ref \in n.pick.refs /\ n.pick.ref \in n.pick.refs
                 /\ IsFiniteSet(n.pick.refs) /\ n.pick.count = Cardinality(n.pick.refs)
      <3> DEFINE b == signals[n.into]
      <3>1. n.pick.type = "lst" /\ n.into \in Rows /\ b.type = "lst"
        BY <1>2, <2>1 DEF Folding
      <3>2. PICK e : e \notin b.refs /\ n.pick.ref = e /\ n.pick.refs = b.refs \cup {e} /\ n.pick.count = b.count + 1
        BY <1>2, <2>1 DEF Folding
      <3>3. b.ref \in b.refs /\ IsFiniteSet(b.refs) /\ b.count = Cardinality(b.refs)
        BY <3>1 DEF RowInv
      <3> HIDE DEF b
      <3>4. IsFiniteSet(b.refs \cup {e}) /\ Cardinality(b.refs \cup {e}) = Cardinality(b.refs) + 1
        BY <3>2, <3>3, FS_AddElement
      <3> QED
        BY <3>1, <3>2, <3>3, <3>4 DEF b
    <2> QED
      BY <1>1, <2>1 DEF FoldInv
  <1> QED
    BY <1>4, <1>5, <1>6, <1>7, <1>8, <1>9 DEF ProcInv

LEMMA AddsKeep ==
    ASSUME TypeOK, NEW p \in Processes, ProcInv(p), Adds(p)
    PROVE  ProcInv(p)'
  <1> DEFINE d == det[p]
             n == det'[p]
             id == Len(signals) + 1
  <1>1. /\ d.pc = "insert" /\ UNCHANGED <<now, event, dropped>>
        /\ Rows' = Rows \cup {id} /\ id \notin Rows
        /\ \A i \in Rows : signals'[i] = signals[i] /\ handed'[i] = handed[i]
        /\ n.pc = "item" /\ n.scan = d.scan /\ n.at = d.at /\ n.round = d.round
        /\ n.todo = d.todo /\ n.found = d.found /\ n.out = d.out \cup {id}
        /\ n.fired = d.fired \cup IF d.pick.type = "smart" THEN {d.pick.ref} ELSE {}
        /\ handed'[id] = 0
    BY DEF Adds
  <1>2. /\ signals'[id].type = d.pick.type /\ signals'[id].ref = d.pick.ref
        /\ signals'[id].round = d.round /\ signals'[id].by = p
    BY DEF Adds
  <1>3. dropped \subseteq Rows
    BY DEF TypeOK, Rows
  <1>4. d.round \in Int /\ d.scan \in Int
    BY ScansAre DEF TypeOK, Detector, Times
  <1> HIDE DEF id
  <1>5. Active(p)' /\ Active(p) /\ Scan(p)' = Scan(p)
    BY <1>1 DEF Active, Scan
  <1>6. PlaceInv(p)'
    BY <1>1, <1>5 DEF ProcInv, PlaceInv
  <1>7. OwnInv(p)'
    <2>1. ASSUME NEW i \in Rows, signals[i].by = p
          PROVE  /\ signals[i].round <= d.round
                 /\ signals[i].round = d.round =>
                       /\ signals[i].type = "smart" =>
                             n.scan >= 2 /\ (n.scan <= 3 => signals[i].ref \in n.fired)
                       /\ signals[i].type = "whale" => n.scan >= 3
      BY <1>1, <1>5, <2>1 DEF ProcInv, OwnInv
    <2>2. Scan(p) = d.pick.type /\ d.scan \in 1..6
      BY <1>1, ScansAre DEF ProcInv, PlaceInv, TypeOK, Detector
    <2>3. (d.pick.type = "smart" => d.scan = 2) /\ (d.pick.type = "whale" => d.scan = 3)
      BY <2>2, ScansAre DEF Scan
    <2>4. /\ signals'[id].round <= n.round
          /\ signals'[id].type = "smart" =>
                n.scan >= 2 /\ (n.scan <= 3 => signals'[id].ref \in n.fired)
          /\ signals'[id].type = "whale" => n.scan >= 3
      BY <1>1, <1>2, <1>4, <2>3
    <2> QED
      BY <1>1, <2>1, <2>4 DEF OwnInv
  <1>8. FiredInv(p)'
    BY <1>1, <1>2 DEF ProcInv, FiredInv
  <1>9. OutInv(p)'
    BY <1>1, <1>2, <1>3 DEF ProcInv, OutInv
  <1>10. CoolInv(p)' /\ AimInv(p)' /\ FoldInv(p)'
    BY <1>1 DEF CoolInv, AimInv, FoldInv
  <1> QED
    BY <1>6, <1>7, <1>8, <1>9, <1>10 DEF ProcInv

LEMMA FoldsKeep ==
    ASSUME TypeOK, NEW p \in Processes, ProcInv(p), Folds(p)
    PROVE  ProcInv(p)'
  <1> DEFINE d == det[p]
             n == det'[p]
  <1>1. /\ d.pc = "fold" /\ UNCHANGED <<now, event, handed, dropped>> /\ Rows' = Rows
        /\ n.scan = d.scan /\ n.at = d.at /\ n.round = d.round /\ n.out = d.out
        /\ n.fired = d.fired /\ n.pc = "item" /\ n.todo = d.todo /\ n.found = d.found
    BY DEF Folds, Kept
  <1>2. \A i \in Rows : Same(i)
    BY TouchesIs DEF Touches
  <1>3. Active(p)' /\ Active(p) /\ Scan(p)' = Scan(p)
    BY <1>1 DEF Active, Scan
  <1>4. PlaceInv(p)'
    BY <1>1, <1>3 DEF ProcInv, PlaceInv
  <1>5. OwnInv(p)'
    BY <1>1, <1>2, <1>3 DEF ProcInv, OwnInv, Same
  <1>6. FiredInv(p)'
    BY <1>1, <1>2 DEF ProcInv, FiredInv, Same
  <1>7. OutInv(p)'
    BY <1>1, <1>2 DEF ProcInv, OutInv, Same
  <1>8. CoolInv(p)' /\ AimInv(p)' /\ FoldInv(p)'
    BY <1>1 DEF CoolInv, AimInv, FoldInv
  <1> QED
    BY <1>4, <1>5, <1>6, <1>7, <1>8 DEF ProcInv

\* What is on its way elsewhere stays there.
LEMMA OthersOut ==
    ASSUME TypeOK, NEW p \in Processes, NEW q \in Processes, q # p, ProcInv(p), ProcInv(q),
           (Turns(p) /\ Hands(p)) \/ Works(p) \/ Adds(p) \/ Folds(p)
    PROVE  OutInv(q)'
  <1>1. Touches(p)
    BY TouchesIs
  <1>2. det'[q].out = det[q].out /\ \A i \in Rows : Same(i)
    BY <1>1 DEF Touches, Moves
  <1>3. SUFFICES ASSUME NEW i \in det[q].out
        PROVE  i \in Rows' /\ signals'[i].by = q /\ handed'[i] = 0 /\ i \notin dropped'
    BY <1>2 DEF OutInv
  <1>4. i \in Rows /\ signals[i].by = q /\ handed[i] = 0 /\ i \notin dropped
    BY DEF ProcInv, OutInv
  <1>5. i \notin det[p].out
    BY <1>4 DEF ProcInv, OutInv
  <1>6. i \in Rows' /\ signals'[i].by = q
    BY <1>2, <1>4 DEF Same
  <1>7. handed'[i] = 0 /\ i \notin dropped'
    <2>1. CASE Hands(p)
      BY <1>4, <1>5, <2>1 DEF Hands
    <2>2. CASE Works(p)
      BY <1>4, <2>2 DEF Works
    <2>3. CASE Adds(p)
      BY <1>4, <2>3 DEF Adds
    <2>4. CASE Folds(p)
      BY <1>4, <2>4 DEF Folds
    <2> QED
      BY <2>1, <2>2, <2>3, <2>4
  <1> QED
    BY <1>6, <1>7

LEMMA ProcsKeep ==
    ASSUME TypeOK, TypeOK', \A q \in Processes : ProcInv(q), \A i \in Rows : RowInv(i),
           NEW p \in Processes, (Turns(p) /\ Hands(p)) \/ Works(p) \/ Adds(p) \/ Folds(p)
    PROVE  \A q \in Processes : ProcInv(q)'
  <1>1. ProcInv(p)'
    BY TurnKeeps, WorksKeep, AddsKeep, FoldsKeep
  <1>2. ASSUME NEW q \in Processes, q # p
        PROVE  ProcInv(q)'
    BY <1>2, TouchesIs, OthersKeep, OthersOut DEF ProcInv
  <1> QED
    BY <1>1, <1>2

-----------------------------------------------------------------------------
(* What it is to the table.                                                *)

LEMMA TypesKeep ==
    ASSUME TypeOK, NEW p \in Processes,
           (Turns(p) /\ Hands(p)) \/ Works(p) \/ Adds(p) \/ Folds(p)
    PROVE  TypeOK'
  <1>1. now' \in Times /\ event' \in [Events -> Event] /\ det' \in [Processes -> Detector]
    BY TouchesIs DEF Touches, Moves, TypeOK
  <1>2. CASE Turns(p) /\ Hands(p)
    <2>1. due' \in [Processes -> SUBSET Events]
      BY <1>2 DEF Turns, Turn, Due, TypeOK
    <2> QED
      BY <1>1, <1>2, <2>1 DEF Turns, Hands, tables, TypeOK, Rows
  <1>3. CASE Works(p)
    BY <1>1, <1>3 DEF Works, TypeOK
  <1>4. CASE Adds(p)
    BY <1>1, <1>4 DEF Adds, TypeOK, Rows
  <1>5. CASE Folds(p)
    BY <1>1, <1>5 DEF Folds, TypeOK, Rows
  <1> QED
    BY <1>2, <1>3, <1>4, <1>5

LEMMA RowsKeep ==
    ASSUME TypeOK, \A q \in Processes : ProcInv(q), \A i \in Rows : RowInv(i), NEW p \in Processes,
           (Turns(p) /\ Hands(p)) \/ Works(p) \/ Adds(p) \/ Folds(p)
    PROVE  \A i \in Rows' : RowInv(i)'
  <1>1. Touches(p) /\ UNCHANGED <<now, event>> /\ \A q \in Processes \ {p} : det'[q] = det[q]
    BY TouchesIs DEF Touches, Moves
  <1>2. CASE (Turns(p) /\ Hands(p)) \/ Works(p)
    <2>1. signals' = signals /\ Rows' = Rows
      BY <1>2 DEF Turns, Works, tables, Rows
    <2>2. SUFFICES ASSUME NEW i \in Rows
          PROVE  RowInv(i)'
      BY <2>1
    <2>3. /\ handed'[i] \in {0, 1}
          /\ i \in dropped' => handed'[i] = 0
          /\ i \notin dropped' /\ handed'[i] = 0 => \E q \in Processes : i \in det'[q].out
      <3>1. /\ handed[i] \in {0, 1}
            /\ i \in dropped => handed[i] = 0
            /\ i \notin dropped /\ handed[i] = 0 => \E q \in Processes : i \in det[q].out
        BY DEF RowInv
      <3>2. CASE Works(p)
        <4>1. handed' = handed /\ dropped' = dropped /\ det'[p].out = det[p].out
          BY <3>2 DEF Works, Kept
        <4> QED
          BY <1>1, <3>1, <4>1
      <3>3. CASE Hands(p) /\ i \in det[p].out
        <4>1. handed[i] = 0 /\ i \notin dropped
          BY <3>3 DEF ProcInv, OutInv
        <4>2. (handed'[i] = 1 /\ i \notin dropped') \/ (handed'[i] = 0 /\ i \in dropped')
          BY <3>3, <4>1 DEF Hands
        <4> QED
          BY <4>2
      <3>4. CASE Hands(p) /\ i \notin det[p].out
        <4>1. handed'[i] = handed[i] /\ (i \in dropped' <=> i \in dropped)
          BY <3>4 DEF Hands
        <4> QED
          BY <1>1, <3>1, <3>4, <4>1
      <3> QED
        BY <1>2, <3>2, <3>3, <3>4
    <2> QED
      BY <1>1, <2>1, <2>3 DEF RowInv
  <1>3. CASE Adds(p)
    <2> DEFINE d == det[p]
    <2>0. PICK id : id = Len(signals) + 1
      OBVIOUS
    <2>1. /\ Rows' = Rows \cup {id} /\ id \notin Rows /\ dropped' = dropped
          /\ \A i \in Rows : signals'[i] = signals[i] /\ handed'[i] = handed[i]
          /\ handed'[id] = 0 /\ det'[p].out = d.out \cup {id} /\ d.pc = "insert"
      BY <1>3, <2>0 DEF Adds
    <2>2. /\ signals'[id].type = d.pick.type /\ signals'[id].where = d.pick.where
          /\ signals'[id].ref = d.pick.ref /\ signals'[id].created = now
          /\ signals'[id].refs = d.pick.refs /\ signals'[id].count = d.pick.count
      BY <1>3, <2>0 DEF Adds
    <2>3. now \in Int /\ dropped \subseteq Rows
      BY DEF TypeOK, Times, Rows
    <2>4. RowInv(id)'
      <3>1. /\ d.pick.type = "lending" => d.pick.where = Aave
            /\ d.pick.type = "whale" => /\ d.pick.ref \in Events /\ event[d.pick.ref] # NotYet
                                        /\ event[d.pick.ref].at <= now
            /\ d.pick.type = "lst" =>
                  d.pick.where = Token /\ d.pick.refs = {d.pick.ref} /\ d.pick.count = 1
        BY <2>1 DEF ProcInv, AimInv
      <3>2. IsFiniteSet({d.pick.ref}) /\ Cardinality({d.pick.ref}) = 1
        BY FS_Singleton
      <3>3. handed'[id] = 0 /\ id \notin dropped' /\ \E q \in Processes : id \in det'[q].out
        BY <2>1, <2>3
      <3> DEFINE s == signals'[id]
      <3>4. s.created <= now' /\ (s.type = "lending" => s.where = Aave)
        BY <1>1, <2>2, <2>3, <3>1
      <3>5. s.type = "whale" => /\ s.ref \in Events /\ event'[s.ref] # NotYet
                               /\ event'[s.ref].at <= s.created
        BY <1>1, <2>2, <3>1
      <3>6. s.type = "lst" => s.where = Token /\ s.refs = {s.ref} /\ s.count = 1
        BY <2>2, <3>1
      <3>7. s.type = "lst" => /\ s.where = Token /\ s.ref \in s.refs
                             /\ IsFiniteSet(s.refs) /\ s.count = Cardinality(s.refs)
        BY <2>2, <3>2, <3>6
      <3> HIDE DEF s
      <3> QED
        BY <3>3, <3>4, <3>5, <3>7 DEF RowInv, s
    <2>5. ASSUME NEW i \in Rows
          PROVE  RowInv(i)'
      <3>1. /\ handed[i] \in {0, 1}
            /\ i \in dropped => handed[i] = 0
            /\ i \notin dropped /\ handed[i] = 0 => \E q \in Processes : i \in det[q].out
        BY DEF RowInv
      <3>2. \A q \in Processes : det[q].out \subseteq det'[q].out
        BY <1>1, <2>1
      <3> QED
        BY <1>1, <2>1, <3>1, <3>2 DEF RowInv
    <2> QED
      BY <2>1, <2>4, <2>5
  <1>4. CASE Folds(p)
    <2> DEFINE d == det[p]
    <2>0. PICK k : k = d.into
      OBVIOUS
    <2>1. /\ Rows' = Rows /\ handed' = handed /\ dropped' = dropped /\ det'[p].out = d.out
          /\ d.pc = "fold" /\ k \in Rows /\ \A i \in Rows \ {k} : signals'[i] = signals[i]
      BY <1>4, <2>0 DEF Folds, Kept
    <2>2. \A q \in Processes : det'[q].out = det[q].out
      BY <1>1, <2>1
    <2>3. RowInv(k)'
      <3> DEFINE s == signals'[k]
      <3>1. /\ s.type = "lst" /\ s.where = signals[k].where /\ s.ref = signals[k].ref
            /\ s.created = signals[k].created
            /\ s.refs = d.pick.refs /\ s.count = d.pick.count
        BY <1>4, <2>0, <2>1 DEF Folds, ProcInv, FoldInv
      <3>2. /\ s.ref \in s.refs /\ IsFiniteSet(s.refs) /\ s.count = Cardinality(s.refs)
        BY <2>0, <2>1, <3>1 DEF ProcInv, FoldInv
      <3>3. RowInv(k) /\ signals[k].type = "lst"
        BY <2>0, <2>1 DEF ProcInv, FoldInv
      <3> QED
        BY <1>1, <2>1, <2>2, <3>1, <3>2, <3>3 DEF RowInv
    <2>4. ASSUME NEW i \in Rows \ {k}
          PROVE  RowInv(i)'
      BY <1>1, <2>1, <2>2 DEF RowInv
    <2> QED
      BY <2>1, <2>3, <2>4
  <1> QED
    BY <1>2, <1>3, <1>4

\* No two rows have a key, no row is in the way of a later one.
LEMMA TableKeeps ==
    ASSUME TypeOK, KeyInv, Throttled, RicherWins, \A q \in Processes : ProcInv(q), NEW p \in Processes,
           Turns(p) \/ Works(p) \/ Adds(p) \/ Folds(p)
    PROVE  KeyInv' /\ Throttled' /\ RicherWins'
  <1>1. CASE Turns(p) \/ Works(p) \/ Folds(p)
    <2>1. Rows' = Rows
      BY <1>1 DEF Turns, Works, Folds, tables, Rows
    <2>2. \A i \in Rows :
             /\ signals'[i].type = signals[i].type /\ signals'[i].where = signals[i].where
             /\ signals'[i].actor = signals[i].actor /\ signals'[i].ref = signals[i].ref
             /\ signals'[i].created = signals[i].created /\ signals'[i].round = signals[i].round
             /\ signals'[i].by = signals[i].by /\ signals'[i].raced = signals[i].raced
      BY TouchesIs DEF Touches, Same
    <2>3. KeyInv' /\ RicherWins'
      BY <2>1, <2>2 DEF KeyInv, RicherWins, Rows
    <2>4. \A i, j \in Rows : Throttles(signals'[i], signals'[j]) <=> Throttles(signals[i], signals[j])
      BY <2>2 DEF Throttles
    <2>5. Throttled'
      BY <2>1, <2>2, <2>4 DEF Throttled, Rows
    <2> QED
      BY <2>3, <2>5
  <1>2. CASE Adds(p)
    <2> DEFINE id == Len(signals) + 1
               d == det[p]
    <2>1. /\ Rows' = Rows \cup {id} /\ \A i \in Rows : signals'[i] = signals[i]
          /\ d.pc = "insert" /\ Recorded(d.pick) = {} /\ det'[p].round = d.round
      BY <1>2 DEF Adds
    <2>2. /\ signals'[id].type = d.pick.type /\ signals'[id].where = d.pick.where
          /\ signals'[id].actor = d.pick.actor /\ signals'[id].ref = d.pick.ref
          /\ signals'[id].created = now /\ signals'[id].round = d.round /\ signals'[id].by = p
          /\ signals'[id].raced = Raced(d.pick)
      BY <1>2 DEF Adds
    <2>3. \A i \in Rows : i < id /\ ~(id < i) /\ i # id
      BY DEF TypeOK, Rows
    <2>4. id \in Int
      BY DEF TypeOK
    <2> HIDE DEF id
    <2>5. KeyInv'
      <3>1. \A i \in Rows : ~(/\ signals[i].type = d.pick.type /\ signals[i].where = d.pick.where
                              /\ signals[i].ref = d.pick.ref)
        BY <2>1 DEF Recorded, Rows
      <3> QED
        BY <2>1, <2>2, <3>1 DEF KeyInv
    <2>6. Throttled'
      <3>1. SUFFICES ASSUME NEW i \in Rows', NEW j \in Rows', i < j,
                      Throttles(signals'[i], signals'[j]),
                      signals'[j].created - signals'[i].created < Span(signals'[j].type)
            PROVE  i \in signals'[j].raced /\ signals'[i].by # signals'[j].by
        BY DEF Throttled, Span, Rows
      <3>2. CASE j = id
        <4>0. i # id
          BY <2>4, <3>1, <3>2
        <4>1. i \in Rows /\ signals'[i] = signals[i]
          BY <2>1, <3>1, <4>0
        <4>2. Throttles(signals[i], d.pick)
          BY <2>2, <3>1, <3>2, <4>1 DEF Throttles
        <4>3. ~(i <= d.pick.seen)
          BY <2>1, <2>2, <3>1, <3>2, <4>1, <4>2 DEF ProcInv, CoolInv
        <4>4. i > d.pick.seen
          <5>1. d \in Detector /\ i \in Nat
            BY <4>1 DEF TypeOK, Rows
          <5>2. d.pick.type = Scan(p) /\ Scan(p) \in Types
            BY <2>1, <5>1, ScansAre DEF ProcInv, PlaceInv, Detector, Scan
          <5>3. d.pick.seen \in Nat
            BY <5>1, <5>2 DEF Detector, Pick, NoPick, Types
          <5> QED
            BY <4>3, <5>1, <5>3
        <4> QED
          BY <2>1, <2>2, <3>2, <4>1, <4>2, <4>4 DEF ProcInv, CoolInv, Raced, Rows
      <3>3. CASE j # id
        <4>1. i \in Rows /\ j \in Rows
          BY <2>1, <2>3, <3>1, <3>3
        <4>2. /\ Throttles(signals[i], signals[j])
              /\ signals'[i] = signals[i] /\ signals'[j] = signals[j]
          BY <2>1, <3>1, <4>1
        <4> QED
          BY <3>1, <4>1, <4>2 DEF Throttled, Span, Rows
      <3> QED
        BY <3>2, <3>3
    <2>7. RicherWins'
      <3>1. SUFFICES ASSUME NEW i \in Rows', NEW j \in Rows', signals'[i].type = "smart",
                      signals'[j].type = "whale", signals'[i].ref = signals'[j].ref,
                      signals'[i].by = signals'[j].by, signals'[i].round = signals'[j].round
            PROVE  FALSE
        BY DEF RicherWins, Rows
      <3>2. /\ Active(p) /\ d.pc # "done" /\ d.scan \in Int /\ d.scan \in 1..6
            /\ d.pick.type = Scans[d.scan]
        BY <2>1, ScansAre DEF ProcInv, PlaceInv, Active, Scan, TypeOK, Detector
      <3>3. CASE i \in Rows /\ j \in Rows
        BY <2>1, <3>1, <3>3 DEF RicherWins, Rows
      <3>4. CASE i = id /\ j \in Rows
        <4>1. d.scan = 2
          BY <2>2, <3>1, <3>2, <3>4, ScansAre
        <4>2. d.scan >= 3
          BY <2>1, <2>2, <3>1, <3>2, <3>4 DEF ProcInv, OwnInv
        <4> QED
          BY <4>1, <4>2
      <3>5. CASE i \in Rows /\ j = id
        <4>1. d.scan = 3 /\ d.pick.type = "whale"
          BY <2>2, <3>1, <3>2, <3>5, ScansAre
        <4>2. signals[i].ref \in d.fired
          BY <2>1, <2>2, <3>1, <3>2, <3>5, <4>1 DEF ProcInv, OwnInv
        <4>3. d.pick.ref \notin d.fired
          BY <2>1, <4>1 DEF ProcInv, OwnInv
        <4> QED
          BY <2>1, <2>2, <3>1, <3>5, <4>2, <4>3
      <3>6. CASE i = id /\ j = id
        BY <3>1, <3>6
      <3> QED
        BY <2>1, <3>3, <3>4, <3>5, <3>6
    <2> QED
      BY <2>5, <2>6, <2>7
  <1> QED
    BY <1>1, <1>2

-----------------------------------------------------------------------------
(* The clock and the chain.                                                *)

LEMMA TickKeeps ==
    ASSUME IndInv, Tick
    PROVE  IndInv'
  <1>1. /\ now \in Int /\ now' = now + 1 /\ now < MaxTime
        /\ UNCHANGED <<event, ledger, signals, det, handed, dropped, due, faults>> /\ Rows' = Rows
    BY DEF Tick, tables, IndInv, TypeOK, Times, Rows
  <1>2. TypeOK' /\ KeyInv' /\ Throttled' /\ RicherWins'
    <2>1. TypeOK'
      BY <1>1, DetectorsAssumption DEF IndInv, TypeOK, Times
    <2>2. KeyInv' /\ RicherWins'
      BY <1>1 DEF IndInv, KeyInv, RicherWins
    <2>3. Throttled'
      BY <1>1 DEF IndInv, Throttled
    <2> QED
      BY <2>1, <2>2, <2>3
  <1>3. \A e \in Events : event[e] # NotYet => event[e].at \in Int
    BY DEF IndInv, TypeOK, Event, Times
  <1>4. EventInv'
    BY <1>1, <1>3 DEF IndInv, EventInv
  <1>5. ASSUME NEW i \in Rows
        PROVE  signals[i].created \in Int
    <2>1. signals[i] \in Signal
      BY DEF IndInv, TypeOK, Rows
    <2> QED
      BY <2>1 DEF Signal, Times
  <1>6. ASSUME NEW p \in Processes
        PROVE  ProcInv(p)'
    <2>1. ProcInv(p) /\ det'[p] = det[p] /\ det[p].round \in Int /\ det[p].at \in Int
      BY <1>1 DEF IndInv, TypeOK, Detector, Times
    <2>2. PlaceInv(p)'
      BY <1>1, <2>1 DEF ProcInv, PlaceInv, Active, Scan
    <2>3. OwnInv(p)' /\ FiredInv(p)' /\ OutInv(p)' /\ FoldInv(p)'
      BY <1>1, <2>1 DEF ProcInv, OwnInv, FiredInv, OutInv, FoldInv, Active
    <2>4. CoolInv(p)'
      <3>1. Span(det[p].pick.type) \in Int
        BY DetectorsAssumption DEF Span
      <3>2. \A i \in Rows : ~(now - signals[i].created < Span(det[p].pick.type))
               => ~(now' - signals[i].created < Span(det[p].pick.type))
        BY <1>1, <1>5, <3>1
      <3> QED
        BY <1>1, <2>1, <3>2 DEF ProcInv, CoolInv
    <2>5. AimInv(p)'
      <3>1. ASSUME det[p].pc = "insert", det[p].pick.type = "whale"
            PROVE  event[det[p].pick.ref].at <= now + 1
        BY <1>1, <1>3, <2>1, <3>1 DEF ProcInv, AimInv
      <3> QED
        BY <1>1, <2>1, <3>1 DEF ProcInv, AimInv
    <2> QED
      BY <2>2, <2>3, <2>4, <2>5 DEF ProcInv
  <1>7. ASSUME NEW i \in Rows
        PROVE  RowInv(i)'
    BY <1>1, <1>5 DEF IndInv, RowInv
  <1> QED
    BY <1>1, <1>2, <1>4, <1>6, <1>7 DEF IndInv

LEMMA ArriveKeeps ==
    ASSUME IndInv, NEW e \in Events, Arrive(e)
    PROVE  IndInv'
  <1>1. PICK kind \in Kinds, where \in Places, actor \in Wallets, at \in Stored :
          /\ kind = "transfer" <=> where = Token
          /\ kind = "loan" <=> where = Aave
          /\ event' = [event EXCEPT ![e] =
                [kind |-> kind, where |-> where, actor |-> actor, at |-> at]]
    BY DEF Arrive
  <1>2. /\ event[e] = NotYet /\ UNCHANGED <<now, ledger, signals, det, handed, dropped, due, faults>>
        /\ Rows' = Rows
    BY DEF Arrive, Rows
  <1> DEFINE new == [kind |-> kind, where |-> where, actor |-> actor, at |-> at]
  <1>3. /\ new \in Event /\ new # NotYet /\ new.kind = kind /\ new.where = where /\ new.at <= now
    <2>1. at \in Times /\ at <= now
      BY DetectorsAssumption DEF Stored, IndInv, TypeOK, Times
    <2> QED
      BY <2>1 DEF Event, NotYet, Kinds
  <1> HIDE DEF new
  <1>4. /\ event' \in [Events -> Event] /\ event'[e] = new
        /\ \A f \in Events \ {e} : event'[f] = event[f]
    BY <1>1, <1>3 DEF IndInv, TypeOK, new
  <1>5. \A f \in Events : event[f] # NotYet => event'[f] = event[f]
    BY <1>2, <1>4
  <1>6. TypeOK' /\ KeyInv' /\ Throttled' /\ RicherWins'
    BY <1>2, <1>4 DEF IndInv, TypeOK, KeyInv, Throttled, RicherWins
  <1>7. EventInv'
    BY <1>1, <1>2, <1>3, <1>4 DEF IndInv, EventInv
  <1>8. ASSUME NEW p \in Processes
        PROVE  ProcInv(p)'
    <2>1. ProcInv(p) /\ det'[p] = det[p] /\ det[p].found \subseteq Events
      BY <1>2 DEF IndInv, TypeOK, Detector
    <2>2. PlaceInv(p)'
      <3>1. \A f \in det[p].found : event'[f] # NotYet
        BY <1>5, <2>1 DEF ProcInv, PlaceInv
      <3>2. Active(p) /\ Scan(p) \in {"lending", "lst"} =>
              \A f \in det[p].todo : /\ f \in Events /\ event'[f] # NotYet
                                     /\ event'[f].where = IF Scan(p) = "lst" THEN Token ELSE Aave
        BY <1>5, <2>1 DEF ProcInv, PlaceInv
      <3> QED
        BY <1>2, <2>1, <3>1, <3>2 DEF ProcInv, PlaceInv, Active, Scan
    <2>3. OwnInv(p)' /\ FiredInv(p)' /\ OutInv(p)'
      BY <1>2, <2>1 DEF ProcInv, OwnInv, FiredInv, OutInv, Active
    <2>4. CoolInv(p)'
      BY <1>2, <2>1 DEF ProcInv, CoolInv
    <2>5. AimInv(p)'
      BY <1>2, <1>5, <2>1 DEF ProcInv, AimInv
    <2>6. FoldInv(p)'
      BY <1>2, <2>1 DEF ProcInv, FoldInv
    <2> QED
      BY <2>2, <2>3, <2>4, <2>5, <2>6 DEF ProcInv
  <1>9. ASSUME NEW i \in Rows
        PROVE  RowInv(i)'
    BY <1>2, <1>5 DEF IndInv, RowInv
  <1> QED
    BY <1>2, <1>6, <1>7, <1>8, <1>9 DEF IndInv

-----------------------------------------------------------------------------
(* The invariant.                                                          *)

LEMMA InitInd == Init => IndInv
  <1> SUFFICES ASSUME Init PROVE IndInv
    OBVIOUS
  <1>1. Rows = {} /\ signals \in Seq(Signal) /\ dropped = {} /\ ledger = {}
    BY DEF Init, Rows
  <1>2. TypeOK
    <2>1. handed \in [Rows -> Nat]
      BY <1>1 DEF Init
    <2> QED
      BY <1>1, <2>1, RestIs, DetectorsAssumption DEF Init, TypeOK, Event, Times, Rows
  <1>3. EventInv /\ KeyInv /\ Throttled /\ RicherWins
    BY <1>1 DEF Init, EventInv, KeyInv, Throttled, RicherWins, Rows
  <1>4. ASSUME NEW p \in Processes
        PROVE  ProcInv(p)
    <2>1. /\ det[p].pc = "idle" /\ det[p].round = -1 /\ det[p].out = {} /\ det[p].fired = {}
          /\ det[p].found = {} /\ now = Start /\ Start \in Nat
      BY DetectorsAssumption DEF Init, Rest
    <2> QED
      BY <1>1, <2>1 DEF ProcInv, PlaceInv, OwnInv, FiredInv, OutInv, CoolInv, AimInv, FoldInv, Active
  <1> QED
    BY <1>1, <1>2, <1>3, <1>4 DEF IndInv

LEMMA StepInd == IndInv /\ [Next]_vars => IndInv'
  <1> SUFFICES ASSUME IndInv, [Next]_vars PROVE IndInv'
    OBVIOUS
  <1>1. CASE UNCHANGED vars
    BY <1>1 DEF vars, tables, IndInv, TypeOK, EventInv, KeyInv, Throttled, RicherWins,
                ProcInv, PlaceInv, OwnInv, FiredInv, OutInv, CoolInv, AimInv, FoldInv, RowInv,
                Active, Scan, Rows
  <1>2. CASE Tick
    BY <1>2, TickKeeps
  <1>3. ASSUME NEW e \in Events, Arrive(e)
        PROVE  IndInv'
    BY <1>3, ArriveKeeps
  <1>4. ASSUME NEW p \in Processes, (Turns(p) /\ Hands(p)) \/ Works(p) \/ Adds(p) \/ Folds(p)
        PROVE  IndInv'
    <2>1. TypeOK'
      BY <1>4, TypesKeep DEF IndInv
    <2>2. EventInv'
      BY <1>4, TouchesIs DEF Touches, IndInv, EventInv
    <2>3. KeyInv' /\ Throttled' /\ RicherWins'
      BY <1>4, TableKeeps DEF IndInv
    <2>4. \A q \in Processes : ProcInv(q)'
      BY <1>4, <2>1, ProcsKeep DEF IndInv
    <2>5. \A i \in Rows' : RowInv(i)'
      BY <1>4, RowsKeep DEF IndInv
    <2> QED
      BY <2>1, <2>2, <2>3, <2>4, <2>5 DEF IndInv
  <1> QED
    BY <1>1, <1>2, <1>3, <1>4, StepsAre DEF IndInv

\* The invariant holds throughout.
THEOREM Inductive == Spec => []IndInv
  BY InitInd, StepInd, PTL DEF Spec

\* The variables keep their types, and with them the places the scans reach: a pick
\* names a subject a signal may have, a fold names a row there is.
THEOREM TypeCorrect == Spec => []TypeOK
  <1>1. IndInv => TypeOK
    BY DEF IndInv
  <1> QED
    BY Inductive, <1>1, PTL

\* Every signal goes to the hot path once, or was dropped by the scan that failed:
\* its holder is the process that inserted it, and only that one.
THEOREM OnceEach == Spec => []HandedOnce
  <1>1. IndInv => HandedOnce
    <2> SUFFICES ASSUME IndInv, NEW i \in Rows
                 PROVE  LET holders == {p \in Processes : i \in det[p].out} IN
                        Cardinality(holders) + handed[i] + (IF i \in dropped THEN 1 ELSE 0) = 1
      BY DEF HandedOnce, Rows
    <2> DEFINE holders == {p \in Processes : i \in det[p].out}
    <2>1. RowInv(i) /\ \A p \in Processes : OutInv(p)
      BY DEF IndInv, ProcInv
    <2>2. \A p \in holders : p = signals[i].by /\ handed[i] = 0 /\ i \notin dropped
      BY <2>1 DEF OutInv
    <2>3. Cardinality({}) = 0 /\ Cardinality({signals[i].by}) = 1
      BY FS_EmptySet, FS_Singleton
    <2>4. CASE i \in dropped
      <3>1. handed[i] = 0 /\ holders = {}
        BY <2>1, <2>2, <2>4 DEF RowInv
      <3> HIDE DEF holders
      <3>2. Cardinality(holders) + handed[i] + (IF i \in dropped THEN 1 ELSE 0) = 1
        BY <2>3, <2>4, <3>1
      <3> QED
        BY <3>2 DEF holders
    <2>5. CASE i \notin dropped /\ handed[i] # 0
      <3>1. handed[i] = 1 /\ holders = {}
        BY <2>1, <2>2, <2>5 DEF RowInv
      <3> HIDE DEF holders
      <3>2. Cardinality(holders) + handed[i] + (IF i \in dropped THEN 1 ELSE 0) = 1
        BY <2>3, <2>5, <3>1
      <3> QED
        BY <3>2 DEF holders
    <2>6. CASE i \notin dropped /\ handed[i] = 0
      <3>1. holders = {signals[i].by}
        BY <2>1, <2>2, <2>6 DEF RowInv
      <3> HIDE DEF holders
      <3>2. Cardinality(holders) + handed[i] + (IF i \in dropped THEN 1 ELSE 0) = 1
        BY <2>3, <2>6, <3>1
      <3> QED
        BY <3>2 DEF holders
    <2> QED
      BY <2>4, <2>5, <2>6
  <1> QED
    BY Inductive, <1>1, PTL

\* A cooldown is only missed by processes that race each other: what a process looked up
\* stays true until it inserts, however late, but for the rows of others since.
THEOREM CooldownsHold == Spec => []Throttled
  <1>1. IndInv => Throttled
    BY DEF IndInv
  <1> QED
    BY Inductive, <1>1, PTL

\* The whale scan of a round knows what the smart-money scan of that round fired on,
\* though that scan failed after it.
THEOREM RicherAlwaysWins == Spec => []RicherWins
  <1>1. IndInv => RicherWins
    BY DEF IndInv
  <1> QED
    BY Inductive, <1>1, PTL

-----------------------------------------------------------------------------
(* What is not missed. An event a scan answers for is still before it, or  *)
(* in its hands, or noticed.                                               *)

\* An event has left the trace it should leave.
Noticed(e) ==
    \/ /\ event[e].kind = "whale"
       /\ \E i \in Rows :
             \/ signals[i].type = "smart" /\ signals[i].ref = e
             \/ /\ signals[i].type = "whale" /\ signals[i].where = event[e].where
                /\ \/ signals[i].created + Cooldown > event[e].at
                   \/ signals[i].created + Recent >= event[e].at
    \/ event[e].kind = "loan" /\ \E i \in Rows : signals[i].type = "lending" /\ signals[i].ref = e
    \/ event[e].kind = "transfer" /\ \E i \in Rows : e \in signals[i].refs

\* The item at which a scan comes to an event.
ItemOf(e) == IF event[e].kind = "whale" THEN event[e].where ELSE e

\* What is about to be inserted or written back is for the event.
InHand(p, e) ==
    /\ det[p].pc \in {"insert", "fold"}
    /\ IF event[e].kind = "whale" THEN det[p].pick.where = event[e].where
                                  ELSE det[p].pick.ref = e

\* An event a process answers for, of the scan it is in and of its window,
Charge(p, e) ==
    /\ e \in Events /\ event[e] # NotYet
    /\ event[e].at <= det[p].at /\ event[e].at + Recent >= det[p].at
    /\ <<Scan(p), event[e].kind>> \in Sought

\* is before it, in its hands, or noticed.
AnswerInv(p) ==
    \A e \in due[p] :
        Charge(p, e) /\ (ItemOf(e) \in det[p].todo \/ InHand(p, e) \/ Noticed(e))

LEMMA NoticedKeeps ==
    ASSUME TypeOK, NEW p \in Processes, NEW e,
           Turns(p) \/ Works(p) \/ Adds(p) \/ Folds(p),
           Folds(p) => e \notin signals[det[p].into].refs \ det[p].pick.refs,
           Noticed(e)
    PROVE  Noticed(e)'
  <1>1. event' = event /\ \A i \in Rows : Same(i)
    BY TouchesIs DEF Touches
  <1>2. CASE event[e].kind = "whale"
    BY <1>1, <1>2 DEF Noticed, Same
  <1>3. CASE event[e].kind = "loan"
    BY <1>1, <1>3 DEF Noticed, Same
  <1>4. CASE event[e].kind = "transfer"
    <2>1. PICK i \in Rows : e \in signals[i].refs
      BY <1>4 DEF Noticed
    <2>2. i \in Rows'
      BY <1>1 DEF Same
    <2>3. e \in signals'[i].refs
      <3>1. CASE Turns(p) \/ Works(p)
        BY <2>1, <3>1 DEF Turns, Works, tables
      <3>2. CASE Adds(p)
        BY <2>1, <3>2 DEF Adds
      <3>3. CASE Folds(p)
        BY <2>1, <3>3 DEF Folds
      <3> QED
        BY <3>1, <3>2, <3>3
    <2> QED
      BY <1>1, <1>4, <2>2, <2>3 DEF Noticed
  <1> QED
    BY <1>2, <1>3, <1>4 DEF Noticed

\* What a process other than the one that steps answers for.
LEMMA OthersAnswer ==
    ASSUME TypeOK, NEW p \in Processes, NEW q \in Processes, q # p, AnswerInv(q),
           Turns(p) \/ Works(p) \/ Adds(p) \/ Folds(p)
    PROVE  AnswerInv(q)'
  <1>1. event' = event /\ det'[q] = det[q]
    BY TouchesIs DEF Touches, Moves
  <1>2. SUFFICES ASSUME NEW e \in due'[q]
        PROVE  /\ Charge(q, e)'
               /\ (ItemOf(e) \in det[q].todo \/ InHand(q, e) \/ Noticed(e))'
    BY DEF AnswerInv
  <1>3. /\ e \in due[q]
        /\ Folds(p) => e \notin signals[det[p].into].refs \ det[p].pick.refs
    <2>1. CASE Turns(p)
      <3>1. due' = [due EXCEPT ![p] = Due(Scans[det'[p].scan])]
        BY <2>1 DEF Turns, Turn
      <3>2. due'[q] = due[q]
        BY <3>1 DEF TypeOK
      <3>3. Folds(p) => due' = [r \in Processes |-> due[r] \ (signals[det[p].into].refs \ det[p].pick.refs)]
        BY DEF Folds
      <3> QED
        BY <3>2, <3>3
    <2>2. CASE Works(p) \/ Adds(p)
      <3>1. due' = due
        BY <2>2 DEF Works, Adds
      <3>2. Folds(p) => due' = [r \in Processes |-> due[r] \ (signals[det[p].into].refs \ det[p].pick.refs)]
        BY DEF Folds
      <3> QED
        BY <3>1, <3>2
    <2>3. CASE Folds(p)
      BY <2>3 DEF Folds
    <2> QED
      BY <2>1, <2>2, <2>3
  <1>4. Charge(q, e) /\ (ItemOf(e) \in det[q].todo \/ InHand(q, e) \/ Noticed(e))
    BY <1>3 DEF AnswerInv
  <1>5. Charge(q, e)'
    BY <1>1, <1>4 DEF Charge, Scan
  <1>6. (ItemOf(e) \in det[q].todo \/ InHand(q, e))' <=> (ItemOf(e) \in det[q].todo \/ InHand(q, e))
    BY <1>1 DEF ItemOf, InHand
  <1>7. Noticed(e) => Noticed(e)'
    BY <1>3, NoticedKeeps
  <1> QED
    BY <1>4, <1>5, <1>6, <1>7

\* What a scan answers for when it begins is before it.
LEMMA TurnAnswers ==
    ASSUME TypeOK, EventInv, NEW p \in Processes, Turns(p)
    PROVE  AnswerInv(p)'
  <1> DEFINE n == det'[p]
  <1>1. /\ Turned(p, n) /\ UNCHANGED <<now, event, signals>>
        /\ due'[p] = Due(Scans[n.scan]) /\ now \in Int
    BY DEF Turns, Turn, tables, TypeOK, Times
  <1>2. SUFFICES ASSUME NEW e \in due'[p]
        PROVE  Charge(p, e)' /\ (ItemOf(e) \in det[p].todo)'
    BY DEF AnswerInv
  <1>3. /\ e \in Events /\ event[e] # NotYet /\ event[e].at >= now - Recent
        /\ <<Scans[n.scan], event[e].kind>> \in Sought
    BY <1>1 DEF Due
  <1>4. n.scan # 1
    BY <1>3, ScansAre DEF Sought
  <1>5. n.at = now /\ n.todo = Listed(Scans[n.scan])
    BY <1>1, <1>4 DEF Turned
  <1>6. event[e] \in Event /\ event[e].at <= now /\ event[e].at \in Int
    BY <1>3 DEF TypeOK, EventInv, Event, Times
  <1>7. event[e].at + Recent >= now
    BY <1>1, <1>3, <1>6, DetectorsAssumption
  <1>8. Charge(p, e)'
    BY <1>1, <1>3, <1>5, <1>6, <1>7 DEF Charge, Scan
  <1>9. ItemOf(e) \in Listed(Scans[n.scan])
    <2>1. CASE event[e].kind = "whale"
      <3>1. Scans[n.scan] = "whale"
        BY <1>3, <2>1 DEF Sought
      <3>2. event[e].where \in Pools
        BY <1>3, <1>6, <2>1 DEF EventInv, Event, Places
      <3> QED
        BY <2>1, <3>1, <3>2 DEF ItemOf, Listed
    <2>2. CASE event[e].kind = "loan"
      <3>1. Scans[n.scan] = "lending" /\ event[e].where = Aave
        BY <1>3, <2>2 DEF Sought, EventInv
      <3> QED
        BY <1>3, <1>7, <2>2, <3>1 DEF ItemOf, Listed, FreshLogs
    <2>3. CASE event[e].kind = "transfer"
      <3>1. Scans[n.scan] = "lst" /\ event[e].where = Token
        BY <1>3, <2>3 DEF Sought, EventInv
      <3> QED
        BY <1>3, <1>7, <2>3, <3>1 DEF ItemOf, Listed, FreshLogs
    <2> QED
      BY <1>3, <2>1, <2>2, <2>3 DEF Sought
  <1> QED
    BY <1>1, <1>5, <1>8, <1>9 DEF ItemOf

\* A whale scan that comes to the pool of a whale notices it, or has a signal of the
\* pool in hand: the pool cools down after one, or the smart-money scan fired on it.
LEMMA WhaleAnswers ==
    ASSUME TypeOK, EventInv, NEW p \in Processes, ProcInv(p), det[p].pc = "item",
           NEW pool, WhaleItem(p, pool), Moves(p), event' = event,
           NEW e, Charge(p, e), ItemOf(e) \in det[p].todo
    PROVE  ItemOf(e) \in det'[p].todo \/ InHand(p, e)' \/ Noticed(e)
  <1> DEFINE d == det[p]
  <1>1. /\ Scan(p) = "whale" /\ event[e].kind = "whale" /\ d \in Detector
        /\ ItemOf(e) = event[e].where
    BY DEF WhaleItem, Charge, Sought, ItemOf, TypeOK
  <1>2. event[e] \in Event /\ event[e].at \in Int /\ event[e].at <= now /\ now \in Int
    BY DEF Charge, TypeOK, EventInv, Event, Times
  <1>3. CASE event[e].where # pool
    <2>1. d.todo \ {pool} = det'[p].todo
      <3>1. ASSUME NEW pick, Insert(p, pool, pick)
            PROVE  det'[p].todo = d.todo \ {pool}
        BY <1>1, <3>1 DEF Insert, TypeOK, Detector
      <3>2. ASSUME Skip(p, pool)
            PROVE  det'[p].todo = d.todo \ {pool}
        BY <1>1, <3>2 DEF Skip, TypeOK, Detector
      <3> QED
        BY <3>1, <3>2 DEF WhaleItem
    <2> QED
      BY <1>1, <1>3, <2>1
  <1>4. CASE event[e].where = pool /\ Cooling(OfPoolAndType(pool, "whale"), Cooldown)
    <2>1. PICK i \in Rows : /\ signals[i].where = pool /\ signals[i].type = "whale"
                            /\ now - signals[i].created < Cooldown
      BY <1>4 DEF Cooling, OfPoolAndType, Rows
    <2>2. signals[i].created \in Int
      <3>1. signals[i] \in Signal
        BY DEF TypeOK, Rows
      <3> QED
        BY <3>1 DEF Signal, Times
    <2>3. signals[i].created + Cooldown > event[e].at
      BY <1>2, <2>1, <2>2, DetectorsAssumption
    <2> QED
      BY <1>1, <1>4, <2>1, <2>3 DEF Noticed
  <1>5. CASE event[e].where = pool /\ Whales(p, pool) = {}
    <2>1. e \in FreshLogs(d.at, pool)
      BY <1>5 DEF Charge, FreshLogs
    <2>2. e \in d.fired
      BY <1>1, <1>5, <2>1 DEF Whales
    <2>3. \E i \in Rows : signals[i].type = "smart" /\ signals[i].ref = e
      BY <2>2 DEF ProcInv, FiredInv
    <2> QED
      BY <1>1, <2>3 DEF Noticed
  <1>6. CASE /\ event[e].where = pool /\ Whales(p, pool) # {}
             /\ ~Cooling(OfPoolAndType(pool, "whale"), Cooldown)
    <2>1. PICK f \in LargestOf(Whales(p, pool)) : Insert(p, pool, SignalOn("whale", pool, Other, f))
      BY <1>6 DEF WhaleItem
    <2>2. det'[p].pc = "insert" /\ det'[p].pick.where = pool
      BY <1>1, <2>1 DEF Insert, SignalOn, TypeOK, Detector
    <2> QED
      BY <1>1, <1>6, <2>2 DEF InHand
  <1> QED
    BY <1>3, <1>4, <1>5, <1>6

\* The scans of loans and of transfers have an item for each event.
LEMMA EventAnswers ==
    ASSUME TypeOK, NEW p \in Processes, ProcInv(p), det[p].pc = "item", event' = event,
           NEW f, LendingItem(p, f) \/ LstItem(p, f),
           NEW e, Charge(p, e), ItemOf(e) \in det[p].todo
    PROVE  ItemOf(e) \in det'[p].todo \/ InHand(p, e)' \/ Noticed(e)
  <1> DEFINE d == det[p]
  <1>1. /\ d \in Detector /\ ItemOf(e) = e /\ event[e].kind # "whale"
        /\ LendingItem(p, f) => event[e].kind = "loan"
        /\ LstItem(p, f) => event[e].kind = "transfer"
    BY DEF LendingItem, LstItem, Charge, Sought, ItemOf, TypeOK
  <1>2. ASSUME NEW type, NEW where, NEW actor, Insert(p, f, SignalOn(type, where, actor, f))
        PROVE  det'[p].todo = d.todo \ {f} /\ det'[p].pc = "insert" /\ det'[p].pick.ref = f
    BY <1>1, <1>2 DEF Insert, SignalOn, TypeOK, Detector
  <1>3. CASE LendingItem(p, f)
    <2>1. PICK actor : Insert(p, f, SignalOn("lending", Aave, actor, f))
      BY <1>3 DEF LendingItem
    <2>2. det'[p].todo = d.todo \ {f} /\ det'[p].pc = "insert" /\ det'[p].pick.ref = f
      BY <1>2, <2>1
    <2> QED
      BY <1>1, <2>2 DEF InHand
  <1>4. CASE LstItem(p, f)
    <2>1. PICK actor :
             IF OpenAggregates(p, actor) = {}
             THEN Insert(p, f, SignalOn("lst", Token, actor, f))
             ELSE LET i == OpenAggregate(p, actor) IN
                    IF f \in signals[i].refs THEN Skip(p, f) ELSE Fold(p, f, i, actor)
      BY <1>4 DEF LstItem
    <2> DEFINE i == OpenAggregate(p, actor)
    <2>2. CASE OpenAggregates(p, actor) = {}
      <3>1. det'[p].todo = d.todo \ {f} /\ det'[p].pc = "insert" /\ det'[p].pick.ref = f
        BY <1>2, <2>1, <2>2
      <3> QED
        BY <1>1, <3>1 DEF InHand
    <2>3. CASE OpenAggregates(p, actor) # {} /\ f \in signals[i].refs
      <3>1. i \in Rows
        BY <2>3, OpenIs DEF OpenAggregates, Rows
      <3>2. Skip(p, f)
        BY <2>1, <2>3
      <3>3. det'[p].todo = d.todo \ {f}
        BY <1>1, <3>2 DEF Skip, TypeOK, Detector
      <3>4. f = e => Noticed(e)
        BY <1>1, <1>4, <2>3, <3>1 DEF Noticed
      <3> QED
        BY <1>1, <3>3, <3>4
    <2>4. CASE OpenAggregates(p, actor) # {} /\ f \notin signals[i].refs
      <3> DEFINE pick == [SignalOn("lst", Token, actor, f) EXCEPT
                             !.refs = signals[i].refs \cup {f}, !.count = signals[i].count + 1]
                 n == [d EXCEPT !.todo = @ \ {f}, !.pc = "fold", !.into = i, !.pick = pick]
      <3>1. det' = [det EXCEPT ![p] = n]
        BY <2>1, <2>4 DEF Fold
      <3>2. pick.ref = f
        BY DEF SignalOn
      <3> HIDE DEF i, pick
      <3>3. n.todo = d.todo \ {f} /\ n.pc = "fold" /\ n.pick = pick
        BY <1>1 DEF Detector
      <3> HIDE DEF n
      <3>4. det'[p] = n
        BY <3>1 DEF TypeOK
      <3> QED
        BY <1>1, <3>2, <3>3, <3>4 DEF InHand
    <2> QED
      BY <2>2, <2>3, <2>4
  <1> QED
    BY <1>3, <1>4

\* A key that is there is the trace of the event that was to be inserted.
LEMMA ConflictAnswers ==
    ASSUME TypeOK, NEW p \in Processes, ProcInv(p), \A i \in Rows : RowInv(i),
           det[p].pc = "insert", Recorded(det[p].pick) # {},
           NEW e, Charge(p, e), InHand(p, e)
    PROVE  Noticed(e)
  <1> DEFINE pick == det[p].pick
  <1>1. PICK i \in Rows : /\ signals[i].type = pick.type /\ signals[i].where = pick.where
                          /\ signals[i].ref = pick.ref
    BY DEF Recorded, Rows
  <1>2. pick.type = Scan(p) /\ RowInv(i)
    BY DEF ProcInv, PlaceInv
  <1>3. CASE event[e].kind = "whale"
    <2>1. pick.type = "whale" /\ pick.where = event[e].where
      BY <1>2, <1>3 DEF Charge, Sought, InHand
    <2>2. /\ pick.ref \in Events /\ event[pick.ref] # NotYet /\ event[e] # NotYet /\ e \in Events
          /\ event[pick.ref].at + Recent >= det[p].at /\ event[e].at <= det[p].at
          /\ event[pick.ref].at <= signals[i].created
      BY <1>1, <1>2, <2>1 DEF ProcInv, AimInv, RowInv, Charge
    <2>3. event[pick.ref].at \in Int /\ event[e].at \in Int /\ det[p].at \in Int
      BY <2>2 DEF TypeOK, Event, Detector, Times
    <2>4. signals[i].created \in Int
      <3>1. signals[i] \in Signal
        BY DEF TypeOK, Rows
      <3> QED
        BY <3>1 DEF Signal, Times
    <2>5. signals[i].created + Recent >= event[e].at
      BY <2>2, <2>3, <2>4, DetectorsAssumption
    <2> QED
      BY <1>1, <1>3, <2>1, <2>5 DEF Noticed
  <1>4. CASE event[e].kind = "loan"
    BY <1>1, <1>2, <1>4 DEF Charge, Sought, InHand, Noticed
  <1>5. CASE event[e].kind = "transfer"
    BY <1>1, <1>2, <1>5 DEF Charge, Sought, InHand, Noticed, RowInv
  <1> QED
    BY <1>3, <1>4, <1>5 DEF Charge, Sought

\* A new row is the trace of the event it was in hand for.
LEMMA AddsAnswer ==
    ASSUME TypeOK, NEW p \in Processes, ProcInv(p), Adds(p), NEW e, Charge(p, e), InHand(p, e)
    PROVE  Noticed(e)'
  <1> DEFINE d == det[p]
  <1>0. PICK id : id = Len(signals) + 1
    OBVIOUS
  <1>1. /\ d.pc = "insert" /\ id \in Rows' /\ event' = event
        /\ signals'[id].type = d.pick.type /\ signals'[id].where = d.pick.where
        /\ signals'[id].ref = d.pick.ref /\ signals'[id].refs = d.pick.refs
        /\ signals'[id].created = now
    BY <1>0 DEF Adds
  <1>2. d.pick.type = Scan(p)
    BY <1>1 DEF ProcInv, PlaceInv
  <1>3. CASE event[e].kind = "whale"
    <2>1. d.pick.type = "whale" /\ d.pick.where = event[e].where
      BY <1>2, <1>3 DEF Charge, Sought, InHand
    <2>2. /\ event[e].at <= d.at /\ d.at <= now
          /\ event[e].at \in Int /\ d.at \in Int /\ now \in Int
      BY <1>1 DEF Charge, ProcInv, PlaceInv, Active, TypeOK, Event, Detector, Times
    <2>3. signals'[id].created + Recent >= event'[e].at
      BY <1>1, <2>2, DetectorsAssumption
    <2> QED
      BY <1>1, <1>3, <2>1, <2>3 DEF Noticed
  <1>4. CASE event[e].kind = "loan"
    BY <1>1, <1>2, <1>4 DEF Charge, Sought, InHand, Noticed
  <1>5. CASE event[e].kind = "transfer"
    <2>1. d.pick.type = "lst" /\ d.pick.ref = e
      BY <1>2, <1>5 DEF Charge, Sought, InHand
    <2>2. d.pick.refs = {e}
      BY <1>1, <2>1 DEF ProcInv, AimInv
    <2> QED
      BY <1>1, <1>5, <2>2 DEF Noticed
  <1> QED
    BY <1>3, <1>4, <1>5 DEF Charge, Sought

\* An aggregate that is written back lists the transfer that was in hand.
LEMMA FoldsAnswer ==
    ASSUME TypeOK, NEW p \in Processes, ProcInv(p), Folds(p), NEW e, Charge(p, e), InHand(p, e)
    PROVE  Noticed(e)'
  <1>1. /\ Scan(p) = "lst" /\ det[p].pick.ref \in det[p].pick.refs
        /\ det[p].into \in Rows' /\ signals'[det[p].into].refs = det[p].pick.refs
        /\ event' = event
    BY DEF Folds, ProcInv, PlaceInv, FoldInv
  <1>2. event[e].kind = "transfer" /\ det[p].pick.ref = e
    BY <1>1 DEF Charge, Sought, InHand
  <1> QED
    BY <1>1, <1>2 DEF Noticed

\* Within its scan, a process loses nothing it answers for.
LEMMA BusyAnswers ==
    ASSUME IndInv, NEW p \in Processes, AnswerInv(p),
           LedgerCandidates(p) \/ Item(p) \/ InsertSignal(p) \/ FoldIntoAggregate(p)
    PROVE  AnswerInv(p)'
  <1> USE DEF IndInv
  <1>1. TypeOK /\ EventInv /\ ProcInv(p) /\ \A i \in Rows : RowInv(i)
    OBVIOUS
  <1>2. CASE LedgerCandidates(p)
    <2>1. due' = due /\ det[p].pc = "ledger"
      BY <1>2 DEF LedgerCandidates, At
    <2>2. Scan(p) = "smart"
      BY <1>1, <2>1 DEF ProcInv, PlaceInv
    <2>3. due[p] = {}
      BY <2>2 DEF AnswerInv, Charge, Sought
    <2> QED
      BY <2>1, <2>3 DEF AnswerInv
  <1>3. CASE Item(p)
    <2>1. Works(p) /\ det[p].pc = "item"
      BY <1>1, <1>3, ItemIs DEF Item, At, ProcInv
    <2>2. Moves(p) /\ Kept(p) /\ UNCHANGED <<event, due>>
      BY <2>1 DEF Works
    <2>3. PICK item \in det[p].todo :
            \/ FlowItem(p, item) \/ SmartItem(p, item) \/ WhaleItem(p, item)
            \/ LendingItem(p, item) \/ LstItem(p, item) \/ DepegItem(p, item)
      BY <1>3 DEF Item
    <2>4. SUFFICES ASSUME NEW e \in due[p]
          PROVE  Charge(p, e)' /\ (ItemOf(e) \in det[p].todo \/ InHand(p, e) \/ Noticed(e))'
      BY <2>2 DEF AnswerInv
    <2>5. Charge(p, e) /\ (ItemOf(e) \in det[p].todo \/ Noticed(e))
      BY <2>1 DEF AnswerInv, InHand
    <2>6. Charge(p, e)'
      BY <2>2, <2>5 DEF Charge, Scan, Kept
    <2>7. WhaleItem(p, item) \/ LendingItem(p, item) \/ LstItem(p, item)
      BY <2>3, <2>5 DEF FlowItem, SmartItem, DepegItem, Charge, Sought
    <2>8. ItemOf(e) \in det[p].todo => ItemOf(e) \in det'[p].todo \/ InHand(p, e)' \/ Noticed(e)
      BY <1>1, <2>1, <2>2, <2>5, <2>7, WhaleAnswers, EventAnswers
    <2>9. Noticed(e) => Noticed(e)'
      <3>1. ~Folds(p)
        BY <2>1 DEF Folds
      <3> QED
        BY <1>1, <2>1, <3>1, NoticedKeeps
    <2> QED
      BY <2>2, <2>5, <2>6, <2>8, <2>9 DEF ItemOf
  <1>4. CASE InsertSignal(p) /\ Recorded(det[p].pick) # {}
    <2>1. /\ Works(p) /\ det[p].pc = "insert"
          /\ det' = [det EXCEPT ![p] = Conflict(det[p])]
      <3>1. det[p].pc = "insert" /\ det' = [det EXCEPT ![p] = Conflict(det[p])]
        BY <1>4 DEF InsertSignal, At
      <3>2. PlaceInv(p)
        BY <1>1 DEF ProcInv
      <3> QED
        BY <1>1, <1>4, <3>1, <3>2, ConflictIs
    <2>2. Moves(p) /\ Kept(p) /\ UNCHANGED <<event, due>>
      BY <2>1 DEF Works
    <2>3. det'[p].todo = det[p].todo
      BY <1>1, <2>1 DEF Conflict, TypeOK, Detector
    <2>4. SUFFICES ASSUME NEW e \in due[p]
          PROVE  Charge(p, e)' /\ (ItemOf(e) \in det[p].todo \/ Noticed(e))'
      BY <2>2 DEF AnswerInv
    <2>5. Charge(p, e) /\ (ItemOf(e) \in det[p].todo \/ InHand(p, e) \/ Noticed(e))
      BY DEF AnswerInv
    <2>6. Charge(p, e)'
      BY <2>2, <2>5 DEF Charge, Scan, Kept
    <2>7. InHand(p, e) => Noticed(e)
      BY <1>1, <1>4, <2>1, <2>5, ConflictAnswers
    <2>8. Noticed(e) => Noticed(e)'
      <3>1. ~Folds(p)
        BY <2>1 DEF Folds
      <3> QED
        BY <1>1, <2>1, <3>1, NoticedKeeps
    <2> QED
      BY <2>2, <2>3, <2>5, <2>6, <2>7, <2>8 DEF ItemOf
  <1>5. CASE InsertSignal(p) /\ Recorded(det[p].pick) = {}
    <2>1. Adds(p)
      BY <1>1, <1>5, AddsIs DEF ProcInv
    <2>2. /\ UNCHANGED <<event, due>> /\ det'[p].todo = det[p].todo
          /\ det'[p].scan = det[p].scan /\ det'[p].at = det[p].at /\ det[p].pc = "insert"
      BY <2>1 DEF Adds
    <2>4. SUFFICES ASSUME NEW e \in due[p]
          PROVE  Charge(p, e)' /\ (ItemOf(e) \in det[p].todo \/ Noticed(e))'
      BY <2>2 DEF AnswerInv
    <2>5. Charge(p, e) /\ (ItemOf(e) \in det[p].todo \/ InHand(p, e) \/ Noticed(e))
      BY DEF AnswerInv
    <2>6. Charge(p, e)'
      BY <2>2, <2>5 DEF Charge, Scan
    <2>7. InHand(p, e) => Noticed(e)'
      BY <1>1, <2>1, <2>5, AddsAnswer
    <2>8. Noticed(e) => Noticed(e)'
      <3>1. ~Folds(p)
        BY <2>2 DEF Folds
      <3> QED
        BY <1>1, <2>1, <3>1, NoticedKeeps
    <2> QED
      BY <2>2, <2>5, <2>6, <2>7, <2>8 DEF ItemOf
  <1>6. CASE FoldIntoAggregate(p)
    <2>1. Folds(p)
      BY <1>1, <1>6, FoldsIs DEF ProcInv
    <2>2. /\ event' = event /\ det'[p].todo = det[p].todo
          /\ det'[p].scan = det[p].scan /\ det'[p].at = det[p].at
          /\ due'[p] = due[p] \ (signals[det[p].into].refs \ det[p].pick.refs)
      BY <2>1 DEF Folds, Kept
    <2>4. SUFFICES ASSUME NEW e \in due'[p]
          PROVE  Charge(p, e)' /\ (ItemOf(e) \in det[p].todo \/ Noticed(e))'
      BY DEF AnswerInv
    <2>5. /\ Charge(p, e) /\ (ItemOf(e) \in det[p].todo \/ InHand(p, e) \/ Noticed(e))
          /\ e \notin signals[det[p].into].refs \ det[p].pick.refs
      BY <2>2 DEF AnswerInv
    <2>6. Charge(p, e)'
      BY <2>2, <2>5 DEF Charge, Scan
    <2>7. InHand(p, e) => Noticed(e)'
      BY <1>1, <2>1, <2>5, FoldsAnswer
    <2>8. Noticed(e) => Noticed(e)'
      BY <1>1, <2>1, <2>5, NoticedKeeps
    <2> QED
      BY <2>2, <2>5, <2>6, <2>7, <2>8 DEF ItemOf
  <1> QED
    BY <1>2, <1>3, <1>4, <1>5, <1>6

LEMMA AnswerStep ==
    ASSUME IndInv, \A q \in Processes : AnswerInv(q), [Next]_vars
    PROVE  \A q \in Processes : AnswerInv(q)'
  <1>1. TypeOK /\ EventInv /\ \A q \in Processes : ProcInv(q)
    BY DEF IndInv
  <1>2. CASE UNCHANGED vars \/ Tick
    <2>1. UNCHANGED <<event, signals, det, due>>
      BY <1>2 DEF Tick, vars, tables
    <2> QED
      BY <2>1 DEF AnswerInv, Charge, ItemOf, InHand, Noticed, Scan, Rows
  <1>3. ASSUME NEW f \in Events, Arrive(f), NEW q \in Processes
        PROVE  AnswerInv(q)'
    <2>1. UNCHANGED <<signals, det, due>> /\ event[f] = NotYet
      BY <1>3 DEF Arrive
    <2>2. \A e \in Events : event[e] # NotYet => event'[e] = event[e]
      BY <1>1, <1>3, <2>1 DEF Arrive, TypeOK
    <2>3. SUFFICES ASSUME NEW e \in due[q]
          PROVE  Charge(q, e)' /\ (ItemOf(e) \in det[q].todo \/ InHand(q, e) \/ Noticed(e))'
      BY <2>1 DEF AnswerInv
    <2>4. Charge(q, e) /\ (ItemOf(e) \in det[q].todo \/ InHand(q, e) \/ Noticed(e))
      BY DEF AnswerInv
    <2>5. event'[e] = event[e]
      BY <2>2, <2>4 DEF Charge
    <2> QED
      BY <2>1, <2>4, <2>5 DEF Charge, ItemOf, InHand, Noticed, Scan, Rows
  <1>4. ASSUME NEW p \in Processes, Turns(p), NEW q \in Processes
        PROVE  AnswerInv(q)'
    BY <1>1, <1>4, TurnAnswers, OthersAnswer
  <1>5. CASE Restart
    <2>1. Loop \in Processes
      BY DEF Processes
    <2> QED
      BY <1>1, <1>4, <1>5, <2>1, TurnsAre DEF ProcInv
  <1>6. ASSUME NEW p \in Processes, StartRound(p) \/ EndScan(p) \/ ScanFails(p), NEW q \in Processes
        PROVE  AnswerInv(q)'
    BY <1>1, <1>4, <1>6, TurnsAre DEF ProcInv
  <1>7. ASSUME NEW p \in Processes, NEW q \in Processes,
               LedgerCandidates(p) \/ Item(p) \/ InsertSignal(p) \/ FoldIntoAggregate(p)
        PROVE  AnswerInv(q)'
    <2>1. Works(p) \/ Adds(p) \/ Folds(p)
      BY <1>1, <1>7, LedgerIs, ItemIs, ConflictIs, AddsIs, FoldsIs DEF ProcInv
    <2> QED
      BY <1>1, <1>7, <2>1, BusyAnswers, OthersAnswer
  <1> QED
    BY <1>2, <1>3, <1>5, <1>6, <1>7 DEF Next, Step

LEMMA Answered == Spec => [](IndInv /\ \A p \in Processes : AnswerInv(p))
  <1>1. Init => \A p \in Processes : AnswerInv(p)
    BY DEF Init, AnswerInv
  <1>2. IndInv /\ (\A p \in Processes : AnswerInv(p)) /\ [Next]_vars
           => (\A p \in Processes : AnswerInv(p))'
    BY AnswerStep
  <1> QED
    BY Inductive, <1>1, <1>2, PTL DEF Spec

LEMMA ThroughNotices ==
    ASSUME NEW p \in Processes, AnswerInv(p), NEW scan, Through(p, scan), NEW e \in due[p]
    PROVE  Noticed(e) /\ <<scan, event[e].kind>> \in Sought
  BY DEF Through, At, AnswerInv, InHand, Charge

\* A loan or a liquidation has at most one signal, and has one when a scan that had it in
\* its window and stored before it began is through, whatever else scans or fails.
THEOREM NoLoanMissed == Spec => []LoansReported
  <1>1. IndInv /\ (\A p \in Processes : AnswerInv(p)) => LoansReported
    <2> SUFFICES ASSUME IndInv, \A p \in Processes : AnswerInv(p)
                 PROVE  LoansReported
      OBVIOUS
    <2>1. ASSUME NEW e \in Events
          PROVE  Cardinality(LoansOf(e)) <= 1
      <3>1. \A i, j \in LoansOf(e) : i = j
        BY DEF IndInv, LoansOf, RowInv, KeyInv, Rows
      <3>2. CASE LoansOf(e) = {}
        <4>1. Cardinality(LoansOf(e)) = 0
          BY <3>2, FS_EmptySet
        <4> QED
          BY <4>1
      <3>3. ASSUME NEW i \in LoansOf(e)
            PROVE  Cardinality(LoansOf(e)) <= 1
        <4>1. LoansOf(e) = {i}
          BY <3>1
        <4>2. Cardinality(LoansOf(e)) = 1
          BY <4>1, FS_Singleton, Zenon
        <4> QED
          BY <4>2
      <3> QED
        BY <3>2, <3>3
    <2>2. ASSUME NEW p \in Processes, Through(p, "lending"), NEW e \in due[p]
          PROVE  LoansOf(e) # {}
      <3>1. Noticed(e) /\ event[e].kind = "loan"
        BY <2>2, ThroughNotices DEF Sought
      <3> QED
        BY <3>1 DEF Noticed, LoansOf, Rows
    <2> QED
      BY <2>1, <2>2 DEF LoansReported
  <1> QED
    BY Answered, <1>1, PTL

\* A scan that is through has noticed every whale it answers for: the pool has a signal
\* about as young, or the swap was reported as smart money.
THEOREM NoWhaleMissed == Spec => []WhaleNotMissed
  <1>1. IndInv /\ (\A p \in Processes : AnswerInv(p)) => WhaleNotMissed
    <2> SUFFICES ASSUME \A p \in Processes : AnswerInv(p),
                        NEW p \in Processes, Through(p, "whale"), NEW e \in due[p]
                 PROVE  \E i \in Rows :
                           \/ signals[i].type = "smart" /\ signals[i].ref = e
                           \/ /\ signals[i].type = "whale" /\ signals[i].where = event[e].where
                              /\ \/ signals[i].created + Cooldown > event[e].at
                                 \/ signals[i].created + Recent >= event[e].at
      BY DEF WhaleNotMissed, Rows
    <2>1. Noticed(e) /\ event[e].kind = "whale"
      BY ThroughNotices DEF Sought
    <2> QED
      BY <2>1 DEF Noticed
  <1> QED
    BY Answered, <1>1, PTL

\* A scan that is through has had every transfer it answers for counted, unless a fold of
\* another process overwrote it; and an aggregate counts what it lists.
THEOREM NoTransferMissed == Spec => []TransfersCounted
  <1>1. IndInv /\ (\A p \in Processes : AnswerInv(p)) => TransfersCounted
    <2> SUFFICES ASSUME IndInv, \A p \in Processes : AnswerInv(p)
                 PROVE  TransfersCounted
      OBVIOUS
    <2>1. ASSUME NEW p \in Processes, Through(p, "lst"), NEW e \in due[p]
          PROVE  \E i \in DOMAIN signals : e \in signals[i].refs
      <3>1. Noticed(e) /\ event[e].kind = "transfer"
        BY <2>1, ThroughNotices DEF Sought
      <3> QED
        BY <3>1 DEF Noticed, Rows
    <2>2. \A i \in DOMAIN signals :
             signals[i].type = "lst" => signals[i].count = Cardinality(signals[i].refs)
      BY DEF IndInv, RowInv, Rows
    <2> QED
      BY <2>1, <2>2 DEF TransfersCounted
  <1> QED
    BY Answered, <1>1, PTL
=============================================================================

----------------------------- MODULE Detectors -----------------------------
(***************************************************************************)
(* Detection (internal/detect, detectLoop): six scans, one after the other, *)
(* over the logs of the last minutes, many times over each log. What keeps *)
(* a log from being reported again is in the signals table: a key that an  *)
(* insert may not repeat, cooldowns that are looked up before, and         *)
(* aggregates that list what has been folded into them. The supervisor's   *)
(* loop is not the only writer: a one-shot `detect -once` is a second      *)
(* process.                                                                *)
(*                                                                         *)
(* An event clears the bars of size or it does not, for good; pools are    *)
(* past their warmup.                                                      *)
(***************************************************************************)
EXTENDS Integers, Sequences, FiniteSets

CONSTANTS
    Events,         \* swaps, loans and transfers
    Pools,
    StablePools,    \* those that trade the dollar token
    Token,          \* the staking token
    Aave,           \* the lending pool
    Dollar,         \* the stable token that may trade below its peg
    Wallets,        \* accounts that sign transactions
    Other,          \* whoever stands for the actor when the signer is not known
    Loop,           \* the supervisor's detect stage
    Commands,       \* one-shot detect processes
    Recent,         \* the window of fresh logs of every scan
    Window,         \* LSTFlowWindowMin
    Cooldown,       \* CooldownMin
    ActorCooldown,  \* SmartMoneyCooldownMin
    DepegCooldown,  \* DepegCooldownMin
    MinSwaps,       \* SmartMoneyMinSwaps
    DepegMinSwaps,
    Width,          \* BucketMin
    Start,          \* bound: where the clock starts, how old a log may be at first
    Lags,           \* bound: how late a log may be stored
    MaxTime,        \* bound: the clock
    MaxFaults       \* bound: scans that fail, processes that die, answers missing

ASSUME DetectorsAssumption ==
    /\ Loop \notin Commands
    /\ Other \notin Wallets /\ StablePools \subseteq Pools
    /\ Token \notin Pools /\ Aave \notin Pools \cup {Token} /\ Dollar \notin Pools \cup {Token, Aave}
    /\ Recent \in Nat /\ Window \in Nat
    /\ Cooldown \in Nat /\ ActorCooldown \in Nat /\ DepegCooldown \in Nat
    /\ MinSwaps \in Nat /\ DepegMinSwaps \in Nat \ {0} /\ Width \in Nat \ {0} /\ MaxFaults \in Nat
    /\ MaxTime \in Nat /\ Start \in 0..MaxTime /\ Lags \subseteq Nat

Processes == Commands \cup {Loop}
Times == 0..MaxTime
Scans == <<"flow", "smart", "whale", "lending", "lst", "depeg">>
Types == {"flow", "smart", "whale", "lending", "lst", "depeg"}

VARIABLES
    now,        \* the clock
    event,      \* raw_logs: the events there are
    ledger,     \* large_swaps
    signals,    \* the signals table
    det,        \* per process: what it is scanning
    handed,     \* per signal: how often it was given to the hot path
    dropped,    \* history: signals whose scan failed after it had inserted them
    due,        \* history, per process: the events its scan answers for (see Due)
    faults

tables == <<event, ledger, signals>>
vars == <<now, event, ledger, signals, det, handed, dropped, due, faults>>

\* The places logs come from, and the subjects of signals.
Places == Pools \cup {Token, Aave}
Subjects == Places \cup {Dollar}

\* An offpeg swap is too small to be looked at for its size.
Kinds == {"large", "whale", "offpeg", "loan", "transfer"}
NotYet == [kind |-> "none"]
Event == [kind : Kinds, where : Places, actor : Wallets, at : Times] \cup {NotYet}

\* refs and count: the aggregate in a payload (lst); raced, round and by are history:
\* which signals its look-up was too early to see, and who inserted it in which round.
Signal == [type : Types, where : Subjects, actor : Wallets \cup {Other},
           ref : Events \cup Times, created : Times, refs : SUBSET Events, count : Nat,
           raced : SUBSET Nat, round : Times, by : Processes]

\* seen: history, how many signals there were when the cooldown was looked up.
NoPick == [type |-> "none"]
Pick == [type : Types, where : Subjects, actor : Wallets \cup {Other},
         ref : Events \cup Times, refs : SUBSET Events, count : Nat, seen : Nat] \cup {NoPick}

Pc == {"idle", "ledger", "item", "insert", "fold", "done"}

\* scan: index of the scan; at: when it began; todo: what is left of it; found:
\* the swaps it ledgered; out: the signals it inserted; fired: firedRefs; pick
\* and into: what is inserted, or folded into which signal; round: the process's
\* round of scans, -1 before the first.
Detector == [pc : Pc, scan : 1..Len(Scans), at : Times,
             todo : SUBSET (Pools \cup Wallets \cup Events), found : SUBSET Events,
             out : SUBSET Nat, fired : SUBSET Events, pick : Pick, into : Nat,
             round : Times \cup {-1}]

TypeOK ==
    /\ now \in Times
    /\ event \in [Events -> Event]
    /\ ledger \in SUBSET Events
    /\ signals \in Seq(Signal)
    /\ det \in [Processes -> Detector]
    /\ handed \in [DOMAIN signals -> Nat]
    /\ dropped \in SUBSET DOMAIN signals
    /\ due \in [Processes -> SUBSET Events]
    /\ faults \in 0..MaxFaults

Rest == [pc |-> "idle", scan |-> 1, at |-> 0, todo |-> {}, found |-> {}, out |-> {},
         fired |-> {}, pick |-> NoPick, into |-> 0, round |-> -1]

Init ==
    /\ now = Start
    /\ event = [e \in Events |-> NotYet]
    /\ ledger = {}
    /\ signals = <<>>
    /\ det = [p \in Processes |-> Rest]
    /\ handed = <<>>
    /\ dropped = {}
    /\ due = [p \in Processes |-> {}]
    /\ faults = 0

-----------------------------------------------------------------------------
(* Clock and chain. Time passes whatever the processes do: within a scan,   *)
(* and while the supervisor is down. A unit is a detect interval, so that   *)
(* the loop's ticker fires at most once in it.                              *)

Tick ==
    /\ now < MaxTime
    /\ now' = now + 1
    /\ UNCHANGED <<tables, det, handed, dropped, due, faults>>

\* The block times of the logs that may be stored now.
Stored == {now - lag : lag \in {l \in Lags : l <= now}}

\* The collector stores a log with the time of its block: the log may be as old as the
\* collector was behind, or down.
Arrive(e) ==
    /\ event[e] = NotYet
    /\ \E kind \in Kinds, where \in Places, actor \in Wallets, at \in Stored :
          /\ kind = "transfer" <=> where = Token
          /\ kind = "loan" <=> where = Aave
          /\ kind = "offpeg" => where \in StablePools
          /\ event' = [event EXCEPT ![e] =
                [kind |-> kind, where |-> where, actor |-> actor, at |-> at]]
    /\ UNCHANGED <<now, ledger, signals, det, handed, dropped, due, faults>>

-----------------------------------------------------------------------------
(* What the queries return.                                                *)

\* Fault: the recent window ends too early.
FreshLogsAfter(at, where) ==
    {e \in Events : event[e] # NotYet /\ event[e].where = where /\ event[e].at + Recent > at}

\* RawLogsSince for the recent window of a scan that began at this time.
FreshLogs(at, where) ==
    {e \in Events : event[e] # NotYet /\ event[e].where = where /\ event[e].at + Recent >= at}

\* Fault: the throttle ends a unit early.
CoolingShort(scope, span) ==
    \E i \in DOMAIN signals : scope[i] /\ now - signals[i].created < span - 1

\* LastSignalTime and its variants: is a signal of this scope younger than span?
Cooling(scope, span) ==
    \E i \in DOMAIN signals : scope[i] /\ now - signals[i].created < span

OfPool(where) == [i \in DOMAIN signals |-> signals[i].where = where]
\* Fault: the lookup forgets the type.
OfPoolAnyType(where, type) == [i \in DOMAIN signals |-> signals[i].where = where]
OfPoolAndType(where, type) ==
    [i \in DOMAIN signals |-> signals[i].where = where /\ signals[i].type = type]
OfActor(actor) ==
    [i \in DOMAIN signals |-> signals[i].actor = actor /\ signals[i].type = "smart"]

\* ActorActivitySince; the window outlasts the model's clock.
ActorActivity(actor) == Cardinality({e \in ledger : event[e].actor = actor})

\* The largest of a set of swaps, the earlier ones first.
LargestOf(swaps) ==
    LET bigger(a, b) == event[a].kind = "whale" /\ event[b].kind = "large"
        best == {s \in swaps : \A t \in swaps : ~bigger(t, s)}
    IN {s \in best : \A t \in best : event[s].at <= event[t].at}

\* OpenLSTSignalByActor: the newest one that is still in the window.
OpenAggregates(p, actor) ==
    {i \in DOMAIN signals : /\ signals[i].type = "lst" /\ signals[i].actor = actor
                            /\ signals[i].created + Window >= det[p].at}
OpenAggregate(p, actor) ==
    LET open == OpenAggregates(p, actor) IN
    CHOOSE i \in open : \A j \in open : signals[j].created < signals[i].created \/ j <= i

-----------------------------------------------------------------------------
(* The order of the scans.                                                 *)

At(p, pc) == det[p].pc = pc
Scan(p) == Scans[det[p].scan]

\* What a scan that begins lists.
Listed(scan) ==
    CASE scan = "lending" -> FreshLogs(now, Aave)
      [] scan = "lst" -> FreshLogs(now, Token)
      [] scan = "depeg" -> StablePools
      [] OTHER -> Pools

\* ScanOnce of the scan with this index begins: it notes the time and lists what it
\* will look at.
Begin(d, index) ==
    [Rest EXCEPT !.pc = IF Scans[index] = "smart" THEN "ledger" ELSE "item",
                 !.scan = index, !.at = now, !.round = d.round,
                 !.fired = IF Scans[index] = "whale" THEN d.fired ELSE {},
                 !.todo = Listed(Scans[index])]

\* History: a scan answers for the events of its kind that are stored and in the window
\* when it begins.
Sought == {<<"whale", "whale">>, <<"lending", "loan">>, <<"lst", "transfer">>}
Due(scan) ==
    {e \in Events : /\ event[e] # NotYet /\ event[e].at >= now - Recent
                    /\ <<scan, event[e].kind>> \in Sought}

\* Process p turns to its next scan, or comes to the end of its round.
Turn(p, next) ==
    /\ det' = [det EXCEPT ![p] = next]
    /\ due' = [due EXCEPT ![p] = Due(Scans[next.scan])]

\* History: the loop's rounds are told apart by their times; a command has one.
Round(p) == IF p = Loop THEN now ELSE 0

\* The next tick of the loop, or a command that starts.
StartRound(p) ==
    /\ At(p, "idle")
    /\ det[p].round < Round(p)
    /\ Turn(p, Begin([Rest EXCEPT !.round = Round(p)], 1))
    /\ UNCHANGED <<now, tables, handed, dropped, faults>>

\* After a scan: the next one, or the round is over.
Proceed(d, p) ==
    IF d.scan < Len(Scans) THEN Begin(d, d.scan + 1)
    ELSE IF p = Loop THEN [Rest EXCEPT !.round = d.round] ELSE [Rest EXCEPT !.pc = "done"]

\* A scan returns: processSignal for each of its signals.
EndScan(p) ==
    /\ At(p, "item") /\ det[p].todo = {}
    /\ handed' = [i \in DOMAIN handed |-> handed[i] + IF i \in det[p].out THEN 1 ELSE 0]
    /\ Turn(p, Proceed(det[p], p))
    /\ UNCHANGED <<now, tables, dropped, faults>>

\* Fault: as the comment in detectLoop has it, the refs of a failed scan are empty.
ScanFailsWithoutRefs(p) ==
    /\ det[p].pc \notin {"idle", "done"}
    /\ faults < MaxFaults
    /\ faults' = faults + 1
    /\ dropped' = dropped \cup det[p].out
    /\ Turn(p, IF p = Loop THEN Proceed([det[p] EXCEPT !.fired = {}], p)
               ELSE [Rest EXCEPT !.pc = "done"])
    /\ UNCHANGED <<now, tables, handed>>

\* A statement fails: the signals inserted so far get no hot path, but what was
\* fired on is known to the whale scan all the same. The loop goes on with the next
\* scan, a command ends.
ScanFails(p) ==
    /\ det[p].pc \notin {"idle", "done"}
    /\ faults < MaxFaults
    /\ faults' = faults + 1
    /\ dropped' = dropped \cup det[p].out
    /\ Turn(p, IF p = Loop THEN Proceed(det[p], p) ELSE [Rest EXCEPT !.pc = "done"])
    /\ UNCHANGED <<now, tables, handed>>

\* The supervisor dies and is started again.
Restart ==
    /\ det[Loop].pc # "idle"
    /\ faults < MaxFaults
    /\ faults' = faults + 1
    /\ dropped' = dropped \cup det[Loop].out
    /\ Turn(Loop, [Rest EXCEPT !.round = det[Loop].round])
    /\ UNCHANGED <<now, tables, handed>>

-----------------------------------------------------------------------------
(* The items of a scan.                                                    *)

Skip(p, item) == det' = [det EXCEPT ![p].todo = @ \ {item}]

Insert(p, item, pick) ==
    det' = [det EXCEPT ![p] = [det[p] EXCEPT !.todo = @ \ {item}, !.pc = "insert", !.pick = pick]]

\* Fault: subject and actor change places.
SignalBy(type, where, actor, ref) ==
    [type |-> type, where |-> actor, actor |-> where, ref |-> ref,
     refs |-> IF type = "lst" THEN {ref} ELSE {}, count |-> 1, seen |-> Len(signals)]

SignalOn(type, where, actor, ref) ==
    [type |-> type, where |-> where, actor |-> actor, ref |-> ref,
     refs |-> IF type = "lst" THEN {ref} ELSE {}, count |-> 1, seen |-> Len(signals)]

\* What makes the newest bucket of the pool an outlier: the whales in it.
Outlier(pool) ==
    LET swaps == {e \in Events : event[e] # NotYet /\ event[e].where = pool}
    IN {e \in swaps : /\ event[e].kind = "whale"
                      /\ \A f \in swaps : event[f].at \div Width <= event[e].at \div Width}

\* Flow: the newest bucket of the pool, if it is an outlier.
FlowItem(p, pool) ==
    /\ Scan(p) = "flow"
    /\ IF Cooling(OfPool(pool), Cooldown) \/ Outlier(pool) = {} THEN Skip(p, pool)
       ELSE \E e \in Outlier(pool) :
              Insert(p, pool, SignalOn("flow", pool, Other, event[e].at \div Width))
    /\ UNCHANGED <<ledger, faults>>

\* Smart money, first pass: every fresh large swap of the pool whose signer is found
\* goes into the ledger. After the last pool, the actors found are looked at.
LedgerCandidates(p) ==
    /\ At(p, "ledger")
    /\ \E pool \in det[p].todo, unresolved \in SUBSET Events :
          LET candidates == {e \in FreshLogs(det[p].at, pool) : event[e].kind # "offpeg"}
              found == candidates \ unresolved
              all == det[p].found \cup found
              rest == det[p].todo \ {pool}
          IN
          /\ unresolved \subseteq candidates
          /\ unresolved # {} => faults < MaxFaults
          /\ faults' = faults + IF unresolved = {} THEN 0 ELSE 1
          /\ ledger' = ledger \cup found
          /\ det' = [det EXCEPT ![p] =
                IF rest # {} THEN [@ EXCEPT !.todo = rest, !.found = all]
                ELSE [@ EXCEPT !.pc = "item", !.found = all, !.todo = {event[e].actor : e \in all}]]
    /\ UNCHANGED <<now, event, signals, handed, dropped, due>>

\* Smart money, second pass, fireForActor up to its insert; whether the swaps have
\* the direction and the score is open.
SmartItem(p, actor) ==
    /\ Scan(p) = "smart"
    /\ \/ Skip(p, actor)
       \/ /\ ~Cooling(OfActor(actor), ActorCooldown)
          /\ ActorActivity(actor) >= MinSwaps
          /\ \E e \in LargestOf({f \in det[p].found : event[f].actor = actor}) :
                Insert(p, actor, SignalOn("smart", event[e].where, actor, e))
    /\ UNCHANGED <<ledger, faults>>

\* The fresh swaps past the bar that no smart-money signal of this round stands on.
Whales(p, pool) ==
    {e \in FreshLogs(det[p].at, pool) \ det[p].fired : event[e].kind = "whale"}

\* Whale: the largest of them.
WhaleItem(p, pool) ==
    /\ Scan(p) = "whale"
    /\ IF Cooling(OfPoolAndType(pool, "whale"), Cooldown) \/ Whales(p, pool) = {}
       THEN Skip(p, pool)
       ELSE \E e \in LargestOf(Whales(p, pool)) :
              Insert(p, pool, SignalOn("whale", pool, Other, e))
    /\ UNCHANGED <<ledger, faults>>

\* Lending: the oldest loan or liquidation left. Nothing throttles it but the key.
LendingItem(p, e) ==
    /\ Scan(p) = "lending"
    /\ \A f \in det[p].todo : event[e].at <= event[f].at
    /\ \E actor \in {event[e].actor, Other} :
          /\ actor # event[e].actor => faults < MaxFaults
          /\ faults' = faults + IF actor = event[e].actor THEN 0 ELSE 1
          /\ Insert(p, e, SignalOn("lending", Aave, actor, e))
    /\ UNCHANGED ledger

\* Whether the median price of these swaps may be below the peg: with as many swaps on
\* as off it, the median lies between.
BelowPeg(swaps) ==
    LET off == {e \in swaps : event[e].kind = "offpeg"} IN
    {below \in BOOLEAN :
        IF below THEN 2 * Cardinality(off) >= Cardinality(swaps)
                 ELSE 2 * Cardinality(off) <= Cardinality(swaps)}

\* Depeg: the signal is about the token, whatever pool it was read in, and about the
\* bucket the scan began in.
DepegItem(p, pool) ==
    LET swaps == FreshLogs(det[p].at, pool) IN
    /\ Scan(p) = "depeg"
    /\ \E below \in BelowPeg(swaps) :
          IF ~below \/ Cardinality(swaps) < DepegMinSwaps
                    \/ Cooling(OfPoolAndType(Dollar, "depeg"), DepegCooldown)
          THEN Skip(p, pool)
          ELSE Insert(p, pool, SignalOn("depeg", Dollar, Other, det[p].at \div Width))
    /\ UNCHANGED <<ledger, faults>>

\* A transfer and the aggregate it belongs to, as it was read.
Fold(p, e, i, actor) ==
    det' = [det EXCEPT ![p] = [det[p] EXCEPT !.todo = @ \ {e}, !.pc = "fold", !.into = i,
        !.pick = [SignalOn("lst", Token, actor, e) EXCEPT
                     !.refs = signals[i].refs \cup {e}, !.count = signals[i].count + 1]]]

\* LST flow: the oldest transfer left. Its actor is the signer, or the counterparty
\* when the node does not answer. An open aggregate of the actor is read, to be
\* written back in the next statement; without one the transfer opens its own.
LstItem(p, e) ==
    /\ Scan(p) = "lst"
    /\ \A f \in det[p].todo : event[e].at <= event[f].at
    /\ \E actor \in {event[e].actor, Other} :
          /\ actor # event[e].actor => faults < MaxFaults
          /\ faults' = faults + IF actor = event[e].actor THEN 0 ELSE 1
          /\ IF OpenAggregates(p, actor) = {}
             THEN Insert(p, e, SignalOn("lst", Token, actor, e))
             ELSE LET i == OpenAggregate(p, actor) IN
                  IF e \in signals[i].refs THEN Skip(p, e)
                  ELSE Fold(p, e, i, actor)
    /\ UNCHANGED ledger

Item(p) ==
    /\ At(p, "item")
    /\ \E item \in det[p].todo :
          \/ FlowItem(p, item) \/ SmartItem(p, item) \/ WhaleItem(p, item)
          \/ LendingItem(p, item) \/ LstItem(p, item) \/ DepegItem(p, item)
    /\ UNCHANGED <<now, event, signals, handed, dropped, due>>

-----------------------------------------------------------------------------
(* The two ways to write.                                                  *)

\* The unique keys of the signals table: the row that has the key already. The metric in
\* the key of bucket signals is left out: each type here has one.
Recorded(pick) ==
    {i \in DOMAIN signals : /\ signals[i].type = pick.type /\ signals[i].where = pick.where
                            /\ signals[i].ref = pick.ref}

\* What a cooldown keeps apart: whales of a pool, depegs of a token, smart money of an
\* actor, and a flow signal from whatever the pool had before.
Throttles(before, after) ==
    \/ after.type = "flow" /\ before.where = after.where
    \/ after.type \in {"whale", "depeg"} /\ before.type = after.type /\ before.where = after.where
    \/ after.type = "smart" /\ before.type = "smart" /\ before.actor = after.actor

\* History: the signals that throttle this one and were inserted after its look-up.
Raced(pick) == {i \in DOMAIN signals : i > pick.seen /\ Throttles(signals[i], pick)}

\* Fault: on a conflict the insert answers with the row that is there.
ConflictReturnsRow(d) ==
    [d EXCEPT !.pc = "item", !.pick = NoPick, !.out = @ \cup Recorded(d.pick)]

\* Fault: a conflict ends the scan.
ConflictEndsScan(d) == [d EXCEPT !.pc = "item", !.pick = NoPick, !.todo = {}]

\* ON CONFLICT DO NOTHING: the scan goes on without a signal.
Conflict(d) == [d EXCEPT !.pc = "item", !.pick = NoPick]

\* InsertSignal; a smart-money signal that was inserted enters firedRefs.
InsertSignal(p) ==
    LET d == det[p] IN
    /\ At(p, "insert")
    /\ IF Recorded(d.pick) # {}
       THEN /\ det' = [det EXCEPT ![p] = Conflict(d)]
            /\ UNCHANGED <<signals, handed>>
       ELSE LET id == Len(signals) + 1 IN
            /\ signals' = Append(signals,
                  [type |-> d.pick.type, where |-> d.pick.where, actor |-> d.pick.actor,
                   ref |-> d.pick.ref, created |-> now, refs |-> d.pick.refs,
                   count |-> d.pick.count, raced |-> Raced(d.pick), round |-> d.round, by |-> p])
            /\ det' = [det EXCEPT ![p] =
                  [d EXCEPT !.pc = "item", !.pick = NoPick, !.out = @ \cup {id},
                            !.fired = @ \cup IF d.pick.type = "smart" THEN {d.pick.ref} ELSE {}]]
            /\ handed' = [i \in 1..id |-> IF i = id THEN 0 ELSE handed[i]]
    /\ UNCHANGED <<now, event, ledger, dropped, due, faults>>

\* UpdateSignalAggregate: the payload as it was read, with the transfer added. What
\* another process folded in since is overwritten; no scan under way answers for it.
FoldIntoAggregate(p) ==
    LET d == det[p]
        lost == signals[d.into].refs \ d.pick.refs
    IN
    /\ At(p, "fold")
    /\ signals' = [signals EXCEPT ![d.into] =
          [@ EXCEPT !.refs = d.pick.refs, !.count = d.pick.count]]
    /\ det' = [det EXCEPT ![p] = [d EXCEPT !.pc = "item", !.pick = NoPick, !.into = 0]]
    /\ due' = [q \in Processes |-> due[q] \ lost]
    /\ UNCHANGED <<now, event, ledger, handed, dropped, faults>>

-----------------------------------------------------------------------------

Step(p) ==
    \/ StartRound(p) \/ EndScan(p) \/ ScanFails(p)
    \/ LedgerCandidates(p) \/ Item(p) \/ InsertSignal(p) \/ FoldIntoAggregate(p)

Next ==
    \/ Tick \/ Restart
    \/ \E e \in Events : Arrive(e)
    \/ \E p \in Processes : Step(p)

Spec == Init /\ [][Next]_vars

-----------------------------------------------------------------------------
(* Properties.                                                             *)

\* A signal goes to the hot path, and so to the chain and to Telegram, once: from the
\* scan that inserted it, unless that scan fails afterwards, and from no other,
\* however many processes scan the same logs how often.
HandedOnce ==
    \A i \in DOMAIN signals :
        LET holders == {p \in Processes : i \in det[p].out} IN
        Cardinality(holders) + handed[i] + (IF i \in dropped THEN 1 ELSE 0) = 1

\* Cooldowns hold up to a race: a signal that follows another within its cooldown was
\* inserted by another process, which had looked before the first was inserted.
Throttled ==
    \A i, j \in DOMAIN signals :
        LET span == CASE signals[j].type = "smart" -> ActorCooldown
                      [] signals[j].type = "depeg" -> DepegCooldown
                      [] OTHER -> Cooldown
        IN
        i < j /\ Throttles(signals[i], signals[j]) /\ signals[j].created - signals[i].created < span
        => i \in signals[j].raced /\ signals[i].by # signals[j].by

\* No whale on a swap that the same round of scans reported as smart money, not even
\* when the smart-money scan failed after that.
RicherWins ==
    \A i, j \in DOMAIN signals :
        signals[i].type = "smart" /\ signals[j].type = "whale" /\ signals[i].ref = signals[j].ref
        => signals[i].by # signals[j].by \/ signals[i].round # signals[j].round

\* A scan of this name is through with its items and has met no failure.
Through(p, scan) == At(p, "item") /\ det[p].todo = {} /\ Scan(p) = scan

\* A whale scan misses none of the swaps it answers for: each was reported as smart
\* money, or its pool has a whale signal that is younger than the swap or at most a
\* cooldown, or the recent window, older.
WhaleNotMissed ==
    \A p \in Processes : Through(p, "whale") =>
        \A e \in due[p] : \E i \in DOMAIN signals :
            \/ signals[i].type = "smart" /\ signals[i].ref = e
            \/ /\ signals[i].type = "whale" /\ signals[i].where = event[e].where
               /\ \/ signals[i].created + Cooldown > event[e].at
                  \/ signals[i].created + Recent >= event[e].at

LoansOf(e) == {i \in DOMAIN signals : signals[i].type = "lending" /\ signals[i].ref = e}

\* A loan or a liquidation is reported at most once, whoever scanned it how often, with
\* or without an answer about its signer, and has been when a lending scan that answers
\* for it is through.
LoansReported ==
    /\ \A e \in Events : Cardinality(LoansOf(e)) <= 1
    /\ \A p \in Processes : Through(p, "lending") => \A e \in due[p] : LoansOf(e) # {}

\* A transfer is not lost: when a scan that answers for it is through, some aggregate
\* lists it, unless a fold of another process took it out again meanwhile; the next scan
\* answers for it as well, if it is still in the window. An aggregate counts what it lists.
TransfersCounted ==
    /\ \A p \in Processes : Through(p, "lst") =>
          \A e \in due[p] : \E i \in DOMAIN signals : e \in signals[i].refs
    /\ \A i \in DOMAIN signals :
          signals[i].type = "lst" => signals[i].count = Cardinality(signals[i].refs)
=============================================================================

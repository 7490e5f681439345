----------------------------- MODULE LiveStream -----------------------------
(***************************************************************************)
(* The live feed of the API (internal/api: server.go, hub.go, sse.go): a   *)
(* tail polls the signals table and broadcasts new rows through the Hub to *)
(* one bounded channel per connection; each handler replays stored rows    *)
(* and then writes what its channel holds. The dashboard (web/src/lib/     *)
(* sse.ts) reconnects with the last id it has seen.                        *)
(*                                                                         *)
(* Signals are numbered in the order of their insertion.                   *)
(***************************************************************************)
EXTENDS Integers, FiniteSets, SequencesExt

CONSTANTS
    Browsers,       \* dashboards
    Handlers,       \* goroutines that serve a connection
    Nobody,         \* no browser, no handler
    NumSignals,     \* bound: signals inserted
    BufferSize,     \* clientBufferSize
    MaxClients,     \* maxSSEClients
    ReplayN,        \* replayN: rows replayed to a fresh dashboard
    ReplayCap,      \* replayCap: rows replayed to one that reconnects
    TailBatch,      \* tailBatch: rows a poll broadcasts
    Failing,        \* what may fail: "db", "network", "process", "slow"
    MaxFaults       \* bound: failures and shutdowns

ASSUME LiveStreamAssumption ==
    /\ Nobody \notin Browsers \cup Handlers
    /\ NumSignals \in Nat /\ MaxFaults \in Nat /\ TailBatch \in Nat \ {0}
    /\ BufferSize \in Nat \ {0} /\ MaxClients \in Nat \ {0}
    /\ ReplayN \in Nat \ {0} /\ ReplayCap \in Nat \ {0}
    /\ Failing \subseteq {"db", "network", "process", "slow"}

Ids == 1..NumSignals

VARIABLES
    stored,     \* the signals table: the ids 1..stored
    server,     \* the server's life
    tail,       \* the live tail: its cursor and the rows of its poll
    hub,        \* the Hub: registered handlers, closed
    handler,    \* per handler: its request and its channel
    browser,    \* per browser: its connection and the ids it has shown
    skipped,    \* history: ids a replay or the tail's seed passed over
    faults      \* failures so far

vars == <<stored, server, tail, hub, handler, browser, skipped, faults>>

HandlerPc == {"free", "accepted", "seek", "replay", "write", "stream"}
Request == [pc : HandlerPc, from : Browsers \cup {Nobody}, gone : BOOLEAN,
            lastSeen : Nat, afterId : Nat, upTo : Nat,
            open : BOOLEAN, ch : Seq(Ids)]

TypeOK ==
    /\ stored \in 0..NumSignals
    /\ server \in {"up", "draining", "drained", "expired"}
    /\ tail \in [pc : {"seed", "poll", "stopped"}, last : Nat, upTo : Nat]
    /\ hub \in [clients : SUBSET Handlers, closed : BOOLEAN]
    /\ handler \in [Handlers -> Request]
    /\ \A h \in Handlers : Len(handler[h].ch) <= BufferSize
    /\ browser \in [Browsers -> [by : Handlers \cup {Nobody}, shown : Seq(Ids)]]
    /\ skipped \in SUBSET Ids
    /\ faults \in 0..MaxFaults

Free == [pc |-> "free", from |-> Nobody, gone |-> FALSE, lastSeen |-> 0,
         afterId |-> 0, upTo |-> 0, open |-> FALSE, ch |-> <<>>]
TailStart == [pc |-> "seed", last |-> 0, upTo |-> 0]
NewHub == [clients |-> {}, closed |-> FALSE]

Init ==
    /\ stored = 0
    /\ server = "up"
    /\ tail = TailStart
    /\ hub = NewHub
    /\ handler = [h \in Handlers |-> Free]
    /\ browser = [b \in Browsers |-> [by |-> Nobody, shown |-> <<>>]]
    /\ skipped = {}
    /\ faults = 0

Fault(kind) ==
    /\ kind \in Failing
    /\ faults < MaxFaults
    /\ faults' = faults + 1

AtMost(n, m) == IF n < m THEN n ELSE m

\* SignalsAfterID returns the ids from after + 1 to this one.
SignalsAfterID(after, limit) == AtMost(stored, after + limit)

LastId(b) == IF browser[b].shown = <<>> THEN 0 ELSE Last(browser[b].shown)

-----------------------------------------------------------------------------
(* The table and the tail.                                                 *)

InsertSignal ==
    /\ stored < NumSignals
    /\ stored' = stored + 1
    /\ UNCHANGED <<server, tail, hub, handler, browser, skipped, faults>>

\* A registered handler whose replay has been read without this id waits for the
\* tail to broadcast it.
Awaited(id) ==
    \E h \in hub.clients : handler[h].pc \in {"write", "stream"} /\ id > handler[h].upTo

\* The tail starts after the newest signal, or after 0 if that cannot be read.
TailSeed ==
    /\ tail.pc = "seed"
    /\ \/ /\ tail' = [pc |-> "poll", last |-> stored, upTo |-> stored]
          /\ skipped' = skipped \cup {id \in 1..stored : Awaited(id)}
          /\ UNCHANGED faults
       \/ /\ Fault("db")
          /\ tail' = [TailStart EXCEPT !.pc = "poll"]
          /\ UNCHANGED skipped
    /\ UNCHANGED <<stored, server, hub, handler, browser>>

TailPoll ==
    /\ tail.pc = "poll"
    /\ tail.last = tail.upTo
    /\ SignalsAfterID(tail.last, TailBatch) > tail.last
    /\ tail' = [tail EXCEPT !.upTo = SignalsAfterID(tail.last, TailBatch)]
    /\ UNCHANGED <<stored, server, hub, handler, browser, skipped, faults>>

\* Broadcast: a non-blocking send to every client. A full channel is closed and
\* its handler dropped.
Full(h) == Len(handler[h].ch) >= BufferSize
Dropped == {h \in hub.clients : Full(h)}

Send(id, to) ==
    [h \in Handlers |-> IF h \in to THEN [handler[h] EXCEPT !.ch = Append(@, id)] ELSE handler[h]]
Closed(handlers, these) ==
    [h \in Handlers |-> IF h \in these THEN [handlers[h] EXCEPT !.open = FALSE] ELSE handlers[h]]

\* Faults: a dropped client stays registered; its channel is not closed; a full
\* channel just misses the event.
BroadcastKeeping(id) == handler' = Closed(Send(id, hub.clients \ Dropped), Dropped) /\ hub' = hub
BroadcastUnclosed(id) ==
    /\ handler' = Send(id, hub.clients \ Dropped)
    /\ hub' = [hub EXCEPT !.clients = @ \ Dropped]
BroadcastLossy(id) == handler' = Send(id, hub.clients \ Dropped) /\ hub' = hub

Broadcast(id) ==
    /\ handler' = Closed(Send(id, hub.clients \ Dropped), Dropped)
    /\ hub' = [hub EXCEPT !.clients = @ \ Dropped]

TailBroadcast ==
    /\ tail.pc = "poll"
    /\ tail.last < tail.upTo
    /\ Broadcast(tail.last + 1)
    /\ tail' = [tail EXCEPT !.last = @ + 1]
    /\ UNCHANGED <<stored, server, browser, skipped, faults>>

-----------------------------------------------------------------------------
(* A connection: handleLive and replaySignals.                             *)

\* The dashboard opens an EventSource, with the last id it has seen.
Connect(b, h) ==
    /\ server = "up"
    /\ browser[b].by = Nobody
    /\ handler[h].pc = "free"
    /\ browser' = [browser EXCEPT ![b].by = h]
    /\ handler' = [handler EXCEPT ![h] =
          [Free EXCEPT !.pc = "accepted", !.from = b, !.lastSeen = LastId(b)]]
    /\ UNCHANGED <<stored, server, tail, hub, skipped, faults>>

\* The handler returns: its browser, if still there, sees the stream end.
Ends(h) ==
    /\ handler' = [handler EXCEPT ![h] = Free]
    /\ browser' = [b \in Browsers |->
          IF browser[b].by = h THEN [browser[b] EXCEPT !.by = Nobody] ELSE browser[b]]

\* Refused with 503 at capacity; on a closed hub the channel is closed already.
Subscribe(h) ==
    /\ handler[h].pc = "accepted"
    /\ IF ~hub.closed /\ Cardinality(hub.clients) >= MaxClients
       THEN Ends(h) /\ UNCHANGED hub
       ELSE /\ handler' = [handler EXCEPT ![h].pc = "seek", ![h].open = ~hub.closed]
            /\ hub' = IF hub.closed THEN hub ELSE [hub EXCEPT !.clients = @ \cup {h}]
            /\ UNCHANGED browser
    /\ UNCHANGED <<stored, server, tail, skipped, faults>>

\* Where the replay begins: after the last id seen, or for a fresh dashboard so
\* far back from the newest; from the oldest signal if that cannot be read.
Seek(h) ==
    LET begin(after) == handler' = [handler EXCEPT ![h].pc = "replay", ![h].afterId = after]
    IN
    /\ handler[h].pc = "seek"
    /\ \/ /\ handler[h].lastSeen > 0
          /\ begin(handler[h].lastSeen)
          /\ UNCHANGED faults
       \/ /\ handler[h].lastSeen = 0
          /\ begin(IF stored > ReplayN THEN stored - ReplayN ELSE 0)
          /\ UNCHANGED faults
       \/ /\ handler[h].lastSeen = 0
          /\ Fault("db")
          /\ begin(0)
    /\ UNCHANGED <<stored, server, tail, hub, browser, skipped>>

Limit(h) == IF handler[h].lastSeen > 0 THEN ReplayCap ELSE ReplayN

\* What the tail broadcast before the handler was registered.
Unheard(h) == {id \in 1..tail.last : ~Contains(handler[h].ch, id)}

\* The replay's rows up to the limit, or none if the read fails: what the tail will
\* not broadcast again is passed over.
ReadReplay(h) ==
    LET after == handler[h].afterId IN
    /\ handler[h].pc = "replay"
    /\ \E upTo \in {SignalsAfterID(after, Limit(h)), after} :
          /\ handler' = [handler EXCEPT ![h].pc = "write", ![h].upTo = upTo]
          /\ skipped' = skipped \cup {id \in Unheard(h) : id > upTo}
          /\ IF upTo = SignalsAfterID(after, Limit(h)) THEN UNCHANGED faults ELSE Fault("db")
    /\ UNCHANGED <<stored, server, tail, hub, browser>>

\* An event written; a browser that is gone does not get it.
Write(h, id) ==
    browser' = [b \in Browsers |->
        IF browser[b].by = h THEN [browser[b] EXCEPT !.shown = Append(@, id)]
        ELSE browser[b]]

\* The replay, one row at a time; afterId is lastWritten from here on.
WriteReplay(h) ==
    /\ handler[h].pc = "write"
    /\ IF handler[h].afterId < handler[h].upTo
       THEN /\ Write(h, handler[h].afterId + 1)
            /\ handler' = [handler EXCEPT ![h].afterId = @ + 1]
       ELSE /\ handler' = [handler EXCEPT ![h].pc = "stream"]
            /\ UNCHANGED browser
    /\ UNCHANGED <<stored, server, tail, hub, skipped, faults>>

\* Fault: what the replay has written is not remembered.
StreamAgain(h) ==
    LET id == Head(handler[h].ch) IN
    /\ handler[h].pc = "stream"
    /\ handler[h].ch # <<>>
    /\ Write(h, id)
    /\ handler' = [handler EXCEPT ![h].ch = Tail(@), ![h].afterId = id]
    /\ UNCHANGED <<stored, server, tail, hub, skipped, faults>>

\* The next event of the channel, skipped if the replay had it.
Stream(h) ==
    LET id == Head(handler[h].ch) IN
    /\ handler[h].pc = "stream"
    /\ handler[h].ch # <<>>
    /\ IF id > handler[h].afterId THEN Write(h, id) ELSE UNCHANGED browser
    /\ handler' = [handler EXCEPT ![h].ch = Tail(@),
                                  ![h].afterId = IF id > @ THEN id ELSE @]
    /\ UNCHANGED <<stored, server, tail, hub, skipped, faults>>

\* The channel is closed and drained, or the request's context is done: the
\* deferred unsubscribe runs, which is a no-op for a handler already dropped.
Unsubscribe(h) ==
    /\ handler[h].pc = "stream"
    /\ (~handler[h].open /\ handler[h].ch = <<>>) \/ handler[h].gone
    /\ hub' = [hub EXCEPT !.clients = @ \ {h}]
    /\ Ends(h)
    /\ UNCHANGED <<stored, server, tail, skipped, faults>>

\* The connection breaks; the handler learns of it through its context.
ConnectionLost(b) ==
    /\ browser[b].by # Nobody
    /\ Fault("network")
    /\ handler' = [handler EXCEPT ![browser[b].by].gone = TRUE]
    /\ browser' = [browser EXCEPT ![b].by = Nobody]
    /\ UNCHANGED <<stored, server, tail, hub, skipped>>

HandlerStep(h) ==
    \/ Subscribe(h) \/ Seek(h) \/ ReadReplay(h) \/ WriteReplay(h)
    \/ Stream(h) \/ Unsubscribe(h)

-----------------------------------------------------------------------------
(* The life of the server: Serve.                                          *)

\* The context is cancelled: no new connections, and the tail stops.  The code's
\* tail may first broadcast the rest of the rows of its poll, as it does when the
\* context is cancelled just after them.
Shutdown ==
    /\ server = "up"
    /\ Fault("process")
    /\ server' = "draining"
    /\ tail' = [tail EXCEPT !.pc = "stopped"]
    /\ UNCHANGED <<stored, hub, handler, browser, skipped>>

Busy == {h \in Handlers : handler[h].pc # "free"}

\* A handler in its select, with nothing to receive.
Waits(h) ==
    /\ handler[h].pc = "stream"
    /\ handler[h].open /\ handler[h].ch = <<>> /\ ~handler[h].gone

\* Shutdown returned: every handler has, or shutdownTimeout is over. Five seconds
\* are enough for a handler with something to do, unless it is slow. Then the hub
\* closes.
CloseHub ==
    /\ server = "draining"
    /\ server' = IF Busy = {} THEN "drained" ELSE "expired"
    /\ "slow" \in Failing \/ \A h \in Busy : Waits(h)
    /\ hub' = [clients |-> {}, closed |-> TRUE]
    /\ handler' = Closed(handler, hub.clients)
    /\ UNCHANGED <<stored, tail, browser, skipped, faults>>

\* A process ends, by itself or killed, and is started again.
StartAgain ==
    /\ server' = "up"
    /\ tail' = TailStart
    /\ hub' = NewHub
    /\ handler' = [h \in Handlers |-> Free]
    /\ browser' = [b \in Browsers |-> [browser[b] EXCEPT !.by = Nobody]]
    /\ UNCHANGED <<stored, skipped>>

Exit == server \in {"drained", "expired"} /\ StartAgain /\ UNCHANGED faults
Crash == Fault("process") /\ StartAgain

Next ==
    \/ InsertSignal
    \/ TailSeed \/ TailPoll \/ TailBroadcast
    \/ \E b \in Browsers, h \in Handlers : Connect(b, h)
    \/ \E h \in Handlers : HandlerStep(h)
    \/ \E b \in Browsers : ConnectionLost(b)
    \/ Shutdown \/ CloseHub \/ Exit \/ Crash

Spec == Init /\ [][Next]_vars

\* The tail's ticker, handlers whose browser reads, dashboards that reconnect for
\* ever, and a service manager that starts the server again.
Fairness ==
    /\ WF_vars(TailSeed \/ TailPoll \/ TailBroadcast)
    /\ \A h \in Handlers : WF_vars(HandlerStep(h))
    /\ \A b \in Browsers : SF_vars(\E h \in Handlers : Connect(b, h))
    /\ WF_vars(CloseHub) /\ WF_vars(Exit)

FairSpec == Spec /\ Fairness

-----------------------------------------------------------------------------
(* Properties.                                                             *)

\* A channel is open exactly while the hub knows its handler: Broadcast never sends
\* on a closed channel, and none of drop, unsubscribe and Close closes one twice.
OpenIffRegistered == hub.clients = {h \in Handlers : handler[h].open}

\* A dashboard shows every signal at most once and in order, over replays that
\* overlap the stream, drops and reconnects.
InOrder ==
    \A b \in Browsers : \A i \in 2..Len(browser[b].shown) :
        browser[b].shown[i] > browser[b].shown[i - 1]

\* What makes these two inductive: a handler that has not subscribed has no open
\* channel, a browser is served by the handler it opened, and that handler writes
\* only what is newer than all the browser has shown.
UnsubscribedInv == \A h \in Handlers : handler[h].pc \in {"free", "accepted"} => ~handler[h].open
RowsInv ==
    /\ tail.last <= tail.upTo /\ tail.upTo <= stored
    /\ \A h \in Handlers :
          handler[h].pc = "write" /\ handler[h].afterId < handler[h].upTo =>
              handler[h].upTo <= stored
ServedInv ==
    \A b \in Browsers : \A h \in Handlers :
        browser[b].by = h => handler[h].pc # "free" /\ handler[h].from = b
WrittenInv ==
    \A b \in Browsers : \A h \in Handlers :
        browser[b].by = h =>
            IF handler[h].pc \in {"accepted", "seek"} THEN handler[h].lastSeen = LastId(b)
            ELSE LastId(b) <= handler[h].afterId
IndInv ==
    /\ TypeOK
    /\ OpenIffRegistered
    /\ UnsubscribedInv
    /\ RowsInv
    /\ ServedInv
    /\ WrittenInv
    /\ InOrder

\* sse.go:19-21, "none is missed across a drop": between the first and the last
\* signal a dashboard has shown none is missing, but for those a bounded or failed
\* replay or the seed of a restarted tail passed over.
NoneMissed ==
    \A b \in Browsers : \A i \in 2..Len(browser[b].shown) :
        (browser[b].shown[i - 1] + 1)..(browser[b].shown[i] - 1) \subseteq skipped

\* A dashboard that stays open comes to show the newest signal, whatever dropped it.
CatchesUp ==
    <>[](\A b \in Browsers : stored \in skipped \/ LastId(b) = stored)
=============================================================================

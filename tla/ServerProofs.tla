---------------------------- MODULE ServerProofs ----------------------------
(***************************************************************************)
(* Proofs about the parts of the API server that keep state, LiveStream    *)
(* and RateLimiter.                                                        *)
(*                                                                         *)
(* LiveStream, for any number of dashboards, handlers and signals and any  *)
(* limits: a channel is open exactly while its handler is registered, a    *)
(* dashboard shows signals in order and none twice, and of those between   *)
(* the first and the last it shows none is missing that was not skipped.   *)
(*                                                                         *)
(* RateLimiter, for any clients, limits and delays that RateAssumption     *)
(* allows: the limiter implements TokenBucket, and so serves no client     *)
(* more than a full bucket and what time has added.                        *)
(***************************************************************************)
EXTENDS LiveStream, RateLimiter, SequenceTheorems, TLAPS

\* An idle handler is a well-formed one.
LEMMA FreeType == Free \in Request
  BY DEF Free, Request, HandlerPc

\* Closing channels changes the flag open of these handlers only.
LEMMA ClosedIs ==
    ASSUME NEW H \in [Handlers -> Request], NEW T
    PROVE  /\ Closed(H, T) \in [Handlers -> Request]
           /\ \A h \in Handlers :
                /\ Closed(H, T)[h].open = (H[h].open /\ h \notin T)
                /\ Closed(H, T)[h].pc = H[h].pc
                /\ Closed(H, T)[h].from = H[h].from
                /\ Closed(H, T)[h].lastSeen = H[h].lastSeen
                /\ Closed(H, T)[h].afterId = H[h].afterId
                /\ Closed(H, T)[h].upTo = H[h].upTo
                /\ Closed(H, T)[h].ch = H[h].ch
  BY DEF Closed, Request

\* A send appends to the channels of these handlers only.
LEMMA SendIs ==
    ASSUME handler \in [Handlers -> Request], NEW T, NEW id \in Ids
    PROVE  /\ Send(id, T) \in [Handlers -> Request]
           /\ \A h \in Handlers :
                /\ Send(id, T)[h].open = handler[h].open
                /\ Send(id, T)[h].pc = handler[h].pc
                /\ Send(id, T)[h].from = handler[h].from
                /\ Send(id, T)[h].lastSeen = handler[h].lastSeen
                /\ Send(id, T)[h].afterId = handler[h].afterId
                /\ Send(id, T)[h].upTo = handler[h].upTo
                /\ Send(id, T)[h].ch = IF h \in T THEN Append(handler[h].ch, id)
                                       ELSE handler[h].ch
  <1>1. \A h \in Handlers : handler[h] \in Request /\ Append(handler[h].ch, id) \in Seq(Ids)
    BY AppendProperties DEF Request
  <1> QED
    BY <1>1 DEF Send, Request

\* A limited read ends at a row of the table, not before the row it starts after.
LEMMA ReadIs ==
    ASSUME stored \in Nat, NEW after \in Nat, NEW limit \in Nat \ {0}
    PROVE  /\ SignalsAfterID(after, limit) \in Nat
           /\ SignalsAfterID(after, limit) <= stored
  BY DEF SignalsAfterID, AtMost

\* The last id a dashboard has shown is a number.
LEMMA LastIdType ==
    ASSUME TypeOK, NEW b \in Browsers
    PROVE  LastId(b) \in Nat
  <1>1. browser[b].shown \in Seq(Ids)
    BY DEF TypeOK
  <1>2. browser[b].shown # <<>> =>
           Len(browser[b].shown) \in 1..Len(browser[b].shown)
    BY <1>1, EmptySeq, LenProperties
  <1> QED
    BY <1>1, <1>2, ElementOfSeq, LiveStreamAssumption DEF LastId, Last, Ids

-----------------------------------------------------------------------------
(* Types, and the order of the tail's cursor, its poll and the table.      *)

LEMMA InitInd == Init => IndInv
  <1> SUFFICES ASSUME Init PROVE IndInv
    OBVIOUS
  <1> USE LiveStreamAssumption DEF Init
  <1>1. /\ \A h \in Handlers : handler[h] = Free
        /\ \A b \in Browsers : browser[b] = [by |-> Nobody, shown |-> <<>>]
    OBVIOUS
  <1>2. Free.ch = <<>> /\ Free.upTo = 0 /\ ~Free.open /\ Len(<<>>) = 0
    BY DEF Free
  <1>3. TypeOK
    BY <1>1, <1>2, FreeType, EmptySeq DEF TypeOK, TailStart, NewHub
  <1>4. OpenIffRegistered /\ UnsubscribedInv /\ RowsInv
    BY <1>1, <1>2 DEF OpenIffRegistered, UnsubscribedInv, RowsInv, NewHub, TailStart
  <1>5. ServedInv /\ WrittenInv /\ InOrder
    BY <1>1, <1>2 DEF ServedInv, WrittenInv, InOrder
  <1> QED
    BY <1>3, <1>4, <1>5 DEF IndInv

\* Every step keeps the types, and no cursor passes the rows it counts.
LEMMA TypeStep == TypeOK /\ RowsInv /\ [Next]_vars => TypeOK' /\ RowsInv'
  <1> SUFFICES ASSUME TypeOK, RowsInv, [Next]_vars PROVE TypeOK' /\ RowsInv'
    OBVIOUS
  <1>a. handler \in [Handlers -> Request]
    BY DEF TypeOK
  <1>c. /\ hub.closed \in BOOLEAN /\ tail.last \in Nat /\ tail.upTo \in Nat
        /\ tail \in [pc : {"seed", "poll", "stopped"}, last : Nat, upTo : Nat]
        /\ BufferSize \in Nat /\ stored \in Nat
    BY LiveStreamAssumption DEF TypeOK
  <1>b. \A h \in Handlers : handler[h].upTo \in Nat
    BY <1>a DEF Request
  <1>d. browser \in [Browsers -> [by : Handlers \cup {Nobody}, shown : Seq(Ids)]]
    BY DEF TypeOK
  <1>1. CASE InsertSignal
    <2>1. stored' \in 0..NumSignals /\ stored' > stored
      BY <1>1, LiveStreamAssumption DEF InsertSignal, TypeOK
    <2>2. UNCHANGED <<server, tail, hub, handler, browser, skipped, faults>>
      BY <1>1 DEF InsertSignal
    <2>3. RowsInv'
      BY <1>b, <2>1, <2>2 DEF RowsInv, TypeOK
    <2> QED
      BY <2>1, <2>2, <2>3 DEF TypeOK
  <1>2. CASE TailSeed
    <2>1. UNCHANGED <<stored, server, hub, handler, browser>>
      BY <1>2 DEF TailSeed
    <2>2. skipped' \subseteq Ids /\ faults' \in 0..MaxFaults
      BY <1>2, LiveStreamAssumption DEF TailSeed, Fault, TypeOK, Ids
    <2>3. tail' \in [pc : {"seed", "poll", "stopped"}, last : Nat, upTo : Nat]
      BY <1>2 DEF TailSeed, TailStart, TypeOK
    <2>4. tail'.last <= tail'.upTo /\ tail'.upTo <= stored
      BY <1>2 DEF TailSeed, TailStart, TypeOK
    <2> QED
      BY <2>1, <2>2, <2>3, <2>4 DEF TypeOK, RowsInv
  <1>3. CASE TailPoll
    <2>1. /\ SignalsAfterID(tail.last, TailBatch) \in Nat
          /\ SignalsAfterID(tail.last, TailBatch) <= stored
      BY ReadIs, LiveStreamAssumption, <1>c
    <2> QED
      BY <1>3, <2>1 DEF TailPoll, TypeOK, RowsInv
  <1>4. CASE TailBroadcast
    <2> DEFINE id == tail.last + 1
    <2> DEFINE S == Send(id, hub.clients \ Dropped)
    <2>1. id \in Ids
      BY <1>4, <1>c, LiveStreamAssumption DEF TailBroadcast, TypeOK, RowsInv, Ids
    <2>2. /\ S \in [Handlers -> Request]
          /\ \A h \in Handlers :
                /\ S[h].pc = handler[h].pc
                /\ S[h].afterId = handler[h].afterId
                /\ S[h].upTo = handler[h].upTo
                /\ S[h].ch = IF h \in hub.clients \ Dropped THEN Append(handler[h].ch, id)
                             ELSE handler[h].ch
      BY <1>a, <2>1, SendIs
    <2>3. handler' = Closed(S, Dropped)
      BY <1>4 DEF TailBroadcast, Broadcast
    <2> HIDE DEF S, id
    <2>4. /\ handler' \in [Handlers -> Request]
          /\ \A h \in Handlers :
                /\ handler'[h].pc = handler[h].pc
                /\ handler'[h].afterId = handler[h].afterId
                /\ handler'[h].upTo = handler[h].upTo
                /\ handler'[h].ch = S[h].ch
      BY <2>2, <2>3, ClosedIs
    <2>5. ASSUME NEW h \in Handlers
          PROVE  Len(handler'[h].ch) <= BufferSize
      <3>1. handler[h].ch \in Seq(Ids) /\ Len(handler[h].ch) \in Nat
        BY <1>a, LenProperties DEF Request
      <3>2. CASE h \in hub.clients \ Dropped
        <4>1. Len(Append(handler[h].ch, id)) = Len(handler[h].ch) + 1
          BY <2>1, <3>1, AppendProperties
        <4>2. Len(handler[h].ch) + 1 <= BufferSize
          BY <1>c, <3>1, <3>2 DEF Dropped, Full
        <4>3. handler'[h].ch = Append(handler[h].ch, id)
          BY <2>2, <2>4, <3>2
        <4> QED
          BY <4>1, <4>2, <4>3
      <3>3. CASE h \notin hub.clients \ Dropped
        BY <2>2, <2>4, <3>3 DEF TypeOK
      <3> QED
        BY <3>2, <3>3
    <2>6. tail' = [tail EXCEPT !.last = tail.last + 1] /\ tail.last < tail.upTo
      BY <1>4 DEF TailBroadcast
    <2>7. hub' \in [clients : SUBSET Handlers, closed : BOOLEAN]
      BY <1>4 DEF TailBroadcast, Broadcast, TypeOK
    <2>8. UNCHANGED <<stored, server, browser, skipped, faults>>
      BY <1>4 DEF TailBroadcast
    <2>9. RowsInv'
      BY <1>c, <2>4, <2>6, <2>8 DEF RowsInv
    <2>10. tail' \in [pc : {"seed", "poll", "stopped"}, last : Nat, upTo : Nat]
      BY <1>c, <2>6
    <2> QED
      BY <2>4, <2>5, <2>7, <2>8, <2>9, <2>10 DEF TypeOK
  \* One handler changes, within its type and the table.
  <1>5. ASSUME NEW h \in Handlers, NEW r \in Request,
               handler' = [handler EXCEPT ![h] = r],
               Len(r.ch) <= BufferSize,
               r.pc = "write" /\ r.afterId < r.upTo => r.upTo <= stored,
               hub' \in [clients : SUBSET Handlers, closed : BOOLEAN],
               browser' \in [Browsers -> [by : Handlers \cup {Nobody}, shown : Seq(Ids)]],
               skipped' \subseteq Ids, faults' \in 0..MaxFaults,
               UNCHANGED <<stored, server, tail>>
        PROVE  TypeOK' /\ RowsInv'
    <2>1. handler' \in [Handlers -> Request]
      BY <1>a, <1>5
    <2>2. \A g \in Handlers : Len(handler'[g].ch) <= BufferSize
      BY <1>a, <1>5 DEF TypeOK
    <2>3. \A g \in Handlers :
             handler'[g].pc = "write" /\ handler'[g].afterId < handler'[g].upTo =>
                 handler'[g].upTo <= stored
      BY <1>a, <1>5 DEF RowsInv
    <2> QED
      BY <1>5, <2>1, <2>2, <2>3 DEF TypeOK, RowsInv
  <1>6. ASSUME NEW b \in Browsers, NEW h \in Handlers, Connect(b, h)
        PROVE  TypeOK' /\ RowsInv'
    <2> DEFINE r == [Free EXCEPT !.pc = "accepted", !.from = b, !.lastSeen = LastId(b)]
    <2>1. r \in Request /\ r.ch = <<>> /\ r.pc = "accepted" /\ Len(<<>>) = 0
      BY LastIdType, EmptySeq DEF Free, Request, HandlerPc
    <2>2. /\ handler' = [handler EXCEPT ![h] = r]
          /\ UNCHANGED <<stored, server, tail, hub, skipped, faults>>
      BY <1>6 DEF Connect
    <2>3. browser' \in [Browsers -> [by : Handlers \cup {Nobody}, shown : Seq(Ids)]]
      BY <1>d, <1>6 DEF Connect
    <2>4. /\ hub' \in [clients : SUBSET Handlers, closed : BOOLEAN]
          /\ skipped' \subseteq Ids /\ faults' \in 0..MaxFaults
      BY <2>2 DEF TypeOK
    <2>5. Len(r.ch) <= BufferSize
      BY <1>c, <2>1
    <2> HIDE DEF r
    <2> QED
      BY <1>5, <2>1, <2>2, <2>3, <2>4, <2>5
  <1>7. ASSUME NEW h \in Handlers, Ends(h)
        PROVE  /\ handler' = [handler EXCEPT ![h] = Free]
               /\ Free \in Request /\ Len(Free.ch) <= BufferSize /\ Free.pc # "write"
               /\ browser' \in [Browsers -> [by : Handlers \cup {Nobody}, shown : Seq(Ids)]]
    <2>1. Free.ch = <<>> /\ Free.pc = "free" /\ Len(<<>>) = 0
      BY DEF Free
    <2>2. browser' \in [Browsers -> [by : Handlers \cup {Nobody}, shown : Seq(Ids)]]
      BY <1>7 DEF Ends, TypeOK
    <2> QED
      BY <1>7, <1>c, <2>1, <2>2, FreeType DEF Ends
  <1>8. ASSUME NEW h \in Handlers, Subscribe(h)
        PROVE  TypeOK' /\ RowsInv'
    <2>1. CASE ~hub.closed /\ Cardinality(hub.clients) >= MaxClients
      <3>1. Ends(h) /\ UNCHANGED <<stored, server, tail, hub, skipped, faults>>
        BY <1>8, <2>1 DEF Subscribe
      <3> QED
        BY <1>5, <1>7, <3>1 DEF TypeOK
    <2>2. CASE ~(~hub.closed /\ Cardinality(hub.clients) >= MaxClients)
      <3> DEFINE r == [handler[h] EXCEPT !.pc = "seek", !.open = ~hub.closed]
      <3>1. /\ handler' = [handler EXCEPT ![h] = r]
            /\ UNCHANGED <<stored, server, tail, browser, skipped, faults>>
        BY <1>8, <2>2, <1>a DEF Subscribe
      <3>2. r \in Request /\ r.ch = handler[h].ch /\ r.pc = "seek"
        BY <1>a, <1>c DEF Request, HandlerPc
      <3>3. hub' \in [clients : SUBSET Handlers, closed : BOOLEAN]
        BY <1>8, <2>2 DEF Subscribe, TypeOK
      <3> HIDE DEF r
      <3> QED
        BY <1>5, <3>1, <3>2, <3>3 DEF TypeOK
    <2> QED
      BY <2>1, <2>2
  <1>9. ASSUME NEW h \in Handlers, Seek(h)
        PROVE  TypeOK' /\ RowsInv'
    <2>1. handler[h].lastSeen \in Nat /\ ReplayN \in Nat
      BY <1>a, LiveStreamAssumption DEF Request
    <2>2. PICK after \in Nat : handler' = [handler EXCEPT ![h].pc = "replay", ![h].afterId = after]
      BY <1>9, <1>c, <2>1 DEF Seek
    <2> DEFINE r == [handler[h] EXCEPT !.pc = "replay", !.afterId = after]
    <2>3. r \in Request /\ r.ch = handler[h].ch /\ r.pc = "replay"
      BY <1>a DEF Request, HandlerPc
    <2>4. handler' = [handler EXCEPT ![h] = r]
      BY <1>a, <2>2
    <2>5. faults' \in 0..MaxFaults /\ UNCHANGED <<stored, server, tail, hub, browser, skipped>>
      BY <1>9, LiveStreamAssumption DEF Seek, Fault, TypeOK
    <2> HIDE DEF r
    <2> QED
      BY <1>5, <2>3, <2>4, <2>5 DEF TypeOK
  <1>10. ASSUME NEW h \in Handlers, ReadReplay(h)
         PROVE  TypeOK' /\ RowsInv'
    <2> DEFINE last == SignalsAfterID(handler[h].afterId, Limit(h))
    <2>1. handler[h].afterId \in Nat /\ Limit(h) \in Nat \ {0}
      BY <1>a, LiveStreamAssumption DEF Limit, Request
    <2>2. last \in Nat /\ last <= stored
      BY <1>c, <2>1, ReadIs
    <2>3. PICK upTo \in {last, handler[h].afterId} :
             /\ handler' = [handler EXCEPT ![h].pc = "write", ![h].upTo = upTo]
             /\ skipped' = skipped \cup {id \in Unheard(h) : id > upTo}
             /\ IF upTo = last THEN UNCHANGED faults ELSE Fault("db")
      BY <1>10 DEF ReadReplay
    <2> HIDE DEF last
    <2> DEFINE r == [handler[h] EXCEPT !.pc = "write", !.upTo = upTo]
    <2>4. /\ r \in Request /\ r.ch = handler[h].ch
          /\ r.pc = "write" /\ r.afterId = handler[h].afterId /\ r.upTo = upTo
      BY <1>a, <2>1, <2>2 DEF Request, HandlerPc
    <2>5. handler' = [handler EXCEPT ![h] = r]
      BY <1>a, <2>3
    <2>6. r.afterId < r.upTo => r.upTo <= stored
      BY <2>1, <2>2, <2>4
    <2>7. 1..tail.last \subseteq Ids
      BY <1>c, LiveStreamAssumption DEF RowsInv, TypeOK, Ids
    <2>8. skipped' \subseteq Ids
      BY <2>3, <2>7 DEF Unheard, TypeOK
    <2>9. faults' \in 0..MaxFaults /\ UNCHANGED <<stored, server, tail, hub, browser>>
      BY <1>10, <2>3, LiveStreamAssumption DEF ReadReplay, Fault, TypeOK
    <2> HIDE DEF r
    <2> QED
      BY <1>5, <2>4, <2>5, <2>6, <2>8, <2>9 DEF TypeOK
  <1>11. ASSUME NEW h \in Handlers, NEW id \in Ids, Write(h, id)
         PROVE  browser' \in [Browsers -> [by : Handlers \cup {Nobody}, shown : Seq(Ids)]]
    <2>1. \A b \in Browsers :
             browser[b].shown \in Seq(Ids) /\ Append(browser[b].shown, id) \in Seq(Ids)
      BY <1>d, AppendProperties
    <2>2. ASSUME NEW b \in Browsers
          PROVE  browser'[b] \in [by : Handlers \cup {Nobody}, shown : Seq(Ids)]
      <3>1. browser[b] \in [by : Handlers \cup {Nobody}, shown : Seq(Ids)]
        BY <1>d
      <3>2. browser'[b] = IF browser[b].by = h
                          THEN [browser[b] EXCEPT !.shown = Append(browser[b].shown, id)]
                          ELSE browser[b]
        BY <1>11 DEF Write
      <3> DEFINE shown == Append(browser[b].shown, id)
                 written == [browser[b] EXCEPT !.shown = shown]
      <3>3. shown \in Seq(Ids)
        BY <2>1
      <3> HIDE DEF shown
      <3>4. written \in [by : Handlers \cup {Nobody}, shown : Seq(Ids)]
        BY <3>1, <3>3
      <3>5. browser'[b] = IF browser[b].by = h THEN written ELSE browser[b]
        BY <3>2 DEF shown
      <3> HIDE DEF written
      <3> QED
        BY <3>1, <3>4, <3>5
    <2>3. browser' = [b \in Browsers |-> browser'[b]]
      BY <1>11 DEF Write
    <2> QED
      BY <2>2, <2>3
  <1>12. ASSUME NEW h \in Handlers, WriteReplay(h)
         PROVE  TypeOK' /\ RowsInv'
    <2>1. handler[h].afterId \in Nat /\ handler[h].upTo \in Nat
      BY <1>a DEF Request
    <2>2. CASE handler[h].afterId < handler[h].upTo
      <3> DEFINE id == handler[h].afterId + 1
                 r == [handler[h] EXCEPT !.afterId = id]
      <3>1. id \in Ids /\ id \in Nat
        <4>1. handler[h].upTo <= stored
          BY <1>12, <2>2 DEF WriteReplay, RowsInv
        <4>2. stored <= NumSignals /\ NumSignals \in Nat
          BY LiveStreamAssumption DEF TypeOK
        <4> QED
          BY <1>c, <2>1, <2>2, <4>1, <4>2 DEF Ids
      <3>2. /\ Write(h, id)
            /\ handler' = [handler EXCEPT ![h] = r]
            /\ UNCHANGED <<stored, server, tail, hub, skipped, faults>>
        BY <1>a, <1>12, <2>2 DEF WriteReplay
      <3> HIDE DEF id
      <3>3. r \in Request /\ r.ch = handler[h].ch /\ r.upTo = handler[h].upTo
        BY <1>a, <3>1 DEF Request
      <3>4. r.upTo <= stored
        BY <1>12, <2>2, <3>3 DEF WriteReplay, RowsInv
      <3> HIDE DEF r
      <3> QED
        BY <1>5, <1>11, <3>1, <3>2, <3>3, <3>4 DEF TypeOK
    <2>3. CASE ~(handler[h].afterId < handler[h].upTo)
      <3> DEFINE r == [handler[h] EXCEPT !.pc = "stream"]
      <3>1. /\ handler' = [handler EXCEPT ![h] = r]
            /\ UNCHANGED <<stored, server, tail, hub, browser, skipped, faults>>
        BY <1>a, <1>12, <2>3 DEF WriteReplay
      <3>2. r \in Request /\ r.ch = handler[h].ch /\ r.pc = "stream"
        BY <1>a DEF Request, HandlerPc
      <3> HIDE DEF r
      <3> QED
        BY <1>5, <3>1, <3>2 DEF TypeOK
    <2> QED
      BY <2>2, <2>3
  <1>13. ASSUME NEW h \in Handlers, Stream(h)
         PROVE  TypeOK' /\ RowsInv'
    <2> DEFINE ch == handler[h].ch
               id == Head(ch)
               r == [handler[h] EXCEPT !.ch = Tail(ch),
                                       !.afterId = IF id > handler[h].afterId THEN id
                                                   ELSE handler[h].afterId]
    <2>1. ch \in Seq(Ids) /\ ch # <<>> /\ handler[h].pc = "stream" /\ handler[h].afterId \in Nat
      BY <1>a, <1>13 DEF Stream, Request
    <2>2. id \in Ids /\ Tail(ch) \in Seq(Ids) /\ Len(Tail(ch)) = Len(ch) - 1 /\ Len(ch) \in Nat
      BY <2>1, HeadTailProperties, LenProperties
    <2>3. /\ handler' = [handler EXCEPT ![h] = r]
          /\ UNCHANGED <<stored, server, tail, hub, skipped, faults>>
      BY <1>a, <1>13 DEF Stream
    <2>4. browser' \in [Browsers -> [by : Handlers \cup {Nobody}, shown : Seq(Ids)]]
      <3>1. CASE id > handler[h].afterId
        BY <1>11, <1>13, <2>2, <3>1 DEF Stream
      <3>2. CASE ~(id > handler[h].afterId)
        BY <1>13, <3>2 DEF Stream, TypeOK
      <3> QED
        BY <3>1, <3>2
    <2>5. r \in Request /\ r.ch = Tail(ch) /\ r.pc = "stream"
      <3>1. id \in Nat
        BY <2>2, LiveStreamAssumption DEF Ids
      <3> HIDE DEF id
      <3> QED
        BY <1>a, <2>1, <2>2, <3>1 DEF Request
    <2>6. Len(r.ch) <= BufferSize
      <3>1. Len(ch) <= BufferSize
        BY DEF TypeOK
      <3> HIDE DEF r, ch
      <3> QED
        BY <1>c, <2>2, <2>5, <3>1
    <2> HIDE DEF r, ch, id
    <2> QED
      BY <1>5, <2>3, <2>4, <2>5, <2>6 DEF TypeOK
  <1>14. ASSUME NEW h \in Handlers, Unsubscribe(h)
         PROVE  TypeOK' /\ RowsInv'
    <2>1. hub' \in [clients : SUBSET Handlers, closed : BOOLEAN]
      BY <1>14 DEF Unsubscribe, TypeOK
    <2>2. Ends(h) /\ UNCHANGED <<stored, server, tail, skipped, faults>>
      BY <1>14 DEF Unsubscribe
    <2> QED
      BY <1>5, <1>7, <2>1, <2>2 DEF TypeOK
  <1>15. ASSUME NEW b \in Browsers, ConnectionLost(b)
         PROVE  TypeOK' /\ RowsInv'
    <2> DEFINE h == browser[b].by
               r == [handler[h] EXCEPT !.gone = TRUE]
    <2>1. h \in Handlers
      BY <1>15 DEF ConnectionLost, TypeOK
    <2>2. /\ handler' = [handler EXCEPT ![h] = r]
          /\ UNCHANGED <<stored, server, tail, hub, skipped>>
      BY <1>a, <1>15, <2>1 DEF ConnectionLost
    <2>3. browser' \in [Browsers -> [by : Handlers \cup {Nobody}, shown : Seq(Ids)]]
      BY <1>15 DEF ConnectionLost, TypeOK
    <2>4. /\ r \in Request /\ r.ch = handler[h].ch /\ r.pc = handler[h].pc
          /\ r.afterId = handler[h].afterId /\ r.upTo = handler[h].upTo
      BY <1>a, <2>1 DEF Request
    <2>5. faults' \in 0..MaxFaults
      BY <1>15, LiveStreamAssumption DEF ConnectionLost, Fault, TypeOK
    <2>6. Len(r.ch) <= BufferSize /\ (r.pc = "write" /\ r.afterId < r.upTo => r.upTo <= stored)
      BY <2>1, <2>4 DEF TypeOK, RowsInv
    <2> HIDE DEF r, h
    <2> QED
      BY <1>5, <2>1, <2>2, <2>3, <2>4, <2>5, <2>6 DEF TypeOK
  <1>16. CASE Shutdown
    <2>1. tail' \in [pc : {"seed", "poll", "stopped"}, last : Nat, upTo : Nat]
             /\ tail'.last = tail.last /\ tail'.upTo = tail.upTo
      BY <1>c, <1>16 DEF Shutdown
    <2>2. server' = "draining" /\ UNCHANGED <<stored, hub, handler, browser, skipped>>
      BY <1>16 DEF Shutdown
    <2>3. faults' \in 0..MaxFaults
      BY <1>16, LiveStreamAssumption DEF Shutdown, Fault, TypeOK
    <2> QED
      BY <2>1, <2>2, <2>3 DEF TypeOK, RowsInv
  <1>17. CASE CloseHub
    <2>1. /\ handler' = Closed(handler, hub.clients)
          /\ server' \in {"drained", "expired"}
          /\ hub' = [clients |-> {}, closed |-> TRUE]
          /\ UNCHANGED <<stored, tail, browser, skipped, faults>>
      BY <1>17 DEF CloseHub
    <2>2. /\ handler' \in [Handlers -> Request]
          /\ \A h \in Handlers :
                /\ handler'[h].pc = handler[h].pc
                /\ handler'[h].afterId = handler[h].afterId
                /\ handler'[h].upTo = handler[h].upTo
                /\ handler'[h].ch = handler[h].ch
      BY <1>a, <2>1, ClosedIs
    <2> QED
      BY <2>1, <2>2 DEF TypeOK, RowsInv
  <1>18. ASSUME StartAgain, faults' \in 0..MaxFaults
         PROVE  TypeOK' /\ RowsInv'
    <2>1. /\ \A h \in Handlers : handler'[h] = Free
          /\ handler' \in [Handlers -> Request]
      BY <1>18, FreeType DEF StartAgain
    <2>2. Free.ch = <<>> /\ Free.pc = "free" /\ Len(<<>>) = 0
      BY DEF Free
    <2>3. browser' \in [Browsers -> [by : Handlers \cup {Nobody}, shown : Seq(Ids)]]
      BY <1>18 DEF StartAgain, TypeOK
    <2>4. tail'.last = 0 /\ tail'.upTo = 0
             /\ tail' \in [pc : {"seed", "poll", "stopped"}, last : Nat, upTo : Nat]
      BY <1>18 DEF StartAgain, TailStart
    <2>5. server' = "up" /\ hub' = NewHub /\ UNCHANGED <<stored, skipped>>
      BY <1>18 DEF StartAgain
    <2>6. RowsInv'
      BY <1>c, <2>1, <2>2, <2>4, <2>5 DEF RowsInv
    <2> QED
      BY <1>18, <1>c, <2>1, <2>2, <2>3, <2>4, <2>5, <2>6 DEF TypeOK, NewHub
  <1>19. CASE Exit
    BY <1>18, <1>19 DEF Exit, TypeOK
  <1>20. CASE Crash
    BY <1>18, <1>20, LiveStreamAssumption DEF Crash, Fault, TypeOK
  <1>21. CASE UNCHANGED vars
    BY <1>21 DEF vars, TypeOK, RowsInv
  <1> QED
    BY <1>1, <1>2, <1>3, <1>4, <1>6, <1>8, <1>9, <1>10, <1>12, <1>13, <1>14, <1>15, <1>16,
       <1>17, <1>19, <1>20, <1>21 DEF Next, HandlerStep

-----------------------------------------------------------------------------
(* A channel is open exactly while its handler is registered.              *)

\* The hub and the channels change together: on Subscribe, on the drop of a full
\* channel, on Unsubscribe, on Close and when the process starts again.
LEMMA RegStep ==
    TypeOK /\ RowsInv /\ OpenIffRegistered /\ UnsubscribedInv /\ [Next]_vars =>
        OpenIffRegistered' /\ UnsubscribedInv'
  <1> SUFFICES ASSUME TypeOK, RowsInv, OpenIffRegistered, UnsubscribedInv, [Next]_vars
               PROVE  OpenIffRegistered' /\ UnsubscribedInv'
    OBVIOUS
  <1>a. handler \in [Handlers -> Request]
    BY DEF TypeOK
  <1>b. hub \in [clients : SUBSET Handlers, closed : BOOLEAN]
    BY DEF TypeOK
  <1>c. /\ hub.clients = {h \in Handlers : handler[h].open}
        /\ \A h \in Handlers : handler[h].pc \in {"free", "accepted"} => ~handler[h].open
    BY DEF OpenIffRegistered, UnsubscribedInv
  <1>d. Free.pc = "free" /\ ~Free.open
    BY DEF Free
  <1>1. CASE UNCHANGED <<hub, handler>>
    BY <1>1 DEF OpenIffRegistered, UnsubscribedInv
  \* One handler changes, and the hub keeps to its flag.
  <1>2. ASSUME NEW h \in Handlers, NEW r \in Request,
               handler' = [handler EXCEPT ![h] = r],
               r.pc \in {"free", "accepted"} => ~r.open,
               hub'.clients = IF r.open THEN hub.clients \cup {h} ELSE hub.clients \ {h}
        PROVE  OpenIffRegistered' /\ UnsubscribedInv'
    <2>1. /\ handler'[h] = r
          /\ \A g \in Handlers : g # h => handler'[g] = handler[g]
      BY <1>a, <1>2
    <2>2. UnsubscribedInv'
      BY <1>c, <1>2, <2>1 DEF UnsubscribedInv
    <2>3. ASSUME NEW g \in Handlers
          PROVE  g \in hub'.clients <=> handler'[g].open
      <3>1. CASE g = h
        BY <1>2, <2>1, <3>1
      <3>2. CASE g # h
        BY <1>c, <1>2, <2>1, <3>2
      <3> QED
        BY <3>1, <3>2
    <2>4. hub'.clients \subseteq Handlers
      BY <1>b, <1>2
    <2> QED
      BY <2>2, <2>3, <2>4 DEF OpenIffRegistered
  \* The same, when its flag and the hub stay.
  <1>3. ASSUME NEW h \in Handlers, NEW r \in Request,
               handler' = [handler EXCEPT ![h] = r],
               r.open = handler[h].open,
               r.pc \in {"free", "accepted"} => ~r.open,
               UNCHANGED hub
        PROVE  OpenIffRegistered' /\ UnsubscribedInv'
    <2>1. hub'.clients = IF r.open THEN hub.clients \cup {h} ELSE hub.clients \ {h}
      BY <1>b, <1>c, <1>3
    <2> QED
      BY <1>2, <1>3, <2>1
  <1>4. CASE TailBroadcast
    <2> DEFINE id == tail.last + 1
               S == Send(id, hub.clients \ Dropped)
    <2>1. id \in Ids
      BY <1>4, LiveStreamAssumption DEF TailBroadcast, TypeOK, RowsInv, Ids
    <2>2. /\ S \in [Handlers -> Request]
          /\ \A h \in Handlers : S[h].open = handler[h].open /\ S[h].pc = handler[h].pc
      BY <1>a, <2>1, SendIs
    <2>3. /\ handler' = Closed(S, Dropped)
          /\ hub' = [hub EXCEPT !.clients = hub.clients \ Dropped]
      BY <1>4 DEF TailBroadcast, Broadcast
    <2> HIDE DEF S, id
    <2>4. \A h \in Handlers :
             /\ handler'[h].open = (handler[h].open /\ h \notin Dropped)
             /\ handler'[h].pc = handler[h].pc
      BY <2>2, <2>3, ClosedIs
    <2>5. hub'.clients = hub.clients \ Dropped
      BY <1>b, <2>3
    <2> QED
      BY <1>c, <2>4, <2>5 DEF OpenIffRegistered, UnsubscribedInv
  <1>5. ASSUME NEW b \in Browsers, NEW h \in Handlers, Connect(b, h)
        PROVE  OpenIffRegistered' /\ UnsubscribedInv'
    <2> DEFINE r == [Free EXCEPT !.pc = "accepted", !.from = b, !.lastSeen = LastId(b)]
    <2>1. r \in Request /\ ~r.open
      BY LastIdType, EmptySeq DEF Free, Request, HandlerPc
    <2>2. handler' = [handler EXCEPT ![h] = r] /\ UNCHANGED hub /\ handler[h].pc = "free"
      BY <1>5 DEF Connect
    <2>3. ~handler[h].open
      BY <1>c, <2>2
    <2>4. r.open = FALSE /\ handler[h].open = FALSE
      BY <1>a, <2>1, <2>3 DEF Request
    <2> HIDE DEF r
    <2> QED
      BY <1>3, <2>1, <2>2, <2>4
  <1>6. ASSUME NEW h \in Handlers, Subscribe(h)
        PROVE  OpenIffRegistered' /\ UnsubscribedInv'
    <2>1. handler[h].open = FALSE
      BY <1>a, <1>c, <1>6 DEF Subscribe, Request
    <2>2. CASE ~hub.closed /\ Cardinality(hub.clients) >= MaxClients
      <3>1. handler' = [handler EXCEPT ![h] = Free] /\ UNCHANGED hub
        BY <1>6, <2>2 DEF Subscribe, Ends
      <3>2. Free.open = FALSE
        BY DEF Free
      <3> QED
        BY <1>3, <1>d, <2>1, <3>1, <3>2, FreeType
    <2>3. CASE ~(~hub.closed /\ Cardinality(hub.clients) >= MaxClients)
      <3> DEFINE r == [handler[h] EXCEPT !.pc = "seek", !.open = ~hub.closed]
      <3>1. /\ handler' = [handler EXCEPT ![h] = r]
            /\ hub' = IF hub.closed THEN hub ELSE [hub EXCEPT !.clients = hub.clients \cup {h}]
        BY <1>6, <2>3, <1>a DEF Subscribe
      <3>2. r \in Request /\ r.open = ~hub.closed /\ r.pc = "seek"
        BY <1>a, <1>b DEF Request, HandlerPc
      <3>3. h \notin hub.clients
        BY <1>c, <2>1
      <3>4. hub'.clients = IF r.open THEN hub.clients \cup {h} ELSE hub.clients \ {h}
        BY <1>b, <3>1, <3>2, <3>3
      <3> HIDE DEF r
      <3> QED
        BY <1>2, <3>1, <3>2, <3>4
    <2> QED
      BY <2>2, <2>3
  \* The steps of a subscribed handler, and the loss of its connection, leave its
  \* flag alone.
  <1>7. ASSUME NEW h \in Handlers, Seek(h)
        PROVE  OpenIffRegistered' /\ UnsubscribedInv'
    <2>1. handler[h].lastSeen \in Nat /\ ReplayN \in Nat /\ stored \in Nat
      BY <1>a, LiveStreamAssumption DEF Request, TypeOK
    <2>2. PICK after \in Nat : handler' = [handler EXCEPT ![h].pc = "replay", ![h].afterId = after]
      BY <1>7, <2>1 DEF Seek
    <2> DEFINE r == [handler[h] EXCEPT !.pc = "replay", !.afterId = after]
    <2>3. r \in Request /\ r.open = handler[h].open /\ r.pc = "replay"
      BY <1>a DEF Request, HandlerPc
    <2>4. handler' = [handler EXCEPT ![h] = r] /\ UNCHANGED hub
      BY <1>a, <1>7, <2>2 DEF Seek
    <2> HIDE DEF r
    <2> QED
      BY <1>3, <2>3, <2>4
  <1>8. ASSUME NEW h \in Handlers, ReadReplay(h)
        PROVE  OpenIffRegistered' /\ UnsubscribedInv'
    <2>1. handler[h].afterId \in Nat /\ Limit(h) \in Nat \ {0} /\ stored \in Nat
      BY <1>a, LiveStreamAssumption DEF Limit, Request, TypeOK
    <2>2. SignalsAfterID(handler[h].afterId, Limit(h)) \in Nat
      BY <2>1, ReadIs
    <2>3. PICK upTo \in Nat : handler' = [handler EXCEPT ![h].pc = "write", ![h].upTo = upTo]
      BY <1>8, <2>1, <2>2 DEF ReadReplay
    <2> DEFINE r == [handler[h] EXCEPT !.pc = "write", !.upTo = upTo]
    <2>4. r \in Request /\ r.open = handler[h].open /\ r.pc = "write"
      BY <1>a DEF Request, HandlerPc
    <2>5. handler' = [handler EXCEPT ![h] = r] /\ UNCHANGED hub
      BY <1>a, <1>8, <2>3 DEF ReadReplay
    <2> HIDE DEF r
    <2> QED
      BY <1>3, <2>4, <2>5
  <1>9. ASSUME NEW h \in Handlers, WriteReplay(h)
        PROVE  OpenIffRegistered' /\ UnsubscribedInv'
    <2>1. UNCHANGED hub /\ handler[h].pc = "write"
      BY <1>9 DEF WriteReplay
    <2>2. CASE handler[h].afterId < handler[h].upTo
      <3> DEFINE id == handler[h].afterId + 1
                 r == [handler[h] EXCEPT !.afterId = id]
      <3>1. id \in Nat
        BY <1>a DEF Request
      <3>2. handler' = [handler EXCEPT ![h] = r]
        BY <1>a, <1>9, <2>2 DEF WriteReplay
      <3> HIDE DEF id
      <3>3. r \in Request /\ r.open = handler[h].open /\ r.pc = handler[h].pc
        BY <1>a, <3>1 DEF Request
      <3> HIDE DEF r
      <3> QED
        BY <1>3, <2>1, <3>2, <3>3
    <2>3. CASE ~(handler[h].afterId < handler[h].upTo)
      <3> DEFINE r == [handler[h] EXCEPT !.pc = "stream"]
      <3>1. handler' = [handler EXCEPT ![h] = r]
        BY <1>a, <1>9, <2>3 DEF WriteReplay
      <3>2. r \in Request /\ r.open = handler[h].open /\ r.pc = "stream"
        BY <1>a DEF Request, HandlerPc
      <3> HIDE DEF r
      <3> QED
        BY <1>3, <2>1, <3>1, <3>2
    <2> QED
      BY <2>2, <2>3
  <1>10. ASSUME NEW h \in Handlers, Stream(h)
         PROVE  OpenIffRegistered' /\ UnsubscribedInv'
    <2> DEFINE ch == handler[h].ch
               id == Head(ch)
               last == IF id > handler[h].afterId THEN id ELSE handler[h].afterId
               r == [handler[h] EXCEPT !.ch = Tail(ch), !.afterId = last]
    <2>1. ch \in Seq(Ids) /\ ch # <<>> /\ handler[h].pc = "stream" /\ handler[h].afterId \in Nat
      BY <1>a, <1>10 DEF Stream, Request
    <2>2. Tail(ch) \in Seq(Ids) /\ id \in Ids
      BY <2>1, HeadTailProperties
    <2>3. handler' = [handler EXCEPT ![h] = r] /\ UNCHANGED hub
      BY <1>a, <1>10 DEF Stream
    <2>4. last \in Nat
      BY <2>1, <2>2, LiveStreamAssumption DEF Ids
    <2> HIDE DEF last, id
    <2>5. r \in Request /\ r.open = handler[h].open /\ r.pc = "stream"
      BY <1>a, <2>1, <2>2, <2>4 DEF Request
    <2> HIDE DEF r, ch
    <2> QED
      BY <1>3, <2>3, <2>5
  <1>11. ASSUME NEW h \in Handlers, Unsubscribe(h)
         PROVE  OpenIffRegistered' /\ UnsubscribedInv'
    <2>1. /\ handler' = [handler EXCEPT ![h] = Free]
          /\ hub' = [hub EXCEPT !.clients = hub.clients \ {h}]
      BY <1>11 DEF Unsubscribe, Ends
    <2>2. hub'.clients = hub.clients \ {h}
      BY <1>b, <2>1
    <2>3. hub'.clients = IF Free.open THEN hub.clients \cup {h} ELSE hub.clients \ {h}
      BY <1>d, <2>2
    <2> QED
      BY <1>2, <1>d, <2>1, <2>3, FreeType
  <1>12. ASSUME NEW b \in Browsers, ConnectionLost(b)
         PROVE  OpenIffRegistered' /\ UnsubscribedInv'
    <2> DEFINE h == browser[b].by
               r == [handler[h] EXCEPT !.gone = TRUE]
    <2>1. h \in Handlers
      BY <1>12 DEF ConnectionLost, TypeOK
    <2>2. handler' = [handler EXCEPT ![h] = r] /\ UNCHANGED hub
      BY <1>a, <1>12, <2>1 DEF ConnectionLost
    <2>3. r \in Request /\ r.open = handler[h].open /\ r.pc = handler[h].pc
      BY <1>a, <2>1 DEF Request
    <2>4. r.pc \in {"free", "accepted"} => ~r.open
      BY <1>c, <2>1, <2>3
    <2> HIDE DEF r, h
    <2> QED
      BY <1>3, <2>1, <2>2, <2>3, <2>4
  <1>13. CASE CloseHub
    <2>1. handler' = Closed(handler, hub.clients) /\ hub'.clients = {}
      BY <1>13 DEF CloseHub
    <2>2. \A h \in Handlers :
             /\ handler'[h].open = (handler[h].open /\ h \notin hub.clients)
             /\ handler'[h].pc = handler[h].pc
      BY <1>a, <2>1, ClosedIs
    <2> QED
      BY <1>c, <2>1, <2>2 DEF OpenIffRegistered, UnsubscribedInv
  <1>14. CASE StartAgain
    BY <1>14, <1>d DEF StartAgain, NewHub, OpenIffRegistered, UnsubscribedInv
  <1>15. ASSUME InsertSignal \/ TailSeed \/ TailPoll \/ Shutdown \/ UNCHANGED vars
         PROVE  UNCHANGED <<hub, handler>>
    BY <1>15 DEF InsertSignal, TailSeed, TailPoll, Shutdown, vars
  <1> QED
    BY <1>1, <1>4, <1>5, <1>6, <1>7, <1>8, <1>9, <1>10, <1>11, <1>12, <1>13, <1>14, <1>15
       DEF Next, HandlerStep, Exit, Crash

-----------------------------------------------------------------------------
(* A dashboard shows signals in order and none twice.                      *)

\* What is appended to an increasing sequence, if newer than its last, keeps it
\* increasing and is its last.
LEMMA AppendInOrder ==
    ASSUME NEW s \in Seq(Ids), NEW id \in Ids,
           \A i \in 2..Len(s) : s[i] > s[i - 1],
           s # <<>> => Last(s) < id
    PROVE  /\ Append(s, id) \in Seq(Ids) /\ Append(s, id) # <<>>
           /\ Last(Append(s, id)) = id
           /\ \A i \in 2..Len(Append(s, id)) : Append(s, id)[i] > Append(s, id)[i - 1]
  <1>1. /\ Append(s, id) \in Seq(Ids)
        /\ Append(s, id) # <<>>
        /\ Len(Append(s, id)) = Len(s) + 1
        /\ \A i \in 1..Len(s) : Append(s, id)[i] = s[i]
        /\ Append(s, id)[Len(s) + 1] = id
    BY AppendProperties
  <1>2. Len(s) \in Nat /\ (Len(s) # 0 => s # <<>>)
    BY EmptySeq, LenProperties
  <1>3. ASSUME NEW i \in 2..(Len(s) + 1)
        PROVE  Append(s, id)[i] > Append(s, id)[i - 1]
    <2>1. i - 1 \in 1..Len(s)
      BY <1>2
    <2>2. CASE i = Len(s) + 1
      <3>1. s # <<>> /\ Append(s, id)[i - 1] = Last(s)
        BY <1>1, <1>2, <2>1, <2>2 DEF Last
      <3>2. Last(s) \in Nat /\ id \in Nat
        BY <1>2, <2>1, <2>2, ElementOfSeq, LiveStreamAssumption DEF Last, Ids
      <3> QED
        BY <1>1, <2>2, <3>1, <3>2
    <2>3. CASE i # Len(s) + 1
      <3>1. i \in 2..Len(s) /\ i \in 1..Len(s)
        BY <1>2, <2>3
      <3> QED
        BY <1>1, <2>1, <3>1
    <2> QED
      BY <2>2, <2>3
  <1> QED
    BY <1>1, <1>2, <1>3 DEF Last

\* A handler writes only what is newer than all its dashboard has shown, in its
\* replay as on the stream, and a new one begins where the last left off.
LEMMA OrderStep ==
    TypeOK /\ RowsInv /\ ServedInv /\ WrittenInv /\ InOrder /\ [Next]_vars =>
        ServedInv' /\ WrittenInv' /\ InOrder'
  <1> SUFFICES ASSUME TypeOK, RowsInv, ServedInv, WrittenInv, InOrder, [Next]_vars
               PROVE  ServedInv' /\ WrittenInv' /\ InOrder'
    OBVIOUS
  <1>a. handler \in [Handlers -> Request]
    BY DEF TypeOK
  <1>b. browser \in [Browsers -> [by : Handlers \cup {Nobody}, shown : Seq(Ids)]]
    BY DEF TypeOK
  <1>c. \A b \in Browsers, h \in Handlers : browser[b].by = h =>
           /\ handler[h].pc # "free" /\ handler[h].from = b
           /\ IF handler[h].pc \in {"accepted", "seek"} THEN handler[h].lastSeen = LastId(b)
              ELSE LastId(b) <= handler[h].afterId
    BY DEF ServedInv, WrittenInv
  <1>d. \A b \in Browsers : LastId(b) \in Nat
    BY LastIdType
  <1>e. stored \in Nat /\ Nobody \notin Handlers
    BY LiveStreamAssumption DEF TypeOK
  \* Nothing is shown, and whoever serves a dashboard is abreast of it.
  <1>1. ASSUME \A b \in Browsers : browser'[b].shown = browser[b].shown,
               \A b \in Browsers, h \in Handlers : browser'[b].by = h =>
                  /\ handler'[h].pc # "free" /\ handler'[h].from = b
                  /\ IF handler'[h].pc \in {"accepted", "seek"}
                     THEN handler'[h].lastSeen = LastId(b)
                     ELSE LastId(b) <= handler'[h].afterId
        PROVE  ServedInv' /\ WrittenInv' /\ InOrder'
    <2>1. \A b \in Browsers : LastId(b)' = LastId(b)
      BY <1>1 DEF LastId
    <2>2. ServedInv'
      BY <1>1 DEF ServedInv
    <2>3. WrittenInv'
      BY <1>1, <2>1 DEF WrittenInv
    <2>4. InOrder'
      BY <1>1 DEF InOrder
    <2> QED
      BY <2>2, <2>3, <2>4
  <1>2. ASSUME UNCHANGED browser,
               \A h \in Handlers :
                  /\ handler'[h].pc = handler[h].pc /\ handler'[h].from = handler[h].from
                  /\ handler'[h].lastSeen = handler[h].lastSeen
                  /\ handler'[h].afterId = handler[h].afterId
        PROVE  ServedInv' /\ WrittenInv' /\ InOrder'
    BY <1>1, <1>2, <1>c
  \* One handler moves, and writes nothing.
  <1>3. ASSUME NEW h \in Handlers, NEW r \in Request,
               handler' = [handler EXCEPT ![h] = r], UNCHANGED browser,
               \A b \in Browsers : browser[b].by = h =>
                  /\ r.pc # "free" /\ r.from = b
                  /\ IF r.pc \in {"accepted", "seek"} THEN r.lastSeen = LastId(b)
                     ELSE LastId(b) <= r.afterId
        PROVE  ServedInv' /\ WrittenInv' /\ InOrder'
    <2>1. handler'[h] = r /\ \A g \in Handlers : g # h => handler'[g] = handler[g]
      BY <1>a, <1>3
    <2>2. ASSUME NEW b \in Browsers, NEW g \in Handlers, browser'[b].by = g
          PROVE  /\ handler'[g].pc # "free" /\ handler'[g].from = b
                 /\ IF handler'[g].pc \in {"accepted", "seek"}
                    THEN handler'[g].lastSeen = LastId(b)
                    ELSE LastId(b) <= handler'[g].afterId
      <3>1. CASE g = h
        BY <1>3, <2>1, <2>2, <3>1
      <3>2. CASE g # h
        BY <1>3, <1>c, <2>1, <2>2, <3>2
      <3> QED
        BY <3>1, <3>2
    <2> QED
      BY <1>1, <1>3, <2>2
  \* One handler writes a row newer than its cursor, which moves to it.
  <1>4. ASSUME NEW h \in Handlers, NEW r \in Request, NEW id \in Ids,
               handler' = [handler EXCEPT ![h] = r], Write(h, id),
               handler[h].pc \in {"write", "stream"}, id > handler[h].afterId,
               r.pc \in {"write", "stream"}, r.from = handler[h].from, r.afterId = id
        PROVE  ServedInv' /\ WrittenInv' /\ InOrder'
    <2>1. handler'[h] = r /\ \A g \in Handlers : g # h => handler'[g] = handler[g]
      BY <1>a, <1>4
    <2>2. \A b \in Browsers : browser'[b].by = browser[b].by
      BY <1>b, <1>4 DEF Write
    <2>3. id \in Nat /\ handler[h].afterId \in Nat
      BY <1>a, LiveStreamAssumption DEF Ids, Request
    <2>4. ASSUME NEW b \in Browsers, browser[b].by # h
          PROVE  browser'[b] = browser[b] /\ LastId(b)' = LastId(b)
      BY <1>4, <2>4 DEF Write, LastId
    <2>5. ASSUME NEW b \in Browsers, browser[b].by = h
          PROVE  /\ LastId(b)' = id
                 /\ \A i \in 2..Len(browser'[b].shown) :
                       browser'[b].shown[i] > browser'[b].shown[i - 1]
      <3>1. browser'[b].shown = Append(browser[b].shown, id)
        BY <1>4, <1>b, <2>5 DEF Write
      <3>2. LastId(b) < id
        BY <1>4, <1>c, <1>d, <2>3, <2>5
      <3>3. browser[b].shown \in Seq(Ids)
        BY <1>b
      <3>4. browser[b].shown # <<>> => Last(browser[b].shown) < id
        BY <3>2 DEF LastId
      <3>5. \A i \in 2..Len(browser[b].shown) : browser[b].shown[i] > browser[b].shown[i - 1]
        BY DEF InOrder
      <3>6. /\ Append(browser[b].shown, id) # <<>>
            /\ Last(Append(browser[b].shown, id)) = id
            /\ \A i \in 2..Len(Append(browser[b].shown, id)) :
                  Append(browser[b].shown, id)[i] > Append(browser[b].shown, id)[i - 1]
        BY <3>3, <3>4, <3>5, AppendInOrder
      <3> QED
        BY <3>1, <3>6 DEF LastId
    <2>6. InOrder'
      BY <2>4, <2>5 DEF InOrder
    <2>7. ASSUME NEW b \in Browsers, NEW g \in Handlers, browser'[b].by = g
          PROVE  /\ handler'[g].pc # "free" /\ handler'[g].from = b
                 /\ IF handler'[g].pc \in {"accepted", "seek"}
                    THEN handler'[g].lastSeen = LastId(b)'
                    ELSE LastId(b)' <= handler'[g].afterId
      <3>1. CASE g = h
        BY <1>4, <1>c, <2>1, <2>2, <2>3, <2>5, <2>7, <3>1
      <3>2. CASE g # h
        BY <1>c, <2>1, <2>2, <2>4, <2>7, <3>2
      <3> QED
        BY <3>1, <3>2
    <2> QED
      BY <2>6, <2>7 DEF ServedInv, WrittenInv
  <1>5. ASSUME NEW h \in Handlers, Ends(h)
        PROVE  ServedInv' /\ WrittenInv' /\ InOrder'
    <2>1. \A g \in Handlers : g # h => handler'[g] = handler[g]
      BY <1>a, <1>5 DEF Ends
    <2>2. \A b \in Browsers :
             /\ browser'[b].shown = browser[b].shown
             /\ browser'[b].by = IF browser[b].by = h THEN Nobody ELSE browser[b].by
      BY <1>b, <1>5 DEF Ends
    <2> QED
      BY <1>1, <1>c, <1>e, <2>1, <2>2
  <1>6. CASE TailBroadcast
    <2> DEFINE id == tail.last + 1
               S == Send(id, hub.clients \ Dropped)
    <2>1. id \in Ids
      BY <1>6, LiveStreamAssumption DEF TailBroadcast, TypeOK, RowsInv, Ids
    <2>2. /\ S \in [Handlers -> Request]
          /\ \A h \in Handlers :
                /\ S[h].pc = handler[h].pc /\ S[h].from = handler[h].from
                /\ S[h].lastSeen = handler[h].lastSeen /\ S[h].afterId = handler[h].afterId
      BY <1>a, <2>1, SendIs
    <2>3. handler' = Closed(S, Dropped) /\ UNCHANGED browser
      BY <1>6 DEF TailBroadcast, Broadcast
    <2> HIDE DEF S, id
    <2> QED
      BY <1>2, <2>2, <2>3, ClosedIs
  <1>7. CASE CloseHub
    <2>1. handler' = Closed(handler, hub.clients) /\ UNCHANGED browser
      BY <1>7 DEF CloseHub
    <2> QED
      BY <1>2, <1>a, <2>1, ClosedIs
  <1>8. ASSUME NEW b \in Browsers, NEW h \in Handlers, Connect(b, h)
        PROVE  ServedInv' /\ WrittenInv' /\ InOrder'
    <2> DEFINE r == [Free EXCEPT !.pc = "accepted", !.from = b, !.lastSeen = LastId(b)]
    <2>1. r.pc = "accepted" /\ r.from = b /\ r.lastSeen = LastId(b)
      BY DEF Free
    <2>2. /\ handler' = [handler EXCEPT ![h] = r]
          /\ browser' = [browser EXCEPT ![b].by = h]
          /\ handler[h].pc = "free"
      BY <1>8 DEF Connect
    <2> HIDE DEF r
    <2>3. handler'[h] = r /\ \A g \in Handlers : g # h => handler'[g] = handler[g]
      BY <1>a, <2>2
    <2>4. \A c \in Browsers :
             /\ browser'[c].shown = browser[c].shown
             /\ browser'[c].by = IF c = b THEN h ELSE browser[c].by
      BY <1>b, <2>2
    <2>5. \A c \in Browsers : browser[c].by # h
      BY <1>c, <2>2
    <2> QED
      BY <1>1, <1>c, <2>1, <2>3, <2>4, <2>5
  <1>9. ASSUME NEW h \in Handlers, Subscribe(h)
        PROVE  ServedInv' /\ WrittenInv' /\ InOrder'
    <2>1. CASE ~hub.closed /\ Cardinality(hub.clients) >= MaxClients
      BY <1>5, <1>9, <2>1 DEF Subscribe
    <2>2. CASE ~(~hub.closed /\ Cardinality(hub.clients) >= MaxClients)
      <3> DEFINE r == [handler[h] EXCEPT !.pc = "seek", !.open = ~hub.closed]
      <3>1. handler' = [handler EXCEPT ![h] = r] /\ UNCHANGED browser /\ handler[h].pc = "accepted"
        BY <1>9, <2>2, <1>a DEF Subscribe
      <3>2. /\ r \in Request /\ r.pc = "seek" /\ r.from = handler[h].from
            /\ r.lastSeen = handler[h].lastSeen
        <4>1. handler[h] \in Request /\ hub.closed \in BOOLEAN
          BY <1>a DEF TypeOK
        <4> QED
          BY <4>1 DEF Request, HandlerPc
      <3> HIDE DEF r
      <3>3. ASSUME NEW b \in Browsers, browser[b].by = h
            PROVE  /\ r.pc # "free" /\ r.from = b
                   /\ IF r.pc \in {"accepted", "seek"} THEN r.lastSeen = LastId(b)
                      ELSE LastId(b) <= r.afterId
        BY <1>c, <3>1, <3>2, <3>3
      <3> QED
        BY <1>3, <3>1, <3>2, <3>3
    <2> QED
      BY <2>1, <2>2
  <1>10. ASSUME NEW h \in Handlers, Seek(h)
         PROVE  ServedInv' /\ WrittenInv' /\ InOrder'
    <2>1. handler[h].lastSeen \in Nat /\ ReplayN \in Nat /\ handler[h].pc = "seek"
      BY <1>a, <1>10, LiveStreamAssumption DEF Seek, Request
    <2>2. PICK after \in Nat :
             /\ handler' = [handler EXCEPT ![h].pc = "replay", ![h].afterId = after]
             /\ handler[h].lastSeen <= after
      BY <1>10, <1>e, <2>1 DEF Seek
    <2> DEFINE r == [handler[h] EXCEPT !.pc = "replay", !.afterId = after]
    <2>3. /\ r \in Request /\ r.pc = "replay" /\ r.from = handler[h].from
          /\ r.afterId = after
      BY <1>a DEF Request, HandlerPc
    <2>4. handler' = [handler EXCEPT ![h] = r] /\ UNCHANGED browser
      BY <1>a, <1>10, <2>2 DEF Seek
    <2> HIDE DEF r
    <2>5. ASSUME NEW b \in Browsers, browser[b].by = h
          PROVE  /\ r.pc # "free" /\ r.from = b
                 /\ IF r.pc \in {"accepted", "seek"} THEN r.lastSeen = LastId(b)
                    ELSE LastId(b) <= r.afterId
      BY <1>c, <1>d, <2>1, <2>2, <2>3, <2>5
    <2> QED
      BY <1>3, <2>3, <2>4, <2>5
  <1>11. ASSUME NEW h \in Handlers, ReadReplay(h)
         PROVE  ServedInv' /\ WrittenInv' /\ InOrder'
    <2>1. handler[h].afterId \in Nat /\ Limit(h) \in Nat \ {0} /\ handler[h].pc = "replay"
      BY <1>a, <1>11, LiveStreamAssumption DEF Limit, Request, ReadReplay
    <2>2. SignalsAfterID(handler[h].afterId, Limit(h)) \in Nat
      BY <1>e, <2>1, ReadIs
    <2>3. PICK upTo \in Nat : handler' = [handler EXCEPT ![h].pc = "write", ![h].upTo = upTo]
      BY <1>11, <2>1, <2>2 DEF ReadReplay
    <2> DEFINE r == [handler[h] EXCEPT !.pc = "write", !.upTo = upTo]
    <2>4. /\ r \in Request /\ r.pc = "write" /\ r.from = handler[h].from
          /\ r.afterId = handler[h].afterId
      BY <1>a DEF Request, HandlerPc
    <2>5. handler' = [handler EXCEPT ![h] = r] /\ UNCHANGED browser
      BY <1>a, <1>11, <2>3 DEF ReadReplay
    <2> HIDE DEF r
    <2>6. ASSUME NEW b \in Browsers, browser[b].by = h
          PROVE  /\ r.pc # "free" /\ r.from = b
                 /\ IF r.pc \in {"accepted", "seek"} THEN r.lastSeen = LastId(b)
                    ELSE LastId(b) <= r.afterId
      BY <1>c, <2>1, <2>4, <2>6
    <2> QED
      BY <1>3, <2>4, <2>5, <2>6
  <1>12. ASSUME NEW h \in Handlers, WriteReplay(h)
         PROVE  ServedInv' /\ WrittenInv' /\ InOrder'
    <2>1. handler[h].pc = "write" /\ handler[h].afterId \in Nat /\ handler[h].upTo \in Nat
      BY <1>a, <1>12 DEF WriteReplay, Request
    <2>2. CASE handler[h].afterId < handler[h].upTo
      <3> DEFINE id == handler[h].afterId + 1
                 r == [handler[h] EXCEPT !.afterId = id]
      <3>1. id \in Ids /\ id \in Nat /\ id > handler[h].afterId
        BY <2>1, <2>2, LiveStreamAssumption DEF RowsInv, TypeOK, Ids
      <3>2. Write(h, id) /\ handler' = [handler EXCEPT ![h] = r]
        BY <1>a, <1>12, <2>2 DEF WriteReplay
      <3> HIDE DEF id
      <3>3. /\ r \in Request /\ r.pc = handler[h].pc /\ r.from = handler[h].from
            /\ r.afterId = id
        BY <1>a, <3>1 DEF Request
      <3> HIDE DEF r
      <3> QED
        BY <1>4, <2>1, <3>1, <3>2, <3>3
    <2>3. CASE ~(handler[h].afterId < handler[h].upTo)
      <3> DEFINE r == [handler[h] EXCEPT !.pc = "stream"]
      <3>1. handler' = [handler EXCEPT ![h] = r] /\ UNCHANGED browser
        BY <1>a, <1>12, <2>3 DEF WriteReplay
      <3>2. /\ r \in Request /\ r.pc = "stream" /\ r.from = handler[h].from
            /\ r.afterId = handler[h].afterId
        BY <1>a DEF Request, HandlerPc
      <3> HIDE DEF r
      <3>3. ASSUME NEW b \in Browsers, browser[b].by = h
            PROVE  /\ r.pc # "free" /\ r.from = b
                   /\ IF r.pc \in {"accepted", "seek"} THEN r.lastSeen = LastId(b)
                      ELSE LastId(b) <= r.afterId
        BY <1>c, <2>1, <3>2, <3>3
      <3> QED
        BY <1>3, <3>1, <3>2, <3>3
    <2> QED
      BY <2>2, <2>3
  <1>13. ASSUME NEW h \in Handlers, Stream(h)
         PROVE  ServedInv' /\ WrittenInv' /\ InOrder'
    <2> DEFINE ch == handler[h].ch
               id == Head(ch)
               last == IF id > handler[h].afterId THEN id ELSE handler[h].afterId
               r == [handler[h] EXCEPT !.ch = Tail(ch), !.afterId = last]
    <2>1. ch \in Seq(Ids) /\ ch # <<>> /\ handler[h].pc = "stream" /\ handler[h].afterId \in Nat
      BY <1>a, <1>13 DEF Stream, Request
    <2>2. Tail(ch) \in Seq(Ids) /\ id \in Ids
      BY <2>1, HeadTailProperties
    <2>3. /\ handler' = [handler EXCEPT ![h] = r]
          /\ IF id > handler[h].afterId THEN Write(h, id) ELSE UNCHANGED browser
      BY <1>a, <1>13 DEF Stream
    <2>4. last \in Nat /\ id \in Nat
      BY <2>1, <2>2, LiveStreamAssumption DEF Ids
    <2>5. IF id > handler[h].afterId THEN last = id ELSE last = handler[h].afterId
      OBVIOUS
    <2> HIDE DEF last, id
    <2>6. /\ r \in Request /\ r.pc = "stream" /\ r.from = handler[h].from /\ r.afterId = last
      BY <1>a, <2>1, <2>2, <2>4 DEF Request
    <2> HIDE DEF r, ch
    <2>7. CASE id > handler[h].afterId
      BY <1>4, <2>1, <2>2, <2>3, <2>5, <2>6, <2>7
    <2>8. CASE ~(id > handler[h].afterId)
      <3>1. ASSUME NEW b \in Browsers, browser[b].by = h
            PROVE  /\ r.pc # "free" /\ r.from = b
                   /\ IF r.pc \in {"accepted", "seek"} THEN r.lastSeen = LastId(b)
                      ELSE LastId(b) <= r.afterId
        BY <1>c, <2>1, <2>5, <2>6, <2>8, <3>1
      <3> QED
        BY <1>3, <2>3, <2>6, <2>8, <3>1
    <2> QED
      BY <2>7, <2>8
  <1>14. ASSUME NEW h \in Handlers, Unsubscribe(h)
         PROVE  ServedInv' /\ WrittenInv' /\ InOrder'
    BY <1>5, <1>14 DEF Unsubscribe
  <1>15. ASSUME NEW b \in Browsers, ConnectionLost(b)
         PROVE  ServedInv' /\ WrittenInv' /\ InOrder'
    <2> DEFINE h == browser[b].by
               r == [handler[h] EXCEPT !.gone = TRUE]
    <2>1. h \in Handlers
      BY <1>15 DEF ConnectionLost, TypeOK
    <2>2. /\ handler' = [handler EXCEPT ![h] = r]
          /\ browser' = [browser EXCEPT ![b].by = Nobody]
      BY <1>a, <1>15, <2>1 DEF ConnectionLost
    <2>3. /\ r.pc = handler[h].pc /\ r.from = handler[h].from
          /\ r.lastSeen = handler[h].lastSeen /\ r.afterId = handler[h].afterId
      BY <1>a, <2>1 DEF Request
    <2>4. \A g \in Handlers :
             /\ handler'[g].pc = handler[g].pc /\ handler'[g].from = handler[g].from
             /\ handler'[g].lastSeen = handler[g].lastSeen
             /\ handler'[g].afterId = handler[g].afterId
      <3> HIDE DEF r, h
      <3> QED
        BY <1>a, <2>1, <2>2, <2>3
    <2>5. \A c \in Browsers :
             /\ browser'[c].shown = browser[c].shown
             /\ browser'[c].by = IF c = b THEN Nobody ELSE browser[c].by
      BY <1>b, <2>2
    <2> QED
      BY <1>1, <1>c, <1>e, <2>4, <2>5
  <1>16. CASE StartAgain
    <2>1. \A b \in Browsers : browser'[b].by = Nobody /\ browser'[b].shown = browser[b].shown
      BY <1>b, <1>16 DEF StartAgain
    <2> QED
      BY <1>1, <1>e, <2>1
  <1>17. ASSUME InsertSignal \/ TailSeed \/ TailPoll \/ Shutdown \/ UNCHANGED vars
         PROVE  ServedInv' /\ WrittenInv' /\ InOrder'
    <2>1. UNCHANGED <<handler, browser>>
      BY <1>17 DEF InsertSignal, TailSeed, TailPoll, Shutdown, vars
    <2> QED
      BY <1>2, <2>1
  <1> QED
    BY <1>6, <1>7, <1>8, <1>9, <1>10, <1>11, <1>12, <1>13, <1>14, <1>15, <1>16, <1>17
       DEF Next, HandlerStep, Exit, Crash

-----------------------------------------------------------------------------
(* Between two signals a dashboard has shown none is missing.              *)

Heard(r, id) == \E j \in 1..Len(r.ch) : r.ch[j] = id

\* A channel holds broadcasts in their order, none ahead of the tail's cursor.
Orderly(r, last) ==
    \A i \in 1..Len(r.ch) : r.ch[i] <= last /\ \A j \in 1..(i - 1) : r.ch[j] < r.ch[i]

\* After its replay has been read: an id below one that the channel holds, or below
\* the tail's cursor while the channel is open, is written by the replay or the
\* stream, waits in the channel, or was passed over.
Covers(r, last, passed) ==
    r.pc \in {"write", "stream"} =>
        /\ \A id \in 1..last :
              r.open \/ (\E i \in 1..Len(r.ch) : id < r.ch[i]) =>
                  id <= r.upTo \/ id <= r.afterId \/ id \in passed \/ Heard(r, id)
        /\ r.pc = "stream" => r.upTo <= r.afterId

\* Nothing has been broadcast before the tail has its cursor.
FeedInv ==
    /\ tail.pc = "seed" => tail.last = 0
    /\ \A h \in Handlers :
          Orderly(handler[h], tail.last) /\ Covers(handler[h], tail.last, skipped)

\* A handler's cursor is the last signal its dashboard has shown.
PlaceInv ==
    \A b \in Browsers : \A h \in Handlers :
        /\ browser[b].by = h
        /\ handler[h].pc \in {"replay", "write", "stream"}
        /\ browser[b].shown # <<>>
        => LastId(b) = handler[h].afterId

\* What an idle channel holds is in order and covered.
LEMMA Empty ==
    ASSUME NEW r, r.ch = <<>>, NEW last, NEW passed
    PROVE  Orderly(r, last) /\ (r.pc \notin {"write", "stream"} => Covers(r, last, passed))
  <1>1. Len(r.ch) = 0
    BY EmptySeq
  <1> QED
    BY <1>1 DEF Orderly, Covers

\* A handler at another step, with the same channel and no cursor moved back.
LEMMA SameChannel ==
    ASSUME NEW q \in Request, NEW r \in Request, NEW last \in Nat, NEW passed, NEW more,
           r.ch = q.ch, Orderly(q, last)
    PROVE  /\ Orderly(r, last)
           /\ \/ r.pc \notin {"write", "stream"}
              \/ /\ Covers(q, last, passed) /\ passed \subseteq more
                 /\ q.pc \in {"write", "stream"} /\ (r.open => q.open)
                 /\ r.upTo = q.upTo /\ r.afterId >= q.afterId
                 /\ r.pc = "stream" => q.pc = "stream" \/ r.upTo <= r.afterId
              => Covers(r, last, more)
  <1>1. Orderly(r, last)
    BY DEF Orderly
  <1>2. CASE r.pc \notin {"write", "stream"}
    BY <1>1, <1>2 DEF Covers
  <1>3. ASSUME Covers(q, last, passed), passed \subseteq more,
               q.pc \in {"write", "stream"}, r.open => q.open,
               r.upTo = q.upTo, r.afterId >= q.afterId,
               r.pc = "stream" => q.pc = "stream" \/ r.upTo <= r.afterId
        PROVE  Covers(r, last, more)
    <2>1. /\ q.afterId \in Nat /\ r.afterId \in Nat /\ q.upTo \in Nat
      BY DEF Request
    <2>2. ASSUME NEW id \in 1..last, r.open \/ (\E i \in 1..Len(r.ch) : id < r.ch[i])
          PROVE  id <= r.upTo \/ id <= r.afterId \/ id \in more \/ Heard(r, id)
      <3>1. id <= q.upTo \/ id <= q.afterId \/ id \in passed \/ Heard(q, id)
        BY <1>3, <2>2 DEF Covers
      <3>2. Heard(q, id) => Heard(r, id)
        BY DEF Heard
      <3> QED
        BY <1>3, <2>1, <3>1, <3>2
    <2>3. r.pc = "stream" => r.upTo <= r.afterId
      BY <1>3, <2>1 DEF Covers
    <2> QED
      BY <2>2, <2>3 DEF Covers
  <1> QED
    BY <1>1, <1>2, <1>3

\* The tail's next row goes to the channels that are open and not full.
LEMMA Broadcasts ==
    ASSUME NEW q \in Request, NEW r \in Request, NEW last \in Nat, NEW passed, last + 1 \in Ids,
           Orderly(q, last), Covers(q, last, passed),
           r.pc = q.pc, r.upTo = q.upTo, r.afterId = q.afterId,
           \/ r.ch = Append(q.ch, last + 1) /\ q.open
           \/ r.ch = q.ch /\ ~r.open
    PROVE  Orderly(r, last + 1) /\ Covers(r, last + 1, passed)
  <1>a. q.ch \in Seq(Ids) /\ Len(q.ch) \in Nat /\ Ids \subseteq Nat
    BY LenProperties, LiveStreamAssumption DEF Request, Ids
  <1>b. \A i \in 1..Len(q.ch) : q.ch[i] \in Nat
    BY <1>a, ElementOfSeq
  <1>1. CASE r.ch = Append(q.ch, last + 1) /\ q.open
    <2> DEFINE n == Len(q.ch)
    <2>1. /\ Len(r.ch) = n + 1 /\ r.ch[n + 1] = last + 1
          /\ \A i \in 1..n : r.ch[i] = q.ch[i]
      BY <1>1, <1>a, AppendProperties
    <2> HIDE DEF n
    <2>2. n \in Nat
      BY <1>a DEF n
    <2>3. \A i \in 1..n : q.ch[i] <= last /\ \A j \in 1..(i - 1) : q.ch[j] < q.ch[i]
      BY DEF Orderly, n
    <2>4. ASSUME NEW i \in 1..(n + 1)
          PROVE  r.ch[i] <= last + 1 /\ \A j \in 1..(i - 1) : r.ch[j] < r.ch[i]
      <3>1. CASE i = n + 1
        <4>1. i - 1 = n
          BY <2>2, <3>1
        <4>2. \A j \in 1..n : r.ch[j] = q.ch[j] /\ q.ch[j] <= last /\ q.ch[j] \in Nat
          BY <1>b, <2>1, <2>3 DEF n
        <4>3. \A j \in 1..n : r.ch[j] < last + 1
          BY <4>2
        <4>4. r.ch[i] = last + 1
          BY <2>1, <3>1
        <4> QED
          BY <4>1, <4>3, <4>4
      <3>2. CASE i # n + 1
        <4>1. i \in 1..n /\ \A j \in 1..(i - 1) : j \in 1..n
          BY <2>2, <3>2
        <4>2. r.ch[i] = q.ch[i] /\ q.ch[i] \in Nat
          BY <1>b, <2>1, <4>1 DEF n
        <4> QED
          BY <2>1, <2>3, <4>1, <4>2
      <3> QED
        BY <3>1, <3>2
    <2>5. Orderly(r, last + 1)
      BY <2>1, <2>4 DEF Orderly
    <2>6. \A id : Heard(q, id) \/ id = last + 1 => Heard(r, id)
      <3>1. n + 1 \in 1..(n + 1) /\ \A j \in 1..n : j \in 1..(n + 1)
        BY <2>2
      <3>2. \A id : Heard(q, id) => \E j \in 1..n : r.ch[j] = id
        BY <2>1 DEF Heard, n
      <3>3. \A id : Heard(r, id) <=> \E j \in 1..(n + 1) : r.ch[j] = id
        BY <2>1 DEF Heard
      <3> QED
        BY <2>1, <3>1, <3>2, <3>3
    <2>7. ASSUME NEW id \in 1..(last + 1), r.pc \in {"write", "stream"},
                 r.open \/ (\E i \in 1..Len(r.ch) : id < r.ch[i])
          PROVE  id <= r.upTo \/ id <= r.afterId \/ id \in passed \/ Heard(r, id)
      <3>1. CASE id = last + 1
        BY <2>6, <3>1
      <3>2. CASE id # last + 1
        <4>1. id \in 1..last
          BY <3>2
        <4>2. id <= q.upTo \/ id <= q.afterId \/ id \in passed \/ Heard(q, id)
          BY <1>1, <2>7, <4>1 DEF Covers
        <4> QED
          BY <2>6, <4>2
      <3> QED
        BY <3>1, <3>2
    <2> QED
      BY <2>5, <2>7 DEF Covers
  <1>2. CASE r.ch = q.ch /\ ~r.open
    <2>1. Orderly(r, last + 1)
      BY <1>2, <1>b DEF Orderly
    <2>2. ASSUME NEW id \in 1..(last + 1), NEW i \in 1..Len(r.ch), id < r.ch[i],
                 r.pc \in {"write", "stream"}
          PROVE  id <= r.upTo \/ id <= r.afterId \/ id \in passed \/ Heard(r, id)
      <3>1. id \in 1..last /\ id < q.ch[i] /\ i \in 1..Len(q.ch)
        BY <1>2, <1>b, <2>2 DEF Orderly
      <3>2. id <= q.upTo \/ id <= q.afterId \/ id \in passed \/ Heard(q, id)
        BY <2>2, <3>1 DEF Covers
      <3> QED
        BY <1>2, <3>2 DEF Heard
    <2> QED
      BY <1>2, <2>1, <2>2 DEF Covers
  <1> QED
    BY <1>1, <1>2

\* An event taken from a channel is the cursor or behind it.
LEMMA Takes ==
    ASSUME NEW q \in Request, NEW r \in Request, NEW last \in Nat, NEW passed,
           Orderly(q, last), Covers(q, last, passed),
           q.ch # <<>>, q.pc = "stream", r.ch = Tail(q.ch),
           r.pc = q.pc, r.upTo = q.upTo, r.open = q.open,
           r.afterId >= q.afterId, r.afterId >= Head(q.ch)
    PROVE  /\ Orderly(r, last) /\ Covers(r, last, passed)
           /\ \A id \in 1..(Head(q.ch) - 1) : id <= q.afterId \/ id \in passed
  <1> DEFINE n == Len(q.ch)
  <1>1. /\ q.ch \in Seq(Ids) /\ n \in Nat /\ n > 0 /\ Ids \subseteq Nat
        /\ Len(Tail(q.ch)) = n - 1 /\ Head(q.ch) = q.ch[1]
        /\ \A i \in 1..(n - 1) : Tail(q.ch)[i] = q.ch[i + 1]
    <2>1. q.ch \in Seq(Ids)
      BY DEF Request
    <2>2. n \in Nat /\ n > 0
      BY <2>1, EmptySeq, LenProperties
    <2> QED
      BY <2>1, <2>2, HeadTailProperties, LiveStreamAssumption DEF Ids
  <1>2. \A i \in 1..n : q.ch[i] \in Nat
    BY <1>1, ElementOfSeq
  <1>3. \A i \in 1..n : q.ch[i] <= last /\ \A j \in 1..(i - 1) : q.ch[j] < q.ch[i]
    BY DEF Orderly
  <1>4. q.afterId \in Nat /\ r.afterId \in Nat /\ q.upTo \in Nat /\ q.upTo <= q.afterId
    BY DEF Request, Covers
  <1>5. Len(r.ch) = n - 1 /\ \A i \in 1..(n - 1) : r.ch[i] = q.ch[i + 1] /\ i + 1 \in 1..n
    BY <1>1
  <1>6. \A id : Heard(q, id) => id = q.ch[1] \/ Heard(r, id)
    <2>1. ASSUME NEW j \in 1..n, j # 1 PROVE j - 1 \in 1..(n - 1) /\ r.ch[j - 1] = q.ch[j]
      <3>1. j - 1 \in 1..(n - 1) /\ (j - 1) + 1 = j
        BY <1>1, <2>1
      <3> QED
        BY <1>5, <3>1
    <2>2. ASSUME NEW id, NEW j \in 1..n, q.ch[j] = id PROVE id = q.ch[1] \/ Heard(r, id)
      <3>1. CASE j = 1
        BY <2>2, <3>1
      <3>2. CASE j # 1
        <4>1. j - 1 \in 1..Len(r.ch) /\ r.ch[j - 1] = id
          BY <1>5, <2>1, <2>2, <3>2
        <4> QED
          BY <4>1 DEF Heard
      <3> QED
        BY <3>1, <3>2
    <2> QED
      BY <2>2 DEF Heard
  <1> HIDE DEF n
  <1>7. Orderly(r, last)
    <2>1. ASSUME NEW i \in 1..(n - 1)
          PROVE  r.ch[i] <= last /\ \A j \in 1..(i - 1) : r.ch[j] < r.ch[i]
      <3>1. r.ch[i] = q.ch[i + 1] /\ i + 1 \in 1..n
        BY <1>5
      <3>2. \A j \in 1..(i - 1) : r.ch[j] = q.ch[j + 1] /\ j + 1 \in 1..((i + 1) - 1)
        BY <1>1, <1>5
      <3>3. q.ch[i + 1] <= last /\ \A j \in 1..((i + 1) - 1) : q.ch[j] < q.ch[i + 1]
        BY <1>3, <3>1
      <3>4. \A j \in 1..(i - 1) : r.ch[j] < q.ch[i + 1]
        BY <3>2, <3>3
      <3> QED
        BY <3>1, <3>3, <3>4
    <2> QED
      BY <1>5, <2>1 DEF Orderly
  <1>8. Covers(r, last, passed)
    <2>1. ASSUME NEW id \in 1..last, r.open \/ (\E i \in 1..Len(r.ch) : id < r.ch[i])
          PROVE  id <= r.upTo \/ id <= r.afterId \/ id \in passed \/ Heard(r, id)
      <3>1. q.open \/ (\E i \in 1..n : id < q.ch[i])
        BY <1>5, <2>1
      <3>2. id <= q.upTo \/ id <= q.afterId \/ id \in passed \/ Heard(q, id)
        BY <3>1 DEF Covers, n
      <3>3. CASE Heard(q, id)
        BY <1>1, <1>6, <3>3
      <3>4. CASE id <= q.afterId
        BY <1>4, <3>4
      <3> QED
        BY <3>2, <3>3, <3>4
    <2> QED
      BY <1>4, <2>1 DEF Covers
  <1>9. ASSUME NEW id \in 1..(q.ch[1] - 1) PROVE id <= q.afterId \/ id \in passed
    <2>1. 1 \in 1..n /\ q.ch[1] \in Nat /\ q.ch[1] <= last
      BY <1>1, <1>2, <1>3
    <2>2. id \in 1..last /\ id < q.ch[1]
      BY <2>1
    <2>3. id <= q.upTo \/ id <= q.afterId \/ id \in passed \/ Heard(q, id)
      BY <2>1, <2>2 DEF Covers, n
    <2>4. ~Heard(q, id)
      <3>1. \A j \in 1..n : j = 1 \/ 1 \in 1..(j - 1)
        BY <1>1
      <3>2. \A j \in 1..n : q.ch[j] \in Nat /\ q.ch[j] >= q.ch[1]
        BY <1>2, <1>3, <2>1, <3>1
      <3> QED
        BY <2>1, <2>2, <3>2 DEF Heard, n
    <2> QED
      BY <1>4, <2>3, <2>4
  <1> QED
    BY <1>1, <1>7, <1>8, <1>9

\* A replay that has been read covers what was broadcast before it.
LEMMA Replays ==
    ASSUME NEW q \in Request, NEW r \in Request, NEW last \in Nat, NEW more,
           Orderly(q, last), r.ch = q.ch, r.pc = "write",
           \A id \in 1..last : id <= r.upTo \/ Heard(q, id) \/ id \in more
    PROVE  Orderly(r, last) /\ Covers(r, last, more)
  BY DEF Orderly, Covers, Heard

\* Every step keeps the channels in order and what is ahead of a handler covered.
LEMMA FeedStep ==
    ASSUME TypeOK, RowsInv, OpenIffRegistered, FeedInv, [Next]_vars
    PROVE  FeedInv'
  <1>a. handler \in [Handlers -> Request] /\ tail.last \in Nat
    BY DEF TypeOK
  <1>b. \A h \in Handlers : Orderly(handler[h], tail.last) /\ Covers(handler[h], tail.last, skipped)
    BY DEF FeedInv
  <1>c. Free.ch = <<>> /\ Free.pc = "free" /\ Free \in Request
    BY FreeType DEF Free
  <1>d. Orderly(Free, tail.last) /\ Covers(Free, tail.last, skipped)
    BY <1>c, Empty
  \* What has been passed over stays so.
  <1>1. ASSUME NEW q \in Request, NEW more, Orderly(q, tail.last), Covers(q, tail.last, skipped),
               skipped \subseteq more
        PROVE  Covers(q, tail.last, more)
    BY <1>1 DEF Covers
  \* One handler changes.
  <1>2. ASSUME NEW h \in Handlers, NEW r, handler' = [handler EXCEPT ![h] = r],
               UNCHANGED tail, skipped \subseteq skipped',
               Orderly(r, tail.last), Covers(r, tail.last, skipped')
        PROVE  FeedInv'
    <2>1. \A g \in Handlers : handler'[g] = IF g = h THEN r ELSE handler[g]
      BY <1>a, <1>2
    <2>2. ASSUME NEW g \in Handlers
          PROVE  Orderly(handler'[g], tail.last) /\ Covers(handler'[g], tail.last, skipped')
      <3>1. CASE g = h
        BY <1>2, <2>1, <3>1
      <3>2. CASE g # h
        BY <1>a, <1>b, <1>1, <1>2, <2>1, <3>2
      <3> QED
        BY <3>1, <3>2
    <2>3. tail'.pc = "seed" => tail'.last = 0
      BY <1>2 DEF FeedInv
    <2> QED
      BY <1>2, <2>2, <2>3 DEF FeedInv
  <1>3. CASE TailSeed
    <2>1. tail.last = 0 /\ handler' = handler
      BY <1>3 DEF TailSeed, FeedInv
    <2>2. ASSUME NEW h \in Handlers PROVE Len(handler[h].ch) = 0
      <3>1. handler[h].ch \in Seq(Ids) /\ Len(handler[h].ch) \in Nat
        BY <1>a, LenProperties DEF Request
      <3>2. \A i \in 1..Len(handler[h].ch) : handler[h].ch[i] \in Ids /\ handler[h].ch[i] <= 0
        BY <1>b, <2>1, <3>1, ElementOfSeq DEF Orderly
      <3>3. Len(handler[h].ch) > 0 => 1 \in 1..Len(handler[h].ch)
        BY <3>1
      <3> QED
        BY <3>1, <3>2, <3>3, LiveStreamAssumption DEF Ids
    <2>3. CASE tail' = [pc |-> "poll", last |-> stored, upTo |-> stored]
               /\ skipped' = skipped \cup {id \in 1..stored : Awaited(id)}
      <3>1. ASSUME NEW h \in Handlers, NEW id \in 1..stored, handler[h].open,
                   handler[h].pc \in {"write", "stream"}
            PROVE  id <= handler[h].upTo \/ id \in skipped'
        <4>1. h \in hub.clients
          BY <3>1 DEF OpenIffRegistered
        <4>2. handler[h].upTo \in Nat
          BY <1>a DEF Request
        <4> QED
          BY <2>3, <3>1, <4>1, <4>2 DEF Awaited
      <3>2. ASSUME NEW h \in Handlers
            PROVE  Orderly(handler[h], stored) /\ Covers(handler[h], stored, skipped')
        <4>1. Orderly(handler[h], stored)
          BY <2>2 DEF Orderly
        <4>2. handler[h].pc = "stream" => handler[h].upTo <= handler[h].afterId
          BY <1>b DEF Covers
        <4>3. ~\E i \in 1..Len(handler[h].ch) : TRUE
          BY <2>2
        <4> QED
          BY <3>1, <4>1, <4>2, <4>3 DEF Covers
      <3> QED
        BY <2>1, <2>3, <3>2 DEF FeedInv
    <2>4. CASE tail' = [TailStart EXCEPT !.pc = "poll"] /\ UNCHANGED skipped
      <3>1. tail'.pc = "poll" /\ tail'.last = 0
        BY <2>4 DEF TailStart
      <3> QED
        BY <1>b, <2>1, <2>4, <3>1 DEF FeedInv
    <2> QED
      BY <1>3, <2>3, <2>4 DEF TailSeed
  <1>4. CASE TailBroadcast
    <2> DEFINE id == tail.last + 1
               sent == Send(id, hub.clients \ Dropped)
    <2>1. id \in Ids
      BY <1>4, LiveStreamAssumption DEF TailBroadcast, TypeOK, RowsInv, Ids
    <2>2. handler' = Closed(sent, Dropped) /\ tail'.last = id /\ tail'.pc = "poll" /\ UNCHANGED skipped
      BY <1>4 DEF TailBroadcast, Broadcast, TypeOK
    <2>3. /\ sent \in [Handlers -> Request]
          /\ \A h \in Handlers :
                /\ sent[h].open = handler[h].open /\ sent[h].pc = handler[h].pc
                /\ sent[h].afterId = handler[h].afterId /\ sent[h].upTo = handler[h].upTo
                /\ sent[h].ch = IF h \in hub.clients \ Dropped THEN Append(handler[h].ch, id)
                                ELSE handler[h].ch
      BY <1>a, <2>1, SendIs
    <2> HIDE DEF sent, id
    <2>4. /\ handler' \in [Handlers -> Request]
          /\ \A h \in Handlers :
                /\ handler'[h].open = (handler[h].open /\ h \notin Dropped)
                /\ handler'[h].pc = handler[h].pc
                /\ handler'[h].afterId = handler[h].afterId /\ handler'[h].upTo = handler[h].upTo
                /\ handler'[h].ch = sent[h].ch
      BY <2>2, <2>3, ClosedIs
    <2>5. ASSUME NEW h \in Handlers
          PROVE  Orderly(handler'[h], id) /\ Covers(handler'[h], id, skipped)
      <3>1. \/ handler'[h].ch = Append(handler[h].ch, id) /\ handler[h].open
            \/ handler'[h].ch = handler[h].ch /\ ~handler'[h].open
        BY <2>3, <2>4 DEF OpenIffRegistered
      <3>2. /\ handler[h] \in Request /\ handler'[h] \in Request
            /\ Orderly(handler[h], tail.last) /\ Covers(handler[h], tail.last, skipped)
            /\ handler'[h].pc = handler[h].pc
            /\ handler'[h].upTo = handler[h].upTo /\ handler'[h].afterId = handler[h].afterId
        BY <1>a, <1>b, <2>4
      <3> QED
        BY <1>a, <2>1, <3>1, <3>2, Broadcasts DEF id
    <2> QED
      BY <2>2, <2>5 DEF FeedInv
  <1>5. ASSUME NEW b \in Browsers, NEW h \in Handlers, Connect(b, h) PROVE FeedInv'
    <2> DEFINE r == [Free EXCEPT !.pc = "accepted", !.from = b, !.lastSeen = LastId(b)]
    <2>1. r.ch = <<>> /\ r.pc = "accepted"
      BY DEF Free
    <2>2. handler' = [handler EXCEPT ![h] = r] /\ UNCHANGED <<tail, skipped>>
      BY <1>5 DEF Connect
    <2> HIDE DEF r
    <2>3. Orderly(r, tail.last) /\ Covers(r, tail.last, skipped')
      BY <2>1, Empty
    <2> QED
      BY <1>2, <2>2, <2>3
  <1>6. ASSUME NEW h \in Handlers, Ends(h), UNCHANGED <<tail, skipped>> PROVE FeedInv'
    BY <1>2, <1>6, <1>d DEF Ends
  <1>7. ASSUME NEW h \in Handlers, Subscribe(h) PROVE FeedInv'
    <2>1. CASE ~hub.closed /\ Cardinality(hub.clients) >= MaxClients
      BY <1>6, <1>7, <2>1 DEF Subscribe
    <2>2. CASE ~(~hub.closed /\ Cardinality(hub.clients) >= MaxClients)
      <3> DEFINE r == [handler[h] EXCEPT !.pc = "seek", !.open = ~hub.closed]
      <3>1. handler' = [handler EXCEPT ![h] = r] /\ UNCHANGED <<tail, skipped>>
        BY <1>7, <2>2, <1>a DEF Subscribe
      <3>2. r \in Request /\ r.ch = handler[h].ch /\ r.pc = "seek"
        <4>1. handler[h] \in Request /\ hub.closed \in BOOLEAN
          BY <1>a DEF TypeOK
        <4> QED
          BY <4>1 DEF Request, HandlerPc
      <3> HIDE DEF r
      <3>3. Orderly(r, tail.last) /\ Covers(r, tail.last, skipped')
        BY <1>a, <1>b, <3>2, SameChannel
      <3> QED
        BY <1>2, <3>1, <3>3
    <2> QED
      BY <2>1, <2>2
  <1>8. ASSUME NEW h \in Handlers, Seek(h) PROVE FeedInv'
    <2>1. handler[h].lastSeen \in Nat /\ ReplayN \in Nat /\ stored \in Nat
      BY <1>a, LiveStreamAssumption DEF Request, TypeOK
    <2>2. PICK after \in Nat : handler' = [handler EXCEPT ![h].pc = "replay", ![h].afterId = after]
      BY <1>8, <2>1 DEF Seek
    <2> DEFINE r == [handler[h] EXCEPT !.pc = "replay", !.afterId = after]
    <2>3. r \in Request /\ r.ch = handler[h].ch /\ r.pc = "replay"
      BY <1>a DEF Request, HandlerPc
    <2>4. handler' = [handler EXCEPT ![h] = r] /\ UNCHANGED <<tail, skipped>>
      BY <1>a, <1>8, <2>2 DEF Seek
    <2> HIDE DEF r
    <2>5. Orderly(r, tail.last) /\ Covers(r, tail.last, skipped')
      BY <1>a, <1>b, <2>3, SameChannel
    <2> QED
      BY <1>2, <2>4, <2>5
  <1>9. ASSUME NEW h \in Handlers, ReadReplay(h) PROVE FeedInv'
    <2>1. handler[h].afterId \in Nat /\ Limit(h) \in Nat \ {0} /\ stored \in Nat
      BY <1>a, LiveStreamAssumption DEF Limit, Request, TypeOK
    <2>2. SignalsAfterID(handler[h].afterId, Limit(h)) \in Nat
      BY <2>1, ReadIs
    <2>3. PICK upTo \in Nat :
             /\ handler' = [handler EXCEPT ![h].pc = "write", ![h].upTo = upTo]
             /\ skipped' = skipped \cup {id \in Unheard(h) : id > upTo}
      BY <1>9, <2>1, <2>2 DEF ReadReplay
    <2> DEFINE r == [handler[h] EXCEPT !.pc = "write", !.upTo = upTo]
    <2>4. r \in Request /\ r.ch = handler[h].ch /\ r.pc = "write" /\ r.upTo = upTo
      BY <1>a DEF Request, HandlerPc
    <2>5. handler' = [handler EXCEPT ![h] = r] /\ UNCHANGED tail
      BY <1>a, <1>9, <2>3 DEF ReadReplay
    <2> HIDE DEF r
    <2>6. \A id : Contains(handler[h].ch, id) => Heard(handler[h], id)
      BY DEF Contains, Heard
    <2>7. \A id \in 1..tail.last : id <= r.upTo \/ Heard(handler[h], id) \/ id \in skipped'
      <3>1. ASSUME NEW id \in 1..tail.last, ~(id <= upTo), ~Heard(handler[h], id)
            PROVE  id \in skipped'
        <4>1. id \in Unheard(h)
          BY <2>6, <3>1 DEF Unheard
        <4>2. id > upTo
          BY <1>a, <3>1
        <4> QED
          BY <2>3, <4>1, <4>2
      <3> QED
        BY <2>4, <3>1
    <2>8. Orderly(r, tail.last) /\ Covers(r, tail.last, skipped')
      BY <1>a, <1>b, <2>4, <2>7, Replays
    <2> QED
      BY <1>2, <2>3, <2>5, <2>8
  <1>10. ASSUME NEW h \in Handlers, WriteReplay(h) PROVE FeedInv'
    <2>1. /\ handler[h].pc = "write" /\ handler[h].afterId \in Nat /\ handler[h].upTo \in Nat
          /\ UNCHANGED <<tail, skipped>>
      BY <1>a, <1>10 DEF WriteReplay, Request
    <2>2. CASE handler[h].afterId < handler[h].upTo
      <3> DEFINE id == handler[h].afterId + 1
                 r == [handler[h] EXCEPT !.afterId = id]
      <3>1. id \in Nat /\ id >= handler[h].afterId
        BY <2>1
      <3>2. handler' = [handler EXCEPT ![h] = r]
        BY <1>a, <1>10, <2>2 DEF WriteReplay
      <3> HIDE DEF id
      <3>3. /\ r \in Request /\ r.ch = handler[h].ch /\ r.pc = "write" /\ r.afterId = id
            /\ r.upTo = handler[h].upTo /\ r.open = handler[h].open
        BY <1>a, <2>1, <3>1 DEF Request
      <3> HIDE DEF r
      <3>4. Orderly(r, tail.last) /\ Covers(r, tail.last, skipped')
        BY <1>a, <1>b, <2>1, <3>1, <3>3, SameChannel
      <3> QED
        BY <1>2, <2>1, <3>2, <3>4
    <2>3. CASE ~(handler[h].afterId < handler[h].upTo)
      <3> DEFINE r == [handler[h] EXCEPT !.pc = "stream"]
      <3>1. handler' = [handler EXCEPT ![h] = r]
        BY <1>a, <1>10, <2>3 DEF WriteReplay
      <3>2. /\ r \in Request /\ r.ch = handler[h].ch /\ r.pc = "stream"
            /\ r.afterId = handler[h].afterId
            /\ r.upTo = handler[h].upTo /\ r.open = handler[h].open
        BY <1>a DEF Request, HandlerPc
      <3> HIDE DEF r
      <3>3. r.upTo <= r.afterId /\ r.afterId >= handler[h].afterId
        BY <2>1, <2>3, <3>2
      <3>4. Orderly(r, tail.last) /\ Covers(r, tail.last, skipped')
        BY <1>a, <1>b, <2>1, <3>2, <3>3, SameChannel
      <3> QED
        BY <1>2, <2>1, <3>1, <3>4
    <2> QED
      BY <2>2, <2>3
  <1>11. ASSUME NEW h \in Handlers, Stream(h) PROVE FeedInv'
    <2> DEFINE ch == handler[h].ch
               id == Head(ch)
               last == IF id > handler[h].afterId THEN id ELSE handler[h].afterId
               r == [handler[h] EXCEPT !.ch = Tail(ch), !.afterId = last]
    <2>1. ch \in Seq(Ids) /\ ch # <<>> /\ handler[h].pc = "stream" /\ handler[h].afterId \in Nat
      BY <1>a, <1>11 DEF Stream, Request
    <2>2. Tail(ch) \in Seq(Ids) /\ id \in Ids
      BY <2>1, HeadTailProperties
    <2>3. handler' = [handler EXCEPT ![h] = r] /\ UNCHANGED <<tail, skipped>>
      BY <1>a, <1>11 DEF Stream
    <2>4. last \in Nat /\ last >= id /\ last >= handler[h].afterId
      <3>1. id \in Nat
        BY <2>2, LiveStreamAssumption DEF Ids
      <3> HIDE DEF id
      <3> QED
        BY <2>1, <3>1
    <2> HIDE DEF last, id
    <2>5. /\ r \in Request /\ r.pc = "stream" /\ r.ch = Tail(ch) /\ r.afterId = last
          /\ r.upTo = handler[h].upTo /\ r.open = handler[h].open
      BY <1>a, <2>1, <2>2, <2>4 DEF Request
    <2> HIDE DEF r
    <2>6. Orderly(r, tail.last) /\ Covers(r, tail.last, skipped)
      BY <1>a, <1>b, <2>1, <2>4, <2>5, Takes DEF id
    <2> QED
      BY <1>2, <2>3, <2>6
  <1>12. ASSUME NEW h \in Handlers, Unsubscribe(h) PROVE FeedInv'
    BY <1>6, <1>12 DEF Unsubscribe
  <1>13. ASSUME NEW b \in Browsers, ConnectionLost(b) PROVE FeedInv'
    <2> DEFINE h == browser[b].by
               r == [handler[h] EXCEPT !.gone = TRUE]
    <2>1. h \in Handlers
      BY <1>13 DEF ConnectionLost, TypeOK
    <2>2. handler' = [handler EXCEPT ![h] = r] /\ UNCHANGED <<tail, skipped>>
      BY <1>a, <1>13, <2>1 DEF ConnectionLost
    <2>3. /\ r \in Request /\ r.pc = handler[h].pc /\ r.ch = handler[h].ch
          /\ r.afterId = handler[h].afterId
          /\ r.upTo = handler[h].upTo /\ r.open = handler[h].open
      BY <1>a, <2>1 DEF Request
    <2> HIDE DEF r, h
    <2>4. handler[h].afterId \in Nat
      BY <1>a, <2>1 DEF Request
    <2>5. Orderly(r, tail.last) /\ Covers(r, tail.last, skipped')
      BY <1>a, <1>b, <2>1, <2>2, <2>3, <2>4, SameChannel
    <2> QED
      BY <1>2, <2>1, <2>2, <2>5
  <1>14. CASE CloseHub
    <2>1. handler' = Closed(handler, hub.clients) /\ UNCHANGED <<tail, skipped>>
      BY <1>14 DEF CloseHub
    <2>2. /\ handler' \in [Handlers -> Request]
          /\ \A h \in Handlers :
                /\ handler'[h].open = (handler[h].open /\ h \notin hub.clients)
                /\ handler'[h].pc = handler[h].pc /\ handler'[h].ch = handler[h].ch
                /\ handler'[h].afterId = handler[h].afterId /\ handler'[h].upTo = handler[h].upTo
      BY <1>a, <2>1, ClosedIs
    <2>3. ASSUME NEW h \in Handlers
          PROVE  Orderly(handler'[h], tail.last) /\ Covers(handler'[h], tail.last, skipped)
      <3>1. handler[h] \in Request /\ handler'[h] \in Request /\ handler[h].afterId \in Nat
        BY <1>a, <2>2 DEF Request
      <3>2. /\ handler'[h].open => handler[h].open
            /\ handler'[h].pc = handler[h].pc /\ handler'[h].ch = handler[h].ch
            /\ handler'[h].afterId = handler[h].afterId /\ handler'[h].upTo = handler[h].upTo
        BY <2>2
      <3>3. Orderly(handler[h], tail.last) /\ Covers(handler[h], tail.last, skipped)
        BY <1>b
      <3>4. handler'[h].afterId >= handler[h].afterId
        BY <3>1, <3>2
      <3> QED
        BY <1>a, <3>1, <3>2, <3>3, <3>4, SameChannel
    <2> QED
      BY <2>1, <2>3 DEF FeedInv
  <1>15. CASE StartAgain
    <2>1. /\ \A h \in Handlers : handler'[h] = Free
          /\ tail'.last = 0 /\ tail'.pc = "seed"
      BY <1>15 DEF StartAgain, TailStart
    <2>2. Orderly(Free, 0) /\ Covers(Free, 0, skipped')
      BY <1>c, Empty
    <2> QED
      BY <2>1, <2>2 DEF FeedInv
  <1>16. CASE InsertSignal \/ UNCHANGED vars
    BY <1>16 DEF InsertSignal, vars, FeedInv
  <1>17. CASE TailPoll \/ Shutdown
    <2>1. UNCHANGED <<handler, skipped>> /\ tail'.last = tail.last /\ tail'.pc \in {"poll", "stopped"}
      BY <1>17 DEF TailPoll, Shutdown, TypeOK
    <2> QED
      BY <1>b, <2>1 DEF FeedInv
  <1> QED
    BY <1>3, <1>4, <1>5, <1>7, <1>8, <1>9, <1>10, <1>11, <1>12, <1>13, <1>14, <1>15, <1>16, <1>17
       DEF Next, HandlerStep, Exit, Crash

\* What is appended, if only ids passed over lie between it and the last, leaves no
\* other gap.
LEMMA AppendMissesNone ==
    ASSUME NEW s \in Seq(Ids), NEW id \in Ids, NEW passed,
           \A i \in 2..Len(s) : (s[i - 1] + 1)..(s[i] - 1) \subseteq passed,
           s # <<>> => (Last(s) + 1)..(id - 1) \subseteq passed
    PROVE  \A i \in 2..Len(Append(s, id)) :
               (Append(s, id)[i - 1] + 1)..(Append(s, id)[i] - 1) \subseteq passed
  <1>1. /\ Len(Append(s, id)) = Len(s) + 1
        /\ \A i \in 1..Len(s) : Append(s, id)[i] = s[i]
        /\ Append(s, id)[Len(s) + 1] = id
    BY AppendProperties
  <1>2. Len(s) \in Nat /\ (Len(s) # 0 => s # <<>>)
    BY EmptySeq, LenProperties
  <1>3. ASSUME NEW i \in 2..(Len(s) + 1)
        PROVE  (Append(s, id)[i - 1] + 1)..(Append(s, id)[i] - 1) \subseteq passed
    <2>1. i - 1 \in 1..Len(s)
      BY <1>2
    <2>2. CASE i = Len(s) + 1
      <3>1. s # <<>> /\ Append(s, id)[i - 1] = Last(s)
        BY <1>1, <1>2, <2>1, <2>2 DEF Last
      <3> QED
        BY <1>1, <2>2, <3>1
    <2>3. CASE i # Len(s) + 1
      <3>1. i \in 2..Len(s) /\ i \in 1..Len(s)
        BY <1>2, <2>3
      <3>2. Append(s, id)[i] = s[i] /\ Append(s, id)[i - 1] = s[i - 1]
        BY <1>1, <2>1, <3>1
      <3> QED
        BY <3>1, <3>2
    <2> QED
      BY <2>2, <2>3
  <1> QED
    BY <1>1, <1>3

\* A handler goes on where its dashboard is, and what it writes leaves no gap.
LEMMA PlaceStep ==
    ASSUME IndInv, FeedInv, PlaceInv, NoneMissed, [Next]_vars
    PROVE  PlaceInv' /\ NoneMissed'
  <1>a. /\ handler \in [Handlers -> Request] /\ stored \in Nat
        /\ browser \in [Browsers -> [by : Handlers \cup {Nobody}, shown : Seq(Ids)]]
        /\ Nobody \notin Handlers /\ Ids \subseteq Nat \ {0} /\ tail.last \in Nat
    BY LiveStreamAssumption DEF IndInv, TypeOK, Ids
  <1>b. \A b \in Browsers, h \in Handlers : browser[b].by = h =>
           /\ handler[h].pc # "free" /\ handler[h].from = b
           /\ handler[h].pc \in {"accepted", "seek"} => handler[h].lastSeen = LastId(b)
           /\ handler[h].pc \in {"replay", "write", "stream"} /\ browser[b].shown # <<>> =>
                 LastId(b) = handler[h].afterId
    BY DEF IndInv, ServedInv, WrittenInv, PlaceInv
  <1>c. \A h \in Handlers : handler[h].afterId \in Nat /\ handler[h].upTo \in Nat
    BY <1>a DEF Request
  <1>d. ASSUME NEW b \in Browsers, browser[b].shown # <<>> PROVE LastId(b) \in Ids
    <2>1. browser[b].shown \in Seq(Ids)
      BY <1>a
    <2>2. Len(browser[b].shown) \in 1..Len(browser[b].shown)
      BY <1>d, <2>1, EmptySeq, LenProperties
    <2> QED
      BY <1>d, <2>1, <2>2, ElementOfSeq DEF LastId, Last
  \* Nothing is shown.
  <1>1. ASSUME \A b \in Browsers : browser'[b].shown = browser[b].shown, skipped \subseteq skipped',
               \A b \in Browsers, h \in Handlers :
                  /\ browser'[b].by = h /\ handler'[h].pc \in {"replay", "write", "stream"}
                  /\ browser[b].shown # <<>>
                  => LastId(b) = handler'[h].afterId
        PROVE  PlaceInv' /\ NoneMissed'
    <2>1. \A b \in Browsers : LastId(b)' = LastId(b)
      BY <1>1 DEF LastId
    <2>2. PlaceInv'
      BY <1>1, <2>1 DEF PlaceInv
    <2>3. NoneMissed'
      BY <1>1 DEF NoneMissed
    <2> QED
      BY <2>2, <2>3
  <1>2. ASSUME UNCHANGED browser, skipped \subseteq skipped',
               \A h \in Handlers :
                  handler'[h].pc = handler[h].pc /\ handler'[h].afterId = handler[h].afterId
        PROVE  PlaceInv' /\ NoneMissed'
    BY <1>1, <1>2, <1>b
  \* One handler moves, and writes nothing.
  <1>3. ASSUME NEW h \in Handlers, NEW r, handler' = [handler EXCEPT ![h] = r],
               \A b \in Browsers : browser'[b].shown = browser[b].shown,
               \A b \in Browsers, g \in Handlers : browser'[b].by = g /\ g # h => browser[b].by = g,
               skipped \subseteq skipped',
               \A b \in Browsers :
                  /\ browser'[b].by = h /\ r.pc \in {"replay", "write", "stream"}
                  /\ browser[b].shown # <<>>
                  => LastId(b) = r.afterId
        PROVE  PlaceInv' /\ NoneMissed'
    <2>1. handler'[h] = r /\ \A g \in Handlers : g # h => handler'[g] = handler[g]
      BY <1>a, <1>3
    <2>2. ASSUME NEW b \in Browsers, NEW g \in Handlers, browser'[b].by = g,
                 handler'[g].pc \in {"replay", "write", "stream"}, browser[b].shown # <<>>
          PROVE  LastId(b) = handler'[g].afterId
      <3>1. CASE g = h
        BY <1>3, <2>1, <2>2, <3>1
      <3>2. CASE g # h
        BY <1>3, <1>b, <2>1, <2>2, <3>2
      <3> QED
        BY <3>1, <3>2
    <2> QED
      BY <1>1, <1>3, <2>2
  \* One handler moves, and no dashboard.
  <1>s. ASSUME NEW h \in Handlers, NEW r, handler' = [handler EXCEPT ![h] = r],
               UNCHANGED browser, skipped \subseteq skipped',
               \A b \in Browsers :
                  /\ browser[b].by = h /\ r.pc \in {"replay", "write", "stream"}
                  /\ browser[b].shown # <<>>
                  => LastId(b) = r.afterId
        PROVE  PlaceInv' /\ NoneMissed'
    <2>1. \A b \in Browsers : browser'[b].shown = browser[b].shown /\ browser'[b].by = browser[b].by
      BY <1>s
    <2> QED
      BY <1>3, <1>s, <2>1
  \* One handler writes a row, and only rows passed over lie between.
  <1>4. ASSUME NEW h \in Handlers, NEW r, NEW id \in Ids,
               handler' = [handler EXCEPT ![h] = r], Write(h, id), UNCHANGED skipped,
               handler[h].pc \in {"write", "stream"}, r.afterId = id,
               (handler[h].afterId + 1)..(id - 1) \subseteq skipped
        PROVE  PlaceInv' /\ NoneMissed'
    <2>1. handler'[h] = r /\ \A g \in Handlers : g # h => handler'[g] = handler[g]
      BY <1>a, <1>4
    <2>2. \A b \in Browsers : browser'[b].by = browser[b].by
      BY <1>a, <1>4 DEF Write
    <2>3. ASSUME NEW b \in Browsers, browser[b].by # h
          PROVE  browser'[b] = browser[b] /\ LastId(b)' = LastId(b)
      BY <1>4, <2>3 DEF Write, LastId
    <2>4. ASSUME NEW b \in Browsers, browser[b].by = h
          PROVE  /\ LastId(b)' = id
                 /\ \A i \in 2..Len(browser'[b].shown) :
                       (browser'[b].shown[i - 1] + 1)..(browser'[b].shown[i] - 1) \subseteq skipped
      <3> DEFINE s == browser[b].shown
      <3>1. browser'[b].shown = Append(s, id) /\ s \in Seq(Ids)
        BY <1>4, <1>a, <2>4 DEF Write
      <3>2. \A i \in 2..Len(s) : (s[i - 1] + 1)..(s[i] - 1) \subseteq skipped
        BY DEF NoneMissed
      <3>3. s # <<>> => Last(s) = handler[h].afterId
        BY <1>4, <1>b, <2>4 DEF LastId
      <3>4. s # <<>> => (Last(s) + 1)..(id - 1) \subseteq skipped
        BY <1>4, <3>3
      <3> HIDE DEF s
      <3>5. /\ Append(s, id) # <<>> /\ Append(s, id)[Len(Append(s, id))] = id
        BY <3>1, AppendProperties
      <3>6. LastId(b)' = id
        BY <3>1, <3>5 DEF LastId, Last
      <3>7. \A i \in 2..Len(Append(s, id)) :
               (Append(s, id)[i - 1] + 1)..(Append(s, id)[i] - 1) \subseteq skipped
        BY <3>1, <3>2, <3>4, AppendMissesNone
      <3> QED
        BY <3>1, <3>6, <3>7
    <2>5. NoneMissed'
      BY <1>4, <2>3, <2>4 DEF NoneMissed
    <2>6. ASSUME NEW b \in Browsers, NEW g \in Handlers, browser'[b].by = g,
                 handler'[g].pc \in {"replay", "write", "stream"}, browser'[b].shown # <<>>
          PROVE  LastId(b)' = handler'[g].afterId
      <3>1. CASE g = h
        BY <1>4, <2>1, <2>2, <2>4, <2>6, <3>1
      <3>2. CASE g # h
        BY <1>b, <2>1, <2>2, <2>3, <2>6, <3>2
      <3> QED
        BY <3>1, <3>2
    <2> QED
      BY <2>5, <2>6 DEF PlaceInv
  <1>5. ASSUME NEW h \in Handlers, Ends(h), UNCHANGED skipped PROVE PlaceInv' /\ NoneMissed'
    <2>1. Free.pc = "free" /\ handler' = [handler EXCEPT ![h] = Free]
      BY <1>5 DEF Free, Ends
    <2>2. \A b \in Browsers :
             /\ browser'[b].shown = browser[b].shown
             /\ browser'[b].by = IF browser[b].by = h THEN Nobody ELSE browser[b].by
      BY <1>a, <1>5 DEF Ends
    <2>3. \A b \in Browsers, g \in Handlers : browser'[b].by = g /\ g # h => browser[b].by = g
      BY <1>a, <2>2
    <2> HIDE DEF Free
    <2> QED
      BY <1>3, <1>5, <2>1, <2>2, <2>3
  <1>6. CASE TailBroadcast
    <2> DEFINE id == tail.last + 1
               sent == Send(id, hub.clients \ Dropped)
    <2>1. id \in Ids
      BY <1>6, LiveStreamAssumption DEF TailBroadcast, IndInv, TypeOK, RowsInv, Ids
    <2>2. /\ sent \in [Handlers -> Request]
          /\ \A h \in Handlers :
                sent[h].pc = handler[h].pc /\ sent[h].afterId = handler[h].afterId
      BY <1>a, <2>1, SendIs
    <2>3. handler' = Closed(sent, Dropped) /\ UNCHANGED <<browser, skipped>>
      BY <1>6 DEF TailBroadcast, Broadcast
    <2> HIDE DEF sent, id
    <2> QED
      BY <1>2, <2>2, <2>3, ClosedIs
  <1>7. CASE CloseHub
    <2>1. handler' = Closed(handler, hub.clients) /\ UNCHANGED <<browser, skipped>>
      BY <1>7 DEF CloseHub
    <2> QED
      BY <1>2, <1>a, <2>1, ClosedIs
  <1>8. ASSUME NEW b \in Browsers, NEW h \in Handlers, Connect(b, h)
        PROVE  PlaceInv' /\ NoneMissed'
    <2> DEFINE r == [Free EXCEPT !.pc = "accepted", !.from = b, !.lastSeen = LastId(b)]
    <2>1. r.pc = "accepted"
      BY DEF Free
    <2>2. /\ handler' = [handler EXCEPT ![h] = r]
          /\ browser' = [browser EXCEPT ![b].by = h] /\ UNCHANGED skipped
      BY <1>8 DEF Connect
    <2> HIDE DEF r
    <2>3. \A c \in Browsers :
             /\ browser'[c].shown = browser[c].shown
             /\ browser'[c].by = IF c = b THEN h ELSE browser[c].by
      BY <1>a, <2>2
    <2>4. \A c \in Browsers, g \in Handlers : browser'[c].by = g /\ g # h => browser[c].by = g
      BY <2>3
    <2>5. skipped \subseteq skipped' /\ r.pc \notin {"replay", "write", "stream"}
      BY <2>1, <2>2
    <2> QED
      BY <1>3, <2>2, <2>3, <2>4, <2>5
  <1>9. ASSUME NEW h \in Handlers, Subscribe(h) PROVE PlaceInv' /\ NoneMissed'
    <2>1. CASE ~hub.closed /\ Cardinality(hub.clients) >= MaxClients
      BY <1>5, <1>9, <2>1 DEF Subscribe
    <2>2. CASE ~(~hub.closed /\ Cardinality(hub.clients) >= MaxClients)
      <3> DEFINE r == [handler[h] EXCEPT !.pc = "seek", !.open = ~hub.closed]
      <3>1. handler' = [handler EXCEPT ![h] = r] /\ UNCHANGED <<browser, skipped>>
        BY <1>9, <2>2, <1>a DEF Subscribe
      <3>2. r.pc = "seek"
        <4>1. handler[h] \in Request
          BY <1>a
        <4> QED
          BY <4>1 DEF Request
      <3> HIDE DEF r
      <3> QED
        BY <1>s, <3>1, <3>2
    <2> QED
      BY <2>1, <2>2
  <1>10. ASSUME NEW h \in Handlers, Seek(h) PROVE PlaceInv' /\ NoneMissed'
    <2>1. /\ handler[h].lastSeen \in Nat /\ ReplayN \in Nat /\ handler[h].pc = "seek"
          /\ UNCHANGED <<browser, skipped>>
      BY <1>a, <1>10, LiveStreamAssumption DEF Seek, Request
    <2>2. PICK after \in Nat :
             /\ handler' = [handler EXCEPT ![h].pc = "replay", ![h].afterId = after]
             /\ handler[h].lastSeen > 0 => after = handler[h].lastSeen
      <3> DEFINE begin(after) == handler' = [handler EXCEPT ![h].pc = "replay", ![h].afterId = after]
                 back == IF stored > ReplayN THEN stored - ReplayN ELSE 0
      <3>1. \/ handler[h].lastSeen > 0 /\ begin(handler[h].lastSeen)
            \/ handler[h].lastSeen = 0 /\ begin(back)
            \/ handler[h].lastSeen = 0 /\ begin(0)
        BY <1>10 DEF Seek
      <3>2. back \in Nat
        BY <1>a, <2>1
      <3> HIDE DEF begin, back
      <3>3. PICK after \in Nat : begin(after) /\ (handler[h].lastSeen > 0 => after = handler[h].lastSeen)
        BY <2>1, <3>1, <3>2
      <3> QED
        BY <3>3 DEF begin
    <2> DEFINE r == [handler[h] EXCEPT !.pc = "replay", !.afterId = after]
    <2>3. r.afterId = after
      BY <1>a DEF Request
    <2>4. handler' = [handler EXCEPT ![h] = r]
      BY <1>a, <2>2
    <2> HIDE DEF r
    <2>5. ASSUME NEW b \in Browsers, browser[b].by = h, browser[b].shown # <<>>
          PROVE  LastId(b) = r.afterId
      <3>1. LastId(b) \in Nat \ {0} /\ handler[h].lastSeen = LastId(b)
        BY <1>a, <1>b, <1>d, <2>1, <2>5
      <3> QED
        BY <2>2, <2>3, <3>1
    <2>6. UNCHANGED browser /\ skipped \subseteq skipped'
      BY <2>1
    <2> QED
      BY <1>s, <2>4, <2>5, <2>6
  <1>11. ASSUME NEW h \in Handlers, ReadReplay(h) PROVE PlaceInv' /\ NoneMissed'
    <2>1. handler[h].pc = "replay" /\ skipped \subseteq skipped' /\ UNCHANGED browser
      BY <1>11 DEF ReadReplay
    <2>2. PICK upTo : handler' = [handler EXCEPT ![h].pc = "write", ![h].upTo = upTo]
      BY <1>11 DEF ReadReplay
    <2> DEFINE r == [handler[h] EXCEPT !.pc = "write", !.upTo = upTo]
    <2>3. r.afterId = handler[h].afterId
      BY <1>a DEF Request
    <2>4. handler' = [handler EXCEPT ![h] = r]
      BY <1>a, <2>2
    <2> HIDE DEF r
    <2>5. \A b \in Browsers :
             browser[b].by = h /\ r.pc \in {"replay", "write", "stream"} /\ browser[b].shown # <<>>
             => LastId(b) = r.afterId
      BY <1>b, <2>1, <2>3
    <2>6. UNCHANGED browser /\ skipped \subseteq skipped'
      BY <2>1
    <2> QED
      BY <1>s, <2>4, <2>5, <2>6
  <1>12. ASSUME NEW h \in Handlers, WriteReplay(h) PROVE PlaceInv' /\ NoneMissed'
    <2>1. handler[h].pc = "write" /\ UNCHANGED skipped
      BY <1>12 DEF WriteReplay
    <2>2. CASE handler[h].afterId < handler[h].upTo
      <3> DEFINE id == handler[h].afterId + 1
                 r == [handler[h] EXCEPT !.afterId = id]
      <3>1. id \in Ids
        <4>1. handler[h].upTo <= stored /\ stored <= NumSignals /\ NumSignals \in Nat
          BY <2>1, <2>2, LiveStreamAssumption DEF IndInv, RowsInv, TypeOK
        <4> QED
          BY <1>a, <1>c, <2>2, <4>1 DEF Ids
      <3>2. Write(h, id) /\ handler' = [handler EXCEPT ![h] = r]
        BY <1>a, <1>12, <2>2 DEF WriteReplay
      <3>3. r.afterId = id
        BY <1>a DEF Request
      <3>4. (handler[h].afterId + 1)..(id - 1) \subseteq skipped
        <4>1. ~\E x \in Int : handler[h].afterId + 1 <= x /\ x <= id - 1
          BY <1>c
        <4> QED
          BY <4>1
      <3> HIDE DEF r, id
      <3> QED
        BY <1>4, <2>1, <3>1, <3>2, <3>3, <3>4
    <2>3. CASE ~(handler[h].afterId < handler[h].upTo)
      <3> DEFINE r == [handler[h] EXCEPT !.pc = "stream"]
      <3>1. handler' = [handler EXCEPT ![h] = r] /\ UNCHANGED browser
        BY <1>a, <1>12, <2>3 DEF WriteReplay
      <3>2. r.afterId = handler[h].afterId
        BY <1>a DEF Request
      <3> HIDE DEF r
      <3>3. \A b \in Browsers :
               browser[b].by = h /\ r.pc \in {"replay", "write", "stream"} /\ browser[b].shown # <<>>
             => LastId(b) = r.afterId
        BY <1>b, <2>1, <3>2
      <3>4. skipped \subseteq skipped'
        BY <2>1
      <3> QED
        BY <1>s, <3>1, <3>3, <3>4
    <2> QED
      BY <2>2, <2>3
  <1>13. ASSUME NEW h \in Handlers, Stream(h) PROVE PlaceInv' /\ NoneMissed'
    <2> DEFINE ch == handler[h].ch
               id == Head(ch)
               last == IF id > handler[h].afterId THEN id ELSE handler[h].afterId
               r == [handler[h] EXCEPT !.ch = Tail(ch), !.afterId = last]
    <2>1. ch \in Seq(Ids) /\ ch # <<>> /\ handler[h].pc = "stream" /\ UNCHANGED skipped
      BY <1>a, <1>13 DEF Stream, Request
    <2>2. Tail(ch) \in Seq(Ids) /\ id \in Ids /\ id \in Nat
      BY <1>a, <2>1, HeadTailProperties
    <2>3. /\ handler' = [handler EXCEPT ![h] = r]
          /\ IF id > handler[h].afterId THEN Write(h, id) ELSE UNCHANGED browser
      BY <1>a, <1>13 DEF Stream
    <2>4. last = IF id > handler[h].afterId THEN id ELSE handler[h].afterId
      OBVIOUS
    <2> HIDE DEF last, id
    <2>5. last \in Nat /\ last >= id /\ last >= handler[h].afterId
      BY <1>c, <2>2, <2>4
    <2>6. /\ r \in Request /\ r.pc = "stream" /\ r.ch = Tail(ch) /\ r.afterId = last
          /\ r.upTo = handler[h].upTo /\ r.open = handler[h].open
      BY <1>a, <2>1, <2>2, <2>5 DEF Request
    <2> HIDE DEF r
    <2>7. CASE id > handler[h].afterId
      <3>1. Orderly(handler[h], tail.last) /\ Covers(handler[h], tail.last, skipped)
        BY DEF FeedInv
      <3>2. \A x \in 1..(id - 1) : x <= handler[h].afterId \/ x \in skipped
        BY <1>a, <2>1, <2>5, <2>6, <3>1, Takes DEF id
      <3>3. (handler[h].afterId + 1)..(id - 1) \subseteq skipped
        <4>1. ASSUME NEW x \in (handler[h].afterId + 1)..(id - 1)
              PROVE  x \in 1..(id - 1) /\ ~(x <= handler[h].afterId)
          BY <1>c, <2>2
        <4> QED
          BY <3>2, <4>1
      <3> QED
        BY <1>4, <2>1, <2>2, <2>3, <2>4, <2>6, <2>7, <3>3
    <2>8. CASE ~(id > handler[h].afterId)
      <3>1. \A b \in Browsers :
               browser[b].by = h /\ r.pc \in {"replay", "write", "stream"} /\ browser[b].shown # <<>>
             => LastId(b) = r.afterId
        BY <1>b, <2>1, <2>4, <2>6, <2>8
      <3>2. UNCHANGED browser /\ skipped \subseteq skipped'
        BY <2>1, <2>3, <2>8
      <3> QED
        BY <1>s, <2>3, <3>1, <3>2
    <2> QED
      BY <2>7, <2>8
  <1>14. ASSUME NEW h \in Handlers, Unsubscribe(h) PROVE PlaceInv' /\ NoneMissed'
    BY <1>5, <1>14 DEF Unsubscribe
  <1>15. ASSUME NEW b \in Browsers, ConnectionLost(b) PROVE PlaceInv' /\ NoneMissed'
    <2> DEFINE h == browser[b].by
               r == [handler[h] EXCEPT !.gone = TRUE]
    <2>1. h \in Handlers /\ UNCHANGED skipped
      BY <1>a, <1>15 DEF ConnectionLost
    <2>2. /\ handler' = [handler EXCEPT ![h] = r]
          /\ browser' = [browser EXCEPT ![b].by = Nobody]
      BY <1>a, <1>15, <2>1 DEF ConnectionLost
    <2>3. r.pc = handler[h].pc /\ r.afterId = handler[h].afterId
      BY <1>a, <2>1 DEF Request
    <2>4. \A g \in Handlers :
             handler'[g].pc = handler[g].pc /\ handler'[g].afterId = handler[g].afterId
      <3> HIDE DEF r, h
      <3> QED
        BY <1>a, <2>1, <2>2, <2>3
    <2>5. \A c \in Browsers :
             /\ browser'[c].shown = browser[c].shown
             /\ browser'[c].by = IF c = b THEN Nobody ELSE browser[c].by
      BY <1>a, <2>2
    <2>6. ASSUME NEW c \in Browsers, NEW g \in Handlers, browser'[c].by = g,
                 handler'[g].pc \in {"replay", "write", "stream"}, browser[c].shown # <<>>
          PROVE  LastId(c) = handler'[g].afterId
      <3>1. browser[c].by = g
        BY <1>a, <2>5, <2>6
      <3> QED
        BY <1>b, <2>4, <2>6, <3>1
    <2> QED
      BY <1>1, <2>1, <2>5, <2>6
  <1>16. CASE StartAgain
    <2>1. /\ \A b \in Browsers : browser'[b].by = Nobody /\ browser'[b].shown = browser[b].shown
          /\ UNCHANGED skipped
      BY <1>a, <1>16 DEF StartAgain
    <2> QED
      BY <1>1, <1>a, <2>1
  <1>17. CASE InsertSignal \/ TailSeed \/ TailPoll \/ Shutdown \/ UNCHANGED vars
    <2>1. UNCHANGED <<handler, browser>> /\ skipped \subseteq skipped'
      BY <1>17 DEF InsertSignal, TailSeed, TailPoll, Shutdown, vars
    <2> QED
      BY <1>2, <2>1
  <1> QED
    BY <1>6, <1>7, <1>8, <1>9, <1>10, <1>11, <1>12, <1>13, <1>14, <1>15, <1>16, <1>17
       DEF Next, HandlerStep, Exit, Crash

\* Before anything is shown nothing is missed.
LEMMA InitFeed == Init => FeedInv /\ PlaceInv /\ NoneMissed
  <1> SUFFICES ASSUME Init PROVE FeedInv /\ PlaceInv /\ NoneMissed
    OBVIOUS
  <1>1. /\ \A h \in Handlers : handler[h] = Free
        /\ \A b \in Browsers : browser[b].shown = <<>>
        /\ tail.last = 0
    BY DEF Init, TailStart
  <1>2. Orderly(Free, 0) /\ Covers(Free, 0, skipped)
    <2>1. Free.ch = <<>> /\ Free.pc = "free"
      BY DEF Free
    <2> QED
      BY <2>1, Empty
  <1>3. FeedInv
    BY <1>1, <1>2 DEF FeedInv
  <1>4. PlaceInv
    BY <1>1 DEF PlaceInv
  <1>5. NoneMissed
    <2>1. Len(<<>>) = 0
      OBVIOUS
    <2> QED
      BY <1>1, <2>1 DEF NoneMissed
  <1> QED
    BY <1>3, <1>4, <1>5

-----------------------------------------------------------------------------
(* Theorems.                                                               *)

\* The strengthened invariant holds in every reachable state.
THEOREM Inductive == Spec => []IndInv
  <1>1. IndInv /\ [Next]_vars => IndInv'
    BY TypeStep, RegStep, OrderStep DEF IndInv
  <1> QED
    BY InitInd, <1>1, PTL DEF Spec

\* Every state is of its type; in particular no channel ever holds more than
\* clientBufferSize events.
THEOREM TypeCorrect == Spec => []TypeOK
  <1>1. IndInv => TypeOK
    BY DEF IndInv
  <1> QED
    BY Inductive, <1>1, PTL

\* hub.go: a channel is open exactly while the Hub has its handler, for any number of
\* connections, drops, refusals, lost connections and shutdowns; so Broadcast sends on
\* no closed channel and none is closed twice.
THEOREM ChannelsClosedOnce == Spec => []OpenIffRegistered
  <1>1. IndInv => OpenIffRegistered
    BY DEF IndInv
  <1> QED
    BY Inductive, <1>1, PTL

\* sse.go: a dashboard is shown each signal at most once and in order, whatever the
\* limits, over replays that overlap the stream, drops, failures and reconnects.
THEOREM ShownInOrder == Spec => []InOrder
  <1>1. IndInv => InOrder
    BY DEF IndInv
  <1> QED
    BY Inductive, <1>1, PTL

\* sse.go:19-21, "none is missed across a drop": between two signals a dashboard has
\* shown lie only ids that a bounded or failed replay or the seed of a restarted tail
\* passed over, for any number of dashboards, drops, reconnects and restarts.
THEOREM NoneIsMissed == Spec => []NoneMissed
  <1> DEFINE Inv == IndInv /\ FeedInv /\ PlaceInv /\ NoneMissed
  <1>1. Init => Inv
    BY InitInd, InitFeed
  <1>2. Inv /\ [Next]_vars => Inv'
    <2> SUFFICES ASSUME IndInv, FeedInv, PlaceInv, NoneMissed, [Next]_vars PROVE Inv'
      OBVIOUS
    <2>1. IndInv'
      BY TypeStep, RegStep, OrderStep DEF IndInv
    <2>2. FeedInv'
      BY FeedStep DEF IndInv
    <2>3. PlaceInv' /\ NoneMissed'
      BY PlaceStep
    <2> QED
      BY <2>1, <2>2, <2>3
  <1>3. Inv => NoneMissed
    OBVIOUS
  <1> QED
    BY <1>1, <1>2, <1>3, PTL DEF Spec

-----------------------------------------------------------------------------
(* The rate limiter.                                                       *)

\* A time that was read is at most Delay old, and a bucket is filled up to a
\* time no earlier than its last touch and no more than Delay after it.
TimesInv ==
    /\ \A h \in Callers : calls[h].waits =>
           calls[h].at <= clock /\ clock <= calls[h].at + Delay
    /\ sweep # NotSweeping => sweep <= clock
    /\ \A c \in Clients : Present(c) =>
           /\ buckets[c].last <= clock
           /\ buckets[c].seen <= buckets[c].last
           /\ buckets[c].last <= buckets[c].seen + Delay

LimiterInv == LimiterTypeOK /\ TimesInv

\* The bucket holds a token at least, whatever the limit and the burst.
LEMMA Sizes ==
    /\ Cost \in Nat /\ Cost > 0 /\ FullBucket \in Nat /\ Cost <= FullBucket
    /\ Capacity \in Nat /\ Capacity = FullBucket + Delay /\ Delay \in Nat
    /\ IdleTTL \in Nat /\ FullBucket + 2 * Delay <= IdleTTL
  <1>1. Burst \in Nat /\ Burst >= 1
    BY RateAssumption DEF Burst
  <1>2. Burst * Cost \in Nat /\ Cost <= Burst * Cost
    BY <1>1, RateAssumption
  <1> QED
    BY <1>2, RateAssumption DEF FullBucket, Capacity

\* Refilling keeps a bucket within its size, and its times in order.
LEMMA RefillBounds ==
    ASSUME NEW b \in Bucket, NEW now \in Nat, NEW clk \in Nat,
           now <= clk, clk <= now + Delay,
           b.last <= clk, b.seen <= b.last, b.last <= b.seen + Delay
    PROVE  /\ Refill(b, now) \in Bucket
           /\ Refill(b, now).last <= clk
           /\ Refill(b, now).seen <= Refill(b, now).last
           /\ Refill(b, now).last <= Refill(b, now).seen + Delay
           /\ now <= Refill(b, now).last
           /\ Refill(b, now).tokens <= b.tokens + (Refill(b, now).last - b.last)
  <1>1. b.tokens \in 0..FullBucket /\ b.last \in Nat /\ b.seen \in Nat
    BY DEF Bucket
  <1>2. CASE now > b.last
    BY <1>1, <1>2, Sizes DEF Refill, Bucket
  <1>3. CASE ~(now > b.last)
    <2>1. Refill(b, now) = [b EXCEPT !.seen = now]
      BY <1>3 DEF Refill
    <2>2. /\ [b EXCEPT !.seen = now] \in Bucket
          /\ [b EXCEPT !.seen = now].last = b.last
          /\ [b EXCEPT !.seen = now].seen = now
          /\ [b EXCEPT !.seen = now].tokens = b.tokens
      BY DEF Bucket
    <2> QED
      BY <1>1, <1>3, <2>1, <2>2, Sizes
  <1> QED
    BY <1>2, <1>3

\* NoBucket is the only bucket that holds less than nothing.
LEMMA PresentBucket ==
    ASSUME LimiterTypeOK, NEW c \in Clients
    PROVE  /\ Present(c) => buckets[c] \in Bucket
           /\ ~Present(c) => buckets[c] = NoBucket
  BY DEF LimiterTypeOK, Present, Bucket, NoBucket

\* A client without a bucket may have the most a bucket can be worth.
LEMMA NoWorth == ASSUME NEW now PROVE Worth(NoBucket, now) = Capacity
  <1>1. NoBucket.tokens = -1
    BY DEF NoBucket
  <1>2. ~(NoBucket.tokens >= 0)
    BY <1>1
  <1> QED
    BY <1>2 DEF Worth

\* Nothing is in flight and no bucket is there at the start.
LEMMA LimiterInitInd == LimiterInit => LimiterInv
  <1> SUFFICES ASSUME LimiterInit PROVE LimiterInv
    OBVIOUS
  <1>1. NoCall \in Call /\ ~NoCall.waits
    BY RateAssumption DEF NoCall, Call
  <1> QED
    BY <1>1 DEF LimiterInit, LimiterInv, LimiterTypeOK, TimesInv, Present, NoBucket, NotSweeping

\* One request leaves its bucket in order: what allow writes back.
LEMMA AllowStep ==
    ASSUME LimiterInv, NEW h \in Callers, NEW b, NEW c \in Clients,
           c = calls[h].ip,
           b \in Bucket, b.last <= clock, b.seen <= b.last, b.last <= b.seen + Delay,
           buckets' = [buckets EXCEPT ![c] = b],
           Answered(h), UNCHANGED <<clock, sweep>>,
           UNCHANGED window \/ Served(c)
    PROVE  LimiterInv'
  <1> USE DEF LimiterInv
  <1>1. NoCall \in Call /\ ~NoCall.waits
    BY RateAssumption DEF NoCall, Call
  <1>2. calls' \in [Callers -> Call]
    BY <1>1 DEF Answered, LimiterTypeOK
  <1>3. buckets' \in [Clients -> Bucket \cup {NoBucket}]
    BY DEF LimiterTypeOK
  <1>4. window' \in [Clients -> [since : Nat, served : Nat]]
    BY DEF LimiterTypeOK, Served
  <1>5. LimiterTypeOK'
    BY <1>2, <1>3, <1>4 DEF LimiterTypeOK
  <1>6. ASSUME NEW g \in Callers, calls'[g].waits
        PROVE  calls'[g].at <= clock' /\ clock' <= calls'[g].at + Delay
    <2>1. g # h
      BY <1>1, <1>6 DEF Answered, LimiterTypeOK
    <2>2. calls'[g] = calls[g]
      BY <2>1 DEF Answered, LimiterTypeOK
    <2> QED
      BY <1>6, <2>2 DEF TimesInv
  <1>7. ASSUME NEW d \in Clients, Present(d)'
        PROVE  /\ buckets'[d].last <= clock'
               /\ buckets'[d].seen <= buckets'[d].last
               /\ buckets'[d].last <= buckets'[d].seen + Delay
    <2>1. CASE d = c
      <3>1. buckets'[d] = b
        BY <2>1 DEF LimiterTypeOK
      <3> QED
        BY <3>1
    <2>2. CASE d # c
      <3>1. buckets'[d] = buckets[d]
        BY <2>2 DEF LimiterTypeOK
      <3>2. Present(d)
        BY <1>7, <3>1 DEF Present
      <3> QED
        BY <3>1, <3>2 DEF TimesInv
    <2> QED
      BY <2>1, <2>2
  <1> QED
    BY <1>5, <1>6, <1>7 DEF TimesInv

\* A request that waits finds its bucket, if there is one, in order.
LEMMA Found ==
    ASSUME LimiterInv, NEW h \in Callers, calls[h].waits
    PROVE  /\ calls[h].ip \in Clients /\ calls[h].at \in Nat /\ clock \in Nat
           /\ calls[h].at <= clock /\ clock <= calls[h].at + Delay
           /\ Present(calls[h].ip) =>
                 /\ buckets[calls[h].ip] \in Bucket
                 /\ buckets[calls[h].ip].last <= clock
                 /\ buckets[calls[h].ip].seen <= buckets[calls[h].ip].last
                 /\ buckets[calls[h].ip].last <= buckets[calls[h].ip].seen + Delay
  <1>1. calls[h] \in Call
    BY DEF LimiterInv, LimiterTypeOK
  <1>2. calls[h].ip \in Clients /\ calls[h].at \in Nat
    BY <1>1 DEF Call
  <1>3. clock \in Nat /\ calls[h].at <= clock /\ clock <= calls[h].at + Delay
    BY DEF LimiterInv, LimiterTypeOK, TimesInv
  <1> QED
    BY <1>2, <1>3, PresentBucket DEF LimiterInv, TimesInv

\* The invariant is inductive.
LEMMA LimiterStepInd == LimiterInv /\ [LimiterNext]_limiterVars => LimiterInv'
  <1> SUFFICES ASSUME LimiterInv, [LimiterNext]_limiterVars PROVE LimiterInv'
    OBVIOUS
  <1>1. CASE Tick
    <2>1. clock' \in Nat
      BY <1>1 DEF Tick, LimiterInv, LimiterTypeOK
    <2>2. \A h \in Callers : calls[h].waits => clock' <= calls[h].at + Delay
      <3> SUFFICES ASSUME NEW h \in Callers, calls[h].waits
                   PROVE  clock' <= calls[h].at + Delay
        OBVIOUS
      <3>1. clock < calls[h].at + Delay /\ clock' = clock + 1
        BY <1>1 DEF Tick
      <3> QED
        BY <3>1, Found, Sizes
    <2>3. LimiterTypeOK'
      BY <1>1, <2>1 DEF Tick, LimiterInv, LimiterTypeOK
    <2>4. \A h \in Callers : calls[h].waits => calls[h].at <= clock'
      BY <1>1, Found DEF Tick
    <2>5. sweep # NotSweeping => sweep <= clock'
      BY <1>1, <2>1 DEF Tick, LimiterInv, LimiterTypeOK, TimesInv, NotSweeping
    <2>6. \A c \in Clients : Present(c) => buckets[c].last <= clock'
      BY <1>1, PresentBucket DEF Tick, LimiterInv, LimiterTypeOK, TimesInv, Bucket
    <2> QED
      BY <1>1, <2>2, <2>3, <2>4, <2>5, <2>6 DEF LimiterInv, TimesInv, Tick, Present
  <1>2. ASSUME NEW h \in Callers, ReadClock(h) PROVE LimiterInv'
    <2>1. PICK c \in Clients :
             calls' = [calls EXCEPT ![h] = [waits |-> TRUE, ip |-> c, at |-> clock]]
      BY <1>2 DEF ReadClock
    <2>2. LimiterTypeOK'
      BY <1>2, <2>1 DEF ReadClock, LimiterInv, LimiterTypeOK, Call
    <2>3. \A g \in Callers : calls'[g].waits =>
             calls'[g].at <= clock /\ clock <= calls'[g].at + Delay
      BY <2>1, Sizes DEF LimiterInv, LimiterTypeOK, TimesInv
    <2> QED
      BY <1>2, <2>2, <2>3 DEF ReadClock, LimiterInv, TimesInv, Present
  <1>3. ASSUME NEW h \in Callers, AllowFirst(h) PROVE LimiterInv'
    <2> DEFINE b == [tokens |-> FullBucket - Cost, last |-> calls[h].at, seen |-> calls[h].at]
    <2>1. calls[h].waits
      BY <1>3 DEF AllowFirst
    <2>2. b \in Bucket /\ b.last = calls[h].at /\ b.seen = calls[h].at
      BY <2>1, Found, Sizes DEF Bucket
    <2>3. buckets' = [buckets EXCEPT ![calls[h].ip] = b]
      BY <1>3 DEF AllowFirst
    <2>4. b.last <= clock /\ b.seen <= b.last /\ b.last <= b.seen + Delay
      BY <2>1, <2>2, Found, Sizes
    <2> HIDE DEF b
    <2> QED
      BY <1>3, <2>1, <2>2, <2>3, <2>4, Found, AllowStep DEF AllowFirst
  <1>4. ASSUME NEW h \in Callers, Allow(h) PROVE LimiterInv'
    <2> DEFINE r == Refill(buckets[calls[h].ip], calls[h].at)
               b == [r EXCEPT !.tokens = @ - Cost]
    <2>1. calls[h].waits /\ Present(calls[h].ip) /\ r.tokens >= Cost
      BY <1>4 DEF Allow
    <2>2. r \in Bucket /\ r.last <= clock /\ r.seen <= r.last /\ r.last <= r.seen + Delay
      BY <2>1, Found, RefillBounds
    <2> HIDE DEF r
    <2>3. b \in Bucket /\ b.last = r.last /\ b.seen = r.seen
      BY <2>1, <2>2, Sizes DEF Bucket
    <2>4. buckets' = [buckets EXCEPT ![calls[h].ip] = b]
      BY <1>4 DEF Allow, r
    <2>5. b.last <= clock /\ b.seen <= b.last /\ b.last <= b.seen + Delay
      BY <2>2, <2>3
    <2> HIDE DEF b
    <2> QED
      BY <1>4, <2>1, <2>3, <2>4, <2>5, Found, AllowStep DEF Allow
  <1>5. ASSUME NEW h \in Callers, Deny(h) PROVE LimiterInv'
    <2> DEFINE r == Refill(buckets[calls[h].ip], calls[h].at)
    <2>1. calls[h].waits /\ Present(calls[h].ip)
      BY <1>5 DEF Deny
    <2>2. r \in Bucket /\ r.last <= clock /\ r.seen <= r.last /\ r.last <= r.seen + Delay
      BY <2>1, Found, RefillBounds
    <2>3. buckets' = [buckets EXCEPT ![calls[h].ip] = r]
      BY <1>5 DEF Deny
    <2> HIDE DEF r
    <2> QED
      BY <1>5, <2>1, <2>2, <2>3, Found, AllowStep DEF Deny
  <1>6. CASE JanitorTicks
    BY <1>6 DEF JanitorTicks, LimiterInv, LimiterTypeOK, TimesInv, Present
  <1>7. CASE EvictIdle
    <2>1. \A c \in Clients : buckets'[c] = buckets[c] \/ buckets'[c] = NoBucket
      BY <1>7 DEF EvictIdle
    <2>2. LimiterTypeOK'
      BY <1>7 DEF EvictIdle, LimiterInv, LimiterTypeOK
    <2>3. \A c \in Clients : Present(c)' => buckets'[c] = buckets[c] /\ Present(c)
      BY <2>1 DEF Present, NoBucket
    <2> QED
      BY <1>7, <2>2, <2>3 DEF EvictIdle, LimiterInv, TimesInv
  <1>8. ASSUME NEW c \in Clients, Observe(c) PROVE LimiterInv'
    BY <1>8 DEF Observe, LimiterInv, LimiterTypeOK, TimesInv, Present
  <1>9. CASE UNCHANGED limiterVars
    BY <1>9 DEF limiterVars, LimiterInv, LimiterTypeOK, TimesInv, Present
  <1> QED
    BY <1>1, <1>2, <1>3, <1>4, <1>5, <1>6, <1>7, <1>8, <1>9 DEF LimiterNext

\* Every reachable state has its times in order.
THEOREM LimiterInductive == LimiterSpec => []LimiterInv
  BY LimiterInitInd, LimiterStepInd, PTL DEF LimiterSpec

\* Every variable keeps its type: in particular a bucket never holds more than
\* the burst, nor less than nothing.
THEOREM LimiterTypeCorrect == LimiterSpec => []LimiterTypeOK
  <1>1. LimiterInv => LimiterTypeOK
    BY DEF LimiterInv
  <1> QED
    BY <1>1, LimiterInductive, PTL

-----------------------------------------------------------------------------
(* The limiter implements the eager bucket.                                *)

\* What a client's bucket is worth is never less than nothing nor more than
\* the capacity, and the eager bucket may be read off it.
LEMMA LevelValue ==
    ASSUME LimiterInv, NEW c \in Clients
    PROVE  /\ Level(c) \in 0..Capacity
           /\ ~Present(c) => Level(c) = Capacity
           /\ Present(c) =>
                 Level(c) = IF buckets[c].tokens + (clock - buckets[c].last) < Capacity
                            THEN buckets[c].tokens + (clock - buckets[c].last)
                            ELSE Capacity
  <1>1. clock \in Nat
    BY DEF LimiterInv, LimiterTypeOK
  <1>2. CASE ~Present(c)
    BY <1>2, PresentBucket, Sizes DEF LimiterInv, Level, Worth, NoBucket
  <1>3. CASE Present(c)
    <2>1. buckets[c].tokens \in Nat /\ buckets[c].last \in Nat /\ buckets[c].last <= clock
      BY <1>3, PresentBucket, Sizes DEF LimiterInv, TimesInv, Bucket
    <2> QED
      BY <1>1, <1>3, <2>1, Sizes DEF Level, Worth, Present
  <1> QED
    BY <1>2, <1>3

LevelsBounded == \A c \in Clients : Level(c) \in 0..Capacity

\* The bounds of LevelValue as a state predicate, for use in the next state.
LEMMA WorthBounds == LimiterInv => LevelsBounded
  BY LevelValue DEF LevelsBounded

\* A bucket nobody touched for the idle time is worth the capacity already, so
\* that removing it gives nothing away.
LEMMA IdleIsFull ==
    ASSUME LimiterInv, NEW c \in Clients, Present(c), sweep # NotSweeping,
           Idle(buckets[c], sweep)
    PROVE  Level(c) = Capacity
  <1>1. buckets[c] \in Bucket /\ clock \in Nat /\ sweep \in Nat /\ sweep <= clock
    BY PresentBucket DEF LimiterInv, LimiterTypeOK, TimesInv
  <1>2. /\ buckets[c].tokens \in Nat /\ buckets[c].last \in Nat /\ buckets[c].seen \in Nat
        /\ buckets[c].last <= buckets[c].seen + Delay
    BY <1>1, Sizes DEF Bucket, LimiterInv, TimesInv
  <1>3. buckets[c].seen < sweep - IdleTTL
    BY DEF Idle
  <1>4. clock - buckets[c].last >= Capacity
    BY <1>1, <1>2, <1>3, Sizes
  <1> QED
    BY <1>1, <1>2, <1>4, LevelValue, Sizes

\* The levels after a step that writes one bucket.
LEMMA OneLevel ==
    ASSUME LimiterInv, NEW c \in Clients, NEW b,
           buckets' = [buckets EXCEPT ![c] = b], UNCHANGED clock
    PROVE  [d \in Clients |-> Level(d)]' = [[d \in Clients |-> Level(d)] EXCEPT ![c] = Level(c)']
  <1>1. ASSUME NEW d \in Clients, d # c PROVE Level(d)' = Level(d)
    <2>1. buckets'[d] = buckets[d]
      BY <1>1 DEF LimiterInv, LimiterTypeOK
    <2> QED
      BY <2>1 DEF Level
  <1> QED
    BY <1>1

\* Serving a request costs the eager bucket at least a token.
LEMMA ServeStep ==
    ASSUME LimiterInv, LimiterInv', NEW c \in Clients, NEW b,
           buckets' = [buckets EXCEPT ![c] = b], UNCHANGED clock, Served(c),
           Level(c) >= Cost, Level(c)' <= Level(c) - Cost
    PROVE  TB!Serve(c)
  <1> DEFINE lv == [d \in Clients |-> Level(d)]
  <1>1. Level(c)' \in 0..Capacity
    <2>1. LevelsBounded'
      BY WorthBounds, PTL
    <2> QED
      BY <2>1 DEF LevelsBounded
  <1>2. Level(c) \in 0..Capacity
    BY LevelValue
  <1>3. Level(c)' \in 0..(Level(c) - Cost)
    BY <1>1, <1>2, Sizes
  <1>4. lv' = [lv EXCEPT ![c] = Level(c)']
    BY OneLevel
  <1>5. lv[c] = Level(c)
    OBVIOUS
  <1> HIDE DEF lv
  <1>6. \E l \in 0..(lv[c] - Cost) : lv' = [lv EXCEPT ![c] = l]
    BY <1>3, <1>4, <1>5
  <1> QED
    BY <1>5, <1>6 DEF TB!Serve, Served, lv

\* A refused request takes nothing from the eager bucket, but may leave it
\* with less.
LEMMA ForfeitStep ==
    ASSUME LimiterInv, LimiterInv', NEW c \in Clients, NEW b,
           buckets' = [buckets EXCEPT ![c] = b], UNCHANGED <<clock, window>>,
           Level(c)' <= Level(c)
    PROVE  TB!Forfeit(c)
  <1> DEFINE lv == [d \in Clients |-> Level(d)]
  <1>1. Level(c)' \in 0..Capacity
    <2>1. LevelsBounded'
      BY WorthBounds, PTL
    <2> QED
      BY <2>1 DEF LevelsBounded
  <1>2. Level(c)' \in 0..Level(c)
    BY <1>1, LevelValue, Sizes
  <1>3. lv' = [lv EXCEPT ![c] = Level(c)']
    BY OneLevel
  <1>4. lv[c] = Level(c)
    OBVIOUS
  <1> HIDE DEF lv
  <1>5. \E l \in 0..lv[c] : lv' = [lv EXCEPT ![c] = l]
    BY <1>2, <1>3, <1>4
  <1> QED
    BY <1>5 DEF TB!Forfeit, lv

\* The worth of a bucket after a refill at time now, which may be old.
LEMMA RefilledWorth ==
    ASSUME NEW b \in Bucket, NEW now \in Nat, NEW clk \in Nat, NEW k \in 0..FullBucket,
           now <= clk, clk <= now + Delay, b.last <= clk,
           k <= Refill(b, now).tokens
    PROVE  LET r == Refill(b, now)
               before == IF b.tokens + (clk - b.last) < Capacity
                         THEN b.tokens + (clk - b.last) ELSE Capacity
               left == (r.tokens - k) + (clk - r.last)
               after == IF left < Capacity THEN left ELSE Capacity
           IN  after <= before - k
  <1> DEFINE r == Refill(b, now)
  <1>1. b.tokens \in 0..FullBucket /\ b.last \in Nat /\ b.seen \in Nat
    BY DEF Bucket
  <1>2. CASE now > b.last
    <2>1. r.last = now /\ r.tokens = (IF b.tokens + (now - b.last) > FullBucket THEN FullBucket
                                      ELSE b.tokens + (now - b.last))
      BY <1>2 DEF Refill
    <2> QED
      BY <1>1, <1>2, <2>1, Sizes
  <1>3. CASE ~(now > b.last)
    <2>1. r.last = b.last /\ r.tokens = b.tokens
      BY <1>3 DEF Refill, Bucket
    <2>2. k <= b.tokens
      BY <2>1
    <2>3. b.tokens + (clk - b.last) <= Capacity
      BY <1>1, <1>3, Sizes
    <2> HIDE DEF r
    <2> QED
      BY <1>1, <2>1, <2>2, <2>3, Sizes DEF r
  <1> QED
    BY <1>2, <1>3

\* The limiter starts with no bucket, the eager bucket full.
LEMMA RefineInit == LimiterInit => TB!Init
  <1> SUFFICES ASSUME LimiterInit PROVE TB!Init
    OBVIOUS
  <1>1. ASSUME NEW c \in Clients PROVE Level(c) = Capacity
    <2>1. Level(c) = Worth(NoBucket, clock)
      BY DEF LimiterInit, Level
    <2> QED
      BY <2>1, NoWorth
  <1> QED
    BY <1>1 DEF LimiterInit, TB!Init

\* Every step of the limiter is a step of the eager bucket, or none.
LEMMA RefineStep == LimiterInv /\ LimiterInv' /\ [LimiterNext]_limiterVars => [TB!Next]_(TB!vars)
  <1> SUFFICES ASSUME LimiterInv, LimiterInv', [LimiterNext]_limiterVars PROVE TB!Next \/ UNCHANGED TB!vars
    BY DEF TB!vars
  <1> DEFINE lv == [d \in Clients |-> Level(d)]
  <1>1. CASE Tick
    <2>1. ASSUME NEW c \in Clients PROVE Level(c)' = TB!Filled(lv[c])
      <3>1. Level(c)' = Worth(buckets[c], clock + 1)
        BY <1>1 DEF Tick, Level
      <3>2. CASE ~Present(c)
        <4>1. Level(c)' = Capacity /\ Level(c) = Capacity
          BY <3>1, <3>2, LevelValue, PresentBucket, NoWorth DEF LimiterInv
        <4> QED
          BY <4>1, Sizes DEF TB!Filled
      <3>3. CASE Present(c)
        <4>1. buckets[c].tokens \in Nat /\ buckets[c].last \in Nat /\ clock \in Nat
              /\ buckets[c].last <= clock
          BY <3>3, PresentBucket, Sizes DEF LimiterInv, LimiterTypeOK, TimesInv, Bucket
        <4> QED
          BY <3>1, <3>3, <4>1, LevelValue, Sizes DEF TB!Filled, Worth
      <3> QED
        BY <3>2, <3>3
    <2>2. lv' = [c \in Clients |-> TB!Filled(lv[c])]
      BY <2>1
    <2> HIDE DEF lv
    <2> QED
      BY <1>1, <2>2 DEF Tick, TB!Tick, TB!Next, lv
  <1>2. ASSUME NEW h \in Callers, ReadClock(h) PROVE UNCHANGED TB!vars
    BY <1>2 DEF ReadClock, TB!vars, Level
  <1>3. ASSUME NEW h \in Callers, AllowFirst(h) PROVE TB!Next
    <2>0. PICK c \in Clients : c = calls[h].ip
      BY <1>3, Found DEF AllowFirst
    <2> DEFINE b == [tokens |-> FullBucket - Cost, last |-> calls[h].at, seen |-> calls[h].at]
    <2>1. calls[h].waits /\ ~Present(c) /\ UNCHANGED clock /\ Served(c)
          /\ buckets' = [buckets EXCEPT ![c] = b]
      BY <1>3, <2>0 DEF AllowFirst
    <2>2. c \in Clients /\ calls[h].at \in Nat /\ clock \in Nat
          /\ calls[h].at <= clock /\ clock <= calls[h].at + Delay
      BY <2>0, <2>1, Found
    <2>3. Level(c) = Capacity
      BY <2>1, <2>2, LevelValue
    <2>4. Level(c)' <= (FullBucket - Cost) + (clock - calls[h].at)
      <3>1. buckets'[c] = b
        BY <2>1, <2>2 DEF LimiterInv, LimiterTypeOK
      <3>2. buckets'[c].tokens = FullBucket - Cost /\ buckets'[c].last = calls[h].at
        BY <3>1
      <3> HIDE DEF b
      <3> QED
        BY <2>1, <2>2, <3>2, Sizes DEF Level, Worth
    <2>5. Level(c) >= Cost /\ Level(c)' <= Level(c) - Cost
      <3>1. Level(c)' \in 0..Capacity
        <4>1. LevelsBounded'
          BY WorthBounds, PTL
        <4> QED
          BY <2>2, <4>1 DEF LevelsBounded
      <3> QED
        BY <2>2, <2>3, <2>4, <3>1, Sizes
    <2> HIDE DEF b
    <2>6. TB!Serve(c)
      BY <2>1, <2>2, <2>5, ServeStep
    <2> QED
      BY <2>2, <2>6 DEF TB!Next
  <1>4. ASSUME NEW h \in Callers, Allow(h) PROVE TB!Next
    <2>0. PICK c \in Clients : c = calls[h].ip
      BY <1>4, Found DEF Allow
    <2> DEFINE r == Refill(buckets[c], calls[h].at)
               b == [r EXCEPT !.tokens = @ - Cost]
    <2>1. calls[h].waits /\ Present(c) /\ UNCHANGED clock /\ Served(c) /\ r.tokens >= Cost
          /\ buckets' = [buckets EXCEPT ![c] = b]
      BY <1>4, <2>0 DEF Allow
    <2>2. c \in Clients /\ calls[h].at \in Nat /\ clock \in Nat
          /\ calls[h].at <= clock /\ clock <= calls[h].at + Delay
          /\ buckets[c] \in Bucket /\ buckets[c].last <= clock
          /\ buckets[c].seen <= buckets[c].last /\ buckets[c].last <= buckets[c].seen + Delay
      BY <2>0, <2>1, Found
    <2>3. r \in Bucket
      BY <2>2, RefillBounds
    <2>4. b.tokens = r.tokens - Cost /\ b.last = r.last /\ b.tokens >= 0
      <3> HIDE DEF r
      <3> QED
        BY <2>1, <2>3, Sizes DEF Bucket
    <2>5. buckets'[c] = b
      BY <2>1, <2>2 DEF LimiterInv, LimiterTypeOK
    <2>6. Level(c)' = IF (r.tokens - Cost) + (clock - r.last) < Capacity
                      THEN (r.tokens - Cost) + (clock - r.last) ELSE Capacity
      <3> HIDE DEF b, r
      <3> QED
        BY <2>1, <2>4, <2>5 DEF Level, Worth
    <2>7. Level(c) = IF buckets[c].tokens + (clock - buckets[c].last) < Capacity
                     THEN buckets[c].tokens + (clock - buckets[c].last) ELSE Capacity
      BY <2>1, <2>2, LevelValue
    <2>8. Level(c)' <= Level(c) - Cost
      <3>1. Cost \in 0..FullBucket
        BY Sizes
      <3> QED
        BY <2>1, <2>2, <2>6, <2>7, <3>1, RefilledWorth
    <2>9. Level(c) >= Cost
      <3>1. Level(c)' \in 0..Capacity
        <4>1. LevelsBounded'
          BY WorthBounds, PTL
        <4> QED
          BY <2>2, <4>1 DEF LevelsBounded
      <3>2. Level(c) \in 0..Capacity
        BY <2>2, LevelValue
      <3> QED
        BY <2>8, <3>1, <3>2, Sizes
    <2> HIDE DEF b, r
    <2>10. TB!Serve(c)
      BY <2>1, <2>2, <2>8, <2>9, ServeStep
    <2> QED
      BY <2>2, <2>10 DEF TB!Next
  <1>5. ASSUME NEW h \in Callers, Deny(h) PROVE TB!Next
    <2>0. PICK c \in Clients : c = calls[h].ip
      BY <1>5, Found DEF Deny
    <2> DEFINE r == Refill(buckets[c], calls[h].at)
    <2>1. calls[h].waits /\ Present(c) /\ UNCHANGED <<clock, window>>
          /\ buckets' = [buckets EXCEPT ![c] = r]
      BY <1>5, <2>0 DEF Deny
    <2>2. c \in Clients /\ calls[h].at \in Nat /\ clock \in Nat
          /\ calls[h].at <= clock /\ clock <= calls[h].at + Delay
          /\ buckets[c] \in Bucket /\ buckets[c].last <= clock
          /\ buckets[c].seen <= buckets[c].last /\ buckets[c].last <= buckets[c].seen + Delay
      BY <2>0, <2>1, Found
    <2>3. r \in Bucket /\ r.tokens \in 0..FullBucket
      <3>1. r \in Bucket
        BY <2>2, RefillBounds
      <3> HIDE DEF r
      <3> QED
        BY <3>1 DEF Bucket
    <2>4. buckets'[c] = r
      BY <2>1, <2>2 DEF LimiterInv, LimiterTypeOK
    <2>5. Level(c)' = IF (r.tokens - 0) + (clock - r.last) < Capacity
                      THEN (r.tokens - 0) + (clock - r.last) ELSE Capacity
      <3> HIDE DEF r
      <3>1. r.tokens - 0 = r.tokens
        BY <2>3, Sizes
      <3> QED
        BY <2>1, <2>3, <2>4, <3>1, Sizes DEF Level, Worth
    <2>6. Level(c) = IF buckets[c].tokens + (clock - buckets[c].last) < Capacity
                     THEN buckets[c].tokens + (clock - buckets[c].last) ELSE Capacity
      BY <2>1, <2>2, LevelValue
    <2>7. Level(c)' <= Level(c)
      <3>1. 0 \in 0..FullBucket /\ 0 <= r.tokens
        BY <2>3, Sizes
      <3>2. Level(c)' <= Level(c) - 0
        BY <2>2, <2>5, <2>6, <3>1, RefilledWorth
      <3>3. Level(c) \in 0..Capacity
        BY <2>2, LevelValue
      <3> QED
        BY <3>2, <3>3, Sizes
    <2> HIDE DEF r
    <2>8. TB!Forfeit(c)
      BY <2>1, <2>2, <2>7, ForfeitStep
    <2> QED
      BY <2>2, <2>8 DEF TB!Next
  <1>6. CASE JanitorTicks
    BY <1>6 DEF JanitorTicks, TB!vars, Level
  <1>7. CASE EvictIdle
    <2>1. ASSUME NEW c \in Clients PROVE Level(c)' = Level(c)
      <3>1. CASE Present(c) /\ Idle(buckets[c], sweep)
        <4>1. Level(c) = Capacity
          BY <1>7, <3>1, IdleIsFull DEF EvictIdle
        <4>2. buckets'[c] = NoBucket
          BY <1>7, <3>1 DEF EvictIdle
        <4> QED
          BY <4>1, <4>2, NoWorth DEF Level
      <3>2. CASE ~(Present(c) /\ Idle(buckets[c], sweep))
        <4>1. buckets'[c] = buckets[c] /\ clock' = clock
          BY <1>7, <3>2 DEF EvictIdle
        <4> QED
          BY <4>1 DEF Level
      <3> QED
        BY <3>1, <3>2
    <2> QED
      BY <1>7, <2>1 DEF EvictIdle, TB!vars
  <1>8. ASSUME NEW c \in Clients, Observe(c) PROVE TB!Next
    BY <1>8 DEF Observe, TB!Observe, TB!Next, Level
  <1>9. CASE UNCHANGED limiterVars
    BY <1>9 DEF limiterVars, TB!vars, Level
  <1> QED
    BY <1>1, <1>2, <1>3, <1>4, <1>5, <1>6, <1>7, <1>8, <1>9 DEF LimiterNext

\* The limiter implements the eager bucket, whatever the delays between clock
\* and mutex and whenever the janitor runs.
THEOREM LimiterIsBucket == LimiterSpec => Limited
  BY RefineInit, RefineStep, LimiterInductive, PTL DEF LimiterSpec, Limited, TB!Spec

-----------------------------------------------------------------------------
(* What the eager bucket's clients can be served.                          *)

\* What a window has served and what is left in the bucket come out of what
\* the bucket held when the window began and what was added since.
Account(c) ==
    Cost * window[c].served + Level(c) <= Capacity + (clock - window[c].since)

AccountInv == TB!TypeOK /\ \A c \in Clients : Account(c)

\* One served request more costs Cost units more.
LEMMA OneMore == ASSUME NEW n \in Nat PROVE Cost * (n + 1) = Cost * n + Cost /\ Cost * n \in Nat
  BY Sizes

\* The account is balanced at the start.
LEMMA AccountInit == TB!Init => AccountInv
  <1> SUFFICES ASSUME TB!Init PROVE AccountInv
    OBVIOUS
  <1> DEFINE lv == [d \in Clients |-> Level(d)]
  <1>1. lv = [c \in Clients |-> Capacity]
    BY DEF TB!Init
  <1>2. ASSUME NEW c \in Clients PROVE Account(c)
    <2>1. Level(c) = Capacity
      BY <1>1
    <2>2. window[c].served = 0 /\ window[c].since = 0 /\ clock = 0
      BY DEF TB!Init
    <2> QED
      BY <2>1, <2>2, Sizes DEF Account
  <1>3. TB!TypeOK
    BY Sizes DEF TB!Init, TB!TypeOK, TB!Window
  <1> QED
    BY <1>2, <1>3 DEF AccountInv

\* No step of the eager bucket unbalances it.
LEMMA AccountStep == AccountInv /\ [TB!Next]_(TB!vars) => AccountInv'
  <1> SUFFICES ASSUME AccountInv, TB!Next \/ UNCHANGED TB!vars PROVE AccountInv'
    BY DEF TB!vars
  <1> DEFINE lv == [d \in Clients |-> Level(d)]
  <1>1. /\ clock \in Nat
        /\ window \in [Clients -> [since : Nat, served : Nat]]
        /\ \A d \in Clients : Level(d) \in 0..Capacity
        /\ \A d \in Clients : Account(d)
    BY DEF AccountInv, TB!TypeOK, TB!Window
  <1>2. CASE TB!Tick
    <2>1. clock' = clock + 1 /\ window' = window /\ lv' = [d \in Clients |-> TB!Filled(lv[d])]
      BY <1>2 DEF TB!Tick
    <2>2. ASSUME NEW d \in Clients
          PROVE  Level(d)' \in 0..Capacity /\ Level(d)' <= Level(d) + 1
      <3>1. lv'[d] = Level(d)' /\ lv[d] = Level(d)
        OBVIOUS
      <3>2. lv'[d] = TB!Filled(lv[d])
        BY <2>1
      <3> HIDE DEF lv
      <3> QED
        BY <1>1, <3>1, <3>2, Sizes DEF TB!Filled
    <2>3. ASSUME NEW d \in Clients PROVE Account(d)'
      <3>1. window[d].served \in Nat /\ window[d].since \in Nat
        BY <1>1
      <3>2. Cost * window[d].served \in Nat
        BY <3>1, OneMore
      <3>3. Cost * window[d].served + Level(d) <= Capacity + (clock - window[d].since)
        BY <1>1 DEF Account
      <3>4. Cost * window[d].served + Level(d)' <= Capacity + ((clock + 1) - window[d].since)
        BY <1>1, <2>2, <3>1, <3>2, <3>3, Sizes
      <3> QED
        BY <2>1, <3>4 DEF Account
    <2>4. TB!TypeOK'
      BY <1>1, <2>1, <2>2 DEF TB!TypeOK, TB!Window
    <2> QED
      BY <2>3, <2>4 DEF AccountInv
  <1>3. ASSUME NEW c \in Clients, TB!Serve(c) PROVE AccountInv'
    <2>1. PICK l \in 0..(lv[c] - Cost) : lv' = [lv EXCEPT ![c] = l]
      BY <1>3 DEF TB!Serve
    <2>2. lv[c] >= Cost /\ clock' = clock /\ window' = [window EXCEPT ![c].served = @ + 1]
      BY <1>3 DEF TB!Serve
    <2>3. \A d \in Clients : lv[d] = Level(d) /\ lv'[d] = Level(d)'
      OBVIOUS
    <2>4. l \in Nat /\ l <= Level(c) - Cost
      BY <1>1, <2>1, <2>3, Sizes
    <2>5. ASSUME NEW d \in Clients
          PROVE  Level(d)' = (IF d = c THEN l ELSE Level(d))
      <3>1. lv'[d] = IF d = c THEN l ELSE lv[d]
        BY <2>1
      <3> HIDE DEF lv
      <3> QED
        BY <2>3, <3>1
    <2>6. ASSUME NEW d \in Clients PROVE Account(d)'
      <3>1. window[d].served \in Nat /\ window[d].since \in Nat
        BY <1>1
      <3>2. Cost * window[d].served + Level(d) <= Capacity + (clock - window[d].since)
        BY <1>1 DEF Account
      <3>3. CASE d = c
        <4>1. window'[d].served = window[d].served + 1 /\ window'[d].since = window[d].since
          BY <1>1, <2>2, <3>3
        <4>2. Cost * (window[d].served + 1) = Cost * window[d].served + Cost
              /\ Cost * window[d].served \in Nat
          BY <3>1, OneMore
        <4>3. Level(d)' = l
          BY <2>5, <3>3
        <4>4. Cost * (window[d].served + 1) + l <= Capacity + (clock - window[d].since)
          BY <1>1, <2>4, <3>1, <3>2, <3>3, <4>2, Sizes
        <4> QED
          BY <2>2, <4>1, <4>3, <4>4 DEF Account
      <3>4. CASE d # c
        <4>1. window'[d] = window[d]
          BY <1>1, <2>2, <3>4
        <4>2. Level(d)' = Level(d)
          BY <2>5, <3>4
        <4> QED
          BY <2>2, <3>2, <4>1, <4>2 DEF Account
      <3> QED
        BY <3>3, <3>4
    <2>7. \A d \in Clients : Level(d)' \in 0..Capacity
      BY <1>1, <2>4, <2>5, Sizes
    <2>8. window' \in [Clients -> [since : Nat, served : Nat]]
      BY <1>1, <2>2
    <2>9. TB!TypeOK'
      BY <1>1, <2>2, <2>7, <2>8 DEF TB!TypeOK, TB!Window
    <2> QED
      BY <2>6, <2>9 DEF AccountInv
  <1>4. ASSUME NEW c \in Clients, TB!Forfeit(c) PROVE AccountInv'
    <2>1. PICK l \in 0..lv[c] : lv' = [lv EXCEPT ![c] = l]
      BY <1>4 DEF TB!Forfeit
    <2>2. clock' = clock /\ window' = window
      BY <1>4 DEF TB!Forfeit
    <2>3. \A d \in Clients : lv[d] = Level(d) /\ lv'[d] = Level(d)'
      OBVIOUS
    <2>4. ASSUME NEW d \in Clients
          PROVE  Level(d)' \in 0..Capacity /\ Level(d)' <= Level(d)
      <3>1. lv'[d] = IF d = c THEN l ELSE lv[d]
        BY <2>1
      <3>2. l \in 0..Level(c)
        BY <2>1, <2>3
      <3> HIDE DEF lv
      <3> QED
        BY <1>1, <2>3, <3>1, <3>2, Sizes
    <2>5. ASSUME NEW d \in Clients PROVE Account(d)'
      <3>1. window[d].served \in Nat /\ window[d].since \in Nat
        BY <1>1
      <3>2. Cost * window[d].served \in Nat
        BY <3>1, OneMore
      <3>3. Cost * window[d].served + Level(d) <= Capacity + (clock - window[d].since)
        BY <1>1 DEF Account
      <3>4. Cost * window[d].served + Level(d)' <= Capacity + (clock - window[d].since)
        BY <1>1, <2>4, <3>1, <3>2, <3>3, Sizes
      <3> QED
        BY <2>2, <3>4 DEF Account
    <2>6. TB!TypeOK'
      BY <1>1, <2>2, <2>4 DEF TB!TypeOK, TB!Window
    <2> QED
      BY <2>5, <2>6 DEF AccountInv
  <1>5. ASSUME NEW c \in Clients, TB!Observe(c) PROVE AccountInv'
    <2>1. clock' = clock /\ window' = [window EXCEPT ![c] = [since |-> clock, served |-> 0]]
          /\ lv' = lv
      BY <1>5 DEF TB!Observe
    <2>2. ASSUME NEW d \in Clients PROVE Level(d)' = Level(d)
      <3>1. lv'[d] = Level(d)' /\ lv[d] = Level(d)
        OBVIOUS
      <3> HIDE DEF lv
      <3> QED
        BY <2>1, <3>1
    <2>3. ASSUME NEW d \in Clients PROVE Account(d)'
      <3>1. CASE d = c
        <4>1. window'[d].served = 0 /\ window'[d].since = clock
          BY <1>1, <2>1, <3>1
        <4>2. Cost * 0 = 0
          BY Sizes
        <4> QED
          BY <1>1, <2>1, <2>2, <4>1, <4>2, Sizes DEF Account
      <3>2. CASE d # c
        <4>1. window'[d] = window[d]
          BY <1>1, <2>1, <3>2
        <4> QED
          BY <1>1, <2>1, <2>2, <4>1 DEF Account
      <3> QED
        BY <3>1, <3>2
    <2>4. TB!TypeOK'
      BY <1>1, <2>1, <2>2 DEF TB!TypeOK, TB!Window
    <2> QED
      BY <2>3, <2>4 DEF AccountInv
  <1>6. CASE UNCHANGED TB!vars
    <2>1. clock' = clock /\ window' = window /\ lv' = lv
      BY <1>6 DEF TB!vars
    <2>2. ASSUME NEW d \in Clients PROVE Level(d)' = Level(d)
      <3>1. lv'[d] = Level(d)' /\ lv[d] = Level(d)
        OBVIOUS
      <3> HIDE DEF lv
      <3> QED
        BY <2>1, <3>1
    <2> QED
      BY <1>1, <2>1, <2>2 DEF AccountInv, Account, TB!TypeOK, TB!Window
  <1> QED
    BY <1>2, <1>3, <1>4, <1>5, <1>6 DEF TB!Next

\* Over any window of time a client is served no more than a full bucket, the
\* units of one Delay and what the window has added: rps times its length.
THEOREM ServedBounded == LimiterSpec => []TB!WindowBound
  <1>1. AccountInv => TB!WindowBound
    <2> SUFFICES ASSUME AccountInv, NEW c \in Clients
                 PROVE  Cost * window[c].served <= Capacity + (clock - window[c].since)
      BY DEF TB!WindowBound
    <2>1. /\ Level(c) \in 0..Capacity /\ clock \in Nat
          /\ window[c].served \in Nat /\ window[c].since \in Nat
      BY DEF AccountInv, TB!TypeOK, TB!Window
    <2>2. Cost * window[c].served \in Nat
      BY <2>1, OneMore
    <2>3. Cost * window[c].served + Level(c) <= Capacity + (clock - window[c].since)
      BY DEF AccountInv, Account
    <2> QED
      BY <2>1, <2>2, <2>3, Sizes
  <1>2. TB!Spec => []AccountInv
    BY AccountInit, AccountStep, PTL DEF TB!Spec
  <1> QED
    BY <1>1, <1>2, LimiterIsBucket, PTL DEF Limited

=============================================================================

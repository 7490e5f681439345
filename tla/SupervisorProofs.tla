-------------------------- MODULE SupervisorProofs --------------------------
(***************************************************************************)
(* Proofs about two small machines of the supervisor. NonceManager, for    *)
(* any number of senders, processes and sends: the nonce is fresh and no   *)
(* send opens a gap. Watchdog, for any threshold, re-alert interval and    *)
(* delay: an alarm means a stall, and a stall is noticed.                  *)
(***************************************************************************)
EXTENDS NonceManager, Watchdog, TLAPS

-----------------------------------------------------------------------------
(* The nonces.                                                             *)

\* What a step of one sender inside Send leaves alone: the other senders of its
\* process are outside the critical section.
LEMMA Exclusive ==
    ASSUME HolderInv, NEW s \in Senders, NEW t \in Senders,
           pc[s] \in {"pending", "price", "broadcast"},
           pc[t] \in {"pending", "price", "broadcast"},
           ProcessOf[s] = ProcessOf[t]
    PROVE  s = t
  BY DEF HolderInv

\* Every pending view of the node is a natural number with no gap below it.
LEMMA ViewsCovered ==
    ASSUME TypeOK, NEW v \in PendingViews
    PROVE  v \in Nat /\ v >= mined /\ mined..(v - 1) \subseteq pool
  BY SendersAssumption DEF PendingViews, TypeOK

\* Initially the account is empty and every manager is new.
LEMMA InitInd == Init => IndInv
  BY SendersAssumption
     DEF Init, IndInv, TypeOK, HolderInv, EpochInv, AssignedInv, CounterCovered,
         NoGap, NewNonceManager, Sending

\* Type correctness is inductive on its own: every value a step of Send or of the
\* environment writes has its declared type.
LEMMA TypeStep == TypeOK /\ [Next]_vars => TypeOK'
  <1> SUFFICES ASSUME TypeOK, [Next]_vars PROVE TypeOK'
    OBVIOUS
  <1> USE SendersAssumption DEF TypeOK
  <1>1. ASSUME NEW s \in Senders, Call(s) PROVE TypeOK'
    BY <1>1 DEF Call, node
  <1>2. ASSUME NEW s \in Senders, Lock(s) PROVE TypeOK'
    BY <1>2 DEF Lock, node
  <1>3. ASSUME NEW s \in Senders, PendingReturns(s) PROVE TypeOK'
    <2>1. PICK v \in PendingViews :
             nonce' = [nonce EXCEPT ![s] = Assign(mgr[ProcessOf[s]], v)]
      BY <1>3 DEF PendingReturns
    <2>2. Assign(mgr[ProcessOf[s]], v) \in Nat
      BY ViewsCovered DEF Assign
    <2> QED
      BY <1>3, <2>1, <2>2 DEF PendingReturns, node
  <1>4. ASSUME NEW s \in Senders, PendingFails(s) PROVE TypeOK'
    BY <1>4 DEF PendingFails, Return, node
  <1>5. ASSUME NEW s \in Senders, PrepareFails(s) PROVE TypeOK'
    BY <1>5 DEF PrepareFails, Return, node
  <1>6. ASSUME NEW s \in Senders, Prepared(s) PROVE TypeOK'
    BY <1>6 DEF Prepared, node
  <1>7. ASSUME NEW s \in Senders, BroadcastAcked(s) PROVE TypeOK'
    <2> DEFINE p == ProcessOf[s]
    <2>1. Committed(nonce[s]) \in [localNonce : Nat, known : BOOLEAN]
      BY DEF Committed
    <2>2. mgr' \in [Processes -> [localNonce : Nat, known : BOOLEAN]]
      BY <1>7, <2>1 DEF BroadcastAcked
    <2>3. epoch' \in [Processes -> SUBSET Nat]
      BY <1>7 DEF BroadcastAcked
    <2>4. mu' \in [Processes -> Senders \cup {NoSender}]
          /\ pc' \in [Senders -> {"idle", "lock", "pending", "price", "broadcast"}]
      BY <1>7 DEF BroadcastAcked, Return
    <2> QED
      BY <1>7, <2>2, <2>3, <2>4 DEF BroadcastAcked, NodeTakes
  <1>8. ASSUME NEW s \in Senders, BroadcastFails(s) PROVE TypeOK'
    BY <1>8 DEF BroadcastFails, Resync, Return, node
  <1>9. ASSUME NEW s \in Senders, AnswerLost(s) PROVE TypeOK'
    BY <1>9 DEF AnswerLost, Resync, Return, NodeTakes
  <1>10. CASE Mine
    BY <1>10 DEF Mine
  <1>11. ASSUME NEW n \in pool, Evict(n) PROVE TypeOK'
    BY <1>11 DEF Evict
  <1>12. ASSUME NEW p \in Processes, Restart(p) PROVE TypeOK'
    BY <1>12 DEF Restart, NewNonceManager, node
  <1>13. CASE UNCHANGED vars
    BY <1>13 DEF vars
  <1> QED
    BY <1>1, <1>2, <1>3, <1>4, <1>5, <1>6, <1>7, <1>8, <1>9, <1>10, <1>11, <1>12, <1>13
       DEF Next, Rpc
-----------------------------------------------------------------------------
(* The inductive invariant, one lemma per group of steps.                  *)

\* The environment never uncovers a nonce: mining moves the bound up, eviction
\* moves a nonce from the mempool to the evicted ones.
LEMMA MineInd == IndInv /\ Mine => IndInv'
  <1> SUFFICES ASSUME IndInv, Mine PROVE IndInv'
    OBVIOUS
  <1> USE DEF IndInv
  <1>1. TypeOK'
    BY TypeStep DEF Next
  <1>2. HolderInv' /\ EpochInv'
    BY DEF Mine, HolderInv, EpochInv
  <1>3. mined \in Nat /\ mined' = mined + 1 /\ pool' = pool \ {mined} /\ evicted' = evicted
    BY DEF Mine, TypeOK
  <1>4. ASSUME NEW k \in Int, mined..k \subseteq pool \cup evicted
        PROVE  mined'..k \subseteq pool' \cup evicted'
    BY <1>3, <1>4
  <1>5. AssignedInv'
    BY <1>4, SendersAssumption DEF AssignedInv, Mine, Sending, TypeOK
  <1>6. CounterCovered'
    BY <1>4 DEF CounterCovered, Mine, TypeOK
  <1>7. NoGap'
    BY <1>3 DEF NoGap, TypeOK
  <1> QED
    BY <1>1, <1>2, <1>5, <1>6, <1>7

LEMMA EvictInd == IndInv /\ (\E n \in pool : Evict(n)) => IndInv'
  <1> SUFFICES ASSUME IndInv, NEW n \in pool, Evict(n) PROVE IndInv'
    OBVIOUS
  <1> USE DEF IndInv
  <1>1. TypeOK'
    BY TypeStep DEF Next
  <1>2. HolderInv' /\ EpochInv'
    BY DEF Evict, HolderInv, EpochInv
  <1>3. pool' \cup evicted' = pool \cup evicted /\ mined' = mined /\ pool' \subseteq pool
    BY DEF Evict
  <1>4. AssignedInv'
    BY <1>3 DEF AssignedInv, Evict, Sending
  <1>5. CounterCovered'
    BY <1>3 DEF CounterCovered, Evict
  <1>6. NoGap'
    BY <1>3 DEF NoGap
  <1> QED
    BY <1>1, <1>2, <1>4, <1>5, <1>6

LEMMA RestartInd == IndInv /\ (\E p \in Processes : Restart(p)) => IndInv'
  <1> SUFFICES ASSUME IndInv, NEW p \in Processes, Restart(p) PROVE IndInv'
    OBVIOUS
  <1> USE SendersAssumption DEF IndInv
  <1>1. TypeOK'
    BY TypeStep DEF Next
  <1>2. HolderInv'
    BY DEF HolderInv, Restart, TypeOK
  <1>3. EpochInv'
    BY DEF EpochInv, Restart, NewNonceManager, TypeOK
  <1>4. AssignedInv'
    BY DEF AssignedInv, Restart, Sending, NewNonceManager, node, TypeOK
  <1>5. CounterCovered' /\ NoGap'
    BY DEF CounterCovered, NoGap, Restart, NewNonceManager, node, TypeOK
  <1> QED
    BY <1>1, <1>2, <1>3, <1>4, <1>5

\* Taking a transaction for a nonce with no gap below it opens none.
LEMMA NodeTakesCovers ==
    ASSUME TypeOK, NoGap, NEW n \in Nat, mined..(n - 1) \subseteq pool \cup evicted,
           NodeTakes(n)
    PROVE  /\ NoGap'
           /\ mined' = mined
           /\ pool \cup evicted \subseteq pool' \cup evicted'
           /\ mined..n \subseteq pool' \cup evicted'
  <1>1. mined' = mined /\ pool' = pool \cup {n} /\ evicted' = evicted \ {n} /\ mined \in Nat
    BY DEF NodeTakes, TypeOK
  <1>2. pool \cup evicted \subseteq pool' \cup evicted'
    BY <1>1
  <1>3. mined..n \subseteq pool' \cup evicted'
    BY <1>1, <1>2
  <1>4. ASSUME NEW k \in pool', NEW m \in mined'..k PROVE m \in pool' \cup evicted'
    <2>1. CASE k = n
      BY <2>1, <1>1, <1>3
    <2>2. CASE k # n
      BY <2>2, <1>1, <1>2 DEF NoGap
    <2> QED
      BY <2>1, <2>2
  <1> QED
    BY <1>1, <1>2, <1>3, <1>4 DEF NoGap

\* The steps of a sender that touch neither the counters nor the node.
LEMMA QuietInd ==
    ASSUME IndInv, NEW s \in Senders,
           Call(s) \/ Lock(s) \/ PendingFails(s) \/ PrepareFails(s) \/ Prepared(s)
    PROVE  IndInv'
  <1> USE SendersAssumption DEF IndInv
  <1>1. TypeOK'
    BY TypeStep DEF Next, Rpc
  <1>2. UNCHANGED <<mgr, nonce, node, epoch>>
    BY DEF Call, Lock, PendingFails, PrepareFails, Prepared
  <1>3. \A t \in Senders : Sending(t)' => Sending(t)
    BY DEF Call, Lock, PendingFails, PrepareFails, Prepared, Return, Sending, TypeOK
  <1>4. HolderInv'
    BY DEF Call, Lock, PendingFails, PrepareFails, Prepared, Return, HolderInv, TypeOK
  <1>5. EpochInv' /\ CounterCovered' /\ NoGap'
    BY <1>2 DEF EpochInv, CounterCovered, NoGap, node
  <1>6. AssignedInv'
    BY <1>2, <1>3 DEF AssignedInv, node
  <1> QED
    BY <1>1, <1>4, <1>5, <1>6

\* The assigned nonce is at least the counter in use, and either a pending view
\* or the counter itself: both have no gap below them.
LEMMA PendingReturnsInd ==
    ASSUME IndInv, NEW s \in Senders, PendingReturns(s)
    PROVE  IndInv'
  <1> USE SendersAssumption DEF IndInv
  <1>1. TypeOK'
    BY TypeStep DEF Next, Rpc
  <1>2. PICK v \in PendingViews :
           nonce' = [nonce EXCEPT ![s] = Assign(mgr[ProcessOf[s]], v)]
    BY DEF PendingReturns
  <1>3. v \in Nat /\ mined..(v - 1) \subseteq pool
    BY ViewsCovered
  <1>4. UNCHANGED <<mgr, mu, node, epoch>>
    BY DEF PendingReturns
  <1>5. HolderInv'
    BY DEF PendingReturns, HolderInv, TypeOK
  <1>6. EpochInv' /\ CounterCovered' /\ NoGap'
    BY <1>4 DEF EpochInv, CounterCovered, NoGap, node
  <1>7. nonce'[s] = Assign(mgr[ProcessOf[s]], v)
    BY <1>2 DEF TypeOK
  <1>8. mgr[ProcessOf[s]].known => nonce'[s] >= mgr[ProcessOf[s]].localNonce
    BY <1>3, <1>7 DEF Assign, TypeOK
  <1>9. mined..(nonce'[s] - 1) \subseteq pool \cup evicted
    BY <1>3, <1>7 DEF Assign, CounterCovered, TypeOK
  <1>10. ASSUME NEW t \in Senders, t # s, Sending(t)'
         PROVE  Sending(t) /\ nonce'[t] = nonce[t]
    BY <1>2, <1>10 DEF PendingReturns, Sending, TypeOK
  <1>11. AssignedInv'
    BY <1>4, <1>8, <1>9, <1>10 DEF AssignedInv, node
  <1> QED
    BY <1>1, <1>5, <1>6, <1>11

\* A broadcast, whatever its outcome, is made by the only sender of its process
\* in the critical section; the counter it leaves is above every nonce it
\* acknowledged, or dropped.
LEMMA BroadcastInd ==
    ASSUME IndInv, NEW s \in Senders,
           BroadcastAcked(s) \/ BroadcastFails(s) \/ AnswerLost(s)
    PROVE  IndInv'
  <1> USE SendersAssumption DEF IndInv
  <1> DEFINE p == ProcessOf[s]
             n == nonce[s]
  <1>1. TypeOK'
    BY TypeStep DEF Next, Rpc
  <1>2. /\ pc[s] = "broadcast" /\ p \in Processes /\ n \in Nat /\ UNCHANGED nonce
        /\ Return(s)
    BY DEF BroadcastAcked, BroadcastFails, AnswerLost, Resync, TypeOK
  <1>3. \A t \in Senders : Sending(t)' => Sending(t) /\ t # s /\ ProcessOf[t] # p
    <2>1. \A t \in Senders : Sending(t)' => Sending(t) /\ t # s
      BY <1>2 DEF Return, Sending, TypeOK
    <2> QED
      BY <2>1, <1>2, Exclusive DEF Sending
  <1>4. HolderInv'
    <2> SUFFICES ASSUME NEW t \in Senders,
                        pc'[t] \in {"pending", "price", "broadcast"}
                 PROVE  mu'[ProcessOf[t]] = t
      BY DEF HolderInv
    <2>1. t # s /\ pc'[t] = pc[t]
      BY <1>2 DEF Return, TypeOK
    <2>2. ProcessOf[t] # p
      BY <1>2, <2>1, Exclusive
    <2> QED
      BY <1>2, <2>1, <2>2 DEF Return, HolderInv, TypeOK
  <1>5. mined..(n - 1) \subseteq pool \cup evicted /\ (mgr[p].known => n >= mgr[p].localNonce)
    BY <1>2 DEF AssignedInv, Sending
  <1>6. /\ NoGap' /\ mined' = mined
        /\ pool \cup evicted \subseteq pool' \cup evicted'
        /\ BroadcastAcked(s) => mined..n \subseteq pool' \cup evicted'
    <2>1. CASE NodeTakes(n)
      BY <1>2, <1>5, <2>1, NodeTakesCovers
    <2>2. CASE UNCHANGED node /\ ~BroadcastAcked(s)
      BY <2>2 DEF node, NoGap
    <2> QED
      BY <2>1, <2>2 DEF BroadcastAcked, BroadcastFails, AnswerLost
  <1>7. \A q \in Processes \ {p} : mgr'[q] = mgr[q] /\ epoch'[q] = epoch[q]
    BY <1>2 DEF BroadcastAcked, BroadcastFails, AnswerLost, Resync, TypeOK
  <1>8. CASE BroadcastAcked(s)
    <2>1. mgr'[p] = [localNonce |-> n + 1, known |-> TRUE] /\ epoch'[p] = epoch[p] \cup {n}
      BY <1>2, <1>8 DEF BroadcastAcked, Committed, TypeOK
    <2>2. \A k \in epoch[p] : k \in Nat /\ k <= n
      BY <1>2, <1>5 DEF EpochInv, TypeOK
    <2>3. EpochInv'
      <3>1. \A k \in epoch'[p] : k < n + 1
        BY <1>2, <2>1, <2>2
      <3> QED
        BY <1>7, <2>1, <3>1 DEF EpochInv
    <2>4. CounterCovered'
      <3>1. mined'..(mgr'[p].localNonce - 1) \subseteq pool' \cup evicted'
        BY <1>2, <1>6, <1>8, <2>1 DEF TypeOK
      <3>2. ASSUME NEW q \in Processes \ {p}, mgr'[q].known
            PROVE  mined'..(mgr'[q].localNonce - 1) \subseteq pool' \cup evicted'
        BY <1>6, <1>7, <3>2 DEF CounterCovered
      <3> QED
        BY <3>1, <3>2 DEF CounterCovered
    <2>5. AssignedInv'
      BY <1>2, <1>3, <1>6, <1>7 DEF AssignedInv
    <2> QED
      BY <1>1, <1>4, <1>6, <2>3, <2>4, <2>5
  <1>9. CASE BroadcastFails(s) \/ AnswerLost(s)
    <2>1. mgr'[p].known = FALSE /\ epoch'[p] = {}
      BY <1>2, <1>9 DEF BroadcastFails, AnswerLost, Resync, TypeOK
    <2>2. EpochInv'
      BY <1>7, <2>1 DEF EpochInv
    <2>3. CounterCovered'
      <3>1. ASSUME NEW q \in Processes, mgr'[q].known
            PROVE  mined'..(mgr'[q].localNonce - 1) \subseteq pool' \cup evicted'
        BY <1>6, <1>7, <2>1, <3>1 DEF CounterCovered
      <3> QED
        BY <3>1 DEF CounterCovered
    <2>4. AssignedInv'
      BY <1>2, <1>3, <1>6, <1>7 DEF AssignedInv
    <2> QED
      BY <1>1, <1>4, <1>6, <2>2, <2>3, <2>4
  <1> QED
    BY <1>8, <1>9

LEMMA NextInd == IndInv /\ [Next]_vars => IndInv'
  <1> SUFFICES ASSUME IndInv, [Next]_vars PROVE IndInv'
    OBVIOUS
  <1>1. ASSUME NEW s \in Senders, Call(s) \/ Lock(s) \/ Rpc(s) PROVE IndInv'
    BY <1>1, QuietInd, PendingReturnsInd, BroadcastInd DEF Rpc
  <1>2. CASE UNCHANGED vars
    BY <1>2, TypeStep
       DEF vars, IndInv, HolderInv, EpochInv, AssignedInv, CounterCovered, NoGap, Sending
  <1> QED
    BY <1>1, <1>2, MineInd, EvictInd, RestartInd DEF Next

-----------------------------------------------------------------------------
(* The results.                                                            *)

\* Send, its callers and the environment keep every variable in its type.
THEOREM TypeCorrect == Spec => []TypeOK
  <1>1. Init => TypeOK
    BY InitInd DEF IndInv
  <1> QED
    BY <1>1, TypeStep, PTL DEF Spec

THEOREM Inductive == Spec => []IndInv
  BY InitInd, NextInd, PTL DEF Spec

\* No nonce is handed out twice between two failed broadcasts of a process, for
\* any number of senders and any lag of the node's pending view.
THEOREM NoncesFresh == Spec => []NonceFresh
  <1>1. IndInv => NonceFresh
    BY SendersAssumption
       DEF IndInv, NonceFresh, EpochInv, AssignedInv, Sending, TypeOK
  <1> QED
    BY <1>1, Inductive, PTL

\* No order of sends, failures, lost answers and restarts opens a gap in the
\* account's nonces that the mempool did not open itself.
THEOREM GapFree == Spec => []NoGap
  <1>1. IndInv => NoGap
    BY DEF IndInv
  <1> QED
    BY <1>1, Inductive, PTL

\* The in-process counter never runs ahead of what has reached the node.
THEOREM CounterIsCovered == Spec => []CounterCovered
  <1>1. IndInv => CounterCovered
    BY DEF IndInv
  <1> QED
    BY <1>1, Inductive, PTL

-----------------------------------------------------------------------------
(* The watchdog.                                                           *)

\* What the watchdog remembers is behind the collector, and if it is level with it
\* the cursor has not moved since.
SeenInv ==
    st.advancedAt # Never =>
        /\ st.lastBlock <= cursor
        /\ st.lastBlock = cursor => moved <= st.advancedAt

\* What a read found is between the two.
ProbeInv ==
    probe.reading /\ probe.cursor # NoCursor =>
        /\ probe.cursor <= cursor
        /\ st.advancedAt # Never =>
              /\ st.lastBlock <= probe.cursor
              /\ st.lastBlock = probe.cursor => probe.moved <= st.advancedAt
        /\ probe.cursor = cursor => probe.moved = moved

\* All of it until a backfill sets the cursor back.
AlarmInv ==
    /\ moved <= clock
    /\ ~lowered => SeenInv /\ ProbeInv
    /\ AlarmIsStall

\* When the check under way began, or the latest moment the next one begins. From
\* one check to the next that is a Round.
Begin == IF probe.reading THEN probe.at ELSE IF due THEN clock ELSE clock + 1

\* What failed checks and the first that sees a stall cost.
Cost == (1 + faults) * Round

\* The watchdog has seen where the cursor stands now, or a later block.
Seen == st.advancedAt # Never /\ st.lastBlock >= cursor

\* A read takes MaxDelay, and a tick during it makes the next check due.
ReadInv ==
    probe.reading =>
        /\ probe.at # Never /\ probe.at <= clock /\ clock - probe.at <= MaxDelay
        /\ ~due => probe.at = clock

\* A cursor never disappears, and a read that found another one began before the
\* cursor got where it stands.
CursorInv ==
    /\ moved = Never <=> cursor = NoCursor
    /\ st.advancedAt # Never =>
          /\ st.advancedAt <= clock /\ cursor # NoCursor
          /\ probe.reading => probe.cursor # NoCursor
    /\ probe.reading /\ probe.cursor # cursor => probe.at <= moved

\* The next check is never far away: from the moment the cursor stopped until it is
\* seen, from then until the threshold has passed, and from an alarm to the next.
PaceInv ==
    /\ moved # Never /\ ~Seen => Begin <= moved + Cost
    /\ moved # Never /\ Seen =>
          /\ st.advancedAt <= moved + Cost + MaxDelay
          /\ st.lastAlert = Never => Begin <= moved + Cost + MaxDelay + Threshold + 1
    /\ st.lastAlert # Never =>
          /\ st.lastAlert = alarm.at /\ st.advancedAt # Never
          /\ st.lastAlert - st.advancedAt > Threshold
          /\ Begin <= st.lastAlert + ReAlert + 1 + Cost

NoticeInv == Threshold > 0 => ReadInv /\ CursorInv /\ PaceInv

WatchdogInv == WatchdogTypeOK /\ AlarmInv /\ NoticeInv

-----------------------------------------------------------------------------
\* Every step keeps the types.
LEMMA WatchdogTypeStep == WatchdogTypeOK /\ [WatchdogNext]_watchdogVars => WatchdogTypeOK'
  <1> SUFFICES ASSUME WatchdogTypeOK, [WatchdogNext]_watchdogVars PROVE WatchdogTypeOK'
    OBVIOUS
  <1> USE WatchdogAssumption DEF WatchdogTypeOK, Moments, Cursors, Times, Blocks
  <1>1. CASE Advance
    BY <1>1 DEF Advance
  <1>2. CASE SetBack
    BY <1>2 DEF SetBack
  <1>3. CASE Tick
    BY <1>3 DEF Tick, history
  <1>4. CASE ReadCursor
    BY <1>4 DEF ReadCursor, history
  <1>5. CASE ReadFails
    BY <1>5 DEF ReadFails, NoProbe, NoCursor, Never, history
  <1>6. CASE ColdStore
    BY <1>6 DEF ColdStore, Assess, NoProbe, NoCursor, Never, history
  <1>7. CASE Progress
    BY <1>7 DEF Progress, Assess, NoProbe, NoCursor, Never, history
  <1>8. CASE Healthy
    BY <1>8 DEF Healthy, Assess, NoProbe, NoCursor, Never, history
  <1>9. CASE Suppressed
    BY <1>9 DEF Suppressed, Assess, NoProbe, NoCursor, Never, history
  <1>10. CASE Alert
    BY <1>10 DEF Alert, Assess, NoProbe, NoCursor, Never, history
  <1>11. CASE UNCHANGED watchdogVars
    BY <1>11 DEF watchdogVars, history
  <1> QED
    BY <1>1, <1>2, <1>3, <1>4, <1>5, <1>6, <1>7, <1>8, <1>9, <1>10, <1>11 DEF WatchdogNext, Check

-----------------------------------------------------------------------------
\* Every step keeps what makes an alarm right.
LEMMA AlarmStep == WatchdogTypeOK /\ AlarmInv /\ [WatchdogNext]_watchdogVars => AlarmInv'
  <1> SUFFICES ASSUME WatchdogTypeOK, AlarmInv, [WatchdogNext]_watchdogVars PROVE AlarmInv'
    OBVIOUS
  <1> USE WatchdogAssumption
      DEF WatchdogTypeOK, Moments, Cursors, Times, Blocks, AlarmInv, AlarmIsStall, SeenInv, ProbeInv
  <1>1. CASE Advance
    BY <1>1 DEF Advance, NoCursor, Never
  <1>2. CASE SetBack
    BY <1>2 DEF SetBack
  <1>3. CASE Tick
    BY <1>3 DEF Tick, history
  <1>4. CASE ReadCursor
    BY <1>4 DEF ReadCursor, history, NoCursor, Never
  <1>5. CASE ReadFails
    BY <1>5 DEF ReadFails, NoProbe, history
  <1>6. CASE ColdStore
    BY <1>6 DEF ColdStore, Assess, NoProbe, history
  <1>7. CASE Progress
    BY <1>7 DEF Progress, Assess, Advanced, NoProbe, history
  <1>8. CASE Healthy
    BY <1>8 DEF Healthy, Assess, NoProbe, history
  <1>9. CASE Suppressed
    BY <1>9 DEF Suppressed, Assess, NoProbe, history
  <1>10. CASE Alert
    BY <1>10 DEF Alert, Assess, Advanced, Frozen, NoProbe, history, Never
  <1>11. CASE UNCHANGED watchdogVars
    BY <1>11 DEF watchdogVars, history
  <1> QED
    BY <1>1, <1>2, <1>3, <1>4, <1>5, <1>6, <1>7, <1>8, <1>9, <1>10, <1>11 DEF WatchdogNext, Check

-----------------------------------------------------------------------------
\* A round is at least a tick, and at least as long as a read.
LEMMA RoundIs == Round \in Nat /\ Round >= 1 /\ Round >= MaxDelay
  BY WatchdogAssumption DEF Round

\* The cost grows with a failed check, by a round.
LEMMA CostIs ==
    ASSUME WatchdogTypeOK
    PROVE  /\ Cost \in Nat /\ Cost >= Round
           /\ UNCHANGED faults => Cost' = Cost
           /\ faults' = faults + 1 => Cost' = Cost + Round
           /\ Slack = Cost + Round + 1 + MaxDelay
  <1> DEFINE n == faults
             r == Round
  <1>1. n \in Nat /\ r \in Nat /\ Round' = r
    BY WatchdogAssumption, RoundIs DEF WatchdogTypeOK, Round
  <1>2. Cost = (1 + n) * r /\ Cost' = (1 + faults') * r /\ Slack = (2 + n) * r + 1 + MaxDelay
    BY <1>1 DEF Cost, Slack
  <1> HIDE DEF n, r
  <1>3. /\ (1 + n) * r = n * r + r /\ (2 + n) * r = n * r + r + r
        /\ (1 + (n + 1)) * r = n * r + r + r /\ n * r \in Nat
    BY <1>1
  <1>4. UNCHANGED faults => Cost' = Cost
    BY <1>2 DEF n
  <1>5. faults' = faults + 1 => Cost' = Cost + r
    BY <1>1, <1>2, <1>3 DEF n
  <1>6. Cost \in Nat /\ Cost >= r /\ Slack = Cost + r + 1 + MaxDelay
    BY <1>1, <1>2, <1>3, WatchdogAssumption
  <1> QED
    BY <1>4, <1>5, <1>6 DEF r

\* However a check ends, the next one begins within a round of it.
LEMMA BeginAfterCheck ==
    ASSUME WatchdogTypeOK, ReadInv, probe.reading, probe' = NoProbe, UNCHANGED <<clock, due>>
    PROVE  Begin' \in Int /\ Begin' <= Begin + Round /\ Begin' <= clock + 1
           /\ Begin = probe.at /\ clock <= Begin + MaxDelay
  BY RoundIs, WatchdogAssumption
     DEF WatchdogTypeOK, ReadInv, Begin, NoProbe, Times, Moments

\* What a check leaves alone.
LEMMA CheckIs ==
    ASSUME ReadFails \/ ColdStore \/ Progress \/ Healthy \/ Suppressed \/ Alert
    PROVE  /\ probe.reading /\ probe' = NoProbe
           /\ UNCHANGED <<cursor, clock, due, moved, lowered>>
           /\ faults' = (IF ReadFails THEN faults + 1 ELSE faults)
  BY DEF ReadFails, ColdStore, Progress, Healthy, Suppressed, Alert, Assess, history

\* Every step keeps what is known of a read and of the cursor.
LEMMA CursorStep ==
    WatchdogTypeOK /\ Threshold > 0 /\ ReadInv /\ CursorInv /\ [WatchdogNext]_watchdogVars => ReadInv' /\ CursorInv'
  <1> SUFFICES ASSUME WatchdogTypeOK, Threshold > 0, ReadInv, CursorInv, [WatchdogNext]_watchdogVars
               PROVE  ReadInv' /\ CursorInv'
    OBVIOUS
  <1> USE WatchdogAssumption
      DEF WatchdogTypeOK, Moments, Cursors, Times, Blocks, ReadInv, CursorInv, NoCursor, Never
  <1>1. CASE Advance
    BY <1>1 DEF Advance
  <1>2. CASE SetBack
    BY <1>2 DEF SetBack
  <1>3. CASE Tick
    BY <1>3 DEF Tick, history
  <1>4. CASE ReadCursor
    BY <1>4 DEF ReadCursor, history
  <1>5. CASE ReadFails
    BY <1>5 DEF ReadFails, NoProbe, history
  <1>6. CASE ColdStore
    BY <1>6 DEF ColdStore, Assess, NoProbe, history
  <1>7. CASE Progress
    BY <1>7 DEF Progress, Assess, NoProbe, history
  <1>8. CASE Healthy
    BY <1>8 DEF Healthy, Assess, Advanced, NoProbe, history
  <1>9. CASE Suppressed
    BY <1>9 DEF Suppressed, Assess, NoProbe, history
  <1>10. CASE Alert
    BY <1>10 DEF Alert, Assess, Advanced, NoProbe, history
  <1>11. CASE UNCHANGED watchdogVars
    BY <1>11 DEF watchdogVars, history
  <1> QED
    BY <1>1, <1>2, <1>3, <1>4, <1>5, <1>6, <1>7, <1>8, <1>9, <1>10, <1>11 DEF WatchdogNext, Check

\* Every step keeps the pace.
LEMMA PaceStep ==
    WatchdogTypeOK /\ Threshold > 0 /\ ReadInv /\ CursorInv /\ PaceInv /\ [WatchdogNext]_watchdogVars => PaceInv'
  <1> SUFFICES ASSUME WatchdogTypeOK, Threshold > 0, ReadInv, CursorInv, PaceInv, [WatchdogNext]_watchdogVars
               PROVE  PaceInv'
    OBVIOUS
  <1>a. /\ Cost \in Nat /\ Cost >= Round
        /\ UNCHANGED faults => Cost' = Cost
        /\ faults' = faults + 1 => Cost' = Cost + Round
    BY CostIs
  <1>b. Round \in Nat /\ Round >= 1 /\ Round >= MaxDelay
    BY RoundIs
  <1> USE WatchdogAssumption
      DEF WatchdogTypeOK, Moments, Cursors, Times, Blocks, ReadInv, CursorInv, PaceInv, Seen, NoCursor, Never
  <1>1. CASE Advance \/ SetBack
    <2>1. Begin' = Begin /\ Begin <= clock + 1 /\ Begin \in Int /\ Cost' = Cost
      BY <1>1, <1>a DEF Advance, SetBack, Begin
    <2> QED
      BY <1>1, <1>a, <1>b, <2>1 DEF Advance, SetBack
  <1>2. CASE Tick
    <2>1. Begin' = Begin /\ Begin \in Int /\ Cost' = Cost
      <3>1. /\ due' /\ (due => probe.reading) /\ clock' = clock + 1
            /\ UNCHANGED <<probe, faults>>
        BY <1>2 DEF Tick
      <3>2. Begin = IF probe.reading THEN probe.at ELSE clock + 1
        BY <3>1 DEF Begin
      <3>3. Begin' = IF probe.reading THEN probe.at ELSE clock + 1
        BY <3>1 DEF Begin
      <3> QED
        BY <1>a, <3>1, <3>2, <3>3
    <2> QED
      BY <1>2, <2>1 DEF Tick, history
  <1>3. CASE ReadCursor
    <2>1. Begin' = Begin /\ Begin \in Int /\ Cost' = Cost
      BY <1>3, <1>a DEF ReadCursor, Begin, history
    <2> QED
      BY <1>3, <2>1 DEF ReadCursor, history
  <1>4. ASSUME ReadFails \/ ColdStore \/ Progress \/ Healthy \/ Suppressed \/ Alert
        PROVE  /\ Begin \in Int /\ Begin' \in Int /\ Begin' <= Begin + Round /\ Begin' <= clock + 1
               /\ Begin = probe.at /\ clock <= Begin + MaxDelay
               /\ UNCHANGED <<cursor, moved, clock>>
    <2>1. probe.reading /\ probe' = NoProbe /\ UNCHANGED <<cursor, clock, due, moved>>
      BY <1>4, CheckIs
    <2> QED
      BY <2>1, BeginAfterCheck DEF Begin
  <1>5. CASE ReadFails
    <2>1. Cost' = Cost + Round /\ UNCHANGED <<st, alarm>>
      BY <1>5, <1>a DEF ReadFails
    <2> QED
      BY <1>4, <1>5, <1>a, <1>b, <2>1
  <1>6. ASSUME ColdStore \/ Progress \/ Healthy \/ Suppressed \/ Alert PROVE Cost' = Cost
    BY <1>6, <1>a DEF ColdStore, Progress, Healthy, Suppressed, Alert, Assess
  <1>7. CASE ColdStore
    <2>1. UNCHANGED <<st, alarm>> /\ probe.cursor = NoCursor /\ probe.reading
      BY <1>7 DEF ColdStore, Assess
    <2> QED
      BY <1>4, <1>6, <1>7, <1>a, <1>b, <2>1
  <1>8. CASE Progress
    <2>1. /\ st'.lastBlock = probe.cursor /\ st'.advancedAt = clock /\ st'.lastAlert = Never
          /\ probe.reading
      BY <1>8 DEF Progress, Assess
    <2>2. Seen => probe.cursor > cursor
      BY <1>8 DEF Progress, Advanced
    <2>3. CASE probe.cursor = cursor
      BY <1>4, <1>6, <1>8, <1>a, <1>b, <2>1, <2>2, <2>3
    <2>4. CASE probe.cursor # cursor
      BY <1>4, <1>6, <1>8, <1>a, <1>b, <2>1, <2>4
    <2> QED
      BY <2>3, <2>4
  <1>9. CASE Healthy \/ Suppressed \/ Alert
    <2>1. /\ st'.lastBlock = st.lastBlock /\ st'.advancedAt = st.advancedAt
          /\ probe.reading /\ st.advancedAt # Never /\ probe.cursor <= st.lastBlock
      BY <1>9 DEF Healthy, Suppressed, Alert, Assess, Advanced
    <2>2. Seen' <=> Seen
      BY <1>4, <1>9, <2>1
    <2>3. ~Seen => probe.cursor # cursor
      BY <2>1
    <2>4. moved' # Never /\ ~Seen' => Begin' <= moved' + Cost'
      BY <1>4, <1>6, <1>9, <1>a, <1>b, <2>1, <2>2, <2>3
    <2>5. moved' # Never /\ Seen' => st'.advancedAt <= moved' + Cost' + MaxDelay
      BY <1>4, <1>6, <1>9, <2>1, <2>2
    <2>6. moved' # Never /\ Seen' /\ st'.lastAlert = Never =>
             Begin' <= moved' + Cost' + MaxDelay + Threshold + 1
      <3>1. CASE Healthy
        <4>1. clock - st.advancedAt <= Threshold
          BY <3>1 DEF Healthy, Frozen
        <4> QED
          BY <1>4, <1>6, <1>9, <1>a, <1>b, <2>1, <2>2, <4>1
      <3>2. CASE Suppressed
        BY <3>2 DEF Suppressed, Assess, Throttled
      <3>3. CASE Alert
        BY <3>3 DEF Alert, Assess
      <3> QED
        BY <1>9, <3>1, <3>2, <3>3
    <2>7. st'.lastAlert # Never =>
             /\ st'.lastAlert = alarm'.at /\ st'.advancedAt # Never
             /\ st'.lastAlert - st'.advancedAt > Threshold
             /\ Begin' <= st'.lastAlert + ReAlert + 1 + Cost'
      <3>1. CASE Healthy
        BY <3>1 DEF Healthy, Assess
      <3>2. CASE Suppressed
        <4>1. UNCHANGED <<st, alarm>> /\ st.lastAlert # Never /\ clock - st.lastAlert < ReAlert
          BY <3>2 DEF Suppressed, Assess, Throttled
        <4> QED
          BY <1>4, <1>6, <1>9, <1>a, <4>1
      <3>3. CASE Alert
        <4>1. /\ st'.lastAlert = clock /\ alarm'.at = clock
              /\ clock - st.advancedAt > Threshold
          BY <3>3 DEF Alert, Assess, Frozen
        <4> QED
          BY <1>4, <1>6, <1>9, <1>a, <2>1, <4>1
      <3> QED
        BY <1>9, <3>1, <3>2, <3>3
    <2> QED
      BY <2>4, <2>5, <2>6, <2>7
  <1>10. CASE UNCHANGED watchdogVars
    <2>1. Begin' = Begin /\ Cost' = Cost
      BY <1>10, <1>a DEF watchdogVars, history, Begin
    <2> QED
      BY <1>10, <2>1 DEF watchdogVars, history
  <1> QED
    BY <1>1, <1>2, <1>3, <1>5, <1>7, <1>8, <1>9, <1>10 DEF WatchdogNext, Check

-----------------------------------------------------------------------------
LEMMA WatchdogInitInd == WatchdogInit => WatchdogInv
  <1> SUFFICES ASSUME WatchdogInit PROVE WatchdogInv
    OBVIOUS
  <1> USE WatchdogAssumption DEF WatchdogInit, NoProbe, Never, NoCursor
  <1>1. WatchdogTypeOK
    <2> USE DEF WatchdogTypeOK, Moments, Cursors, Times, Blocks
    <2>0. 0 \in Times /\ 0 \in Blocks /\ 0 \in 0..MaxFaults /\ 0 \in Moments
      OBVIOUS
    <2>5. moved \in Moments
      BY <2>0
    <2>1. /\ cursor \in Cursors /\ clock \in Times /\ due \in BOOLEAN
          /\ lowered \in BOOLEAN /\ faults \in 0..MaxFaults
      BY <2>0
    <2>2. st \in [lastBlock : Blocks, advancedAt : Moments, lastAlert : Moments]
      OBVIOUS
    <2>3. probe \in [reading : BOOLEAN, cursor : Cursors, at : Moments, moved : Moments]
      OBVIOUS
    <2>4. alarm \in [at : Moments, stalled : BOOLEAN]
      OBVIOUS
    <2> QED
      BY <2>1, <2>2, <2>3, <2>4, <2>5
  <1>2. AlarmInv
    BY <1>1 DEF AlarmInv, AlarmIsStall, SeenInv, ProbeInv, WatchdogTypeOK, Cursors, Blocks
  <1>3. ReadInv /\ CursorInv
    BY <1>1 DEF ReadInv, CursorInv, WatchdogTypeOK, Cursors, Blocks
  <1>4. PaceInv
    BY <1>1, CostIs, RoundIs DEF PaceInv, Begin, Seen, WatchdogTypeOK, Cursors, Blocks
  <1> QED
    BY <1>1, <1>2, <1>3, <1>4 DEF WatchdogInv, NoticeInv

\* The strengthened invariant: the cursor, the read in progress, what the watchdog
\* remembers and its ticker stay in step (watchdogLoop).
THEOREM WatchdogInductive == WatchdogSpec => []WatchdogInv
  <1>1. WatchdogInv /\ [WatchdogNext]_watchdogVars => WatchdogInv'
    <2> SUFFICES ASSUME WatchdogInv, [WatchdogNext]_watchdogVars PROVE WatchdogInv'
      OBVIOUS
    <2>1. WatchdogTypeOK' /\ AlarmInv'
      BY WatchdogTypeStep, AlarmStep DEF WatchdogInv
    <2>2. NoticeInv'
      BY CursorStep, PaceStep DEF WatchdogInv, NoticeInv
    <2> QED
      BY <2>1, <2>2 DEF WatchdogInv
  <1> QED
    BY WatchdogInitInd, <1>1, PTL DEF WatchdogSpec

\* Every variable of Watchdog keeps its type, for any threshold and delay.
THEOREM WatchdogTypeCorrect == WatchdogSpec => []WatchdogTypeOK
  <1>1. WatchdogInv => WatchdogTypeOK
    BY DEF WatchdogInv
  <1> QED
    BY WatchdogInductive, <1>1, PTL

\* An alarm means that the cursor stood still for longer than the threshold, unless a
\* backfill had set it back (watchdogStep, stallAlertDecision).
THEOREM AlarmsAreStalls == WatchdogSpec => []AlarmIsStall
  <1>1. WatchdogInv => AlarmIsStall
    BY DEF WatchdogInv, AlarmInv
  <1> QED
    BY WatchdogInductive, <1>1, PTL

\* A stall is reported, and again, within the threshold or the re-alert interval and
\* the slack that slow and failed reads explain, however long they take and however
\* many fail.
THEOREM StallsAreNoticed == WatchdogSpec => []StallNoticed
  <1>1. WatchdogInv => StallNoticed
    <2> SUFFICES ASSUME WatchdogInv, Threshold > 0, moved # Never, clock - moved > Threshold + Slack
                 PROVE  /\ alarm.at # Never
                        /\ clock - alarm.at <= ReAlert + Slack
                        /\ alarm.at > moved \/ lowered
      BY DEF StallNoticed
    <2>1. WatchdogTypeOK /\ AlarmInv /\ ReadInv /\ CursorInv /\ PaceInv
      BY DEF WatchdogInv, NoticeInv
    <2>2. Cost \in Nat /\ Slack = Cost + Round + 1 + MaxDelay /\ Round \in Nat /\ Round >= MaxDelay
      BY <2>1, CostIs, RoundIs
    <2>3. Begin \in Int /\ clock <= Begin + MaxDelay
      BY <2>1, WatchdogAssumption DEF WatchdogTypeOK, ReadInv, Begin, Times, Moments, Never
    <2> USE WatchdogAssumption DEF WatchdogTypeOK, Times, Moments, Blocks, Cursors, Never
    <2>4. Seen
      BY <2>1, <2>2, <2>3 DEF PaceInv
    <2>5. st.lastAlert # Never
      BY <2>1, <2>2, <2>3, <2>4 DEF PaceInv
    <2>6. alarm.at = st.lastAlert /\ alarm.at > st.advancedAt /\ clock <= alarm.at + ReAlert + Slack
      BY <2>1, <2>2, <2>3, <2>5 DEF PaceInv
    <2>7. lowered \/ st.advancedAt >= moved
      BY <2>1, <2>4 DEF AlarmInv, SeenInv, Seen
    <2> QED
      BY <2>1, <2>2, <2>5, <2>6, <2>7
  <1> QED
    BY WatchdogInductive, <1>1, PTL
=============================================================================

---------------------------- MODULE NonceManager ----------------------------
(***************************************************************************)
(* The agent wallet's transaction nonces: NonceManager.Send                *)
(* (internal/attest/nonce.go) with the send closures of Attestor.Attest    *)
(* and OutcomeAttestor.AttestOutcome, called from the goroutines of the    *)
(* supervisor (detect, attest-pending, outcome) and from the one-shot      *)
(* commands, each of which is a process with a NonceManager of its own.    *)
(*                                                                         *)
(* The RPC node and the chain are external: what they may answer is        *)
(* modelled from how the code treats the answer.                           *)
(***************************************************************************)
EXTENDS Integers, FiniteSets

CONSTANTS
    Senders,    \* goroutines that call Send
    Processes,  \* operating-system processes, one NonceManager each
    ProcessOf,  \* the process of each sender
    Bounded,    \* senders whose RPC context carries a deadline
    NoSender,   \* the mutex is free
    MaxSends    \* bound: calls of Send in a behaviour

ASSUME SendersAssumption ==
    /\ ProcessOf \in [Senders -> Processes]
    /\ Bounded \subseteq Senders
    /\ NoSender \notin Senders
    /\ MaxSends \in Nat

VARIABLES
    mgr,        \* per process: the fields localNonce and known
    mu,         \* per process: the sender that holds the mutex
    pc,         \* per sender: where it is in Send
    nonce,      \* per sender: the nonce Send assigned
    calls,      \* how many calls of Send have started
    mined,      \* the account nonce: transactions mined so far
    pool,       \* nonces of the wallet's transactions in the mempool
    evicted,    \* nonces the mempool lost and nobody refilled
    epoch       \* history, per process: nonces acknowledged while known

vars == <<mgr, mu, pc, nonce, calls, mined, pool, evicted, epoch>>
node == <<mined, pool, evicted>>

TypeOK ==
    /\ mgr \in [Processes -> [localNonce : Nat, known : BOOLEAN]]
    /\ mu \in [Processes -> Senders \cup {NoSender}]
    /\ pc \in [Senders -> {"idle", "lock", "pending", "price", "broadcast"}]
    /\ nonce \in [Senders -> Nat]
    /\ calls \in 0..MaxSends
    /\ mined \in Nat
    /\ pool \in SUBSET Nat
    /\ evicted \in SUBSET Nat
    /\ epoch \in [Processes -> SUBSET Nat]

NewNonceManager == [localNonce |-> 0, known |-> FALSE]

Init ==
    /\ mgr = [p \in Processes |-> NewNonceManager]
    /\ mu = [p \in Processes |-> NoSender]
    /\ pc = [s \in Senders |-> "idle"]
    /\ nonce = [s \in Senders |-> 0]
    /\ calls = 0
    /\ mined = 0
    /\ pool = {}
    /\ evicted = {}
    /\ epoch = [p \in Processes |-> {}]

-----------------------------------------------------------------------------
(* The send path.                                                          *)

\* The deferred Unlock: every return of Send releases the mutex.
Return(s) ==
    /\ pc' = [pc EXCEPT ![s] = "idle"]
    /\ mu' = [mu EXCEPT ![ProcessOf[s]] = NoSender]

Call(s) ==
    /\ pc[s] = "idle"
    /\ calls < MaxSends
    /\ pc' = [pc EXCEPT ![s] = "lock"]
    /\ calls' = calls + 1
    /\ UNCHANGED <<mgr, mu, nonce, node, epoch>>

Lock(s) ==
    /\ pc[s] = "lock"
    /\ mu[ProcessOf[s]] = NoSender
    /\ mu' = [mu EXCEPT ![ProcessOf[s]] = s]
    /\ pc' = [pc EXCEPT ![s] = "pending"]
    /\ UNCHANGED <<mgr, nonce, calls, node, epoch>>

\* What PendingNonceAt may answer: the account nonce plus as many of the
\* contiguous mempool transactions as this node has heard of by now.
PendingViews == {v \in mined..(mined + MaxSends) : mined..(v - 1) \subseteq pool}

\* Fault: the counter is ignored and the node's pending value taken as it is.
AssignPendingOnly(m, pending) == pending

\* nonce = max(localNonce, pending), the local counter only once known.
Assign(m, pending) ==
    IF m.known /\ m.localNonce > pending THEN m.localNonce ELSE pending

PendingReturns(s) ==
    /\ pc[s] = "pending"
    /\ \E v \in PendingViews :
          nonce' = [nonce EXCEPT ![s] = Assign(mgr[ProcessOf[s]], v)]
    /\ pc' = [pc EXCEPT ![s] = "price"]
    /\ UNCHANGED <<mgr, mu, calls, node, epoch>>

\* Fault: the error return of PendingNonceAt keeps the mutex.
PendingFailsLocked(s) ==
    /\ pc[s] = "pending"
    /\ pc' = [pc EXCEPT ![s] = "idle"]
    /\ UNCHANGED <<mgr, mu, nonce, calls, node, epoch>>

PendingFails(s) ==
    /\ pc[s] = "pending"
    /\ Return(s)
    /\ UNCHANGED <<mgr, nonce, calls, node, epoch>>

\* SuggestGasPrice or SignTx failed: resync = false, the counter stays.
PrepareFails(s) ==
    /\ pc[s] = "price"
    /\ Return(s)
    /\ UNCHANGED <<mgr, nonce, calls, node, epoch>>

Prepared(s) ==
    /\ pc[s] = "price"
    /\ pc' = [pc EXCEPT ![s] = "broadcast"]
    /\ UNCHANGED <<mgr, mu, nonce, calls, node, epoch>>

\* The node takes a transaction for any nonce not yet mined: a free one, or one
\* the mempool holds when the new gas price is high enough to replace it.
NodeTakes(n) ==
    /\ n >= mined
    /\ pool' = pool \cup {n}
    /\ evicted' = evicted \ {n}
    /\ UNCHANGED mined

\* Faults: the counter is advanced twice, and not at all but back.
CommittedTwice(n) == [localNonce |-> n + 2, known |-> TRUE]
CommittedBack(n) == [localNonce |-> n - 1, known |-> TRUE]

Committed(n) == [localNonce |-> n + 1, known |-> TRUE]

BroadcastAcked(s) ==
    LET p == ProcessOf[s] IN
    /\ pc[s] = "broadcast"
    /\ NodeTakes(nonce[s])
    /\ mgr' = [mgr EXCEPT ![p] = Committed(nonce[s])]
    /\ epoch' = [epoch EXCEPT ![p] = @ \cup {nonce[s]}]
    /\ Return(s)
    /\ UNCHANGED <<nonce, calls>>

\* resync = true: known is dropped, localNonce is not.
Resync(s) ==
    /\ mgr' = [mgr EXCEPT ![ProcessOf[s]].known = FALSE]
    /\ epoch' = [epoch EXCEPT ![ProcessOf[s]] = {}]
    /\ Return(s)
    /\ UNCHANGED <<nonce, calls>>

\* Fault: a failed broadcast uses up its nonce.
BroadcastFailsAdvancing(s) ==
    /\ pc[s] = "broadcast"
    /\ mgr' = [mgr EXCEPT ![ProcessOf[s]] = Committed(nonce[s])]
    /\ Return(s)
    /\ UNCHANGED <<nonce, calls, node, epoch>>

\* The node refuses the transaction or never hears of it.
BroadcastFails(s) ==
    /\ pc[s] = "broadcast"
    /\ Resync(s)
    /\ UNCHANGED node

\* The node takes the transaction and the answer is lost.
AnswerLost(s) ==
    /\ pc[s] = "broadcast"
    /\ NodeTakes(nonce[s])
    /\ Resync(s)

-----------------------------------------------------------------------------
(* The environment: the chain, the mempool and process restarts.           *)

Mine ==
    /\ mined \in pool
    /\ mined' = mined + 1
    /\ pool' = pool \ {mined}
    /\ UNCHANGED <<mgr, mu, pc, nonce, calls, evicted, epoch>>

Evict(n) ==
    /\ pool' = pool \ {n}
    /\ evicted' = evicted \cup {n}
    /\ UNCHANGED <<mgr, mu, pc, nonce, calls, mined, epoch>>

Restart(p) ==
    /\ mgr' = [mgr EXCEPT ![p] = NewNonceManager]
    /\ mu' = [mu EXCEPT ![p] = NoSender]
    /\ pc' = [s \in Senders |-> IF ProcessOf[s] = p THEN "idle" ELSE pc[s]]
    /\ epoch' = [epoch EXCEPT ![p] = {}]
    /\ UNCHANGED <<nonce, calls, node>>

-----------------------------------------------------------------------------

\* The RPC steps of a sender: they end, with an answer or an error, within the
\* deadline of the sender's context if it has one.
Rpc(s) ==
    \/ PendingReturns(s)
    \/ PendingFails(s)
    \/ PrepareFails(s)
    \/ Prepared(s)
    \/ BroadcastAcked(s)
    \/ BroadcastFails(s)
    \/ AnswerLost(s)

Next ==
    \/ \E s \in Senders : Call(s) \/ Lock(s) \/ Rpc(s)
    \/ Mine
    \/ \E n \in pool : Evict(n)
    \/ \E p \in Processes : Restart(p)

Spec == Init /\ [][Next]_vars

\* Go's mutex hands itself to a waiter that has starved for a millisecond, so a
\* waiter gets it if it keeps being released; a context deadline ends the RPCs
\* of the bounded senders only; the sequencer mines the next nonce it holds.
Fairness ==
    /\ \A s \in Senders : SF_vars(Lock(s))
    /\ \A s \in Bounded : WF_vars(Rpc(s))
    /\ WF_vars(Mine)

FairSpec == Spec /\ Fairness

-----------------------------------------------------------------------------
(* Properties.                                                             *)

Sending(s) == pc[s] \in {"price", "broadcast"}

\* A nonce Send assigns was not acknowledged since the counter was last dropped:
\* whatever the node's pending view lags behind, two senders of a process never
\* share a nonce between two failed broadcasts (the claim of nonce.go's Send).
NonceFresh ==
    \A s \in Senders : Sending(s) => nonce[s] \notin epoch[ProcessOf[s]]

\* Send never opens a gap in the account's nonces: below a transaction of the
\* mempool every nonce is mined, in the mempool, or was evicted from it. Lag,
\* lost answers, restarts and a second process on the same key included.
NoGap ==
    \A n \in pool : \A m \in mined..n : m \in pool \cup evicted

\* What the manager relies on is real: while the counter is in use, everything below
\* it has reached the node.
CounterCovered ==
    \A p \in Processes :
        mgr[p].known => mined..(mgr[p].localNonce - 1) \subseteq pool \cup evicted

\* The strengthening that makes the three inductive: who is past Lock holds the
\* mutex, the counter is above what was acknowledged since it is known, the nonce
\* being sent is not below the counter, and it opens no gap.
HolderInv ==
    \A s \in Senders :
        pc[s] \in {"pending", "price", "broadcast"} => mu[ProcessOf[s]] = s
EpochInv ==
    \A p \in Processes :
        /\ mgr[p].known => \A n \in epoch[p] : n < mgr[p].localNonce
        /\ ~mgr[p].known => epoch[p] = {}
AssignedInv ==
    \A s \in Senders :
        Sending(s) =>
            /\ mgr[ProcessOf[s]].known => nonce[s] >= mgr[ProcessOf[s]].localNonce
            /\ mined..(nonce[s] - 1) \subseteq pool \cup evicted
IndInv ==
    /\ TypeOK
    /\ HolderInv
    /\ EpochInv
    /\ AssignedInv
    /\ CounterCovered
    /\ NoGap

\* A transaction in the mempool is mined unless the mempool loses one: no order
\* of sends by any number of processes wedges the account.
PooledIsMined ==
    \A n \in 0..MaxSends : n \in pool ~> (n < mined \/ evicted # {})

\* A sender with a deadline always gets out of Send, unless a sender without one
\* hangs in an RPC and keeps the mutex forever.
BoundedReturns ==
    \A s \in Bounded :
        \/ []<>(pc[s] = "idle")
        \/ <>[](mu[ProcessOf[s]] \in Senders \ Bounded)
=============================================================================

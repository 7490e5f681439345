---------------------------- MODULE RateLimiter ----------------------------
(***************************************************************************)
(* The rate limiter of the public API (internal/api/ratelimit.go): one     *)
(* lazily filled bucket per client address in a map under a mutex, and a   *)
(* janitor that removes the buckets nobody has touched for a while.        *)
(*                                                                         *)
(* Both allow and the janitor read the clock before they take the mutex,   *)
(* so requests reach the map in another order than that of their times,    *)
(* and a bucket may have been filled up to a later time already.           *)
(*                                                                         *)
(* Time is counted in ticks and allowance in units: a tick adds one unit   *)
(* and a token is Cost units, so that a fraction of a token is a number of *)
(* units and a second has Rps * Cost ticks.  rps <= 0, which disables the  *)
(* limiter, and the paths outside /api/, which wrapAPI lets pass, are left *)
(* out.                                                                    *)
(***************************************************************************)
EXTENDS Integers

CONSTANTS
    Clients,            \* client addresses
    Callers,            \* requests that may be in allow at the same time
    Rps,                \* the limit, in tokens per second
    RequestedBurst,     \* the burst asked for (NewServer: 2 * Rps)
    Cost,               \* units per token
    IdleTTL,            \* rateLimitIdleTTL, in ticks
    Delay,              \* bound: ticks between reading the clock and the mutex
    MaxClock            \* bound on the clock

\* newRateLimiter: a burst below the rate is raised to it.
Burst == IF RequestedBurst < Rps THEN Rps ELSE RequestedBurst

FullBucket == Burst * Cost    \* rateLimiter.burst

\* The most a client can gain from a time that is Delay old.
Capacity == FullBucket + Delay

ASSUME RateAssumption ==
    /\ Rps \in Nat \ {0} /\ RequestedBurst \in Nat /\ Cost \in Nat \ {0}
    /\ IdleTTL \in Nat /\ Delay \in Nat /\ MaxClock \in Nat
    /\ Clients # {}
    \* A bucket fills up long before it counts as idle.
    /\ FullBucket + 2 * Delay <= IdleTTL

VARIABLES
    clock,
    buckets,    \* the map: per client its bucket or NoBucket
    calls,      \* per handler: the request in allow and the time it has read
    sweep,      \* the time the janitor has read, or NotSweeping
    window      \* history: an observation window per client

limiterVars == <<clock, buckets, calls, sweep, window>>

NoBucket == [tokens |-> -1, last |-> 0, seen |-> 0]
Bucket == [tokens : 0..FullBucket, last : Nat, seen : Nat]
NoCall == [waits |-> FALSE, ip |-> CHOOSE c \in Clients : TRUE, at |-> 0]
Call == [waits : BOOLEAN, ip : Clients, at : Nat]
NotSweeping == -1

LimiterTypeOK ==
    /\ clock \in Nat
    /\ buckets \in [Clients -> Bucket \cup {NoBucket}]
    /\ calls \in [Callers -> Call]
    /\ sweep \in Nat \cup {NotSweeping}
    /\ window \in [Clients -> [since : Nat, served : Nat]]

LimiterInit ==
    /\ clock = 0
    /\ buckets = [c \in Clients |-> NoBucket]
    /\ calls = [h \in Callers |-> NoCall]
    /\ sweep = NotSweeping
    /\ window = [c \in Clients |-> [since |-> 0, served |-> 0]]

Present(c) == buckets[c].tokens >= 0

\* Nobody waits for the mutex longer than Delay.
Tick ==
    /\ clock < MaxClock
    /\ \A h \in Callers : calls[h].waits => clock < calls[h].at + Delay
    /\ sweep # NotSweeping => clock < sweep + Delay
    /\ clock' = clock + 1
    /\ UNCHANGED <<buckets, calls, sweep, window>>

-----------------------------------------------------------------------------
(* allow.                                                                  *)

ReadClock(h) ==
    /\ ~calls[h].waits
    /\ \E c \in Clients : calls' = [calls EXCEPT ![h] = [waits |-> TRUE, ip |-> c, at |-> clock]]
    /\ UNCHANGED <<clock, buckets, sweep, window>>

\* Fault: last takes the request's time even when that lies before it.
RefillBackwards(b, now) ==
    LET full == b.tokens + (now - b.last)
    IN  [tokens |-> IF now <= b.last THEN b.tokens ELSE IF full > FullBucket THEN FullBucket ELSE full,
         last |-> now, seen |-> now]

\* A time before the last refill adds nothing and does not move last.
Refill(b, now) ==
    LET full == b.tokens + (now - b.last)
    IN  IF now > b.last
        THEN [tokens |-> IF full > FullBucket THEN FullBucket ELSE full, last |-> now, seen |-> now]
        ELSE [b EXCEPT !.seen = now]

Answered(h) == calls' = [calls EXCEPT ![h] = NoCall]
Served(c) == window' = [window EXCEPT ![c].served = @ + 1]

AllowFirst(h) ==
    LET c == calls[h].ip
        now == calls[h].at
    IN  /\ calls[h].waits
        /\ ~Present(c)
        /\ buckets' = [buckets EXCEPT ![c] = [tokens |-> FullBucket - Cost, last |-> now, seen |-> now]]
        /\ Served(c)
        /\ Answered(h)
        /\ UNCHANGED <<clock, sweep>>

Allow(h) ==
    LET c == calls[h].ip
        b == Refill(buckets[c], calls[h].at)
    IN  /\ calls[h].waits
        /\ Present(c)
        /\ b.tokens >= Cost
        /\ buckets' = [buckets EXCEPT ![c] = [b EXCEPT !.tokens = @ - Cost]]
        /\ Served(c)
        /\ Answered(h)
        /\ UNCHANGED <<clock, sweep>>

Deny(h) ==
    LET c == calls[h].ip
        b == Refill(buckets[c], calls[h].at)
    IN  /\ calls[h].waits
        /\ Present(c)
        /\ b.tokens < Cost
        /\ buckets' = [buckets EXCEPT ![c] = b]
        /\ Answered(h)
        /\ UNCHANGED <<clock, sweep, window>>

-----------------------------------------------------------------------------
(* The janitor.                                                            *)

JanitorTicks ==
    /\ sweep = NotSweeping
    /\ sweep' = clock
    /\ UNCHANGED <<clock, buckets, calls, window>>

Idle(b, now) == b.seen < now - IdleTTL

EvictIdle ==
    /\ sweep # NotSweeping
    /\ buckets' = [c \in Clients |->
           IF Present(c) /\ Idle(buckets[c], sweep) THEN NoBucket ELSE buckets[c]]
    /\ sweep' = NotSweeping
    /\ UNCHANGED <<clock, calls, window>>

-----------------------------------------------------------------------------
\* A window of the abstract bucket begins.
Observe(c) ==
    /\ window' = [window EXCEPT ![c] = [since |-> clock, served |-> 0]]
    /\ UNCHANGED <<clock, buckets, calls, sweep>>

LimiterNext ==
    \/ Tick
    \/ \E h \in Callers : ReadClock(h) \/ AllowFirst(h) \/ Allow(h) \/ Deny(h)
    \/ JanitorTicks
    \/ EvictIdle
    \/ \E c \in Clients : Observe(c)

LimiterSpec == LimiterInit /\ [][LimiterNext]_limiterVars

-----------------------------------------------------------------------------
(* Properties.                                                             *)

\* What a bucket is worth at a time: everything a request of that time could
\* find in it, or the most it can be when there is none.
Worth(b, now) ==
    LET filled == b.tokens + (now - b.last)
    IN  IF b.tokens >= 0 /\ filled < Capacity THEN filled ELSE Capacity

Level(c) == Worth(buckets[c], clock)

TB == INSTANCE TokenBucket WITH level <- [c \in Clients |-> Level(c)]

\* The lazy buckets with their stale times and their evictions promise what
\* an eager bucket of FullBucket + Delay units does: neither a request that was
\* overtaken nor the janitor gives a client more than time has earned it.
Limited == TB!Spec
=============================================================================

----------------------------- MODULE MarketData -----------------------------
(***************************************************************************)
(* The market snapshot of the pools (internal/marketdata/reader.go): the   *)
(* dollar stables are worth 1, every other token is priced over the spot   *)
(* price of a pool that pairs it with a token already priced, until a pass *)
(* over the pools adds nothing.                                            *)
(*                                                                         *)
(* Prices are powers of two and a price is its exponent: a product is a    *)
(* sum and a quotient a difference. A figure of a snapshot is there or it  *)
(* is NULL; of the figures that are not prices only that is kept.          *)
(***************************************************************************)
EXTENDS Integers, Sequences, FiniteSets, SequencesExt

CONSTANTS
    Pools,          \* the addresses of the registry
    Order,          \* the same in the order of their addresses
    Tokens,
    Stables,        \* tokens worth a dollar
    Token0, Token1, \* per pool: its tokens
    Dex,            \* per pool: "agni", "fusionx", "merchant_moe" or another
    Spot            \* per pool: the price of token0 in token1

ASSUME MarketAssumption ==
    /\ Order \in Seq(Pools) /\ ToSet(Order) = Pools
    /\ Stables \subseteq Tokens
    /\ Token0 \in [Pools -> Tokens] /\ Token1 \in [Pools -> Tokens]
    /\ Dex \in [Pools -> STRING] /\ Spot \in [Pools -> Int]

\* ListEnabledPools: rows come in the order of their addresses.
Listed(pools) == SelectSeq(Order, LAMBDA p : p \in pools)

IsV3(p) == Dex[p] \in {"agni", "fusionx"}
IsLB(p) == Dex[p] = "merchant_moe"
IsPriceable(p) == IsV3(p) \/ IsLB(p)

\* seedStable over the pools.
Seeded(pools) == [t \in {t \in Stables : \E p \in pools : t \in {Token0[p], Token1[p]}} |-> 0]

\* A price is added to those known.
Priced(prices, t, price) == [u \in DOMAIN prices \cup {t} |-> IF u = t THEN price ELSE prices[u]]

\* A pool of which one token is priced prices the other, if its spot can be read; a
\* read that failed is not tried again.
Bridge(prices, p, readable) ==
    LET known == DOMAIN prices
        t0 == Token0[p]
        t1 == Token1[p]
    IN
    IF ~IsPriceable(p) \/ p \notin readable \/ (t0 \in known <=> t1 \in known) THEN prices
    ELSE IF t0 \in known THEN Priced(prices, t1, prices[t0] - Spot[p])
    ELSE Priced(prices, t0, prices[t1] + Spot[p])

\* A pass over the pools, in the order of their addresses.
OnePass(prices, readable) ==
    FoldLeft(LAMBDA acc, p : Bridge(acc, p, readable), prices, Order)

\* Fault: one pass over the pools.
DerivePricesOnce(pools, readable) == OnePass(Seeded(pools), readable \cap pools)

\* derivePrices: one pass more than there are pools. A pass that adds nothing ends
\* it, and would be repeated.
DerivePrices(pools, readable) ==
    FoldLeft(LAMBDA acc, i : OnePass(acc, readable \cap pools),
             Seeded(pools), [i \in 1..(Cardinality(pools) + 1) |-> i])

\* The row of a pool in pool_stats. A figure is NULL when one of its inputs is.
PoolStats(p, now, old, reserves, volumes) ==
    LET priced == Token0[p] \in DOMAIN now
        stable == Token0[p] \in Stables \/ Token1[p] \in Stables
    IN
    [priced |-> priced,
     price  |-> IF priced THEN now[Token0[p]] ELSE 0,
     change |-> priced /\ Token0[p] \in DOMAIN old,
     tvl    |-> priced /\ Token1[p] \in DOMAIN now /\ p \in reserves,
     volume |-> p \in volumes /\ (stable \/ priced)]

\* Snapshot: what could be read of each pool now, a day ago, of its reserves and of
\* its buckets.
Snapshot(pools, readable, readableOld, reserves, volumes) ==
    LET now == DerivePrices(pools, readable)
        old == DerivePrices(pools, readableOld)
    IN [p \in pools |-> PoolStats(p, now, old, reserves, volumes)]

-----------------------------------------------------------------------------
(* What the prices should be.                                              *)

\* The tokens that stables reach over pools with a spot price: the smallest set that
\* has the stables of these pools and the other token of each such pool.
Reached(pools, readable) ==
    LET closed(S) ==
            /\ DOMAIN Seeded(pools) \subseteq S
            /\ \A p \in pools \cap readable :
                  IsPriceable(p) => (Token0[p] \in S <=> Token1[p] \in S)
    IN {t \in Tokens : \A S \in SUBSET Tokens : closed(S) => t \in S}

\* What the tokens are worth in a market without arbitrage.
IsWorth(worth) ==
    /\ \A t \in Stables : worth[t] = 0
    /\ \A p \in Pools : Spot[p] = worth[Token0[p]] - worth[Token1[p]]
=============================================================================

--------------------------- MODULE MCPoolRegistry ---------------------------
(***************************************************************************)
(* Small instances of PoolRegistry. A curated Liquidity Book pool pairs    *)
(* the staked token with the native one; the native token has its price    *)
(* from another such pool, which a discovery finds and whose address comes *)
(* later. The listing service names a third one that is not what it says.  *)
(***************************************************************************)
EXTENDS PoolRegistry

CONSTANTS moe, bridge, fake, dollar, native, staked, unknown

MCOrder == <<moe, fake, bridge>>
MCToken0 == (moe :> staked) @@ (bridge :> dollar) @@ (fake :> unknown)
MCToken1 == (moe :> native) @@ (bridge :> native) @@ (fake :> dollar)
MCDex == (moe :> "merchant_moe") @@ (bridge :> "merchant_moe") @@ (fake :> "agni")
MCWorth == (dollar :> 0) @@ (native :> -1) @@ (staked :> 2) @@ (unknown :> 1)
MCSpot == [p \in Pools |-> MCWorth[MCToken0[p]] - MCWorth[MCToken1[p]]]
=============================================================================

SPECIFICATION Spec
CONSTANTS
    moe = moe
    bridge = bridge
    fake = fake
    dollar = dollar
    native = native
    staked = staked
    unknown = unknown
    Pools = {moe, bridge, fake}
    Order <- MCOrder
    Tokens = {dollar, native, staked, unknown}
    Stables = {dollar}
    Token0 <- MCToken0
    Token1 <- MCToken1
    Dex <- MCDex
    Spot <- MCSpot
    Curated = {moe}
    Named = {moe, bridge, fake}
    Decodable = {moe, bridge, fake}
    Anchored = {moe, bridge}
    Answering = {moe, bridge, fake}
    Worth <- MCWorth
    MaxRestarts = 2
    MaxEdits = 1
    MaxPasses = 1
    MaxFaults = 1
INVARIANTS IntentKept PricesRight
PROPERTIES BinStepKept
CHECK_DEADLOCK FALSE

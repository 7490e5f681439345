SPECIFICATION Spec
CONSTANTS
    e1 = e1
    e2 = e2
    pool = pool
    token = token
    aave = aave
    dollar = dollar
    wallet = wallet
    command = command
    Events = {e1, e2}
    Pools = {pool}
    StablePools = {pool}
    Token = token
    Aave = aave
    Dollar = dollar
    Wallets = {wallet}
    Other = Other
    Loop = Loop
    Commands = {command}
    Recent = 1
    Window = 0
    Cooldown = 2
    ActorCooldown = 1
    DepegCooldown = 2
    MinSwaps = 2
    DepegMinSwaps = 2
    Width = 2
    Start = 1
    Lags = {0, 2}
    MaxTime = 2
    MaxFaults = 1
INVARIANTS TypeOK HandedOnce Throttled RicherWins  LoansReported TransfersCounted
SYMMETRY Symmetry
CHECK_DEADLOCK FALSE

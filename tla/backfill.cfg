SPECIFICATION FairSpec
CONSTANTS
    pool = pool
    loop = loop
    command = command
    Pools = {pool}
    Live = loop
    Backfills = {command}
    Aggregators = {}
    MaxBlock = 5
    Confirmations = 1
    Chunk = 2
    ColdStart = 2
    Lookback = 3
    Width = 2
    RowCap = 3
    Retention = 2
    MaxLag = 1
    MaxFaults = 1
INVARIANT RawLogsRight
CHECK_DEADLOCK FALSE

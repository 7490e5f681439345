SPECIFICATION FairSpec
CONSTANTS
    Browsers = {tab}
    Handlers = {h1, h2}
    Nobody = Nobody
    NumSignals = 4
    BufferSize = 1
    MaxClients = 1
    ReplayN = 1
    ReplayCap = 1
    TailBatch = 2
    Failing = {"db", "network", "process", "slow"}
    MaxFaults = 2
INVARIANTS OpenIffRegistered InOrder NoneMissed
PROPERTIES CatchesUp
CHECK_DEADLOCK FALSE

SPECIFICATION LimiterSpec
CONSTANTS
    Clients = {a}
    Callers = {h1, h2}
    Rps = 1
    RequestedBurst = 2
    Cost = 2
    IdleTTL = 6
    Delay = 1
    MaxClock = 12
PROPERTY Limited

CHECK_DEADLOCK FALSE

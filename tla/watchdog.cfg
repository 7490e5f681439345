SPECIFICATION WatchdogSpec
CONSTANTS
    Threshold = 2
    ReAlert = 3
    MaxBlock = 2
    MaxDelay = 1
    MaxFaults = 1
    MaxClock = 14
INVARIANTS AlarmIsStall StallNoticed
CHECK_DEADLOCK FALSE

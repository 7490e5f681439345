SPECIFICATION FairSpec
CONSTANTS
    Loop = Loop
    Commands = {command}
    MaxTime = 6
    MaxSignals = 2
    Horizon = 2
    MinPre = 1
    Batch = 1
    AttestBatch = 1
    MaxFaults = 1
INVARIANTS ReportsMatch FullWindow AttestBound
PROPERTIES EventuallyRecorded
CHECK_DEADLOCK FALSE

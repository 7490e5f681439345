SPECIFICATION FairSpec
CONSTANTS
    NumSignals = 1
    Loop = Loop
    Commands = {command}
    AttestScan = 1
    EnrichBatch = 1
    Failing = {"rpc", "db", "telegram", "llm", "process"}
    MaxFaults = 1
INVARIANTS AttestBound StatusTruthful AlertHonest
PROPERTIES ProofKept EventuallyHealed
CHECK_DEADLOCK FALSE

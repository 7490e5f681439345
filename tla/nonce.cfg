SPECIFICATION FairSpec
CONSTANTS
    hot = hot
    recovery = recovery
    cli = cli
    supervisor = supervisor
    command = command
    NoSender = NoSender
    Senders = {hot, recovery, cli}
    Processes = {supervisor, command}
    ProcessOf <- MCProcessOf
    Bounded = {hot}
    MaxSends = 4
INVARIANTS NonceFresh NoGap
PROPERTIES PooledIsMined BoundedReturns

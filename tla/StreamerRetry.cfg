SPECIFICATION FairSpec
CONSTANTS
    RecordCount = 3
    ShardCount = 2
    RetryInitial = 2
    RetryMax = 5
    MaxSequence = 2
    FaultKinds = {"refused", "error", "timeout", "restart"}
    MaxFaults = 2
INVARIANTS TypeOK NothingDropped CycleComplete InOrderOnce UniqueIDs
PROPERTY KeepsGoing

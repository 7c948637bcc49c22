SPECIFICATION FairSpec
CONSTANTS
    None = None
    Pods = {0, 1, 2}
    Factor = 3
    PartitionCount = 4
    Requests = {r1, r2}
    RequestPartition <- SamePartition
    MaxStops = 2
    MaxHops = 2
INVARIANTS TypeOK UniqueLeader ForwardedOnce
PROPERTY EveryRequestAnswered

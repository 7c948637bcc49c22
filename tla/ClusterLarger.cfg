SPECIFICATION Spec
CONSTANTS
    None = None
    Pods = {0, 1, 2, 3}
    Factor = 3
    PartitionCount = 4
    Requests = {r1, r2}
    RequestPartition <- SamePartition
    MaxStops = 0
    MaxHops = 3
INVARIANT UniqueLeader

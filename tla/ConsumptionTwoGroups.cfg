SPECIFICATION Spec
CONSTANTS
    n1 = n1
    c1 = c1
    c2 = c2
    g1 = g1
    g2 = g2
    m1 = m1
    m2 = m2
    m3 = m3
    None = None
    Nodes = {n1}
    LeaderOf <- SingleLeader
    Partitions = {1}
    PartitionOf <- SinglePartition
    Keys = {g1, g2}
    KeyTopic <- AllGpu
    KeyOf <- TwoGroups
    Processors = {c1, c2}
    Messages = {m1, m2, m3}
    MsgTopic <- MixedTopics
    FaultKinds = {}
    MaxFaults = 0
INVARIANT NoMessageSkipped

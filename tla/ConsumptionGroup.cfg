SPECIFICATION FairSpec
CONSTANTS
    n1 = n1
    c1 = c1
    c2 = c2
    g1 = g1
    g2 = g2
    m1 = m1
    m2 = m2
    m3 = m3
    None = None
    Nodes = {n1}
    LeaderOf <- SingleLeader
    Partitions = {0, 1}
    PartitionOf <- SinglePartition
    Keys = {g1}
    KeyTopic <- AllGpu
    KeyOf <- OneGroup
    Processors = {c1, c2}
    Messages = {m1, m2, m3}
    MsgTopic <- MixedTopics
    FaultKinds = {"process", "ack", "restart"}
    MaxFaults = 2
INVARIANTS TypeOK NoMessageSkipped InflightBacked ExclusiveDelivery StatsAgree
PROPERTIES ImplementsOrderedDelivery EventuallyStored

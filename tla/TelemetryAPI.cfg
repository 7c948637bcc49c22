SPECIFICATION Spec
CONSTANTS
    m1 = m1
    m2 = m2
    m3 = m3
    m4 = m4
    None = None
    Absent = Absent
    Invalid = Invalid
    Writers = {w1, w2}
    Servers = {s1}
    Messages = {m1, m2, m3, m4}
    MadeAt <- MCMadeAt
    LabelsOf <- MCLabelsOf
    ValueOf <- MCValueOf
    GPURank <- MCGPURank
    ZeroTime <- MCZeroTime
    Requests <- MCRequests
    TicksPerSecond = 2
    MaxTime = 3
    MaxFaults = 1
    MaxRedeliveries = 1
    DurationBuckets = {0, 1}
    Durations = {0, 1, 2}
    Earlier <- MCEarlier
SYMMETRY Symmetry
INVARIANTS TypeOK OneSeries CopiesExplained WaitsEnd OpensAgain AnswersComplete AnswersSound ErrorsExplained MetricsAgree

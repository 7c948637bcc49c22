SPECIFICATION FairSpec
CONSTANTS
    Leader = L
    Followers = {A, B}
    Requests = {r1, r2}
    Required = 1
    MaxInFlight = 1
    FaultKinds = {"timeout", "disconnect", "follower", "leader"}
    MaxFaults = 2
INVARIANTS AcceptedAgreement WritableWithoutFaults
PROPERTY PublishDecided

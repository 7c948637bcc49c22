SPECIFICATION Spec
CONSTANTS
    Leader = L
    Followers = {A, B}
    Requests = {r1, r2}
    Required = 1
    MaxInFlight = 1
    FaultKinds = {"follower"}
    MaxFaults = 1
INVARIANT WritableWithOneDown

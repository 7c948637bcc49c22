SPECIFICATION Spec
CONSTANTS
    Leader = L
    Followers = {A, B}
    Requests = {r1, r2, r3}
    Required = 1
    MaxInFlight = 2
    FaultKinds = {"timeout", "disconnect", "follower", "leader"}
    MaxFaults = 2
SYMMETRY Symmetry
INVARIANTS TypeOK AcceptedOnQuorum FollowerLead
PROPERTIES StrandedForGood WedgedForGood

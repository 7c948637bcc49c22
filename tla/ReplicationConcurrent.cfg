SPECIFICATION Spec
CONSTANTS
    Leader = L
    Followers = {A, B}
    Requests = {r1, r2}
    Required = 1
    MaxInFlight = 2
    FaultKinds = {}
    MaxFaults = 0
SYMMETRY Symmetry
INVARIANT AcceptedAgreement

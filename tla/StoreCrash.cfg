SPECIFICATION Spec
CONSTANTS
    x = x
    y = y
    Bytes = {x, y}
    Zero = Zero
    Failed = Failed
    Requests <- SmallRequests
    Garbage = Garbage
    None = None
    Faults = {"write", "sync"}
    MaxRecords = 3
    MaxCrashes = 2
INVARIANTS TypeOK CrashSafe NoHoles RoundTrip
PROPERTIES SyncedStay ImplementsDurableLog

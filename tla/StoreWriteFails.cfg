SPECIFICATION Spec
CONSTANTS
    x = x
    y = y
    Bytes = {x, y}
    Zero = Zero
    Failed = Failed
    Requests <- SmallRequests
    Garbage = Garbage
    None = None
    Faults = {"write"}
    MaxRecords = 3
    MaxCrashes = 1
INVARIANT AckedReadable

\* One request at a time, no crash.
CONSTANTS
    Requests = {q1}
    Batches = {b1, b2, b3}
    NoBatch = NoBatch
    Contents = {"text", "empty", "broken", "unstorable"}
    MayCrash = FALSE
    MayDisconnect = FALSE
    LateCalls = {}
SPECIFICATION Spec
INVARIANT FailureIsRecorded
CHECK_DEADLOCK FALSE

\* Three requests at a time on one document, any file, failing and late stores,
\* crashes.
CONSTANTS
    Requests = {q1, q2, q3}
    Batches = {b1, b2, b3}
    NoBatch = NoBatch
    Contents = {"text", "empty", "broken", "unstorable"}
    MayCrash = TRUE
    MayDisconnect = FALSE
    LateCalls = {"put", "remove"}
SPECIFICATION Spec
INVARIANTS TypeOK OneIngestion CompletedIsWhole DeletedLeavesNothing
PROPERTIES StatusFlow
CHECK_DEADLOCK FALSE

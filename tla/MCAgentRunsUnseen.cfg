CONSTANTS
    Requests = {q1}
    Calls = {c1, c2}
    Guarded = {c1, c2}
    MaxSteps = 2
    NoCall = NoCall
SPECIFICATION Spec
INVARIANT ApprovedAsShown
CHECK_DEADLOCK FALSE

CONSTANTS
    Requests = {q1, q2}
    Calls = {c1, c2}
    Guarded = {c1, c2}
    MaxSteps = 2
    NoCall = NoCall
SPECIFICATION Spec
INVARIANT AtMostOneEffect
CHECK_DEADLOCK FALSE

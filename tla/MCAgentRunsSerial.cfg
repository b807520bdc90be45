\* One request at a time, with crashes; one call needs no approval.
CONSTANTS
    Requests = {q1}
    Calls = {c1, c2, c3}
    Guarded = {c1, c2}
    MaxSteps = 2
    NoCall = NoCall
SPECIFICATION Spec
INVARIANTS TypeOK AtMostOneEffect WaitingIsDecidable StepBudget
PROPERTIES TerminalIsFinal FollowsGate
CHECK_DEADLOCK FALSE

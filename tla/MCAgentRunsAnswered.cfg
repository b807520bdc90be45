\* Two requests at a time that take turns fairly; one of the two calls needs an
\* approval.
CONSTANTS
    Requests = {q1, q2}
    Calls = {c1, c2}
    Guarded = {c1}
    MaxSteps = 2
    NoCall = NoCall
SPECIFICATION FairSpec
PROPERTIES EveryRequestAnswered
CHECK_DEADLOCK FALSE

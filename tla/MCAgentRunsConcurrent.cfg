\* Two requests at a time; both calls need an approval.
CONSTANTS
    Requests = {q1, q2}
    Calls = {c1, c2}
    Guarded = {c1, c2}
    MaxSteps = 2
    NoCall = NoCall
SPECIFICATION Spec
SYMMETRY Symmetry
INVARIANTS NoEffectWithoutApproval ApprovalIsAudited
CHECK_DEADLOCK FALSE

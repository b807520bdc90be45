\* Two requests at a time over four questions, three chats and a run.
CONSTANTS
    Turns = {t1, t2, t3, t4}
    AgentTurns = {t1}
    Requests = {q1, q2}
    History = 2
    Budget = 3
    Size <- Sizes
    MaxPauses = 1
    Nobody = Nobody
SPECIFICATION Spec
SYMMETRY Symmetry
INVARIANTS TypeOK OwnTurnUnseen TurnIsWhole CompletedRunIsAnswered OneAnswer ResponseIsOwn
PROPERTIES WindowIsFull
CHECK_DEADLOCK FALSE

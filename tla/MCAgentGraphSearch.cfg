\* Limits on both sides of what LangGraph grants: its 7 visits are enough for a
\* limit of 2, perhaps for 3, never for 4.
CONSTANTS
    Tools = {"knowledge_search", "notify"}
    Search = "knowledge_search"
    Guarded = {"notify"}
    MaxSteps = 4
    Recursion = 7
SPECIFICATION Spec
INVARIANT SearchUsable
CHECK_DEADLOCK FALSE

\* All inputs of the pure algorithms up to these bounds.
CONSTANTS
    MaxPage = 9
    MaxWindow = 4
    MaxMessage = 5
    MaxMessages = 4
    MaxBudget = 4
    Chunks = {1, 2, 3}
    MaxResults = 3
SPECIFICATION Spec
INVARIANTS ChunksTile WindowIsLongest ContextWithinBudget TruncationIsReported FusionKeepsDominance RowsKeepEvidence RerankKeepsRecall ToolsKeepLimits

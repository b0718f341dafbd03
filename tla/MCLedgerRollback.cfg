SPECIFICATION RollbackSpec
CONSTANTS
    Arity = 2
    Depth = 2
    Absent = Absent
    None = None
    NoHead = NoHead
    Paths <- MCPaths
    HistoryPath <- MCHistoryPath
    Values = {a}
    Chained = FALSE
    MaxVersion = 3
    MaxBatch = 1
    PruneChunk = 2
INVARIANT LiveTreeReadable

SPECIFICATION CommitSpec
CONSTANTS
    Arity = 4
    Depth = 3
    Absent = Absent
    None = None
    NoHead = NoHead
    Paths <- MCPaths
    HistoryPath <- MCHistoryPath
    Values = {a, b}
    Chained = TRUE
    MaxVersion = 3
    MaxBatch = 2
    PruneChunk = 2
SYMMETRY Symmetry
CHECK_DEADLOCK FALSE
INVARIANTS FoldAgrees HashFaithful ProofsComplete ProofsSound ChangesExact

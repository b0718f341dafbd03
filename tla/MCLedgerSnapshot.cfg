SPECIFICATION SnapshotSpec
CONSTANTS
    Arity = 2
    Depth = 3
    Absent = Absent
    None = None
    NoHead = NoHead
    Paths <- MCPaths
    HistoryPath <- MCHistoryPath
    Values = {a, b}
    Chained = FALSE
    MaxVersion = 2
    MaxBatch = 2
    PruneChunk = 3
    Streams = {s1, s2}
    MaxLeaves = 1
SYMMETRY Symmetry
CHECK_DEADLOCK FALSE
INVARIANTS SnapshotExact PinnedStreamServed

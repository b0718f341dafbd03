SPECIFICATION RestoreSpec
CONSTANTS
    Arity = 2
    Depth = 3
    Absent = Absent
    None = None
    NoHead = NoHead
    Paths <- MCPaths
    HistoryPath <- MCHistoryPath
    Values = {a}
    Chained = TRUE
    MaxVersion = 4
    MaxBatch = 2
    PruneChunk = 2
    SourceCommits = 2
    ChunkLeaves = 2
CHECK_DEADLOCK FALSE
INVARIANTS ReplicaFollows AnchoredChainVerifies ReplicaReopens StampLosesNothing LeakBounded

SPECIFICATION FairSpec
CONSTANTS
    Arity = 2
    Depth = 3
    Absent = Absent
    None = None
    NoHead = NoHead
    Paths <- MCPaths
    HistoryPath <- MCHistoryPath
    Values = {a}
    Chained = TRUE
    MaxVersion = 3
    MaxBatch = 1
    PruneChunk = 2
INVARIANTS TypeOK IndInv EraseInv ReadsExact ErasureComplete Reopenable ChainVerifies
PROPERTIES PinHolds RecordsImmutable PruneReturns ImplementsVersionedMap

SPECIFICATION ScanSpec
CONSTANTS
    ScanKeys = {1, 2, 3}
    ScanVals = {1, 2}
    Absent = Absent
    ScanChunk = 2
    MaxBuffered = 1
    MaxStale = 2
    MaxCommits = 1
    Base = 4
    Strings <- MCStrings
    Schemas <- MCSchemas
    SqlNull = SqlNull
CHECK_DEADLOCK FALSE
INVARIANTS ScanAnswers ScanRaces KeyOrder RangeServed RowRoundTrip

SPECIFICATION Spec
CONSTANTS
    Sessions = {s1}
    Tables = {t1, t2}
    NoName = NoName
    Indexes = {x1, x2}
    Narrow = {2}
    Chunk = 1
    MaxTable = 2
    MaxIndex = 1
    MaxKey = 2
    SetValues = {2}
    MaxBuffered = 1
    MaxCrashes = 1
SYMMETRY Symmetry
CONSTRAINT CountersApart
INVARIANTS CatalogDurable TablesInStep FreshIds AutoIncFresh
PROPERTY EmptiedOnReturn

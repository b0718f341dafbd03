SPECIFICATION Spec
CONSTANTS
    Sessions = {s1}
    Keys = {k1, k2}
    Vals = {u1, u2}
    Null = Null
    NoRow = NoRow
    NoKey = NoKey
    NoSession = NoSession
    s1 = s1
    n1 = n1
    Names <- NoNames
    MaxVersion = 3
    MaxStmt = 1
    MaxTouched <- OneRow
    MaxCrashes = 1
SYMMETRY Symmetry
INVARIANT SecondaryExact

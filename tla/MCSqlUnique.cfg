SPECIFICATION Spec
CONSTANTS
    Sessions = {s1, s2}
    Keys = {k1, k2, k3}
    Vals = {u1}
    Null = Null
    NoRow = NoRow
    NoKey = NoKey
    NoSession = NoSession
    s1 = s1
    n1 = n1
    Names <- NoNames
    MaxVersion = 2
    MaxStmt = 1
    MaxTouched <- ThreeRows
    MaxCrashes = 0
SYMMETRY Symmetry
INVARIANT UniqueRows

SPECIFICATION Spec
CONSTANTS
    Sessions = {s1, s2}
    Keys = {k1, k2}
    Vals = {u1, Null}
    Null = Null
    NoRow = NoRow
    NoKey = NoKey
    NoSession = NoSession
    s1 = s1
    n1 = n1
    Names <- MainNames
    MaxVersion = 2
    MaxStmt = 1
    MaxTouched <- MainTouched
    MaxCrashes = 1
SYMMETRY Symmetry
INVARIANTS TxnInv MarkerSound
PROPERTIES NoLostUpdate UniqueAcross

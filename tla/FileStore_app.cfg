SPECIFICATION AppSpec
CONSTANTS
    Ids = {i1, i2, i3}
    Codes = {c1, c2, c3}
    URLs = {u1, u2}
    LongURLs = {u2}
    Users = {w1}
    NoId = NoId
    NoRec = NoRec
    MaxFile = 4
    MaxBatch = 2
SYMMETRY Symmetry
INVARIANTS UniqueActive EveryRecordReachable
PROPERTIES RegistrySpec

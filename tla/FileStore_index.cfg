SPECIFICATION AppSpec
CONSTANTS
    Ids = {i1, i2}
    Codes = {c1, c2}
    URLs = {u1}
    LongURLs = {}
    Users = {w1}
    NoId = NoId
    NoRec = NoRec
    MaxFile = 3
    MaxBatch = 2
INVARIANT IndexHoldsActiveOnly

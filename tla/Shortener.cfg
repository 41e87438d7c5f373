SPECIFICATION Spec
CONSTANTS
    Clients = {c1, c2}
    Users = {w1, w2}
    URLs = {u1}
    Codes = {k1, k2}
    NoLink = NoLink
    BatchSize = 2
    MaxCodes = 2
    MaxTasks = 1
    MaxUnsure = 1
SYMMETRY Symmetry
INVARIANTS TypeOK IssuedIsKept GoneStaysGone DeleteNotForgotten
PROPERTIES OwnerDeletes

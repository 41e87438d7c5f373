SPECIFICATION Spec
CONSTANTS
    Clients = {g1, g2}
    URLs = {u1, u2}
    NoRow = NoRow
    Nobody = Nobody
    Orphan = Orphan
    MaxConns = 1
    ChunkSize = 1
    MaxRequest = 2
INVARIANTS RowsAreReleased

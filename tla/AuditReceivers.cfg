SPECIFICATION Spec
CONSTANTS
    p1 = p1
    None = None
    Paths = {p1}
    Adapters = {a1, a2}
    Loggers = {l1, l2}
    QueueSize = 1
    MaxBatchSize = 2
    Worlds <- TheWorlds
INVARIANTS TypeOK OneWriterPerFile OpenFileUnlessClosed FactoryAgrees RefusedForAnEvent
PROPERTIES RespectsRetryAfter CloseEnds

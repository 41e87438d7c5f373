SPECIFICATION Spec
CONSTANTS
    Loggers = {l1, l2}
    Controllers = {k1, k2}
    Processors = {p1, p2}
    NoOne = NoOne
    QueueSize = 2
    MaxBatchSize = 2
    MaxEvents = 3
INVARIANTS TypeOK OneProcessor EachTriedOnce
PROPERTIES EventuallyTried CallsReturn

SPECIFICATION Spec
CONSTANTS
    Loggers = {l1}
    Controllers = {k1}
    Processors = {p1}
    NoOne = NoOne
    QueueSize = 1
    MaxBatchSize = 1
    MaxEvents = 1
INVARIANTS DisableDrains

\* Two dispatchers on one database, faults and crashes, no drain() caller; a
\* consumer may come back with other types.
SPECIFICATION Spec
CONSTANTS
    ta = ta
    tb = tb
    None = None
    Runtimes = {r1, r2}
    Publishers = {None}
    Consumers = {c1}
    Types <- TwoTypes
    Definitions <- EitherDefinition
    Callers = {}
    BatchSize = 2
    DrainPasses = 1
    StorageFaults = TRUE
    MaxEvents = 2
    MaxFaults = 1
INVARIANTS
    ExactlyOnceInOrder
    RetryHasWork
    NoWorkOutlivesItsOwner
    NeverAsleep
PROPERTY Delivery
SYMMETRY SymmetricTypes

\* One dispatcher under fairness; the consumer may come back with other types.
SPECIFICATION FairSpec
CONSTANTS
    ta = ta
    tb = tb
    None = None
    Runtimes = {r1}
    Publishers = {None}
    Consumers = {c1}
    Types <- TwoTypes
    Definitions <- BothDefinitions
    Callers = {d1}
    BatchSize = 1
    DrainPasses = 1
    StorageFaults = TRUE
    MaxEvents = 2
    MaxFaults = 1
PROPERTIES
    Handled
    DrainReturns

\* A delivery transaction fails in storage during a drain().
SPECIFICATION Spec
CONSTANTS
    ta = ta
    tb = tb
    None = None
    Runtimes = {r1}
    Publishers = {r1}
    Consumers = {c1}
    Types <- TwoTypes
    Definitions <- OneDefinition
    Callers = {d1}
    BatchSize = 1
    DrainPasses = 1
    StorageFaults = TRUE
    MaxEvents = 2
    MaxFaults = 1
PROPERTY DrainDelivers

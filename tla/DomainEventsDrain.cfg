\* One dispatcher, every event published through its State, one drain() caller.
SPECIFICATION Spec
CONSTANTS
    ta = ta
    tb = tb
    None = None
    Runtimes = {r1}
    Publishers = {r1}
    Consumers = {c1, c2}
    Types <- TwoTypes
    Definitions <- OneDefinition
    Callers = {d1}
    BatchSize = 1
    DrainPasses = 1
    StorageFaults = FALSE
    MaxEvents = 2
    MaxFaults = 1
PROPERTIES
    DrainDelivers
    SettledAtRest
SYMMETRY Symmetric

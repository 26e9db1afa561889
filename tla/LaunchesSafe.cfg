\* Two guardians, a command that changes between tries, one loss and one reboot.
SPECIFICATION Spec
CONSTANTS
    Guardians = {g1, g2}
    Commands = {c1, c2}
    None = None
    MayMissBoot = FALSE
    MaxRequests = 1
    MaxBoots = 2
    MaxLosses = 1
INVARIANTS
    Accounted
    StartedOnce
PROPERTIES
    VerdictNeedsWitness
    KeepsPromise
SYMMETRY Symmetric

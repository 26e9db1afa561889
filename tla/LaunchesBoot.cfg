\* The boot identifier is read by some controllers and not by others.
SPECIFICATION Spec
CONSTANTS
    Guardians = {g1, g2}
    Commands = {c1}
    None = None
    MayMissBoot = TRUE
    MaxRequests = 1
    MaxBoots = 2
    MaxLosses = 1
INVARIANT EndedNothingRuns
SYMMETRY Symmetric

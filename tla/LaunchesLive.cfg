\* One guardian, one loss, requests that go stale.
SPECIFICATION FairSpec
CONSTANTS
    Guardians = {g1}
    Commands = {c1}
    None = None
    MayMissBoot = FALSE
    MaxRequests = 2
    MaxBoots = 1
    MaxLosses = 1
PROPERTIES
    AgentsEnd
    Concluded

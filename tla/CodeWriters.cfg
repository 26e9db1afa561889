SPECIFICATION Spec
CONSTANTS
    MaxSessions = 2
    MaxCommits = 1
    MaxFaults = 1
INVARIANTS
    RecordAgrees
    SealsStand
PROPERTIES
    KeepsPromise
    AlwaysConcludes
CHECK_DEADLOCK FALSE

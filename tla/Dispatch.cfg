\* One runner, two lease calls at a time, one piece of work.
SPECIFICATION Spec
CONSTANTS
    Instances = {i1}
    Runners = {r1}
    Requests = {q1, q2}
    RunnerOf <- OneRunner
    Calls = {c1, c2}
    None = None
    MaxRevision = 1
    MaxSessions = 2
    MaxRoom = 1
    MaxFailures = 2
PROPERTIES
    HoldsAreSaid
    KeepsPromise
    CallsEnd

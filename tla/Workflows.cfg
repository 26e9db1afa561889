\* A task and its rounds, alone; or a plan of three instances that come to depend on each other.
SPECIFICATION Spec
CONSTANTS
    Instances = {i1, i2, i3}
    Requests = {r1, r2, r3, r4, r5, r6, r7}
    Names <- Named
    Workflows = {"task", "service", "step", "wave"}
    Definition <- Registered
    Policies <- Deployable
    Providers = {p1}
    Additions = {0, 1}
    None = None
    MaxRevision = 6
    r1 = r1
    r2 = r2
    r3 = r3
    r4 = r4
    r5 = r5
    r6 = r6
    r7 = r7
ACTION_CONSTRAINT StaysApart
SYMMETRY Symmetric
VIEW Standing
INVARIANTS
    HistoryExplains
    AppliedOnce
    LimitsHold
    EscalationHeard
    Acyclic
    PrerequisitesStand

\* One task of an operator, with one more reviewer among the members.
SPECIFICATION Spec
CONSTANTS
    ann = ann
    rob = rob
    People <- Members
    Owner = ann
    StartRole <- Roster
    Movable = {rob}
    NewRoles = {"none", "producer", "reviewer"}
    Nobody = Nobody
    Rounds = 1
    MaxSessions = 3
    MaxDeliveries = 2
    MaxClaims = 2
    Spent = 1
    MaxTurns = 2
INVARIANTS
    NothingStranded
    OneOpenReview
    DoneWasPassed
PROPERTIES
    FreshClaimsStay
    KeepsPromise
    StepFreed
    ClaimsEnd
\* The task ends.
CHECK_DEADLOCK FALSE

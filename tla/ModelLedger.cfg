\* Two sessions of one person, one of them with a budget of its own.
SPECIFICATION FairSpec
CONSTANTS
    g1 = g1
    p1 = p1
    None = None
    Grants = {g1, g2}
    Persons = {p1}
    PersonOf <- OnePerson
    BudgetOf <- OneBudget
    Fallback = 1
    Limits = {1, 2}
    MaxEstimate = 1
    Excess = 1
    MaxRequests = 1
    MaxCalls = 2
    MaxDays = 2
    MaxChanges = 1
INVARIANTS
    Accounted
    NeverOverspent
    RefusalStands
    CallsBounded
PROPERTIES
    LanesFree

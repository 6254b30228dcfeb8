CONSTANTS
    Worker = {w1, w2}
    Last = 2
    Window = 1
    Playbook = TRUE
    MaxAttempts = 2
    MaxPeople = 1
    MaxFaults = 1
SPECIFICATION FairSpec
INVARIANTS
    TypeOK
    CompletedIsConsideredUnraced
PROPERTIES
    DecidedInCharge
    LeadIsHeard
CHECK_DEADLOCK FALSE

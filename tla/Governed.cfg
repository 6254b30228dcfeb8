SPECIFICATION FairSpec
CONSTANTS
    Worker = {w1, w2}
    Plans <- MCPlans
    Stage = {new, qualified}
    FirstStage = new
    MaxDecisions = 1
    MaxEvents = 1
    MaxFaults = 1
\* The number of decisions is bounded.
CHECK_DEADLOCK FALSE
INVARIANTS
    TypeOK
    EffectsOnce
    MovesEndWithOwnership
    AppliedIsSettled
PROPERTIES
    ActionsEnd

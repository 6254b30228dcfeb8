\* Two workers, two attempts that quiet hours move, failed calls that are
\* retried, a handoff that is taken back.  No symmetry: temporal properties are
\* checked.
CONSTANTS
    NoTimer = NoTimer
    Worker = {w1, w2}
    Last = 2
    Frozen = {1, 2}
    Mixed = {2}
    Plans <- PlansNone
    Copies = 2
    MaxDefers = 1
    MaxThrows = 2
    MaxRefires = 0
    MaxCrashes = 0
    MaxRuns = 1
    MaxEdits = 0
    MaxHandoffs = 1
    Stops = {}
SPECIFICATION FairSpec
PROPERTIES
    PlanCarriedOut
    HandoffIsShown
\* The cadence ends.
CHECK_DEADLOCK FALSE

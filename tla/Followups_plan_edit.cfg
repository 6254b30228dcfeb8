\* Three attempts, one worker, one edit of the card that drops an attempt.
CONSTANTS
    NoTimer = NoTimer
    Worker = {w1}
    Last = 3
    Frozen = {1, 2, 3}
    Mixed = {}
    Plans <- PlansThree
    Copies = 2
    MaxDefers = 0
    MaxThrows = 2
    MaxRefires = 0
    MaxCrashes = 0
    MaxRuns = 1
    MaxEdits = 1
    MaxHandoffs = 0
    Stops = {}
SPECIFICATION Spec
INVARIANT SentWasAccepted
\* The cadence ends.
CHECK_DEADLOCK FALSE

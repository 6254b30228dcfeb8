\* Two attempts, two workers that may come to hold the same timer, a crash
\* anywhere, refused, failed and lost calls, a lead who replies, a card that
\* is switched off.
CONSTANTS
    NoTimer = NoTimer
    Worker = {w1, w2}
    Last = 2
    Frozen = {1, 2}
    Mixed = {}
    Plans <- PlansNone
    Copies = 2
    MaxDefers = 0
    MaxThrows = 2
    MaxRefires = 1
    MaxCrashes = 1
    MaxRuns = 1
    MaxEdits = 1
    MaxHandoffs = 0
    Stops = {"replied"}
SPECIFICATION Spec
SYMMETRY MCSymmetry
INVARIANTS
    TypeOK
    EachAttemptOnce
    SentWasAcceptedUnedited
    AtMostOneAfterStop
    ChainIsKept
\* The cadence ends.
CHECK_DEADLOCK FALSE

\* Two timers of one key, two workers and a caller beside the cancellations
\* and the reschedulings that may happen at any time.
CONSTANTS
    t1 = t1
    t2 = t2
    k1 = k1
    NoKey = NoKey
    NoOne = NoOne
    Worker = {w1, w2}
    Caller = {c1}
    Key <- MCKey
    Row <- TwoTimers
    KeyOf <- KeyOfTwo
    MaxAttempts = 1
    MaxAbandons = 1
    MaxLapses = 1
SPECIFICATION FairSpec
INVARIANTS
    TypeOK
    LeaseFencing
    NoOverlapWithoutLapse
PROPERTIES
    TimersSettle
    ImplementsContract
\* Ids run out in a bounded instance; the service itself never stops.
CHECK_DEADLOCK FALSE

\* One event, two endpoints of which one is refused by the target check, two
\* workers, two attempts of a delivery and three of a request, a crash and a
\* lapsed lease.
CONSTANTS
    NoOne = NoOne
    NoCall = NoCall
    Row = {d1}
    Endpoint = {p1, p2}
    Internal = {p2}
    Worker = {w1, w2}
    MaxRetries = 2
    MaxAttempts = 2
    MaxAbandons = 1
    MaxLapses = 1
SPECIFICATION FairSpec
INVARIANTS
    TypeOK
    AcknowledgedIsAttempted
    TwiceOnlyAfterRetry
PROPERTY RetriesEnd
\* Events run out in a bounded instance; the ingress itself never stops.
CHECK_DEADLOCK FALSE

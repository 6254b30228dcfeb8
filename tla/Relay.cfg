\* One event, two relays, put back twice.
CONSTANTS
    NoOne = NoOne
    Row = {e1}
    Worker = {w1, w2}
    MaxAttempts = 2
    MaxAbandons = 1
    MaxLapses = 2
    MaxReprocess = 2
SPECIFICATION FairRelaySpec
INVARIANTS
    RelayTypeOK
    HolderIsCurrent
PROPERTY EventsSettle
\* Events run out in a bounded instance; the relay itself never stops.
CHECK_DEADLOCK FALSE

\* One delivery, mapped or not, two workers, a plan of two actions.
CONSTANTS
    NoOne = NoOne
    Nobody = Nobody
    d1 = d1
    a1 = a1
    a2 = a2
    Row = {d1}
    Worker = {w1, w2}
    Automation <- TwoAutomations
    Plan <- PlanOfTwo
    MaxPerHour = 1
    MaxAttempts = 2
    MaxAbandons = 1
    MaxLapses = 1
SPECIFICATION Spec
INVARIANTS
    TypeOK
    DeliveredIsRecorded
    EffectsFollowThePlan
\* Events run out in a bounded instance; the ingress itself never stops.
CHECK_DEADLOCK FALSE

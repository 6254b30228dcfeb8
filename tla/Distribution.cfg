CONSTANTS
    Worker = {w1, w2}
    Lead = {l1, l2}
    ana = ana
    bia = bia
    Member <- MCMember
    Nobody = Nobody
    Pools <- TwoPools
    Strategies = {"round_robin", "by_channel"}
    Edits = {"name", "participants", "metadata"}
    MaxByPeople = 1
    MaxCrashes = 1
SPECIFICATION FairSpec
INVARIANTS
    TypeOK
    TurnsInOrder
PROPERTIES
    OwnerKept
    OwnerIsTold
CHECK_DEADLOCK FALSE

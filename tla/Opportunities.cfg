CONSTANTS
    Request = {r1, r2}
    k = k
    sales = sales
    service = service
    Key <- MCKey
    NoKey = NoKey
    MaxCards = 3
    MaxCommands = 4
    MaxCopies = 1
    Pipelines <- MCPipelines
    Stages = {"first", "won"}
    Sent <- MCSent
SPECIFICATION LifecycleSpec
SYMMETRY MCSymmetry
INVARIANTS
    LifecycleTypeOK
    OpenIsPrimary
    OneLineOfCycles
    KeyActsOnce
    VersionedPatchKeeps
CHECK_DEADLOCK FALSE

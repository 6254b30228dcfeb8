SPECIFICATION Spec
CONSTANTS
    Worker = {w1}
    Plans <- ReplyAndHandoff
    Stage = {new, qualified}
    FirstStage = new
    MaxDecisions = 1
    MaxEvents = 1
    MaxFaults = 0
CHECK_DEADLOCK FALSE
PROPERTIES
    AssumedIsKept

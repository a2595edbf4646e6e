SPECIFICATION FwSpec
CONSTANTS
    FwRules = {"a", "bad"}
    MaxRules = 1
    Refused = {"bad"}
    FwReqs = {"q1", "q2"}
    MaxFwFaults = 1
    MaxFwRestarts = 1
PROPERTIES
    UpdateTakesEffect
CHECK_DEADLOCK FALSE

SPECIFICATION TokSpec
CONSTANTS
    TokenIds = {"t1"}
    TokUsers = {"u1"}
    TokPerms = {"vm"}
    TokReqs = {"q1", "q2"}
    TouchAfter = 1
    MaxTokTime = 3
INVARIANTS RevokedTokenIsGone
CHECK_DEADLOCK FALSE

SPECIFICATION LockFairSpec
CONSTANTS
    Authenticates = {a1}
    Logins = {l1}
    Deletes = {d1}
    Admins = {d1}
PROPERTIES
    EveryRequestReturns
CHECK_DEADLOCK FALSE

SPECIFICATION RSpec
CONSTANTS
    Vms = {}
    Cts = {}
    Bridges = {}
    Passes = {p1, p2, p3}
    Reqs = {q1, q2}
    Deciders = {}
    Workers = {}
    QIds = {}
    MaxDrift = 0
    MaxFaults = 0
    MaxCrashes = 0
INVARIANTS
    SingleUse
CHECK_DEADLOCK FALSE

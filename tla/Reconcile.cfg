SPECIFICATION MCSpec
CONSTANTS
    Vms = {v1}
    Cts = {c1}
    Bridges = {b1}
    Passes = {p1, p2, p3}
    Reqs = {q1}
    Deciders = {d1, d2}
    Workers = {w1}
    QIds = {k1, k2, k3}
    MaxDrift = 2
    MaxFaults = 1
    MaxCrashes = 1
SYMMETRY ReconcileSymmetry
INVARIANTS
    SuccessMeansRepaired
    AdoptedIsManaged
CHECK_DEADLOCK FALSE

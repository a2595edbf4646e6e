SPECIFICATION ASpec
CONSTANTS
    Users = {u1, u2, u3}
    Names = {n1, n2, n3}
    Reqs = {r1}
    Tokens = {}
    MaxPw = 2
    MaxGen = 0
    MaxAuthCrashes = 1
    MaxAuthFaults = 0
    MaxDrops = 1
SYMMETRY AuthSymmetry
INVARIANTS
    AdminRemains
CHECK_DEADLOCK FALSE

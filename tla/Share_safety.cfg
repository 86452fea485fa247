SPECIFICATION Spec
CONSTANTS
    p1 = p1
    p2 = p2
    r1 = r1
    r2 = r2
    r3 = r3
    v1 = v1
    v2 = v2
    Procs = {p1, p2}
    Reads = {r1, r2, r3}
    Foreign = {}
    Revokes = {v1, v2}
    Creator = p1
    ProcOf <- Placement
    Limit = 1
    MaxFaults = 1
SYMMETRY SameProcess
CHECK_DEADLOCK FALSE
INVARIANTS TypeOK DeliveredCounted EndIsFinal RevokedReadDropped ReservationKept

SPECIFICATION Spec
CONSTANTS
    c1 = c1
    c2 = c2
    c3 = c3
    n1 = n1
    Sessions = {s1}
    Commands = {c1}
    Op <- OneNote
    Notes = {n1}
    Audits = {a1}
    Devices = {d1}
    NoCmd = NoCmd
    NoEvent = NoEvent
    AuditBlock = 2
    PageLimit = 2
    MaxTracked = 1
    MaxCursor = 3
    MaxFaults = 0
CHECK_DEADLOCK FALSE
INVARIANTS NothingSkipped

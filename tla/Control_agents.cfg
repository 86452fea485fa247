SPECIFICATION LiveSpec
CONSTANTS
    c1 = c1
    c2 = c2
    c3 = c3
    n1 = n1
    Sessions = {s1, s2}
    Commands = {c1, c2}
    Op <- TwoAgents
    Notes = {n1}
    Audits = {}
    Devices = {}
    NoCmd = NoCmd
    NoEvent = NoEvent
    AuditBlock = 2
    PageLimit = 1
    MaxTracked = 1
    MaxCursor = 4
    MaxFaults = 1
CHECK_DEADLOCK FALSE
INVARIANTS NeverExecutesTwice LogTellsOneStory
PROPERTIES ImplementsRemoteCommand TasksReturn

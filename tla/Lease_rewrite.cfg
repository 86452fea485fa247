\* A write after the request was completed.
CONSTANTS
    r1 = r1
    r2 = r2
    s1 = s1
    Replicas = {r1}
    Sessions = {s1}
    NoOwner = NoOwner
    Skew <- NoSkew
    LeaseSecs = 2
    DecayOn = FALSE
    PruneOn = FALSE
    MaxTime = 3
    WriteTime = 3
    FaultTime = 0
    MaxCrash = 0
SPECIFICATION LiveSpec
PROPERTIES WritesConsolidated

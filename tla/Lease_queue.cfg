\* Runs of any length, crashes, failed and lost storage calls.
CONSTANTS
    r1 = r1
    r2 = r2
    s1 = s1
    Replicas = {r1, r2}
    Sessions = {s1}
    NoOwner = NoOwner
    Skew <- NoSkew
    LeaseSecs = 2
    DecayOn = TRUE
    PruneOn = TRUE
    MaxTime = 3
    WriteTime = 1
    FaultTime = 1
    MaxCrash = 1
SPECIFICATION LiveSpec
INVARIANTS TypeOK AttemptCountExact CompletionFenced RunLogBacked OneConsolidator
PROPERTIES NoLiveSteal ImplementsLeasedJob RequestFinishes

\* Purge and recovery with the tenant's own context, operations one by one.
SPECIFICATION Spec
CONSTANTS
    s1 = s1
    j1 = j1
    e1 = e1
    t1 = t1
    t2 = t2
    NoEnt = NoEnt
    Servers <- OneServer
    Jobs <- OneJob
    Entities <- OneEntity
    Tenant = t1
    JobTenant = t1
    JobGraph = FALSE
    Overlap = FALSE
    Lifecycle = TRUE
    HighImpact = 3
    TokenTtl = 1
    PurgeDays = 0
    MaxTime = 2
    MaxForgets = 2
    MaxTokens = 1
    MaxSelect = 2
    MaxEdits = 1
    MaxFaults = 2
CHECK_DEADLOCK FALSE
INVARIANTS UnfinishedIsListed RecordImpliesTorn
PROPERTIES ConfirmIsComplete RecoveredIsDisposed

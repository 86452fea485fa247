\* The job as run_decay_and_forget wires it: another tenant, no graph client.
SPECIFICATION FairSpec
CONSTANTS
    s1 = s1
    j1 = j1
    e1 = e1
    t1 = t1
    t2 = t2
    NoEnt = NoEnt
    Servers <- OneServer
    Jobs <- OneJob
    Entities <- OneEntity
    Tenant = t1
    JobTenant = t2
    JobGraph = FALSE
    Overlap = TRUE
    Lifecycle = FALSE
    HighImpact = 3
    TokenTtl = 1
    PurgeDays = 0
    MaxTime = 1
    MaxForgets = 1
    MaxTokens = 1
    MaxSelect = 1
    MaxEdits = 0
    MaxFaults = 2
CHECK_DEADLOCK FALSE
PROPERTIES JournalConverges

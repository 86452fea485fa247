SPECIFICATION Spec
CONSTANTS
    w1 = w1
    w2 = w2
    w3 = w3
    u1 = u1
    u2 = u2
    Workers = {w1, w2}
    Filers = {w1}
    Urls = {u1, u2}
    Bands <- OneBand
    Band <- HighBand
    NoUrl = NoUrl
    Found <- Archive
    MaxItems = 3
    MaxRuns = 2
    ClaimDays = 1
    ExpiryDays = 2
    PageLimit = 1
    MaxDay = 1
    Outcomes = {"approved"}
    MaxDecisions = 1
    MaxFaults = 1
CHECK_DEADLOCK FALSE
INVARIANTS QueuesAgree FiledOnce ClaimsShown

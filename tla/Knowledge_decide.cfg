SPECIFICATION Spec
CONSTANTS
    w1 = w1
    w2 = w2
    w3 = w3
    u1 = u1
    u2 = u2
    Workers = {w1, w2, w3}
    Filers = {w1}
    Urls = {u1}
    Found <- OneSession
    Bands <- OneBand
    Band <- HighBand
    NoUrl = NoUrl
    MaxItems = 1
    MaxRuns = 1
    ClaimDays = 1
    ExpiryDays = 2
    PageLimit = 1
    MaxDay = 0
    Outcomes = {}
    MaxDecisions = 2
    MaxFaults = 0
CHECK_DEADLOCK FALSE
PROPERTY RejectionStands

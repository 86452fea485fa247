SPECIFICATION LiveSpec
CONSTANTS
    Runners = {r1}
    Objects <- MCObjects
    Contract <- MCContract
    Boot <- MCBoot
    Later <- MCLater
    Migs <- MCMigs
    Baseline = 19
    Swap = 36
    Feedback = "fb"
    Staging = "staging"
    Rows = {1, 2}
    Installs <- MCInstalls
    ProbeFails = FALSE
    MaxFaults = 3
CHECK_DEADLOCK FALSE
INVARIANTS DataKept ReadySchema
PROPERTIES Converges

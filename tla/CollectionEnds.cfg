SPECIFICATION FairSpec
CONSTANTS
    Months = {1}
    Latest = {1}
    Jobs = {j1}
    Workers = {w1, w2}
    Admin = Admin
    Nobody = Nobody
    NoJob = NoJob
    MaxAttempts = 2
    LeaseTicks = 1
    MaxUsage = 0
    MaxCrashes = 0
    MaxEdits = 1
CHECK_DEADLOCK FALSE
PROPERTIES
    RunEnds
    AdminEnds

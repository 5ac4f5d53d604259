SPECIFICATION FairSpec
CONSTANTS
    ka = ka
    kb = kb
    kg = kg
    s1 = s1
    Sources = {s1}
    NoSource = NoSource
    KeySource <- SourceOfKey
    KeyMax <- AttemptsOfKey
    KeyPriority <- PriorityOfKey
    Admin = Admin
    Nobody = Nobody
    NoJob = NoJob
    Jobs = {j1, j2}
    Keys = {ka, kb}
    Workers = {w1, w2}
    Clients = {c1}
    LeaseTicks = 1
    MaxCrashes = 1
    MaxStops = 0
PROPERTIES
    EventuallySettled

SPECIFICATION Spec
CONSTANTS
    ka = ka
    kb = kb
    kg = kg
    s1 = s1
    Sources = {s1}
    NoSource = NoSource
    KeySource <- SourceOfKey
    KeyMax <- AttemptsOfKey
    KeyPriority <- PriorityOfKey
    Admin = Admin
    Nobody = Nobody
    NoJob = NoJob
    Jobs = {j1, j2, j3}
    Keys = {ka, kb}
    Workers = {w1, w2}
    Clients = {c1}
    LeaseTicks = 1
    MaxCrashes = 1
    MaxStops = 0
SYMMETRY WorkerJobSymmetry
INVARIANTS
    OneLeasePerSource
    RetryBudget
    FencingToken
PROPERTIES
    SettledStaysSettled

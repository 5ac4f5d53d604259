SPECIFICATION FairSpec
CONSTANTS
    Roles = {a, b, c}
    Invocations = {i1, i2}
    Idle = Idle
    Reserved = TRUE
    Capacity = 2
    MaxReads = 2
    MaxReconciles = 1
INVARIANTS
    TypeOK
PROPERTIES
    ImplementsRoleGrants
    SavedIsGranted

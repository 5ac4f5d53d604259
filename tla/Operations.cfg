SPECIFICATION OperationsSpec
CONSTANTS
    Roles = {a, b}
    Invocations = {v1, v2}
    Idle = Idle
    Reserved = FALSE
    Capacity = 3
    MaxReads = 1
    MaxReconciles = 2
    Pair = {v1, v2}
    Base = Base
    None = None
    Nobody = Nobody
    Code = Code
SYMMETRY Symmetry
CONSTRAINT Explored
CHECK_DEADLOCK FALSE
INVARIANTS
    OperationsTypeOK
    GrantsAreRecorded
    HostIsRecoverable
    CredentialsAreFresh
PROPERTIES
    RegistrationsAreKept
    ReportsAreTrue
    AdministratorRemains

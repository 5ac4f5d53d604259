SPECIFICATION Spec
CONSTANTS
    Months = {1, 2}
    Latest = {2}
    Jobs = {j1}
    Workers = {w1, w2}
    Admin = Admin
    Nobody = Nobody
    NoJob = NoJob
    MaxAttempts = 2
    LeaseTicks = 1
    MaxUsage = 2
    MaxCrashes = 1
    MaxEdits = 3
SYMMETRY WorkerJobSymmetry
CONSTRAINT Explored
CHECK_DEADLOCK FALSE
INVARIANTS
    TypeOK
    ImportedMeansAll
    ProgressIsPublished
PROPERTIES
    RevisionCountsPublications
    NewestDataWins
    FailureIsCurrent
    NoStalePublication

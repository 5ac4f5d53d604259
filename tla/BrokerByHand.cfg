SPECIFICATION HandSpec
CONSTANTS
    Roles = {a, b}
    Invocations = {i1}
    Idle = Idle
    Reserved = TRUE
    Capacity = 2
    MaxReads = 1
    MaxReconciles = 0
PROPERTIES
    UnknownGrantsAreReviewed

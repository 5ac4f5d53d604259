SPECIFICATION ProgressSpec
CONSTANTS
    Requests = {q1, q2}
    Nobody = Nobody
    MaxVersions = 2
    MaxAttempts = 2
    MaxEdits = 1
CHECK_DEADLOCK FALSE
PROPERTIES
    RequestsEnd
    SlotIsPulled
    
    RecordsConverge

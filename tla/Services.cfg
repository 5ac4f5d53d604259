SPECIFICATION ServicesSpec
CONSTANTS
    Pair = {v1, v2}
    Nobody = Nobody
    Requests = {v1, v2}
    MaxVersions = 2
    MaxAttempts = 2
    MaxEdits = 2
SYMMETRY Symmetry
CONSTRAINT Explored
CHECK_DEADLOCK FALSE
INVARIANTS
    ServicesTypeOK
    
    
PROPERTIES
    ActivationIsSound
    SlotPulledOnce
    SettledIsKept

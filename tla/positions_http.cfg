\* Requests overlap at the cache, at Traccar and at Mapbox while positions are recorded.
SPECIFICATION Spec
CONSTANTS
    d1 = d1
    d2 = d2
    None = None
    Devices <- MCDevices
    Fixes <- MCFixes
    Asks <- MCAsks
    r1 = r1
    r2 = r2
    Requests = {r1, r2}
    Threshold = 2
INVARIANTS
    TypeOK
    ShiftedOnce
    
    NoStretchVanishes
    
PROPERTY
    StaleDataGoes

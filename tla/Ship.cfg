SPECIFICATION Spec
CONSTANTS
    Stores = {"vec"}
    MaxChunk = 1
    RetainManifests = 2
    MaxRecords = 2
    MaxFiles = 2
    MaxFaults = 1
    PowerFails = TRUE
INVARIANT ManifestsRestorable
INVARIANT RestoreCoversTick
CHECK_DEADLOCK FALSE

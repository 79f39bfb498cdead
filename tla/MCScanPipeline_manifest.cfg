SPECIFICATION Spec
CONSTANTS
    c1 = c1
    c2 = c2
    Nothing = Nothing
    Failed = Failed
    Sources <- MCSources
    Contents <- MCContents
    Selections <- MCSelections
    HashWorkers = 2
    MaxWorkers = 1
    MaxScans = 2
    MaxEdits = 0
    MaxDamage = 1
    MidScanEdits = FALSE
    ReadFaults = FALSE
PROPERTIES
    MalformedManifestIgnored
CHECK_DEADLOCK FALSE

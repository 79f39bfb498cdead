SPECIFICATION FairSpec
CONSTANTS
    c1 = c1
    c2 = c2
    Nothing = Nothing
    Failed = Failed
    Sources <- MCSources
    Contents <- MCContents
    Selections <- MCSelections
    HashWorkers = 2
    MaxWorkers = 2
    MaxScans = 3
    MaxEdits = 2
    MaxDamage = 1
    MidScanEdits = FALSE
    ReadFaults = FALSE
INVARIANTS
    ReuseIsExact
PROPERTIES
    ImplementsColdScan
    ScanEnds
CHECK_DEADLOCK FALSE

SPECIFICATION FairSpec
CONSTANTS
    o1 = o1
    o2 = o2
    o3 = o3
    refit = refit
    scenario = scenario
    verify = verify
    ScanButton = ScanButton
    None = None
    Ops <- MCOps2
    Controls <- MCControlsAll
    Checked <- MCChecked
    Cancellable <- MCCancellable
    Standalone <- MCStandalone
    MaxScans = 2
INVARIANTS
    MergeUpToDate
    ControlsRecover
    CloseWaitsForThreads
PROPERTIES
    ShownExactlyWhenAwaited
    ScanAdoptedUnlessCancelled
    ImplementsRegistry
    ScanEnds
    CloseCompletes
CHECK_DEADLOCK FALSE

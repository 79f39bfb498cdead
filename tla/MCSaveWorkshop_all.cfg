SPECIFICATION MCSpec
CONSTANTS
    t1 = t1
    t2 = t2
    s1 = s1
    s2 = s2
    r1 = r1
    None = None
    Tasks <- MCTasks
    Saves <- MCSaves
    Requests <- MCRequests
    MaxRuns = 5
    MaxChanges = 4
    few = few
    many = many
    Nothing = Nothing
    Torn = Torn
    Jobs <- MCTasks
    Files <- MCFilesBak
    Versions <- MCSaves
    Values <- MCValues
    MaxEdits = 2
SYMMETRY Symmetry
INVARIANTS
    PlanIsOfScreen
    WrittenIsPlanned
    
    VerifiedIsReviewed
PROPERTIES
    ReportedUnlessWritingAgain
    MakerOnly
CHECK_DEADLOCK FALSE

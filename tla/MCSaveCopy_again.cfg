SPECIFICATION Spec
CONSTANTS
    j1 = j1
    old = old
    new = new
    few = few
    many = many
    Nothing = Nothing
    Torn = Torn
    Jobs <- MCJobs
    Files <- MCFilesBak
    Versions <- MCVersions
    Values <- MCValues
    MaxEdits = 0
SYMMETRY Symmetry
INVARIANTS
    ReverifyAgrees
CHECK_DEADLOCK FALSE

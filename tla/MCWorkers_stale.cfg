SPECIFICATION MCSpec
CONSTANTS
    None = None
    Unknown = None
    Weapon <- MCWeapon
    Hullmod <- MCHullmod
    Wing <- MCWing
    Incompatible = {}
    MaxLogistics = 2
    MaxHullmods = 2
    Hulls <- MCHulls
    Requests <- MCRequests
    Id <- MCId
    Ships <- MCShips
    Fits <- MCFits
    LockSets <- MCLockSets
    MaxChanges = 4
    MinGain = 1
    Metric <- MCMetric
    InRange <- MCInRange
    RoleSignal = TRUE
    Nil = None
    CommonAt = 2
    Worlds <- MCWorlds
    HeuristicSets <- MCHeuristicSets
    Policies <- MCPolicies
    Roles = {"line", "pd"}
    RoleBuilds <- MCRoleBuilds
    RoleProfile <- MCRoleProfile
    BuildProfile <- MCBuildProfile
    Scenarios = {"raid"}
    Fit <- MCFit
    Count = 2
    Adequate = 6
    RefitMinGain = 1
    Scans <- MCScans
    Orders <- MCOrders
    ScenarioProfiles <- MCScenarioProfiles
    LogisticsNeeds = {"HAUL"}
    Mobility = "MOVE"
    FocusNeeds <- MCFocusNeeds
    Purpose <- MCPurpose
    FitProfile <- MCFitProfile
    FleetCount = 2
    Varied = TRUE
    Composed = TRUE
    HullIds = {"h1", "h2"}
    Weapons = {"w"}
    Hullmods = {"m"}
    Variants = {"v"}
    Factions = {"f"}
    Mods = {"core", "mod"}
    ModOf <- MCModOf
    Homes = {"ships", "guns", "mods", "v", "f"}
    Home <- MCHome
    Rows <- MCRows
    Contents = {1, 2}
    Gone = 0
    Loadout <- MCLoadout
    KnownIn <- MCKnown
    Heuristics = {"a"}
    Settings = {"a"}
    NoFaction = NoFaction
    NoAnswer = NoAnswer
    MaxEdits = 2
    MaxScans = 3
    MaxCrashes = 1
    MaxFileEdits = 2
    MaxCommands = 3
    Workers = {"results"}
INVARIANT CachedIsExact
CHECK_DEADLOCK FALSE

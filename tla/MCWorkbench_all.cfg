SPECIFICATION MCSpec
CONSTANTS
    starter = starter
    generated = generated
    edit1 = edit1
    edit2 = edit2
    Nothing = Nothing
    Ids <- MCStarters
    UserIds <- MCStarters
    PopulateIds <- MCStarters
    Texts <- MCTexts
    Generated <- MCGenerated
    Missing = Missing
    Hulls <- MCHulls
    Meant <- MCMeant
    RawRows <- MCRawRows
    Parts = {"gun"}
    PartAliases <- MCPartAliases
    Variant <- MCVariant
    GeneratedBuilds <- MCGeneratedBuilds
    Advised <- MCAdvised
    SetOrder <- MCSetOrder
    Fixtures <- MCFixtures
    MaxUpdates = 1
    MaxCrashes = 1
    MaxAliases = 1
    SaveFolders <- MCFolders
    Catalogs <- MCCatalogs
    Asked <- MCAsked
    IntMax = 20
    Exact = 8
    Cent = 2
    Sections = {"player"}
    MaxCopies = 1
    Absent = Absent
    Gone = Gone
    Broken = Broken
    GameRoot = "game"
    InstalledRoots <- MCInstalled
    EnabledMods = {2, 6, 7}
    Faults <- MCFaults
    Folders <- MCModFolders
    DropSets <- MCDrops
    Archives = {"za", "zb"}
    StemFolder <- MCStem
    Wrapped <- MCWrapped
    FirstDisk <- MCFirstDisk
    MayHold <- MCMayHold
    FirstZips <- MCZips
    ArchiveTexts <- MCZipTexts
    MaxChanges = 1
    MaxDrops = 2
    AdapterMods = {"range", "armor"}
    Modelled = {"range"}
    CheckPaths <- MCPaths
    FolderAt <- MCFolderAt
    NamedBy <- MCNamedBy
    ChunkSize = 1
    MaxAudits = 3
    MaxDeaths = 2
    NotOurs = NotOurs
    NoFile = NoFile
    ExportIds = {"line"}
    SourceIds = {"hull", "gun", "beam"}
    HullOf <- MCHullOf
    Installs <- MCInstalls
    HeuristicSets = {"early", "late"}
    Fit <- MCFit
    Machines = {"library", "calibration", "edits", "mods", "checks", "export"}
INVARIANTS
    ExportIsTraceable
    MergeAgreesWithRescan
    CheckIsOfTheFolder
    AuditIsWhole
    ApprovalIsAccounted
    BuildsJudgedOnTheirOwn
    CapacityKept
    VerdictIsTrue
PROPERTIES
    NothingLost
    OnlyConfirmedReplaces

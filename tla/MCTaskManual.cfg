CONSTANTS
    Files = {"a"}
    PackageFiles = {}
    TestFiles = {}
    DocsFiles = {}
    CriticalFiles = {}
    NoDir = NoDir
    Dir <- MCDir
    KnownTasks = {"t1"}
    Owners <- MCOwners
    FileSets <- MCFileSets
    Repos = {"repo"}
    Branches = {"t1"}
    RepoOf <- MCRepoOf
    BranchOf <- MCBranchOf
    Requests = {q1, q2}
    PolicyDenied = {}
    ReviewRequired = {}
    MaxLeases = 2
    MaxSimulations = 2
    MaxEntries = 2
    MaxClock = 0
    MaxRuns = 3
    Events = {"manual", "run_agent", "cancel", "throw"}
SPECIFICATION Spec
PROPERTY NoRunAfterCancel
SYMMETRY RequestSymmetry
CHECK_DEADLOCK FALSE

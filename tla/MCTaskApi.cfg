CONSTANTS
    Files = {"a"}
    PackageFiles = {}
    TestFiles = {}
    DocsFiles = {}
    CriticalFiles = {}
    NoDir = NoDir
    Dir <- MCDir
    KnownTasks = {"t1"}
    Owners <- MCOwners
    FileSets <- MCFileSets
    Repos = {"repo"}
    Branches = {"t1"}
    RepoOf <- MCRepoOf
    BranchOf <- MCBranchOf
    Requests = {q1}
    PolicyDenied = {}
    ReviewRequired = {}
    MaxLeases = 2
    MaxSimulations = 1
    MaxEntries = 2
    MaxClock = 1
    MaxRuns = 1
    Events = {"git_api", "simulate", "settle", "sync"}
SPECIFICATION Spec
INVARIANT SucceededRunsQueued
PROPERTIES
    RefinesConflictManager
    CompletedOnlyWhenClear
CHECK_DEADLOCK FALSE

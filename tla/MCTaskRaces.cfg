CONSTANTS
    Files = {"a"}
    PackageFiles = {}
    TestFiles = {}
    DocsFiles = {}
    CriticalFiles = {}
    NoDir = NoDir
    Dir <- MCDir
    KnownTasks = {"t1", "t2"}
    Owners <- MCOwners
    FileSets <- MCFileSets
    Repos = {"repo"}
    Branches = {"t1", "t2"}
    RepoOf <- MCRepoOf
    BranchOf <- MCBranchOf
    Requests = {q1, q2, q3}
    PolicyDenied = {"t2"}
    ReviewRequired = {"t1"}
    MaxLeases = 2
    MaxSimulations = 2
    MaxEntries = 2
    MaxClock = 0
    MaxRuns = 2
    Events = {"run_agent"}
SPECIFICATION FairSpec
INVARIANT WorkflowRunsExclusive
PROPERTY RunsClose
CHECK_DEADLOCK FALSE

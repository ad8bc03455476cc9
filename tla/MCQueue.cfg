CONSTANTS
    Files = {"a", "m"}
    PackageFiles = {}
    TestFiles = {}
    DocsFiles = {"m"}
    CriticalFiles = {}
    NoDir = NoDir
    Dir <- MCDir
    KnownTasks <- MCKnownTasks
    Owners <- MCTwoOwners
    FileSets <- MCOneFileSet
    Repos = {"repo"}
    Branches = {"b"}
    MaxLeases = 2
    MaxSimulations = 2
    MaxEntries = 2
    MaxClock = 1
SPECIFICATION CMSpec
INVARIANTS
    ReleasedIffSettled
    QueueTracksSimulations
PROPERTIES
    SettledEntriesFrozen
    ImplementsGate
CHECK_DEADLOCK FALSE

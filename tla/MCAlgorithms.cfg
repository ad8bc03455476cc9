CONSTANTS
    Files = {"app", "pkg", "x", "md", "auth"}
    PackageFiles = {"pkg"}
    TestFiles = {"x"}
    DocsFiles = {"x", "md"}
    CriticalFiles = {"auth"}
    NoDir = ""
    Dir <- MCDir
    NameRank <- MCNameRank
    MaxDeviations = 2
SPECIFICATION Spec
INVARIANTS
    BlockedExactlyWhen
    PolicyFailsClosed
    ResolutionComplete
    GitLayersAgree
    ToolCallsConfined
CHECK_DEADLOCK FALSE

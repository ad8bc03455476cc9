CONSTANTS
    Repos = {r, q}
    Branches = {"ai/b"}
    AiBranches = {"ai/b"}
    Tasks = {"t"}
    Endings = {"closed", "merged"}
    Files = {"f"}
    Env <- MCEnv
    MaxPushes = 1
    MaxPulls = 1
    MaxReceived = 2
    MaxRejected = 1
    MaxCalls = 2
SPECIFICATION Spec
SYMMETRY MCSymmetry
INVARIANTS
    SyncMatchesEvent
    SyncFromGenuineEvents
    SyncNamesItsPull
CHECK_DEADLOCK FALSE

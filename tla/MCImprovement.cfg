SPECIFICATION MCSpec
CONSTANTS
    Classes = {"k"}
    KindOfClass <- MCKindOfClass
    Requirements <- MCRequirements
    Actors = {"admin", "guest"}
    RolesOf <- MCRolesOf
    MaxSignals = 2
    MaxManual = 1
    MaxDecisions = 2
    MaxRuns = 2
    MaxSteps = 7
VIEW MCView
INVARIANTS
    ClustersKeepProposals
    RejectionBlocks
    FailedEvalBlocks
CHECK_DEADLOCK FALSE

CONSTANTS
    SecretEnvs <- MCSecretEnvs
    NewRefs <- MCNewRefs
    CredentialRequests <- MCCredentialRequests
    RunnerConfigs <- MCRunnerConfigs
    Commands <- MCCommands
    RunRequests <- MCRunRequests
    Orders <- MCOrders
    MaxOps = 2
    MaxRuns = 1
SPECIFICATION Spec
INVARIANT CommandsNeedEnabledRunner
CHECK_DEADLOCK FALSE

CONSTANTS
    SecretEnvs <- MCSecretEnvs
    NewRefs <- MCNewRefs
    CredentialRequests <- MCCredentialRequests
    RunnerConfigs <- MCRunnerConfigs
    Commands <- MCCommands
    RunRequests <- MCRunRequests
    Orders <- MCOrders
    MaxOps = 3
    MaxRuns = 2
SPECIFICATION Spec
INVARIANTS
    CommandsConfined
    SessionsFollowRuns
    RunsMatchResults
    ClaimsOpenNothing
PROPERTIES
    CredentialsGated
    RunsAreRecorded
CHECK_DEADLOCK FALSE

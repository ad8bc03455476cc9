CONSTANTS
    Envs <- MCEnvs
    NewRoutes <- MCNewRoutes
    NewModels <- MCNewModels
    NewKeys <- MCNewKeys
    Requests <- MCRequests
    Patchable <- MCPatchable
    RouteRank <- MCRouteRank
    MaxCalls = 2
    MaxChanges = 3
SPECIFICATION Spec
INVARIANTS
    UsageExact
    FallbackBounded
PROPERTY
    CallsGated
CHECK_DEADLOCK FALSE

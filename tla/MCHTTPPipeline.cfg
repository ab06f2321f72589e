SPECIFICATION Spec
CONSTANTS
    Chains <- MCChains
    Configs <- MCConfigs
    Requests <- MCRequests
    Role = "admin"
    Statuses = {103, 201, 204}
    ErrorStatuses = {404, 0}
    MaxWrites = 2
INVARIANTS
    FailuresReported
    LoggedStatusSent
    PanicStops
    GuardsDecide
    TraceAgrees
    GrantSurvives

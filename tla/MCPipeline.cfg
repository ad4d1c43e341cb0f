SPECIFICATION PipelineSpec
CONSTANTS
    Clients = {x, y, z}
    PerMinute = 24
    BurstSetting = 2
    MaxClients = 2
    ApiKeySet = TRUE
    Requests <- MCRequests
SYMMETRY Symmetry
INVARIANTS PipelineTypeOK WithinRate RefusedOnlyOverRate VaryIsExact LogMatchesResponse

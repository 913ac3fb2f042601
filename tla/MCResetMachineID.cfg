SPECIFICATION Spec
CONSTANTS
    Platforms <- MCPlatforms
    Options <- MCOptions
    Servers <- MCServers
    KeyTypes <- MCKeyTypes
    MaxRuns = 2
    None = None
CHECK_DEADLOCK FALSE
INVARIANTS
    TypeOK
    KeysKept
    OriginalsKept
    OnlyValidConfig
    Completed
    KeysReplaced
PROPERTIES
    OnlyOnRequest

SPECIFICATION Spec
CONSTANTS
    CdnEndpoints = {"cdn1", "cdn2"}
    DefaultHost = "panel"
    Chains = {"hop"}
    None = "none"
    MaxId = 2
    Admins = {a1}
    FirstRows <- MCHostRows
    NewRows <- MCNewRows
    Patches <- MCPatches
    Pools <- MCPools
    MaxEdits = 2
CHECK_DEADLOCK FALSE
INVARIANT CdnListenersDialThePool

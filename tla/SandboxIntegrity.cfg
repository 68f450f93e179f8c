SPECIFICATION MCSpec
CONSTANTS
    None = None
    Catalogues <- MCCatalogues
    TypeOf <- MCTypeOf
    Policies = {"admin", "public"}
    ScriptSets <- MCScripts
    Clients = {"c"}
    Reloads = {1, 2}
    MaxChanges = 1
    N = 4
    Refs <- AnyRelation
    Owner <- SomeOwned
    Limits = {2, 4}
    MaxDepth = 6
    Reqs = {"a", "bulk"}
    Rows <- SingleAndBulk
    MaxBoots = 2
    Faults = {"sql", "grpc", "ws", "crash", "reboot"}
    Permits = 2
    MaxRuns = 4
    Sockets = {"ws"}
    Streams = {"sse"}
    Scopes = {"root", "t"}
    ScopeOf <- OfTenant
    Channels = {"ch"}
    Guarded = {"a"}
    Tables = {"a", "b"}
    Existing = {"a"}
    Capacity = 1
    MaxEvents = 2
    MaxRequests = 1
INVARIANT SandboxIntegrity
CHECK_DEADLOCK FALSE

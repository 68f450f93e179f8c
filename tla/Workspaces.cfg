SPECIFICATION MCSpec
CONSTANTS
    p = p
    q = q
    None = None
    Clients = {p, q}
    MaxRequests = 2
    MaxContexts = 2
    Tenants = {"t"}
    Visitors = {"admin", "user"}
    Operators = {"admin"}
    MaxDirs = 2
    Sandboxes = {"s", "script"}
    Scripted = {"script"}
    Visited = {"s"}
    Limit = 1
    Faults = {"size", "sql"}
    Databases = {"root", "t"}
    MainDatabase = "root"
    Allowed = FALSE
    MaxCommits = 2
    MaxSeconds = 1
    Archived = {"root", "t", "u"}
    Admins = {"a", "b"}
    Fields = {"f"}
    Values = {"x", "y"}
    MaxCalls = 3
    Throttled = {"t", "u"}
    Limits = {1, 2}
    Configs <- TwoConfigs
    MaxLimiters = 2
    MaxChanges = 1
    MaxAdmits = 3
    Positions = 3
    MaxDelay = 1
    Jobs <- OneJob
    Due <- DueTimes
    MaxCrons = 1
    Interval = 2
    MaxTickers = 2
    MaxTicks = 2
    Minutes = 3
SYMMETRY Interchangeable
INVARIANTS
    
    
    TenantsSafe
    SandboxesSafe
    SchedulerSafe
    
    SettingsSafe
PROPERTIES
    StepsSafe
CHECK_DEADLOCK FALSE

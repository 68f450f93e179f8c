SPECIFICATION FairSpec
CONSTANTS
    c1 = c1
    c2 = c2
    None = None
    Clients = {c1, c2}
    Ops <- Shared
    Ids = {1, 2}
    MaxWrites = 2
    Cascade <- OneTakesTwo
    Replicas = {TRUE, FALSE}
    Faults = {"sql", "reload"}
INVARIANT CacheExplained
PROPERTIES EventuallyFresh
CHECK_DEADLOCK FALSE

\* A paged scan beside a timely worker and a replay.
CONSTANTS
    None = None
    x1 = x1
    e1 = e1
    e2 = e2
    w1 = w1
    r1 = r1
    Events = {e1, e2}
    Endpoints = {x1}
    EndpointOf <- MCEndpointOf
    Volatile = {}
    Workers = {w1}
    Deliveries = {}
    Replays = {r1}
    MaxAttempts = 1
    RetryDelay <- MCRetryDelay
    StaleTimeout = 2
    RecoveryLimit = 1
    ProcessingLimit = 1
    MaxTime = 2
    Timely = TRUE
    Id <- MCId
    Filters = {None, "pending"}
    PageLimit = 1
SPECIFICATION InspectedSpec
INVARIANTS
    StableJobsListedOnce
    RelistedOnlyAfterReplay

    
CHECK_DEADLOCK FALSE

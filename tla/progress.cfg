\* An endless clock: two crashes, retries and a job of a switched-off endpoint.
CONSTANTS
    None = None
    x1 = x1
    x2 = x2
    e1 = e1
    e2 = e2
    w1 = w1
    Events = {e1, e2}
    Endpoints = {x1, x2}
    EndpointOf <- MCEndpointOf
    Volatile = {x2}
    Workers = {w1}
    Deliveries = {}
    Replays = {}
    MaxAttempts = 2
    RetryDelay <- MCRetryDelay
    StaleTimeout = 1
    RecoveryLimit = 1
    ProcessingLimit = 1
    MaxTime = 5
    Timely = TRUE
    MaxFaults = 2
SPECIFICATION ProgressSpec
INVARIANTS
    AttemptCountExact
    CallsAreRecorded

    

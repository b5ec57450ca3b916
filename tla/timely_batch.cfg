\* Timely iterations over batches of two jobs.
CONSTANTS
    None = None
    x1 = x1
    e1 = e1
    e2 = e2
    w1 = w1
    w2 = w2
    Events = {e1, e2}
    Endpoints = {x1}
    EndpointOf <- MCEndpointOf
    Volatile = {}
    Workers = {w1, w2}
    Deliveries = {}
    Replays = {}
    MaxAttempts = 2
    RetryDelay <- MCRetryDelay
    BaseDelay = 1
    MaxDelay = 2
    StaleTimeout = 2
    RecoveryLimit = 2
    ProcessingLimit = 2
    MaxTime = 3
    Timely = TRUE
SPECIFICATION Spec
SYMMETRY Symmetry
INVARIANTS
    ExclusiveClaims
    StaleIsAbandoned
    DrainedIsQuiet

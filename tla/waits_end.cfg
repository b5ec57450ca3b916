\* Fair scheduling: every wait for a row lock or an attempt number ends.
CONSTANTS
    None = None
    x1 = x1
    e1 = e1
    w1 = w1
    w2 = w2
    r1 = r1
    Events = {e1}
    Endpoints = {x1}
    EndpointOf <- MCEndpointOf
    Volatile = {}
    Workers = {w1, w2}
    Deliveries = {}
    Replays = {r1}
    MaxAttempts = 1
    RetryDelay <- MCRetryDelay
    BaseDelay = 1
    MaxDelay = 2
    StaleTimeout = 1
    RecoveryLimit = 1
    ProcessingLimit = 1
    MaxTime = 1
    Timely = FALSE
SPECIFICATION FairSpec
PROPERTIES
    IterationsEnd
    RequestsEnd

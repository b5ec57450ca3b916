\* Overlapping iterations: is a finished job left by replay only?
CONSTANTS
    None = None
    x1 = x1
    e1 = e1
    w1 = w1
    w2 = w2
    Events = {e1}
    Endpoints = {x1}
    EndpointOf <- MCEndpointOf
    Volatile = {}
    Workers = {w1, w2}
    Deliveries = {}
    Replays = {}
    MaxAttempts = 2
    RetryDelay <- MCRetryDelay
    BaseDelay = 1
    MaxDelay = 2
    StaleTimeout = 1
    RecoveryLimit = 1
    ProcessingLimit = 1
    MaxTime = 3
    Timely = FALSE
SPECIFICATION Spec
PROPERTIES
    TerminalLeftByReplayOnly

\* Timely iterations, a replay, a manual delivery and an endpoint that is switched off.
CONSTANTS
    None = None
    x1 = x1
    e1 = e1
    w1 = w1
    w2 = w2
    r1 = r1
    d1 = d1
    Events = {e1}
    Endpoints = {x1}
    EndpointOf <- MCEndpointOf
    Volatile = {x1}
    Workers = {w1, w2}
    Deliveries = {d1}
    Replays = {r1}
    MaxAttempts = 2
    RetryDelay <- MCRetryDelay
    BaseDelay = 1
    MaxDelay = 2
    StaleTimeout = 2
    RecoveryLimit = 1
    ProcessingLimit = 1
    MaxTime = 2
    Timely = TRUE
SPECIFICATION Spec
SYMMETRY Symmetry
INVARIANTS
    AttemptCountExact
    OneSuccessPerCycle
PROPERTIES
    TerminalLeftByReplayOnly
    ImplementsLifecycle

\* A worker process, its signal handlers, failures and clean-up.
CONSTANTS
    MaxIterations = 3
    MaxSignals = 3
SPECIFICATION FairSpec
INVARIANTS
    TypeOK
    NoIterationAfterStop
    SuccessIsGraceful
    CleanedUp
    SignalsCutNoIteration
PROPERTIES
    StopEnds
CHECK_DEADLOCK FALSE

\* Racing requests, retries with another spelling of the key, lost answers.
CONSTANTS
    None = None
    Absent = Absent
    Invalid = Invalid
    plain = plain
    padded = padded
    blank = blank
    k = k
    x1 = x1
    c1 = c1
    c2 = c2
    r1 = r1
    r2 = r2
    r3 = r3
    Requests = {r1, r2, r3}
    Endpoints = {x1}
    Headers = {plain, padded, blank}
    Normalized <- MCNormalized
    Contents = {c1, c2}
SPECIFICATION FairSpec
INVARIANTS
    TypeOK
    AnswersAgree
    
PROPERTIES
    ImplementsLedger
    Answered
CHECK_DEADLOCK FALSE

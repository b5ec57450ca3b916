\* Does a 409 mean that the key's event differs?
CONSTANTS
    None = None
    Absent = Absent
    Invalid = Invalid
    plain = plain
    padded = padded
    blank = blank
    k = k
    x1 = x1
    c1 = c1
    c2 = c2
    r1 = r1
    r2 = r2
    Requests = {r1, r2}
    Endpoints = {x1}
    Headers = {plain, padded, blank}
    Normalized <- MCNormalized
    Contents = {c1, c2}
SPECIFICATION Spec
INVARIANTS
    ConflictOnlyOnDifference
CHECK_DEADLOCK FALSE

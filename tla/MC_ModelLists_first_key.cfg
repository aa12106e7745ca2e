SPECIFICATION Spec
CONSTANTS
    p = p
    q = q
    x = x
    y = y
    Names = {p, q}
    Own = {q}
    Endpoints = {x, y}
    At <- Apart
    Slow = {q}
    None = None
    MaxActs = 1
    MaxLag = 1
INVARIANTS
    AKeyGivesAnAgent
CHECK_DEADLOCK FALSE

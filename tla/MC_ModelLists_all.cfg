SPECIFICATION FairSpec
CONSTANTS
    p = p
    q = q
    x = x
    y = y
    Names = {p, q}
    Own = {q}
    Endpoints = {x, y}
    At <- Apart
    Slow = {q}
    None = None
    MaxActs = 3
    MaxLag = 1
INVARIANTS
    TypeOK
PROPERTIES
    ListsAreTheirs
    PickerSettles
CHECK_DEADLOCK FALSE

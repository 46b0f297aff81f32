CONSTANTS
    p1 = p1
    p2 = p2
    r1 = r1
    r2 = r2
    r3 = r3
    None = None
    Paths = {p1, p2}
    First = p1
    Requests = {r1, r2, r3}
    Kinds <- Asks
    MaxText = 2

SPECIFICATION Spec

INVARIANTS
    ReadIsView
    LogOfLive

PROPERTY
    EditsKept

CHECK_DEADLOCK FALSE

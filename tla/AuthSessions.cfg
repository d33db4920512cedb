SPECIFICATION Spec
CONSTANTS
    Sessions = {s1, s2}
    Tokens = {k1, k2, k3}
    Resets = {p1, p2}
    Requests = {r1, r2}
    Addresses = {a1, a2}
    MaxAborts = 1
    None = None
INVARIANTS
    TypeOK
    ReuseEndsFamily
    OneLiveReset
PROPERTY
    DeadSessionsStayDead
SYMMETRY Symmetry

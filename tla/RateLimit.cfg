SPECIFICATION Spec
CONSTANTS
    a1 = a1
    a2 = a2
    s1 = s1
    Addresses = {a1, a2}
    Subjects = {s1}
    Limit <- MCLimit
    Window = 2
    Lockout = 2
    Requests = {r1, r2}
    MaxTime = 3
    MaxMissed = 1
INVARIANTS
    TypeOK
    LimitHolds
PROPERTIES
    LocksAreKept
    WindowsAreApart
SYMMETRY Symmetry

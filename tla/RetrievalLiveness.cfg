SPECIFICATION Spec
CONSTANTS
    t1 = t1
    t2 = t2
    u1 = u1
    u2 = u2
    u3 = u3
    Docs = {d1, d2}
    Owner <- MCOwner
    Parts = {p1, p2}
    Callers = {u1}
    TenantOf <- MCTenantOf
    Chats = {c1}
    Questions = {q1}
    Limit = 2
    MaxRuns = 2
    Unreliable = TRUE
    None = None
PROPERTY
    TransactionsEnd

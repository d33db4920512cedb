SPECIFICATION Spec
CONSTANTS
    e1 = e1
    e2 = e2
    e3 = e3
    Users = {u1, u2}
    Tenants = {t1, t2, t3}
    Verifications = {v1, v2, v3}
    Sessions = {s1, s2}
    Emails = {e1, e2, e3}
    AddressOf <- MCAddressOf
    Slugs = {g1, g2}
    Requests = {r1, r2, r3}
    None = None
INVARIANTS
    TypeOK
    OneAccountPerAddress
    AccountsComeWhole
    OneLiveVerification
    SessionsAreVerified
    SessionsStayHome
SYMMETRY Symmetry

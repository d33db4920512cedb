SPECIFICATION WebSpec
CONSTANTS
    Sessions = {s1, s2}
    Tokens = {k1, k2, k3}
    Resets = {}
    Requests = {r1, r2}
    Addresses = {}
    MaxAborts = 1
    None = None
INVARIANTS
    WebTypeOK
    SignedInUnlessSpoiled
    OneTokenUnlessSpoiled
    LogoutSticks
SYMMETRY WebSymmetry

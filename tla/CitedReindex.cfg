SPECIFICATION Spec
CONSTANTS
    Tenants = {t1}
    Contents = {c1}
    BlankContents = {}
    Docs = {d1}
    Jobs = {j1, j2}
    Requests = {r1}
    Handlers = {h1}
    Answers = {a1}
    Unreliable = {}
    MaxCrashes = 0
    MaxDrops = 0
    None = None
INVARIANT
    NoJobFails

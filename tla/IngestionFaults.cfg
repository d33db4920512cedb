SPECIFICATION Spec
CONSTANTS
    Tenants = {t1, t2}
    Contents = {c1}
    BlankContents = {}
    Docs = {d1}
    Jobs = {j1, j2, j3}
    Requests = {r1}
    Handlers = {h1, h2}
    Answers = {a1}
    Unreliable = {"storage", "broker", "embedding", "qdrant"}
    MaxCrashes = 0
    MaxDrops = 1
    None = None
INVARIANTS
    TypeOK
    NoOrphanedJob
    IndexedIsSearchable
    CitedRowsExist
    FailedIsRetryable
    TenantIsolation
SYMMETRY Symmetry

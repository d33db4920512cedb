SPECIFICATION Spec
CONSTANTS
    Tenants = {t1}
    Contents = {c1, c2}
    BlankContents = {c2}
    Docs = {d1}
    Jobs = {j1, j2}
    Requests = {r1}
    Handlers = {h1, h2}
    Answers = {a1}
    Unreliable = {"storage", "database", "broker", "embedding", "qdrant"}
    MaxCrashes = 1
    MaxDrops = 1
    None = None
INVARIANTS
    CommittedIsStored
    StatusIsExplained
    StartedOncePerDelivery
PROPERTY
    ImplementsCorpus
SYMMETRY Symmetry

SPECIFICATION Spec
CONSTANTS
    Tenants = {t1}
    Contents = {c1}
    BlankContents = {}
    Docs = {d1}
    Jobs = {j1}
    Requests = {r1}
    Handlers = {h1}
    Answers = {}
    Unreliable = {}
    MaxCrashes = 1
    MaxDrops = 0
    None = None
PROPERTY
    JobsSettle

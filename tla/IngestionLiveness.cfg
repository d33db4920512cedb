SPECIFICATION Spec
CONSTANTS
    Tenants = {t1}
    Contents = {c1}
    BlankContents = {}
    Docs = {d1}
    Jobs = {j1, j2}
    Requests = {r1}
    Handlers = {h1, h2}
    Answers = {}
    Unreliable = {"storage","broker","qdrant"}
    MaxCrashes = 0
    MaxDrops = 1
    None = None
PROPERTY
    JobsSettle

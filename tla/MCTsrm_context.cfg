\* Two threads with interpreter contexts and cached TLS pointers.
CONSTANTS
    t1 = t1  t2 = t2  t3 = t3  b1 = b1  b2 = b2
    Thread = {t1, t2}
    Main = t1
    Bucket = {b1, b2}
    Hash <- MCHash
    Entry = {e1, e2, e3, e4}
    MaxId = 1
    ExpectedIds = 1
    Api = {"get", "allocate_id", "free_id", "context", "switch", "static"}
    LateIds = FALSE
    AllocFails = FALSE
    NoThread = NoThread
    Null = Null
SPECIFICATION Spec
SYMMETRY EntrySymmetry
INVARIANTS NoOrphan ReadSafe OwnResource ContextOnlyOnRequest

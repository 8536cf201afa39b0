\* Two threads and two ids at any time: what the entries have when somebody asks,
\* progress, and the abstract map of resources.
CONSTANTS
    t1 = t1  t2 = t2  t3 = t3  b1 = b1  b2 = b2
    Thread = {t1, t2}
    Main = t1
    Bucket = {b1, b2}
    Hash <- MCHash
    Entry = {e1, e2, e3}
    MaxId = 2
    ExpectedIds = 1
    Api = {"get", "allocate_id", "free_thread", "free_id"}
    LateIds = TRUE
    AllocFails = TRUE
    NoThread = NoThread
    Null = Null
SPECIFICATION Spec
INVARIANTS ReadyWhenNeeded
PROPERTIES MutexReleased ReadEnds ImplementsMap

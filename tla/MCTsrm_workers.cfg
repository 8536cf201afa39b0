\* The comment on ts_free_worker_threads.
CONSTANTS
    t1 = t1  t2 = t2  t3 = t3  b1 = b1  b2 = b2
    Thread = {t1, t2, t3}
    Main = t1
    Bucket = {b1, b2}
    Hash <- MCHash
    Entry = {e1, e2, e3, e4}
    MaxId = 1
    ExpectedIds = 1
    Api = {"get", "free_workers"}
    LateIds = FALSE
    AllocFails = FALSE
    NoThread = NoThread
    Null = Null
SPECIFICATION Spec
PROPERTIES FreesAllWorkers

\* Three threads, one bucket shared by two of them, serve requests; every id
\* exists before they start, and the types table may have failed to grow.
CONSTANTS
    t1 = t1  t2 = t2  t3 = t3  b1 = b1  b2 = b2
    Thread = {t1, t2, t3}
    Main = t1
    Bucket = {b1, b2}
    Hash <- MCHash
    Entry = {e1, e2, e3}
    MaxId = 1
    ExpectedIds = 0
    Api = {"get", "allocate_id", "free_thread", "free_id", "exit"}
    LateIds = FALSE
    AllocFails = TRUE
    NoThread = NoThread
    Null = Null
SPECIFICATION Spec
SYMMETRY EntrySymmetry
INVARIANTS UniqueEntry ConstructorSeesEntry ReadSafe

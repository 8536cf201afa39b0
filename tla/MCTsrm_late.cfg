\* Two threads, every call that adds an entry to the table or takes one out, new
\* ids and interpreter contexts at any time; the types table and the memory may
\* run out.
CONSTANTS
    t1 = t1  t2 = t2  t3 = t3  b1 = b1  b2 = b2
    Thread = {t1, t2}
    Main = t1
    Bucket = {b1, b2}
    Hash <- MCHash
    Entry = {e1, e2, e3}
    MaxId = 2
    ExpectedIds = 1
    Api = {"get_other", "allocate_id", "free_thread", "free_workers", "context"}
    LateIds = TRUE
    AllocFails = TRUE
    NoThread = NoThread
    Null = Null
SPECIFICATION Spec
SYMMETRY EntrySymmetry
INVARIANTS NoOrphan

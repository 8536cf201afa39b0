\* A new id while another thread reads.
CONSTANTS
    t1 = t1  t2 = t2  t3 = t3  b1 = b1  b2 = b2
    Thread = {t1, t2}
    Main = t1
    Bucket = {b1, b2}
    Hash <- MCHash
    Entry = {e1, e2, e3}
    MaxId = 2
    ExpectedIds = 2
    Api = {"get", "allocate_id"}
    LateIds = TRUE
    AllocFails = FALSE
    NoThread = NoThread
    Null = Null
SPECIFICATION Spec
SYMMETRY EntrySymmetry
INVARIANTS ReadSafe

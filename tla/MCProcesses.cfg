SPECIFICATION Spec
CONSTANTS
    EchoClients = {c1, c2, c3}
    NoClient = NoClient
    Backlog = 1
    BUF_LEN = 3
    Texts <- MCTexts
    Scripts <- MCScripts
    Block = 3
    MaxLines = 7
    ClientCount = 5
    MaxClients = 2
    KeepAliveTimeout = 2
\* There are as many addresses as threads: what malloc returns was often freed
\* before.
    t1 = t1  t2 = t2  t3 = t3  b1 = b1  b2 = b2
    Thread = {t1, t2, t3}
    Bucket = {b1, b2}
    Hash <- MCHash
    Entry = {e1, e2, e3}
    Null = Null
INVARIANTS
    EchoOwnLines
    EachLineOnce
    KeepAliveWaves
    ChainsExact
    LastLeadsHere
PROPERTIES
    EveryClientServed
    ImplementsTable
    CallEnds
\* The programs end, and the clients of the server.
CHECK_DEADLOCK FALSE

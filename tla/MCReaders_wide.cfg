SPECIFICATION Spec
CONSTANTS
    MyiFiles = {}
    Base = 4
    MAX_KEYS = 3
    MAX_SEGS = 3
    BUF_LEN = 9
    MAX_SUBPAGES = 3
    Null = Null
    HA_OFFSET_ERROR = HA_OFFSET_ERROR
    Tables <- MCWideTables
    MaxKeys = 2
    MaxSegs = 2
    MaxCols = 100
    Archives = {}
    RangeLists = {}
    LONG_ORDER = 2
    MAX_ORDER = 3
    pow <- MCpow
    Cards = {}
    ModeLists <- MCModeLists
    Pads <- MCPads
    RES_BUF = 3
    CONN_BUF = 2
    None = None
    MAP_FAILED = MAP_FAILED
    MaxPlugs = 2
    ElfFiles = {}
    StackValues = {}
    Undef = Undef
    FreeAreas = {}
    Pfns <- MCPfns
    MappedPfns <- MCMappedPfns
    KernelImage = {KernelImage}
    ListHead = ListHead
INVARIANTS
    ForminfoFound
\* The program ends.
CHECK_DEADLOCK FALSE

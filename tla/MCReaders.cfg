SPECIFICATION Spec
CONSTANTS
    MyiFiles <- MCMyiFiles
    Base = 4
    MAX_KEYS = 3
    MAX_SEGS = 3
    BUF_LEN = 9
    MAX_SUBPAGES = 3
    Null = Null
    HA_OFFSET_ERROR = HA_OFFSET_ERROR
    Tables <- MCTables
    MaxKeys = 2
    MaxSegs = 2
    MaxCols = 2
    Archives <- MCArchives
    RangeLists <- MCRangeLists
    LONG_ORDER = 2
    MAX_ORDER = 3
    pow <- MCpow
    Cards <- MCCards
    ModeLists <- MCModeLists
    Pads <- MCPads
    RES_BUF = 3
    CONN_BUF = 2
    None = None
    MAP_FAILED = MAP_FAILED
    MaxPlugs = 2
    ElfFiles <- MCElfFiles
    StackValues <- MCStackValues
    Undef = Undef
    FreeAreas <- MCFreeAreas
    Pfns <- MCPfns
    MappedPfns <- MCMappedPfns
    KernelImage = {KernelImage}
    ListHead = ListHead
INVARIANTS
    MyiInSync
    EveryPageOnce
    FrmInSync
    CpioInSync
    BuddyLists
    DrmDrawsMapped
    ElfReadsInside
    PrintsFreeLists
PROPERTIES
    FreesOnce
\* The programs end.
CHECK_DEADLOCK FALSE

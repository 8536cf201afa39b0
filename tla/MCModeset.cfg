\* Three connectors compete for two CRTCs; every call may fail.
CONSTANTS
    c1 = c1  c2 = c2  c3 = c3  e1 = e1  e2 = e2
    Connector = {c1, c2, c3}
    ConnectorOrder <- MCOrder
    Encoder = {e1, e2}
    EncodersOf <- MCEncodersOf
    PossibleCrtcs <- MCPossibleCrtcs
    CrtcCount = 2
    Rounds = 2
    Failing = {"open", "get_encoder", "create_dumb", "add_fb", "map_dumb", "mmap",
               "get_crtc", "set_crtc"}
    Nobody = Nobody  Null = Null  Old = Old  Off = Off
SPECIFICATION Spec
INVARIANTS DistinctCrtcs NeverDrawFront FrontIsShown BuffersComplete NoLeak ResetToSaved

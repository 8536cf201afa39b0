\* Two connectors, two CRTCs, and no call fails.
CONSTANTS
    c1 = c1  c2 = c2  c3 = c3  e1 = e1  e2 = e2
    Connector = {c1, c2}
    ConnectorOrder <- MCOrder2
    Encoder = {e1, e2}
    EncodersOf <- MCEncodersOf
    PossibleCrtcs <- MCPossibleCrtcs
    CrtcCount = 2
    Rounds = 2
    Failing = {}
    Nobody = Nobody  Null = Null  Old = Old  Off = Off
SPECIFICATION Spec
INVARIANT SavedBeforeChange

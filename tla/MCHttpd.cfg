SPECIFICATION Spec
CONSTANTS
    FnsOf <- MCFnsOf
    OK = "OK"
    DECLINED = "DECLINED"
    Errors = {"error"}
    Running = Running
    Astray = Astray
    NoArray = NoArray
    NoRequest = NoRequest
    MaxPushes = 3
    MaxArrays = 2
    MaxDepth = 2
    MaxRestarts = 1
    Requests <- MCRequests
    Brigades <- MCBrigades
    Ext = {"html"}
    MaxBody = 2
    BUFLEN = 2
INVARIANTS
    ReadInBounds
    LinksOfThisConfiguration
    RunnerContract
    DeclinedUntouched
    CountExact

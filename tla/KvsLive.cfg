SPECIFICATION FairSpec
CONSTANTS
    c1 = c1
    c2 = c2
    k1 = k1
    k2 = k2
    v1 = v1
    v2 = v2
    Main = Main
    Thread = {Main, c1, c2}
    Client = {c1, c2}
    Key = {k1, k2}
    KeyOf <- KeyPerClient
    Value = {v1}
    Requests = {"get", "put"}
    Checking = {}
    Persistent = {c1, c2}
    Default = Default
    None = None
    BeMaster <- BeMasterRecord
    window_size = 1
    MaxSlot = 2
    MaxTry = 0
    Foreign <- NothingForeign
INVARIANTS NoPutForgotten
PROPERTIES FailureEnds PutReturns

SPECIFICATION Spec
CONSTANTS
    c1 = c1
    c2 = c2
    k1 = k1
    k2 = k2
    v1 = v1
    v2 = v2
    Main = Main
    Thread = {Main, c1}
    Client = {c1}
    Key = {k1}
    KeyOf <- KeyPerClient
    Value = {v1, v2}
    Requests = {"get", "put"}
    Checking = {c1}
    Persistent = {c1}
    Default = Default
    None = None
    BeMaster <- BeMasterRecord
    window_size = 1
    MaxSlot = 4
    MaxTry = 1
    Foreign <- NothingForeign
INVARIANTS ReadsOwnWrites

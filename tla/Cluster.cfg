SPECIFICATION Spec
CONSTANTS
    n1 = n1
    n2 = n2
    n3 = n3
    Server = {n1, n2, n3}
    MaxSlot = 9
    window_size = 2
    MaxCalls = 2
    BeMaster = BeMaster
    None = None
SYMMETRY Symmetry
CONSTRAINT Sound
INVARIANTS TypeOK LInvWhileSound SurvivesTerm OneRecordPerSlot
PROPERTY ImplementsSharedLog
CHECK_DEADLOCK FALSE

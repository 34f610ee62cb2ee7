SPECIFICATION Spec
CONSTANTS
    a1 = a1
    a2 = a2
    a3 = a3
    Member = {a1, a2, a3}
    Server = {1, 2}
    Slot = {0}
    Window = 1
    MaxTry = 0
    Candidate = {1, 2}
    Retrying = {2}
    Expiry = {5}
    Nobody = Nobody
    NoArg = NoArg
    Owner <- NoOwner
SYMMETRY Symmetry
INVARIANTS ElectionSafety ChosenBinds LeaseBacked OneVotePerAcceptor
PROPERTIES ElectsOneMaster OneVotePerBallot
CHECK_DEADLOCK FALSE

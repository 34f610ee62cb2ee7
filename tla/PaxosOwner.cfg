SPECIFICATION Spec
CONSTANTS
    a1 = a1
    a2 = a2
    a3 = a3
    Member = {a1, a2, a3}
    Server = {1, 2}
    Slot = {0, 1}
    Window = 1
    MaxTry = 0
    Candidate = {2}
    Retrying = {}
    Expiry = {5}
    Nobody = Nobody
    NoArg = NoArg
    Owner <- Owner1
SYMMETRY Symmetry
INVARIANTS TypeOK FencedOwner WindowExhausted IInv
PROPERTIES AcceptorMonotonic
CHECK_DEADLOCK FALSE

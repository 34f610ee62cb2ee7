SPECIFICATION Spec
CONSTANTS
    Rest <- Rests
    MaxLate = 1
    MaxLag = 1
    MaxLease = 17
    delta = 20
INVARIANTS TypeOK MasterKeepsLease LeaseAccounting InterferesOnlyIfBehind
CHECK_DEADLOCK FALSE

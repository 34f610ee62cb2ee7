SPECIFICATION Spec
CONSTANTS
    Rest = {0}
    MaxLate = 0
    MaxLag = 0
    MaxLease = 30
    delta = 0
INVARIANTS NoInterference
CHECK_DEADLOCK FALSE

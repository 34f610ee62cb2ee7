\* The threads stop after MaxCalls calls.
SPECIFICATION FairSpec
CONSTANTS
    Caller = {t1, t2}
    Acceptor = {a1, a2, a3}
    Slot = {1}
    Seq = {q1, q2}
    Majority = 2
    MaxCalls = 2
    None = None
INVARIANTS TypeOK NoDanglingPointer NoMissedWakeup
PROPERTIES MajorityWakes
CHECK_DEADLOCK FALSE

CONSTANTS
    A = A
    B = B
    C = C
    Machine <- Two
    KVS_BATCH = 1
    Home <- Two
    HotWrites <- FewWrites
SPECIFICATION Spec
INVARIANTS
    BroadcastAssertHolds
CHECK_DEADLOCK FALSE

CONSTANTS
    A = A
    B = B
    C = C
    Machine <- Two
    KVS_BATCH = 1
    Home <- Two
    HotWrites <- FewWrites
SPECIFICATION FairSpec
INVARIANTS
    TypeOK
    RequestsAccounted
    AbortNeedsColdFreeBatch
PROPERTIES
    WaitEnds
CHECK_DEADLOCK FALSE

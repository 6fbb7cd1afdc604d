CONSTANTS
    A = A
    B = B
    C = C
    Machine <- Three
    KVS_BATCH = 2
    Home <- One
    HotWrites = {0}
SPECIFICATION Spec
SYMMETRY Symmetry
INVARIANTS
    AnswersMatchRequests
    WorkerArraysSuffice

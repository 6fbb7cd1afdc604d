CONSTANTS
    K = K
    U = U
    M1 = M1
    M2 = M2
    BATCH_SIZES <- BatchSizes
    KVS_BATCH = 1
    WINDOW_SIZE = 2
    MAX_VAL_LEN = 2
    Tracked <- OneKey
    Untracked <- OtherKey
    Home <- TwoHomes
    TRACE_LENGTHS <- TraceLengths
    FETCH_BOUNDS <- FetchBounds
SPECIFICATION Spec
SYMMETRY Symmetry
INVARIANTS
    TypeOK
    ServedOnce
    WritesBroadcastOnce
    HomeOrder
    ReadsFollowWrites
    PointersSound
PROPERTIES
    OldestIsServed
CHECK_DEADLOCK FALSE

\* The LIN protocol: three machines, two of them writing from two
\* sessions each, two writes deep.
CONSTANTS
    MACHINE_NUM = 3
    Writer <- EndWriters
    SESSIONS = 2
    MAX_VERSION = 4
    Value = {w0}
    Slot = {e1}
    Initial = w0
    Uninit = w0
SPECIFICATION FairSpec
INVARIANTS ValidIsLatest AcksCountInvalidated QuiescentIsValid IInv
PROPERTIES TimestampsIncrease ImplementsRegister 
\* Once MAX_VERSION is reached and the messages are handled the model stops.
CHECK_DEADLOCK FALSE

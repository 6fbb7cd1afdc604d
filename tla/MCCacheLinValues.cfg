\* The values the LIN protocol distributes.
CONSTANTS
    MACHINE_NUM = 2
    Writer <- EndWriters
    SESSIONS = 1
    MAX_VERSION = 4
    Value = {w1, w2}
    Slot = {e1}
    Initial = w0
    Uninit = junk
SPECIFICATION Spec
INVARIANTS ValidValuesAgree
CHECK_DEADLOCK FALSE

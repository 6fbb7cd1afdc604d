\* The SC protocol: three machines, two of them writing, two writes deep.
CONSTANTS
    MACHINE_NUM = 3
    Writer <- EndWriters
    MAX_VERSION = 4
    Value = {w1, w2}
    Initial = w0
SPECIFICATION FairSpec
INVARIANTS SameClockSameValue QuiescentAgree
PROPERTIES ImplementsOrder EveryWriteSpreads
\* Once MAX_VERSION is reached and the UPDs are applied the model stops.
CHECK_DEADLOCK FALSE

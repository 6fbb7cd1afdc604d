\* Liveness of the LIN flow control: half of the credits return in a message, one machine writes.
CONSTANTS
    Machine = {m1, m2}
    Writer = {m1}
    CREDITS_FOR_EACH_CLIENT = 4
    LIN_CREDIT_DIVIDER = 2
    BCAST_TO_CACHE_BATCH = 5
    CACHE_BATCH_SIZE = 1
SPECIFICATION FairSpec
PROPERTY CreditsReturn
\* MCCreditsLin.cfg looks for deadlocks; here a client that stops violates CreditsReturn.
CHECK_DEADLOCK FALSE

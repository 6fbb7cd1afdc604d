\* Safety of the LIN flow control: both machines write.
CONSTANTS
    Machine = {m1, m2}
    Writer = {m1, m2}
    CREDITS_FOR_EACH_CLIENT = 2
    LIN_CREDIT_DIVIDER = 1
    BCAST_TO_CACHE_BATCH = 3
    CACHE_BATCH_SIZE = 1
SYMMETRY Symmetry
SPECIFICATION Spec
INVARIANTS TypeOK CreditsConserved ReceivesSuffice CreditReceivesSuffice QueuesNeverFull

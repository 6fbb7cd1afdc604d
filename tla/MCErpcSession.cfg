\* One session with two slots and two credits, over a network that may lose a
\* packet.
CONSTANTS
    Req = {1, 2, 3}
    NoReq = NoReq
    ReqPkts <- TwoReqPkts
    RespPkts <- TwoRespPkts
    kSessionReqWindow = 2
    kSessionCredits = 2
    MaxLosses = 1
SPECIFICATION FairSpec
INVARIANTS
    CreditsAccounted
    WheelIsCurrent
    AssertsHold
    ResponsesReleased
PROPERTIES
    ImplementsService
    EveryRequestAnswered
\* All requests are answered in the end.
CHECK_DEADLOCK FALSE

SPECIFICATION FairSpec
CONSTANTS
    a = a
    b = b
    c = c
    bss_info = bss_info
    sta_add = sta_add
    None = None
    Callers <- ThreeCallers
    Kind <- TwoKinds
    MaxCalls <- OneEach
    BusLen = 2
INVARIANTS TypeOK NodesLive AnswerIsFresh
CHECK_DEADLOCK FALSE
PROPERTIES EveryConfirmationHandled EveryCallReturns

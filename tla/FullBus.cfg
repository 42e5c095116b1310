SPECIFICATION Spec
CONSTANTS
    a = a
    b = b
    c = c
    bss_info = bss_info
    sta_add = sta_add
    None = None
    Callers <- ThreeCallers
    Kind <- TwoKinds
    MaxCalls <- OneEach
    BusLen = 1
INVARIANTS SignalSucceeds
CHECK_DEADLOCK FALSE

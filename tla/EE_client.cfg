CONSTANTS
    a = a
    b = b
    c = c
    Engines = {a, b}
    Clients = {c}
    Caller <- CallerIsA
    Msgs = {m1, m2}
    QueueSize = 1
    MayCall = {c}
    MayFail = {}
    MayStop = {}
    MayTimeOut = {}
    NoMsg = NoMsg
SPECIFICATION FairSpec
CHECK_DEADLOCK FALSE
PROPERTIES ClientCollects

CONSTANTS
    a = a
    b = b
    c = c
    Engines = {a, b}
    Clients = {c}
    Caller <- CallerIsA
    Msgs = {m1, m2}
    QueueSize = 1
    MayCall = {a, b}
    MayFail = {a}
    MayStop = {a, b}
    MayTimeOut = {b}
    NoMsg = NoMsg
SPECIFICATION Spec
CHECK_DEADLOCK FALSE
SYMMETRY MsgSymmetry
INVARIANTS NoDanglingMessage OwnThread OnePlace NoForgottenMessage

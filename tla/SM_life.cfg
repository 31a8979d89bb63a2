SPECIFICATION FairSpec
CONSTANTS
    sA = sA
    sB = sB
    sF = sF
    Null = Null
    States <- MCStates
    InitState = sA
    FiniState = sF
    Transitions <- MCTransitions
    Programs <- MCPrograms
    Events <- MCEvents
    MayWait <- MCPrograms
    MayFail <- MCMayFail
    Patient = TRUE
INVARIANTS PendingInOrder
PROPERTIES PriorityKept StoppedInFinal NoStall

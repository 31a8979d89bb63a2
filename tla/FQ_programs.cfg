SPECIFICATION FairSpec
CONSTANTS
    f = f
    p = p
    r = r
    None = None
    Exit = 1
    Functions <- MCFunctions
    Called <- MCCalled
    Resident <- MCResident
    Driven <- MCDriven
    MayThrow <- MCCalled
    MayCall <- MCResident
    MayStop = TRUE
    MayHurry = FALSE
    MayJoin = FALSE
INVARIANTS NothingLost RemovedIsGone NoDanglingRemove
PROPERTIES RemoveReturns


CONSTANTS
    Threads = {t1, t2, t3}
    Capacity = 2
    Tags = 5
    End = End
SPECIFICATION FairPoolSpec
INVARIANTS Conserved
PROPERTIES SomeoneReturns

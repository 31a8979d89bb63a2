CONSTANTS
    Readers = {r1, r2, r3}
    Samples = {s1}
    MaxThreads = 2
SPECIFICATION FairSpec
PROPERTIES SetReturns

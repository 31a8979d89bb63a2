CONSTANTS
    Readers = {r1, r2}
    Samples = {s1, s2}
    MaxThreads = 3
SPECIFICATION Spec
INVARIANTS CounterExact NoTornCopy RoomFound
PROPERTIES IsDataObject

CONSTANTS
    Writers = {w1, w2}
    Items = {x1, x2}
    NoItem = NoItem
    Size = 3
    Width = 4
SPECIFICATION FairQueueSpec
INVARIANTS ClaimsExclusive FullExact
PROPERTIES IsFifoQueue DequeueReturns

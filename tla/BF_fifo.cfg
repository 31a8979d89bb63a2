CONSTANTS
    Writers = {w1, w2, w3}
    Reader = reader
    Values = {v1, v2}
    NoValue = NoValue
    Elements = {e1, e2, e3}
    Nil = Nil
    Size = 2
    Circular = {TRUE, FALSE}
    Overlap = FALSE
SPECIFICATION Spec
SYMMETRY Symmetry
INVARIANTS OneOwner
PROPERTIES Intact IsFifoQueue

SPECIFICATION Spec
CONSTANTS
    out1 = out1
    out2 = out2
    in1 = in1
    c1 = c1
    c2 = c2
    k1 = k1
    k2 = k2
    None = None
    Outputs = {out1, out2}
    Inputs = {in1}
    Clients = {k1, k2}
    Channels = {c1, c2}
    From <- MCFrom
    To <- MCTo
    Kind <- MCKind
    Size = 1
    Initialised = {c2}
    Quiet = {c1}
    MaxSample <- MCMaxSample
INVARIANTS EndsAgree CurrentConnected Noticed NewIsNewer
SYMMETRY MCSymmetry

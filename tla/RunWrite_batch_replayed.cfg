SPECIFICATION Spec
CONSTANTS
    Ops = {o1}
    Reqs = {r1, r2}
    Tools = {move}
    BatchTools = {move}
    Mailboxes = {m1}
    Keys = {k1}
    Items = {i1, i2}
    OneItem = i1
    NoKey = NoKey
    NoOp = NoOp
    StoreFaults = FALSE
    MaxApplied = 2
INVARIANT BatchNotReplayed
SYMMETRY MCSymmetry

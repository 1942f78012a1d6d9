SPECIFICATION Spec
CONSTANTS
    Ops = {o1, o2}
    Reqs = {r1, r2}
    Tools = {send}
    BatchTools = {}
    Mailboxes = {m1}
    Keys = {k1}
    Items = {i1}
    OneItem = i1
    NoKey = NoKey
    NoOp = NoOp
    StoreFaults = FALSE
    MaxApplied = 2
INVARIANT CompletedKeyAnswers
SYMMETRY MCSymmetry

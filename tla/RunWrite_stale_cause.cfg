SPECIFICATION Spec
CONSTANTS
    Ops = {o1}
    Reqs = {r1}
    Tools = {send}
    BatchTools = {}
    Mailboxes = {m1}
    Keys = {k1}
    Items = {i1}
    OneItem = i1
    NoKey = NoKey
    NoOp = NoOp
    StoreFaults = FALSE
    MaxApplied = 2
INVARIANT ReplayedCauseIsCurrent

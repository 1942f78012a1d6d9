SPECIFICATION MCSpec
CONSTANTS
    Rows = {1, 2, 3}
    Times = {1, 2, 3}
    Limit = 1
    MaxRows = 1
    Spans = {1, 2, 3}
    Steps = {1, 2}
    Codes = {0, 2, 4, 9}
    Guests <- MCGuests
    Nothing = Nothing
    NoMerged = NoMerged
    Ops = {o1, o2}
    Employees = {e1}
    Targets = {t1, t2}
    Absent = Absent
    Me = "me"
    Lists <- MCLists
    NoDraft = NoDraft
    Creates = {k1, k2}
    Calls = {c1, c2}
    Tokens = 1
    OAAnswers <- MCAnswers
    Downloads = {d1, d2}
INVARIANTS
    NothingSkipped
    StillListingExact
    AbsentMeansNotThere
    IntervalsAreSamples
    ContactGoesWherePreviewed
    ClaimableRowsWroteNothing
    RecipientsAsAsked
    CreatedOnce
    AuditedOnce
    WorkIsAttributed
    RecordMatchesReply
    StreamFollowsItsRequest
PROPERTIES
    AccessGranted
    InvitationsGated
    NothingAfterRecord
    EveryCallEnds
CHECK_DEADLOCK FALSE

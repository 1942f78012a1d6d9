SPECIFICATION Spec
CONSTANTS
    Ops = {o1, o2}
    Tools = {"update_draft", "send_draft", "update_event",
             "respond_to_event", "cancel_event", "set_message_flag",
             "update_task", "delete_draft", "get_message", "get_event"}
    MaxVersion = 1
    Absent = Absent
INVARIANTS
    DraftUpdateIsPreviewed
    FailedMeansUntouched
    ShownInScope
    NoticesGated
SYMMETRY MCOpSymmetry
CHECK_DEADLOCK FALSE

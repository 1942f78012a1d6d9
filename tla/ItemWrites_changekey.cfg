SPECIFICATION Spec
CONSTANTS
    Ops = {o1}
    Tools = {"update_task"}
    MaxVersion = 2
    Absent = Absent
PROPERTY TaskChangeKeyChecked
CHECK_DEADLOCK FALSE

\* A late answer meets the next request of its kind.
SPECIFICATION MCSpec
CONSTANTS
    Kinds = {"SendText", "AddFriend"}
    MaxCmds = 2
    MaxPushes = 1
    Limit = 1
INVARIANTS
    ResponseAnswersRequest
CHECK_DEADLOCK FALSE

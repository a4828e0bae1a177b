\* The network loop with its clock: two kinds of command.
SPECIFICATION MCFairSpec
CONSTANTS
    Kinds = {"SendText", "AddFriend"}
    MaxCmds = 3
    MaxPushes = 2
    Limit = 1
INVARIANTS
    TypeOK
    PushesInOrder
    NoPushLost
    CommandsInOrder
    AnswersUsedOnce
    StaleAnswersExplained
    WaitBound
PROPERTIES
    EveryCommandFinishes
    PushEventuallyHandled
    ImplementsDelivery
CHECK_DEADLOCK FALSE

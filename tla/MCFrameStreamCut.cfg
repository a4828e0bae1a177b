\* A call of recv dropped in the middle of a frame.
SPECIFICATION Spec
CONSTANTS
    Base = 3
    MAX_BODY_LEN = 4
    Frames <- MCFrames
    Requests <- MCRequests
    MaxFrames = 3
INVARIANTS
    AlwaysInStep
CHECK_DEADLOCK FALSE

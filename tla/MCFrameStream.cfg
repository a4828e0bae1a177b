\* Frames on the byte stream, with calls of recv dropped anywhere.
SPECIFICATION Spec
CONSTANTS
    Base = 3
    MAX_BODY_LEN = 4
    Frames <- MCFrames
    Requests <- MCRequests
    MaxFrames = 3
INVARIANTS
    TypeOK
    InStepUntilCut
    RequestsReadBack
CHECK_DEADLOCK FALSE

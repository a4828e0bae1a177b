\* Repeated clicks and gate requests around one login.
SPECIFICATION FairSpec
CONSTANTS
    me = me
    u = u
    m = m
    l = l
    Uid = {me, u}
    NoUid = 0
    Name = {m, l}
    Text = {}
    UidLabel <- MCLabel
    GateReplies <- MCGateReplies
    LoginFrames <- MCLoginFrames
    MaxClicks = 3
    MaxJobs = 2
INVARIANTS
    TypeOK
    MainWindowMeansSession
    AllOrNothing
PROPERTIES
    OneAttempt
    AttemptIsShown
CHECK_DEADLOCK FALSE

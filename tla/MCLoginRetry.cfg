\* A login after a failed one.
SPECIFICATION Spec
CONSTANTS
    me = me
    u = u
    m = m
    l = l
    Uid = {me, u}
    NoUid = 0
    Name = {m, l}
    Text = {}
    UidLabel <- MCLabel
    GateReplies <- MCGateReplies
    LoginFrames <- MCLoginFrames
    MaxClicks = 2
    MaxJobs = 0
PROPERTIES
    RepeatFindsOneRunning
CHECK_DEADLOCK FALSE

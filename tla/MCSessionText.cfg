\* Texts: the uid of one friend is supplied, that of another is to be learned.
SPECIFICATION FairSpec
CONSTANTS
    me = me
    u1 = u1
    u2 = u2
    self = self
    alice = alice
    bob = bob
    lm = lm
    l1 = l1
    l2 = l2
    none = none
    Uid = {me, u1, u2}
    NoUid = 0
    Name = {self, alice, bob, lm, l1, l2, none}
    NoFriend = none
    Text <- MCText
    UidLabel <- MCUidLabel
    UserName <- MCUserName
    Me = me
    TextIds <- TextsOfAll
    Kinds = {"SendText"}
    LoginFriends <- OneUnknown
    LoginApplies <- Nobody
    MaxCmds = 1
    MaxPushes = 2
    MaxSends = 2
INVARIANTS
    TypeOK
    TextsFiledOnce
    SentToTheShownFriend
    UidsAreTheirs
    WindowCatchesUp
PROPERTIES
    UsesTheReducer
    ImplementsLoop
    TextsShowUp
CHECK_DEADLOCK FALSE

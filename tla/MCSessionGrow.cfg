\* Searches, friend requests, approvals and rejections; a friend's uid is to be
\* learned.
SPECIFICATION FairSpec
CONSTANTS
    me = me
    u1 = u1
    u2 = u2
    self = self
    alice = alice
    bob = bob
    lm = lm
    l1 = l1
    l2 = l2
    none = none
    Uid = {me, u1, u2}
    NoUid = 0
    Name = {self, alice, bob, lm, l1, l2, none}
    NoFriend = none
    Text <- MCText
    UidLabel <- MCUidLabel
    UserName <- MCUserName
    Me = me
    TextIds <- TextsOfOthers
    Kinds = {"Search", "AddFriend", "ApproveApply"}
    LoginFriends <- AliceUnknown
    LoginApplies <- BobApplies
    MaxCmds = 2
    MaxPushes = 1
    MaxSends = 0
INVARIANTS
    NoClaimWithoutGrant
    ShownResultIsStored
    FlagExplained
    UidsAreTheirs
    WindowCatchesUp
    TextsFiledOnce
PROPERTIES
    UsesTheReducer
    SearchEndsWhileRunning
CHECK_DEADLOCK FALSE

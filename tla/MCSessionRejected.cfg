\* An apply approved and rejected before the answer.
SPECIFICATION Spec
CONSTANTS
    me = me
    u1 = u1
    u2 = u2
    self = self
    alice = alice
    bob = bob
    lm = lm
    l1 = l1
    l2 = l2
    none = none
    Uid = {me, u1, u2}
    NoUid = 0
    Name = {self, alice, bob, lm, l1, l2, none}
    NoFriend = none
    Text <- MCText
    UidLabel <- MCUidLabel
    UserName <- MCUserName
    Me = me
    TextIds <- TextsOfOthers
    Kinds = {"ApproveApply"}
    LoginFriends <- OnlyAlice
    LoginApplies <- BobApplies
    MaxCmds = 1
    MaxPushes = 1
    MaxSends = 0
PROPERTIES
    ApprovedIsFriend
CHECK_DEADLOCK FALSE

\* A search after the connection is lost.
SPECIFICATION FairSpec
CONSTANTS
    me = me
    u1 = u1
    u2 = u2
    self = self
    alice = alice
    bob = bob
    lm = lm
    l1 = l1
    l2 = l2
    none = none
    Uid = {me, u1, u2}
    NoUid = 0
    Name = {self, alice, bob, lm, l1, l2, none}
    NoFriend = none
    Text <- MCText
    UidLabel <- MCUidLabel
    UserName <- MCUserName
    Me = me
    TextIds <- TextsOfOthers
    Kinds = {"Search"}
    LoginFriends <- OnlyAlice
    LoginApplies <- Nobody
    MaxCmds = 1
    MaxPushes = 0
    MaxSends = 0
PROPERTIES
    SearchEnds
CHECK_DEADLOCK FALSE

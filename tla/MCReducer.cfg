\* The reducer alone: every order of its methods, two users.
SPECIFICATION MCSpec
CONSTANTS
    u1 = u1
    u2 = u2
    a = a
    l1 = l1
    l2 = l2
    Uid = {u1, u2}
    NoUid = 0
    Name = {a, l1, l2}
    Text = {hi}
    UidLabel <- MCUidLabel
    FriendLists <- MCFriendLists
    ApplyLists <- MCApplyLists
    MaxMessages = 2
INVARIANTS
    TypeOK
    FriendUidsUnique
    ApplyUidsUnique
    UnreadExact
PROPERTIES
    AppendOnly
    FriendsStable

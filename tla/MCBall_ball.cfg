\* Two transfer threads, one after the other, and one chat of a user who is
\* a member of his own list.
SPECIFICATION BallFairSpec
CONSTANTS
    ann = ann
    Names <- MCNames
    NoName = NoName
    MemberList <- MCMembers
    PrefixOf <- MCNoPrefix
    Listen = Listen
    Hasty = FALSE
    MaxThreads = 2
    MaxChats = 1
    MaxIn = 1
    Burst = 5
INVARIANTS
    ShownOnceInOrder
PROPERTIES
    ClientSpec
    ServerSpec
    Settles
CHECK_DEADLOCK FALSE

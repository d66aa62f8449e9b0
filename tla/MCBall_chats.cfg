\* Two transfer threads, one after the other, and two chats of a user who is
\* a member of his own list: the least there is an order of.
SPECIFICATION BallSpec
CONSTANTS
    ann = ann
    Names <- MCNames
    NoName = NoName
    MemberList <- MCMembers
    PrefixOf <- MCNoPrefix
    Listen = Listen
    Hasty = FALSE
    MaxThreads = 2
    MaxChats = 2
    MaxIn = 2
    Burst = 6
INVARIANTS
    ShownOnceInOrder
CHECK_DEADLOCK FALSE

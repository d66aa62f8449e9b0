\* Three transfer threads, one after the other: one that ends before it has
\* sent its LOGIN leaves it to the next (server.c:300).
SPECIFICATION BallSpec
CONSTANTS
    ann = ann
    Names <- MCNames
    NoName = NoName
    MemberList <- MCMembers
    PrefixOf <- MCNoPrefix
    Listen = Listen
    Hasty = FALSE
    MaxThreads = 3
    MaxChats = 0
    MaxIn = 0
    Burst = 6
INVARIANTS
    AccountsKnowPeers
CHECK_DEADLOCK FALSE

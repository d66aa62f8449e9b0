\* A user who waits for a transfer thread to be over.
SPECIFICATION Spec
CONSTANTS
    ann = ann
    bob = bob
    Names <- MCNames
    NoName = NoName
    MemberList <- MCMemberList
    MaxThreads = 2
    MaxChats = 1
    MaxIn = 1
    Burst = 1
    Hasty = FALSE
INVARIANTS
    LoggedIn
    SenderIsAccount
CHECK_DEADLOCK FALSE

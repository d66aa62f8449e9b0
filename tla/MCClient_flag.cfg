\* A late answer makes a dead connection look alive (gui_client.c:149).
SPECIFICATION Spec
CONSTANTS
    ann = ann
    bob = bob
    Names <- MCOneName
    NoName = NoName
    MemberList <- MCMemberList
    MaxThreads = 2
    MaxChats = 1
    MaxIn = 0
    Burst = 1
    Hasty = FALSE
INVARIANTS
    FlagIsTrue
CHECK_DEADLOCK FALSE

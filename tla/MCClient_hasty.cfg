\* Two transfer threads that may overlap, as the user clicks at any time.
SPECIFICATION Spec
CONSTANTS
    ann = ann
    bob = bob
    Names <- MCOneName
    NoName = NoName
    MemberList <- MCMemberList
    MaxThreads = 2
    MaxChats = 1
    MaxIn = 0
    Burst = 1
    Hasty = TRUE
INVARIANTS
    TypeOK
    OutOnceInOrder
    InOnceInOrder
    PanelBeforeMembers
CHECK_DEADLOCK FALSE

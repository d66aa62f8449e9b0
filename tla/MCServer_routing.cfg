\* Accounts, routing and output between two clients that send three
\* packets between them, one of them at most a LOGIN; no timer.
SPECIFICATION Spec
CONSTANTS
    Peers = {p1, p2}
    Listen = Listen
    ann = ann
    anna = anna
    Names <- MCNames
    PrefixOf <- MCNoPrefix
    Members <- MCMembers
    IdleMax = 1
    MaxEvents = 4
    LoginsPerPeer = 1
    MaxMsgs = 3
    Burst = 1
    MaxClock = 0
INVARIANTS
    TypeOK
    AccountsKnowPeers
    EventsLive
    NoLostEvent
    AnsweredFirst
    ChatsInOrder
PROPERTIES
    RightRecipient
    MembersToAsker
    DirectorySpec
SYMMETRY MCSymmetry
CHECK_DEADLOCK FALSE

\* One account name is a prefix of the other (protocol:26, "TO WHERE").
SPECIFICATION Spec
CONSTANTS
    Peers = {p1, p2}
    Listen = Listen
    ann = ann
    anna = anna
    Names <- MCNames
    PrefixOf <- MCPrefix
    Members <- MCMembers
    IdleMax = 1
    MaxEvents = 4
    LoginsPerPeer = 1
    MaxMsgs = 2
    Burst = 1
    MaxClock = 0
PROPERTIES
    RightRecipient
CHECK_DEADLOCK FALSE

\* Idle timeouts and liveness: a peer is late after more than IdleMax = 0
\* ticks of a clock that makes one, with alarms falling anywhere in the loop.
SPECIFICATION FairSpec
CONSTANTS
    Peers = {p1, p2}
    Listen = Listen
    ann = ann
    anna = anna
    Names <- MCOneName
    PrefixOf <- MCNoPrefix
    Members <- MCOneMember
    IdleMax = 0
    MaxEvents = 4
    LoginsPerPeer = 1
    MaxMsgs = 1
    Burst = 1
    MaxClock = 1
INVARIANTS
    TimeoutOrder
PROPERTIES
    ClearedAll
    IdleEvicted
    Served
CHECK_DEADLOCK FALSE

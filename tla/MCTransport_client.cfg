\* The sending endpoint of the client: EPOLLOUT is registered
\* (gui_client.c:102), so a refused write is resumed by the event loop.
SPECIFICATION FairSpec
CONSTANTS
    HeadLen <- MCHeadLen
    Lengths <- MCLengths
    SockBuf = 3
    MaxMsgs = 3
    EpollOut = TRUE
INVARIANTS
    TypeOK
    Framing
    ResumeInv
    NoLostEdge
PROPERTIES
    ChannelSpec
    AllDelivered
CHECK_DEADLOCK FALSE

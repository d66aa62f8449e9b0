\* The sending endpoint of the server: server.c:459 registers only
\* EPOLLIN | EPOLLET | EPOLLHUP, so nothing resumes a refused write.
SPECIFICATION FairSpec
CONSTANTS
    HeadLen <- MCHeadLen
    Lengths <- MCLengths
    SockBuf = 3
    MaxMsgs = 2
    EpollOut = FALSE
PROPERTIES
    AllDelivered
CHECK_DEADLOCK FALSE

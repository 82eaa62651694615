SPECIFICATION FairStreamSpec
CONSTANTS
    c1 = c1
    c2 = c2
    NumMessages = 1
    Users <- MCUsers
    Sender <- MCSender
    Clients <- TwoClients
    BroadcastCap = 1
    SendCap = 1
    ReplayLimit = 1
    MaxFrames = 2
    MaxBulkReads = 1
INVARIANTS
    NothingMissed
PROPERTIES
    ReceiptsFollowTheTable
    EventuallySeen
CHECK_DEADLOCK FALSE

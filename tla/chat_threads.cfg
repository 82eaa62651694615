SPECIFICATION FairSpec
CONSTANTS
    h1 = h1
    h2 = h2
    s1 = s1
    s2 = s2
    AssignedEvents <- MCAssigned
    StatusEvents <- MCStatus
    SilentEvents <- MCSilent
    UnassignedEvents <- MCUnassigned
    AnonymousEvents <- MCAnonymous
    AutoKey <- MCAutoKey
    Handlers <- MCHandlers
    Senders <- MCSenders
    UserKeys <- MCUserKeys
    Owner <- MCOwner
    MaxFaults = 1
INVARIANTS
    AckedMeansSaid
    AnnouncedOnce
    SentOnce
PROPERTIES
    StatusIsSaid
CHECK_DEADLOCK FALSE

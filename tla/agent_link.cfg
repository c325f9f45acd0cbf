SPECIFICATION MCSpec
CONSTANTS
    Requests = {"q"}
    Viewers = {"v", "w"}
    QueueSize = 2
    MaxStreams = 5
    MaxFaults = 1
CHECK_DEADLOCK FALSE
INVARIANTS RevocationStands WaitersWillBeTold
PROPERTIES TaskIsReceived ShownOnlineAgain

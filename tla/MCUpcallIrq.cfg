SPECIFICATION FairSpec
CONSTANTS
    Device = {"prim", "dpchan"}
    Dpchan = "dpchan"
    Width = 5
    SockMax = 3
    MaxDrops = 2
INVARIANTS
    CauseNotForgotten
    SocketSound
PROPERTIES
    EventsDelivered

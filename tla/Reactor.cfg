SPECIFICATION FairReactorSpec
CONSTANTS
    NReactors = 2
    Fds = {f1, f2}
    NoFd = NoFd
    Inputs = {"chat", "frame"}
    MaxEvents = 2
    MaxConns = 3
    MaxInputs = 1
    MaxEnding = 2
INVARIANTS
    TypeOK
    WatchedIsComplete
    RoutingSafe
    MapIsCurrent
    EventReachesItsSocket
    HandlerOwnsItsSocket
    NothingLost
PROPERTIES
    ClosedIsReleased
    DataIsRead

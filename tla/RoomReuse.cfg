SPECIFICATION Spec
CONSTANTS
    NReactors = 2
    Fds = {f1, f2}
    f1 = f1
    f2 = f2
    NoFd = NoFd
    Names = {"cat", "bot", "dog"}
    Payloads <- AnyRooms
    Texts <- Texts1
    SpeakGap = 1
    AiGap = 2
    HistoryCap = 2
    MaxConns = 3
    MaxRooms = 1
    MaxCommands = 4
    MaxQueued = 1
    MaxLeaves = 1
    MaxTime = 0
SYMMETRY FdSymmetry
INVARIANTS
    RoomTypeOK
    SeatsAreConsistent
    
    

    
CHECK_DEADLOCK FALSE

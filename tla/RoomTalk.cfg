SPECIFICATION FairSpec
CONSTANTS
    NReactors = 1
    Fds = {f1, f2}
    f1 = f1
    f2 = f2
    NoFd = NoFd
    Names = {"cat", "bot", "dog"}
    Payloads <- TalkRooms
    Texts <- Texts2
    SpeakGap = 1
    AiGap = 2
    HistoryCap = 2
    MaxConns = 2
    MaxRooms = 1
    MaxCommands = 4
    MaxQueued = 2
    MaxLeaves = 0
    MaxTime = 2
INVARIANTS
    AiSpeaksExactlyWhenDue
    HistoryIsRecent
    RoundIsOpen

    
CHECK_DEADLOCK FALSE

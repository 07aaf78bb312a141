SPECIFICATION SessionSpec
CONSTANTS
    r1 = r1
    r2 = r2
    s1 = s1
    s2 = s2
    ann = ann
    bob = bob
    Reactors = {r1, r2}
    RoomThread = room
    Sockets = {s1, s2}
    Loop <- TwoLoops
    Accounts = {5, 6}
    MaxRooms = 1
    FileCap = 2
    HistoryCap = 1
    MaxTexts = 2
    MaxCrashes = 1
    Names = {ann, bob}
    NoName = NoName
    ContextCap = 2
INVARIANTS
    SessionTypeOK
    OwnHistoryOnly
    SessionIsOneAccount
    AiKnowsTheUser
    KeptUnlessSpoiled
    
    FilesAreOrdered
    RoomRemembers
SYMMETRY SessionSymmetry

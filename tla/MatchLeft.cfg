SPECIFICATION FairSpec
CONSTANTS
    NReactors = 1
    Fds = {1, 2}
    NoFd = NoFd
    Inputs = {"join", "yes"}
    MaxEvents = 2
    MaxConns = 2
    MaxInputs = 2
    MaxEnding = 1
PROPERTIES
    PeerIsToldOfLeaving

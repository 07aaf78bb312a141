SPECIFICATION FairSpec
CONSTANTS
    NReactors = 2
    Fds = {1, 2}
    NoFd = NoFd
    Inputs = {"join", "yes", "chat"}
    MaxEvents = 2
    MaxConns = 2
    MaxInputs = 3
    MaxEnding = 0
PROPERTIES
    EveryoneIsAsked
    

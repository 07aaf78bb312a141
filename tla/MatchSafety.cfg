SPECIFICATION Spec
CONSTANTS
    NReactors = 2
    Fds = {1, 2}
    NoFd = NoFd
    Inputs = {"join", "yes", "say"}
    MaxEvents = 2
    MaxConns = 2
    MaxInputs = 3
    MaxEnding = 1
INVARIANTS
    MatchTypeOK
    
    
    TextStaysBetweenPartners

    

SPECIFICATION Spec
CONSTANTS
    NReactors = 1
    Fds = {1, 2}
    NoFd = NoFd
    Inputs = {"join", "yes"}
    MaxEvents = 2
    MaxConns = 3
    MaxInputs = 2
    MaxEnding = 1
INVARIANTS
    InitiatorIsTold

SPECIFICATION FairFrameSpec
CONSTANTS
    Cap = 21
    Bytes = {0, 1, 2, 3, 4, 5, 6, 7, 8}
    MaxBlock = 6
    HeaderLen = 2
    Magic = 1
    Heartbeat = 2
    Chat = 3
    HeartbeatText <- NoText
    ChatTexts <- Tricky
    MaxBody = 9
    MaxSend = 8
    MaxMessages = 3
INVARIANTS
    FrameTypeOK
    FramesAsSent
    
PROPERTIES
    EveryFrameIsHandled
CHECK_DEADLOCK FALSE

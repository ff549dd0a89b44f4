SPECIFICATION IpcSpec
CONSTANTS
    MaxPayload = 2
    Capacity = 2
    MaxWritten <- MCMaxWritten
    Clients = {"console", "raw"}
    RawRequests = {"Handshake", "Ping", "ShutdownRequest", "ReserveSession", "AttachSession",
                   "DetachSession", "SessionInput", "SessionOutput", "OtherVersion"}
    MaxRequests = 3
    MaxTyped = 2
    MayStop = TRUE
INVARIANTS
    WholeFramesShowWhatWasWritten
    InputIsReadInOrder
    NothingIsLostOnTheWay

    
    
    
CHECK_DEADLOCK FALSE

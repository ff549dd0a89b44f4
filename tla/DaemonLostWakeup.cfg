\* One session, one line of input.
SPECIFICATION FairDaemonSpec
CONSTANTS
    Sessions = {1}
    MaxDepth = 1
    Conns = {c1}
    NoConn = NoConn
    Chunks = {"line"}
    Commands = {"other"}
    MaxInputs = 1
    MaxAttaches = 1
    MaxKills = 0
    MaySignal = FALSE
PROPERTY
    InputWakesReader
CHECK_DEADLOCK FALSE

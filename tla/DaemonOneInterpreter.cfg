\* One console closes while its session waits in the middle of a line.
SPECIFICATION DaemonSpec
CONSTANTS
    Sessions = {1, 2}
    MaxDepth = 1
    Conns = {c1, c2}
    NoConn = NoConn
    Chunks = {"part", "line"}
    Commands = {"other"}
    MaxInputs = 2
    MaxAttaches = 2
    MaxKills = 0
    MaySignal = FALSE
INVARIANT
    OneInterpreter
CHECK_DEADLOCK FALSE

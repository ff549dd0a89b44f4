\* Two sessions, their consoles and a re-attach, kills and shutdown, with fairness.
SPECIFICATION FairDaemonSpec
CONSTANTS
    Sessions = {1, 2}
    MaxDepth = 1
    Conns = {c1, c2}
    NoConn = NoConn
    Chunks = {"part", "line"}
    Commands = {"other", "QUIT", "LOGOFF", "KILLSESSION"}
    MaxInputs = 2
    MaxAttaches = 3
    MaxKills = 1
    MaySignal = TRUE
PROPERTIES
    TokenIsGivenBack
    MainLoopGoesOn
CHECK_DEADLOCK FALSE

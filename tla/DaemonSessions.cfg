\* Two sessions and two consoles: every command, whole and half lines, three
\* attaches or reservations, two kills and a shutdown.
SPECIFICATION DaemonSpec
CONSTANTS
    Sessions = {1, 2}
    MaxDepth = 1
    Conns = {c1, c2}
    NoConn = NoConn
    Chunks = {"part", "line"}
    Commands = {"other", "QUIT", "LOGOFF", "KILLSESSION", "SHUTDOWN"}
    MaxInputs = 3
    MaxAttaches = 3
    MaxKills = 2
    MaySignal = TRUE
SYMMETRY ConnSymmetry
INVARIANTS
    HolderIsAtWork
    OpenConsoleHoldsToken
    WorkerChannelLives
    OpenChannelIsBound
    DetachedIsIdle
    HaltIsClean
CHECK_DEADLOCK FALSE

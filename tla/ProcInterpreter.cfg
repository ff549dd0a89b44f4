SPECIFICATION ProcSpec
CONSTANTS
    Files <- MCFiles
    Ids <- MCIds
    DefData = "DATA"
    Workloads <- MCWorkloads
    Answers <- MCAnswers
    PeerTexts <- MCPeerTexts
INVARIANTS
    ReadNextVisitsEveryRecord
    
    
PROPERTIES
    LoopControl
    ListLoopsEnd
CHECK_DEADLOCK FALSE

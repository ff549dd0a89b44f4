SPECIFICATION ProcSpec
CONSTANTS
    Files <- MCFiles
    Ids <- MCIds
    DefData = "DATA"
    Workloads <- PromptWorkloads
    Answers <- MCAnswers
    PeerTexts <- MCPeerTexts
INVARIANTS
    ConflictsAreReported
CHECK_DEADLOCK FALSE

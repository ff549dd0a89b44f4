SPECIFICATION FairClientSpec
CONSTANTS
    Sessions = {1, 2, 3}
    MaxDepth = 1
    MaxTurns = 2
    MaxYields = 1
INVARIANTS
    
    BoundedOvertaking
PROPERTIES
    TokenRefinement
    
    
CHECK_DEADLOCK FALSE

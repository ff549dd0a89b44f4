CONSTANTS
    IntMax = 7
    MaxDepth = 3
    MaxLines = 9
    MaxCommands = 4
    Debugged <- MCDebugged
    Numerals <- MCNumerals
    Collation <- MCCollation
    IntNames <- MCIntNames
    StringNames <- MCStringNames
    SystemVars <- MCSystemVars
    DictFields <- MCDictFields
    BadNames <- MCBadNames
    Arities <- MCArities
    Library <- MCLibrary
    Programs <- MCPrograms
    Environments <- MCEnvironments
SPECIFICATION Spec
INVARIANTS
    StatementBalance
    CompiledMeetsSource
    
CHECK_DEADLOCK FALSE

CONSTANTS
    ProgNames = {"P"}
    LineNos = {5, 20}
    MaxLocks = 1
    Statements <- MCStatements
    Typed <- MCTyped
    Samples <- MCSamples
    Assembled0 <- MCAssembled0
    Names <- MCNames
    ReadOnly <- MCReadOnly
    IntNames <- MCIntNames
    StringNames <- MCStringNames
    Arities <- MCArities
    FunctionIds <- MCFunctionIds
    Numbers <- MCNumbers
    Floats <- MCFloats
    Shown <- MCShown
    Spelling <- MCSpelling
SPECIFICATION Spec
INVARIANTS
    
    ObjectLoadsExactly

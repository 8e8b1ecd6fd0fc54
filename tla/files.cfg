CONSTANTS
    Symbols <- MCSymbols
    Values <- MCValues
    Decimal <- MCDecimal
    Hexadecimal <- MCHexadecimal
    Prefixed <- MCPrefixed
    Kconfigs <- MCKconfigs
    Types <- MCTypes
    Members <- MCMembers
    CalcValues <- MCCalcValues
    Entered <- MCEntered
    Objects <- MCObjects
    DepFile <- MCDepFile
    Words <- MCWords
    Rust <- MCRust
    Nothing = Nothing
    MaxEdits = 2
    MaxFaults = 1
SPECIFICATION Spec
CHECK_DEADLOCK FALSE
INVARIANTS
    ConfigSurvives
    Rebuilt

CONSTANTS
    Char <- MCChar
    AlNum <- MCAlNum
    Blank = "_"
    Placeholder = "P"
    Colon = ":"
    Lt = "<"
    Star = "*"
    Gt = ">"
    Primary <- SharedPrimary
    Dict <- SharedDict
    MaxCascadeDepth = 2
    Blocks <- SharedBlocks
    MinLeaves = 2
    MaxWords = 2
SPECIFICATION Spec
INVARIANTS RowsReconstructed
CHECK_DEADLOCK FALSE

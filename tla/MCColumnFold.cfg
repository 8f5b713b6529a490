CONSTANTS
    Char <- MCChar
    AlNum <- MCAlNum
    Blank = "_"
    Placeholder = "P"
    Colon = ":"
    Lt = "<"
    Star = "*"
    Gt = ">"
    Primary <- FoldPrimary
    Dict <- NoDict
    MaxCascadeDepth = 2
    Blocks <- FoldBlocks
    MinLeaves = 2
    MaxWords = 2
SPECIFICATION Spec
INVARIANTS RowsReconstructed
CHECK_DEADLOCK FALSE

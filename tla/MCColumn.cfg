CONSTANTS
    Char <- MCChar
    AlNum <- MCAlNum
    Blank = "_"
    Placeholder = "P"
    Colon = ":"
    Lt = "<"
    Star = "*"
    Gt = ">"
    Primary <- MCPrimary
    Dict <- MCDict
    MaxCascadeDepth = 2
    Blocks <- MCBlocks
    MinLeaves = 2
    MaxWords = 2
SPECIFICATION Spec
INVARIANTS TypeOK RowsReconstructed StreamsInStep NothingLeftToFold CountsUses NestingBounded
CHECK_DEADLOCK FALSE

CONSTANTS
    Char <- MCChar
    AlNum <- MCAlNum
    Blank = " "
    Placeholder = "<*>"
    Letter <- MCLetter
    Digit <- MCDigit
    Index = "[n]"
    Expr <- MCExpr
    Value <- MCValue
    MacroLevel <- MCMacroLevel
    ArgLevel <- MCArgLevel
    Trees <- MCTrees
SPECIFICATION Spec
INVARIANTS
    EveryCallAccounted
    LinesExplained
    MacrosFound
CHECK_DEADLOCK FALSE

CONSTANTS
    Char <- MCChar
    AlNum <- MCAlNum
    Blank = "_"
    Placeholder = "*"
    Texts <- MCTexts
    Lines <- MCLines
    Sentinel <- MCSentinel
    Level <- MCLevel
    Lib <- MCLib
    Mined = "mined"
    Oversized <- MCOversized
    Seeds <- MCSeeds
    Candidates <- MCCandidates
    MaxOffered = 4
SPECIFICATION Spec
INVARIANT CanonicalCoversAlias
CHECK_DEADLOCK FALSE

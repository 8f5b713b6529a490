CONSTANTS
    Char <- MCChar
    AlNum <- MCAlNum
    Blank = "_"
    Placeholder = "*"
    Texts <- MCTexts
    Lines <- MCLines
    Level <- MCLevel
    Lib <- MCLib
    Mined = "mined"
    Oversized = {}
    Manifests <- MCManifests
SPECIFICATION Spec
INVARIANTS TypeOK ScanFindsBest IndexLosesNothing MostSpecificWins
CHECK_DEADLOCK FALSE

CONSTANTS
    Char <- MCChar
    AlNum <- MCAlNum
    Blank = "_"
    Placeholder = "*"
    Texts <- MCTexts
    Lines <- MCLines
    Sentinel <- MCSentinel
    Level <- MCLevel
    Lib <- MCLib
    Mined = "mined"
    Oversized <- MCOversized
    Promoter = {p1}
    Inode = {n1, n2, n3}
    None = None
    Truncated = Truncated
    Torn = Torn
    Candidates <- MCCandidates
SPECIFICATION Spec
INVARIANTS
    TypeOK
    DiskWhole
    ReportedIsSaved
PROPERTY DiskOnlyGrows

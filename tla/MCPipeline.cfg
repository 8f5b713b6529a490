CONSTANTS
    Char <- MCChar
    AlNum <- MCAlNum
    Blank = "_"
    Placeholder = "*"
    Texts <- MCTexts
    Lines <- MCLines
    Sentinel <- MCSentinel
    Level = {"", "info"}
    Lib = {"mined", "log"}
    Mined = "mined"
    Oversized = {}
    Seeds <- MCSeeds
    Candidates = {}
    MaxOffered = 20
    Word <- MCWord
    Variable <- MCVariable
    AlNumOf <- MCAlNumOf
    MaxPerBucket = 1
    MaxTotal = 1
    MinSeen = 1
    MaxLines = 3
    Spelling <- MCSpelling
    Raw <- MCRaw
    MaxRounds = 2
SPECIFICATION PipeSpec
INVARIANT CandidateLinesExplained
PROPERTY NothingUnlearned
CHECK_DEADLOCK FALSE

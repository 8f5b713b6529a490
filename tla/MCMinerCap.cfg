CONSTANTS
    Word <- MCWord
    Placeholder = "*"
    Variable <- MCVariable
    AlNumOf <- MCAlNumOf
    Lines <- MCLines
    MaxPerBucket = 2
    MaxTotal = 3
    MinSeen = 2
    MaxLines = 6
SPECIFICATION Spec
INVARIANT TotalCapped
CHECK_DEADLOCK FALSE

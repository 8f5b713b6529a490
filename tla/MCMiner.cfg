CONSTANTS
    Word <- MCWord
    Placeholder = "*"
    Variable <- MCVariable
    AlNumOf <- MCAlNumOf
    Lines <- MCLines
    MaxPerBucket = 2
    MaxTotal = 3
    MinSeen = 2
    MaxLines = 6
SPECIFICATION Spec
INVARIANTS
    TypeOK
    LeastGeneralisation
    EveryLineAccounted
    BucketsBounded
    LeadingWordKept
    CandidatesFrequent
PROPERTY OnlyGeneralises
CHECK_DEADLOCK FALSE

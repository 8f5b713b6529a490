CONSTANTS
    Node <- MCNode
    Root <- MCRoot
    Value <- MCValue
    Empty = ""
    TemplateOf <- MCTemplateOf
    Params <- MCParams
    MaxDistinct = 2
    MinSeen = 3
    RepeatFactor = 2
    MaxLines = 7
SPECIFICATION Spec
INVARIANTS TypeOK EnumsExact TrackedBounded
CHECK_DEADLOCK FALSE

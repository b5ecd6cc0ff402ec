CONSTANTS
    LIMIT = 4
    REMAINDER = 2
    MaxSamples = 7
SPECIFICATION Spec
INVARIANTS
    TypeOK
    BoundedBacklog
    NewestWithoutGap
    TrimKeepsRemainder
    UnderflowNeedsDrain
    SentInOrder
PROPERTY FeedSpec
CHECK_DEADLOCK FALSE

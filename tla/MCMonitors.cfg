CONSTANTS
    Files <- SomeFiles
    Lines <- SomeLines
    NameInside <- SomeNameInside
    TitleLen <- SomeTitleLen
    OBJECT_NUM = 2
    MAX_DBCOUNT = 1
    FieldSize = 5
    BufSize = 8
    Names = {"a", "b"}
    Pids = {1, 2}
    MaxConns = 1
    MaxWrites = 2
    MaxCount = 12
    MaxStep = 1
    Modulus = 8
SPECIFICATION Spec
INVARIANTS
    TypeOK
    FindsOwnKey
    AnswerIsValue
    BuiltIsLoaded
    RatesSurviveOverflow
PROPERTIES
    SeenIsReported
CHECK_DEADLOCK FALSE

CONSTANTS
    Files = {f1}
    READ_LINE_NUM = 1
    Tags = {"INFO", "WARNING", "ERROR"}
    MaxLines = 2
    MaxRotations = 0
    MaxIgnores = 1
SPECIFICATION FairSpec
PROPERTIES
    ErrorReported
    IgnoreTakesEffect
CHECK_DEADLOCK FALSE

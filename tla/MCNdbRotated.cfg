CONSTANTS
    Files = {f1}
    READ_LINE_NUM = 2
    Tags = {"INFO"}
    MaxLines = 1
    MaxRotations = 1
    MaxIgnores = 1
SPECIFICATION FairSpec
PROPERTY IgnoreTakesEffect
CHECK_DEADLOCK FALSE

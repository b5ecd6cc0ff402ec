CONSTANTS
    Files = {f1}
    READ_LINE_NUM = 1
    Tags = {"INFO", "WARNING", "ERROR", "none"}
    MaxLines = 2
    MaxRotations = 1
    MaxIgnores = 2
SPECIFICATION Spec
INVARIANTS
    TypeOK
    SwallowsOncePerIgnore
    LinesScannedOnce
PROPERTY AlarmFallsOnlyByIgnore
CHECK_DEADLOCK FALSE

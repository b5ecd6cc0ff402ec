CONSTANTS
    MaxMore = 2
    MaxDbs = 2
    StatusRows = 2
    Nodes = {1, 2}
SPECIFICATION Spec
INVARIANTS
    TypeOK
    RowsOfThisStatement
    FieldsInPlace
PROPERTY ConnectionSpec
CHECK_DEADLOCK FALSE

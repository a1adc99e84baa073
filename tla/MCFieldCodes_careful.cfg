SPECIFICATION Spec
CONSTANTS
    field_power = 3
    Codes = {6, 62, 13, 130, 1000}
    Total <- MCTotal
    Data <- MCData
    Rows <- MCRows
    Rows6 = {0, 1, 4}
    Rows62 = {0, 5}
    src_f = 2
    Values = {1, 6}
    MaxWrites = 2
    Methods = {0, 1}
    Careful = TRUE
INVARIANTS
    TypeOK
    AnyFailuresDecode
CHECK_DEADLOCK FALSE

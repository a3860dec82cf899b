SPECIFICATION Spec
CONSTANTS
    a = a
    b = b
    Slash = Slash
    Letters <- MCLetters
    Strings <- MCStrings
    Names <- MCNames
    MinFields = 1
    MaxFields = 2
    MaxBytes = 3
INVARIANTS
    TypeOK
    LimitsExact
    NamesRoundTrip
CHECK_DEADLOCK FALSE

SPECIFICATION Spec
CONSTANTS
    o1 = o1
    f1 = f1
    Own <- MCOwn
    Foreign <- MCForeign
    ChanCap = 1
    BacklogCap = 1
INVARIANTS
    TypeOK
    InStep
PROPERTIES
    ServedDespiteOthers
    ClientsLearn
    HandlersEnd
CHECK_DEADLOCK FALSE

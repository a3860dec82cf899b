SPECIFICATION Spec
CONSTANTS
    w1 = w1
    w2 = w2
    setup = setup
    malformed = malformed
    unsupported = unsupported
    missized = missized
    unencodable = unencodable
    NoWriter = NoWriter
    Writers <- MCWriters
    Messages <- MCMessages
    Size <- MCSize
    Kind <- MCKind
    BufSize = 3
    Window = 2
    Transient = TRUE
    MaxCalls = 2
INVARIANTS
    TypeOK
    FramesIntact
    NilMeansSent
    NothingLeftBehind
PROPERTIES
    TornIsLast
    ChannelSpec
    WriteReturns
    ReadCompletes
CHECK_DEADLOCK FALSE

SPECIFICATION Spec
CONSTANTS
    Offers <- MCOffers
    DefaultMaxIncoming = 1000
    VarintMax = 4000
    MaxAttempts = 2
    NoView = NoView
INVARIANTS
    TypeOK
    NeverOverLicensed
    ClientImpliesServer
    NoFalseAccusation
    RetryNeverEstablishes
    PathlessWebTransport
PROPERTIES
    ContractSpec
    CallsReturn
CHECK_DEADLOCK FALSE

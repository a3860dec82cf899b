SPECIFICATION Spec
CONSTANTS
    Offers <- MCOffers
    DefaultMaxIncoming = 1000
    VarintMax = 4000
    MaxAttempts = 2
    NoView = NoView
INVARIANTS
    ViolationClosesSession
CHECK_DEADLOCK FALSE

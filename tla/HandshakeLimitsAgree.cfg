SPECIFICATION Spec
CONSTANTS
    Offers <- MCOffers
    DefaultMaxIncoming = 1000
    VarintMax = 4000
    MaxAttempts = 2
    NoView = NoView
INVARIANTS
    LimitsAgree
CHECK_DEADLOCK FALSE

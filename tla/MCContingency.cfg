SPECIFICATION Spec
CONSTANTS
    None = None
    Tokens <- EveryToken
    Reasons <- ShortReasons
    Decimal <- Digits
    MinReason = 2
    MaxReason = 9
    MaxText = 12
    MaxClock = 2
    Types <- SvcAndEpec
INVARIANTS
    TypeOK
    NoOtherContingency
    PlainRoundTrip

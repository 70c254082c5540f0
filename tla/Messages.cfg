CONSTANTS
    Char <- MCChar
    HeaderChar <- MCHeaderChar
    Space = "space"
    Nul = "nul"
    Value <- MCValue
    Word = 21
    Limit <- MCLimit
    HeaderMax = 5
    MaxFileSize = 2
    KnownUser <- MCUser
    Composed <- MCComposed
    Noise <- MCNoise
SPECIFICATION Spec
INVARIANT DispatchedAsSent
INVARIANT ArgumentsFit
PROPERTY HeaderWasReceived
PROPERTY ProperIsDispatched

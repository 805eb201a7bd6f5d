SPECIFICATION Spec
CONSTANTS
    MaxRetries = 1
    BackoffBase = 1
    Timeout = 1
    MaxRetryAfter = 1
    Leeway = 2
    Lifetimes <- MCLifetimes
    AuthInterval = 1
    DataInterval = 2
    NoToken = NoToken
INVARIANTS
    RequestsBounded
    CachedTokenIsGood
    VerdictsAreFresh
PROPERTIES
    CallsEnd

\* Three callers; two failures open the breaker.
SPECIFICATION FairBreakerSpec
CONSTANTS
    Caller = {c1, c2, c3}
    failureThreshold = 2
    resetTimeout = 2
    halfOpenRequests = 1
INVARIANTS PermitsAreBacked HalfOpenIsRested OneProbe
PROPERTY Recovers

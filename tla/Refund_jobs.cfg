\* An item of 1 cent of an order of 2, two requests, an administrator, and two
\* workers that may outlive their leases.
CONSTANTS
    i1 = i1  r1 = r1  r2 = r2  w1 = w1  w2 = w2  a1 = a1
    NoItem = NoItem  NoRequest = NoRequest  NoProc = NoProc
    Items = {i1}
    Cost <- OneCent
    Amount = 2
    Requests = {r1, r2}
    Workers = {w1, w2}
    Admins = {a1}
    Slow = TRUE
    RetryLimit = 1
    MaxReviews = 1
    MaxPanel = 1
    MaxCrashes = 0
SYMMETRY Alike
SPECIFICATION Spec
INVARIANTS
    OneRefundInFlight
    SentAsApproved
    CompletedWasReturned
CHECK_DEADLOCK FALSE

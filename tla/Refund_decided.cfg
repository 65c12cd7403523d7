\* An item that is all of an order of 2 cents, two requests, an administrator, and a worker that
\* may die, or find a statement failing, but not outlive its lease.
CONSTANTS
    i1 = i1  r1 = r1  r2 = r2  w1 = w1  w2 = w2  a1 = a1
    NoItem = NoItem  NoRequest = NoRequest  NoProc = NoProc
    Items = {i1}
    Cost <- TwoCents
    Amount = 2
    Requests = {r1, r2}
    Workers = {w1}
    Admins = {a1}
    Slow = FALSE
    RetryLimit = 1
    MaxReviews = 1
    MaxPanel = 0
    MaxCrashes = 1
SPECIFICATION FairSpec
INVARIANTS
    RejectedIsNotSent
    ReturnedAsDecided
PROPERTIES
    CompletedIsFinal
    JobIsDecided
CHECK_DEADLOCK FALSE

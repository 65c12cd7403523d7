\* One order, the scheduler fair, one request lost: every order is decided, every payment booked.
CONSTANTS
    ann = ann  bob = bob  o1 = o1  o2 = o2  h1 = h1  h2 = h2
    gate = gate  beer = beer  combo = combo
    Users = {ann}
    Orders = {o1}
    Buyer <- JustAnn
    Method <- Gateway
    Referred = {ann}
    Tickets = {}
    Products = {beer}
    Promotions = {}
    Stock <- OneBeer
    Limit <- NoTickets
    MaxQty = 1
    Amount = 1
    Fee = 1
    Window = 1
    Handlers = {h1, h2}
    ProviderMoves <- Retry
    MaxRevision = 1
    MaxTime = 2
    MaxCrashes = 1
SPECIFICATION FairSpec
PROPERTIES
    PendingOrderCloses
    ApprovedPaymentIsBooked
CHECK_DEADLOCK FALSE

\* A card is refused, another one is accepted for the same preference.
CONSTANTS
    ann = ann  bob = bob  o1 = o1  o2 = o2  h1 = h1  h2 = h2
    gate = gate  beer = beer  combo = combo
    Users = {ann}
    Orders = {o1}
    Buyer <- JustAnn
    Method <- Gateway
    Referred = {ann}
    Tickets = {}
    Products = {beer}
    Promotions = {}
    Stock <- OneBeer
    Limit <- NoTickets
    MaxQty = 1
    Amount = 1
    Fee = 1
    Window = 1
    Handlers = {h1, h2}
    ProviderMoves <- Retry
    MaxRevision = 0
    MaxTime = 1
    MaxCrashes = 1
SPECIFICATION Spec
INVARIANTS
    LateApprovalIsBooked
CHECK_DEADLOCK FALSE

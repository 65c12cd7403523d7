\* Two customers, the last unit of a ticket type, a wallet and a gateway payment.
CONSTANTS
    ann = ann  bob = bob  o1 = o1  o2 = o2  h1 = h1  h2 = h2
    gate = gate  beer = beer  combo = combo
    Users = {ann, bob}
    Orders = {o1, o2}
    Buyer <- TwoBuyers
    Method <- MixedMethod
    Referred = {}
    Tickets = {gate}
    Products = {}
    Promotions = {}
    Stock <- OneTicket
    Limit <- NoLimit
    MaxQty = 1
    Amount = 1
    Fee = 0
    Window = 1
    Handlers = {h1, h2}
    ProviderMoves <- Retry
    MaxRevision = 0
    MaxTime = 2
    MaxCrashes = 1
SPECIFICATION Spec
SYMMETRY HandlerSymmetry
INVARIANTS
    StockIsBacked
    RightsAreBacked
CHECK_DEADLOCK FALSE

\* One order of a promotion, refunded in parts, wholly or charged back, one request lost.
CONSTANTS
    ann = ann  bob = bob  o1 = o1  o2 = o2  h1 = h1  h2 = h2
    gate = gate  beer = beer  combo = combo
    Users = {ann}
    Orders = {o1}
    Buyer <- JustAnn
    Method <- Gateway
    Referred = {ann}
    Tickets = {}
    Products = {}
    Promotions = {combo}
    Stock <- NoTickets
    Limit <- NoTickets
    MaxQty = 1
    Amount = 3
    Fee = 1
    Window = 1
    Handlers = {h1, h2}
    ProviderMoves <- AnyRefund
    MaxRevision = 0
    MaxTime = 1
    MaxCrashes = 1
SPECIFICATION Spec
SYMMETRY HandlerSymmetry
INVARIANTS
    IndInv
    LedgerAgrees
    StatusesAgree
    RewardFollowsOrder
    ServedOrReviewed
    NoNewsLost
PROPERTIES
    RightsStayRevoked
    ImplementsLifecycle
CHECK_DEADLOCK FALSE

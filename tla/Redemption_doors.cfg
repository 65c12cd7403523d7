\* A ticket and a promotion of one order, two workers, one idempotency key.
CONSTANTS
    o1 = o1  seat = seat  drink = drink  tray = tray  s1 = s1  s2 = s2  k1 = k1
    Orders = {o1}
    Tickets = {seat}
    Consumables = {drink}
    Deliveries = {}
    AtEvent = {seat, drink}
    OrderOf <- OneOrder
    Allocated = 1
    MaxCapacity = 2
    Staff = {s1, s2}
    Keys = {k1}
    MaxUses = 3
SPECIFICATION Spec
SYMMETRY Symmetric
INVARIANTS
    UsesAreJustified
    OnePersonPerTicket
    OccupancyReconciles
PROPERTIES
    RevokedIsNeverUsed
    EntriesRespectCapacity
CHECK_DEADLOCK FALSE

\* A promotion used once and reversed by two administrators at once.
CONSTANTS
    o1 = o1  seat = seat  drink = drink  tray = tray  s1 = s1  s2 = s2  k1 = k1
    Orders = {o1}
    Tickets = {}
    Consumables = {drink}
    Deliveries = {tray}
    AtEvent = {drink}
    OrderOf <- DrinkAndTray
    Allocated = 1
    MaxCapacity = 2
    Staff = {s1, s2}
    Keys = {k1}
    MaxUses = 3
SPECIFICATION Spec
INVARIANTS
    UsedRightIsSpent
CHECK_DEADLOCK FALSE

SPECIFICATION EventsSpec
CONSTANTS
  Purchases = {a}
  Buyers = {x}
  Total = 1
  Quantity <- MCQuantity
  Managers = {m1, m2}
  Guests = {g1}
  Images = {i1}
  NoImage = none
  Keep = keep
  LastHour = 2
  MaxVersions = 4
INVARIANTS ResolutionInv EventDatesInv
PROPERTY ClosedStockIsFreed
CHECK_DEADLOCK FALSE

SPECIFICATION TimersSpec
CONSTANTS
  TopUps = {t1}
  Runners = {h1, h2}
  NoTopUp = none
  MaxDeaths = 1
  Devices = {d1, d2}
  Batch = 1
  Dispatchers = {i1, i2}
  AttemptLimit = 2
  MaxFaults = 1
  MaxOverruns = 1
  UploadIds = {u1, u2}
  NoUpload = none
  Places = {p1, p2}
  Confirmers = {c1}
  Editors = {e1, e2}
INVARIANTS TopUpInv PushInv UploadInv
PROPERTIES TopUpCloses DeliveryEnds ExpiredIsDeleted
CHECK_DEADLOCK FALSE

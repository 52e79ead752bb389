CONSTANTS
  u1 = u1
  k1 = k1
  Users = {u1}
  Keys = {k1}
  BonusKey = k1
  GoSources = {"design"}
  PySources = {"translate", "nomu_product_parse"}
  Prices = {1}
  Calls = {r1, r2, r3}
  Asked <- OneKey
  Funds = 2
  MaxImages = 3
  Faults = {}
  Workers = {w1, w2}
  MaxDeliveries = 3
  Parts = {"calls"}
SPECIFICATION PaidSpec
INVARIANT FailedCallsCostNothing
CHECK_DEADLOCK FALSE

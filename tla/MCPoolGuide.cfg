CONSTANTS
  Subs = {c1}
  Channels = {"p"}
  PoolChannel = "p"
  ChannelOf <- OfAccount
  Msgs <- AllUpdates
  Ids = {"i1"}
  Workers = {"w1"}
  Buffer = 1
  MaxLosses = 0
  MaxPuts = 1
  Faults = {}
SPECIFICATION Spec
INVARIANT RenderedIsPool
CHECK_DEADLOCK FALSE

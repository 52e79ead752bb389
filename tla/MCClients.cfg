CONSTANTS
  Runs = {"r1", "r2", "r3"}
  MaxTicks = 2
  Edits = {"title", "image"}
  Images = {"image"}
  Fields = {"title"}
  Submits = {"s1", "s2"}
  MaxVisits = 2
  Stores = {"guarded", "bare"}
  Fetches = 4
  Pages = {"p1", "p2"}
  AppOf <- AppOfPages
  Old = {"a"}
  New = {"n"}
  Saves = {"s1", "s2"}
  Updates = {"u1"}
  Subs = {c1, c2}
  Channels = {"p"}
  PoolChannel = "p"
  ChannelOf <- OfAccount
  Msgs <- AllUpdates
  Ids = {"i1"}
  Workers = {"w1"}
  Buffer = 1
  MaxLosses = 0
  MaxPuts = 1
  Faults = {"list", "notify", "hset", "script"}
SYMMETRY Perms
SPECIFICATION ClientsSpec
INVARIANTS OneInterval NothingOnlyOnThePage LatestWins OwnCaption KeptBySaves
           TakenOnce TakenReachesClaimer NoPhantoms MissesNothing
CHECK_DEADLOCK FALSE

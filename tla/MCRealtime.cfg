CONSTANTS
  e1 = e1
  e2 = e2
  Sockets = {s1, s2}
  NoSocket = NoSocket
  MaxAsks = 3
  MaxBreaks = 1
  Channels = {"c1", "c2"}
  Subs = {"s1", "s2", "s3"}
  ChannelOf <- ChannelOfSubs
  Msgs = {"m1", "m2"}
  Buffer = 1
  MaxLosses = 1
  Runs = {"r1", "r2", "r3"}
  MaxTicks = 2
SPECIFICATION RealtimeSpec
INVARIANTS OneLiveSocket NobodyLeftNobodyCounted
           SubscribersListed ClosedWakesAll
PROPERTIES PageConnects NothingAfterClose NeverBlocked EventuallyShown
           EveryPollEnds
CHECK_DEADLOCK FALSE

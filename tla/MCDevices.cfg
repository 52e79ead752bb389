CONSTANTS
  Apps = {"vue", "react"}
  Tabs = {"t1", "t2"}
  Others = {"d1"}
  Calls = {"c1", "l1"}
  TabOf <- TabOfCalls
  Logouts = {"l1"}
  MaxDevices = 2
  MaxTokens = 4
  MaxExpiries = 1
  MaxFaults = 1
  Subs = {c1, c2}
  Channels = {"d1"}
  ChannelOf <- OneDevice
  Msgs = {e1, e2}
  To <- ForIt
  IdOf <- OwnIds
  Expiring = {}
  Buffer = 1
  MaxLosses = 0
  QueueCap = 1
  MaxPushes = 2
SYMMETRY Perms
SPECIFICATION DevicesSpec
INVARIANTS CookieAlive DeviceLimit KeptUntilAcked BacklogBounded NoGap
CHECK_DEADLOCK FALSE

CONSTANTS
  Apps = {"react"}
  Tabs = {"t1", "t2"}
  Others = {"d1"}
  Calls = {"c1", "l1"}
  TabOf <- TabOfCalls
  Logouts = {"l1"}
  MaxDevices = 2
  MaxTokens = 4
  MaxExpiries = 1
  MaxFaults = 0
SPECIFICATION SessionSpec
INVARIANT LogoutRevokes
CHECK_DEADLOCK FALSE

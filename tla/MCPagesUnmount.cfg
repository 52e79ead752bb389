CONSTANTS
  Runs = {"r1", "r2", "r3"}
  MaxTicks = 2
  Edits = {"title", "image"}
  Images = {"image"}
  Fields = {"title"}
  Submits = {"s1", "s2"}
  MaxVisits = 2
  Stores = {"guarded", "bare"}
  Fetches = 4
  Pages = {"p1", "p2"}
  AppOf <- AppOfPages
  Old = {"a"}
  New = {"n"}
  Saves = {"s1", "s2"}
  Updates = {"u1"}
SPECIFICATION PagesSpec
INVARIANT NoPollAfterUnmount
CHECK_DEADLOCK FALSE

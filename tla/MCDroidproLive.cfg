SPECIFICATION DroidFairSpec
CONSTANTS
  Hosts = {h1}
  Target = h1
  None = None
  Threads = {p1, p2}
  EventCap = 1
  OutputCap = 1
  OwedCap = 0
PROPERTIES
  ScreenCatchesUp
  PushDiesWithLink
CHECK_DEADLOCK FALSE

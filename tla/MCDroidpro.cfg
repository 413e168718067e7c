SPECIFICATION DroidSpec
CONSTANTS
  Hosts = {h1, h2}
  Target = h1
  None = None
  Threads = {p1, p2}
  EventCap = 2
  OutputCap = 1
  OwedCap = 1
SYMMETRY ThreadSymmetry
INVARIANTS
  DroidTypeOK
  RegisteredInFront
  RemoteAgrees
  ScreenFollowsLink
  TimerFollowsLink
PROPERTIES
  PauseReleasesConsole
  ShownLinkSurvives
CHECK_DEADLOCK FALSE

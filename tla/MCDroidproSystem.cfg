SPECIFICATION SystemSpec
CONSTANTS
  VibSize = 1
  TimerSize = 2
  Commands <- SystemCommands
  Garbage = Garbage
  NoNote = NoNote
  Timers = {t1}
  NoTimer = NoTimer
  QueueCap = 2
  Hosts = {h1}
  Target = h1
  None = None
  Threads = {p1}
  EventCap = 1
INVARIANT
  TimersRestWithoutLink
PROPERTY
  ImplementsDroidpro
CHECK_DEADLOCK FALSE

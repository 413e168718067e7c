SPECIFICATION FairSpec
CONSTANTS
  VibSize = 1
  TimerSize = 2
  Commands <- LiveCommands
  Garbage = Garbage
  NoNote = NoNote
  Timers = {t1, t2}
  NoTimer = NoTimer
  QueueCap = 3
PROPERTIES
  OutputAnswered
  PushKeepsComing
  InputReachesConsole
  StopIsEffective
CHECK_DEADLOCK FALSE

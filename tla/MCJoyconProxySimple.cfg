SPECIFICATION FairSpec
CONSTANTS
  VibSize = 1
  TimerSize = 2
  Commands <- SimpleCommands
  Garbage = Garbage
  NoNote = NoNote
  Timers = {t1, t2}
  NoTimer = NoTimer
  QueueCap = 3
PROPERTY
  SimpleHidPushes
CHECK_DEADLOCK FALSE

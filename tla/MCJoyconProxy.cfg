SPECIFICATION Spec
CONSTANTS
  VibSize = 1
  TimerSize = 2
  Commands <- SafetyCommands
  Garbage = Garbage
  NoNote = NoNote
  Timers = {t1, t2}
  NoTimer = NoTimer
  QueueCap = 3
INVARIANTS
  ProxyTypeOK
  NoLeakedTimer
  PushIdTracksNfc
  StandardModeArmed
PROPERTIES
  ImplementsPushSession
CHECK_DEADLOCK FALSE

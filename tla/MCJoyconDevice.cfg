SPECIFICATION DeviceSpec
CONSTANTS
  VibSize = 2
  TimerSize = 4
  Commands <- MCCommands
  Garbage = Garbage
  NoNote = NoNote
INVARIANTS
  DeviceTypeOK
  NoPendingStart
  JavaInformed
  StartToldOnce
  FreshReport
  AckNotOverwritten
  LargeReportChecked
PROPERTIES
  McuAlternates

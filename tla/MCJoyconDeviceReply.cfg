SPECIFICATION DeviceSpec
CONSTANTS
  VibSize = 2
  TimerSize = 4
  Commands <- MCCommands
  Garbage = Garbage
  NoNote = NoNote
INVARIANT
  Output01AnsweredWith21

SPECIFICATION InputSpec
CONSTANTS
  Buttons <- SomeButtons
  Positions <- SomePositions
  Samples <- TheSamples
INVARIANTS
  InputTypeOK
  ButtonsReported
  SticksReported
  SamplesReported

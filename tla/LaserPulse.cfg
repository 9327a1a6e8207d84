CONSTANTS
  PulseLength = 30
  PulseMod = 32
SPECIFICATION PulseSpec
INVARIANT ExposureBound
PROPERTY PulseWidths

CONSTANTS
  GainMod = 16
  CharMod = 256
  StartGain = 11
  Gains = {0, 1, 15, 17, 258}
SPECIFICATION Spec
INVARIANT FlagsFollowThreads
PROPERTIES PotSentWhenReady GainRamps
CHECK_DEADLOCK FALSE

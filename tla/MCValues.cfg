SPECIFICATION ValuesSpec
CONSTANTS
  Samples <- MCSamples
  Damages <- MCDamages
  BUFFER_LENGTH = 2
  RMS_BUFFER_SIZE = 2
  ALPHA_NUM = 1
  ALPHA_DEN = 3
  FilterStart = 12
  OffsetGatherCnt = 7
  Inputs <- MCInputs
  MaxWaiting = 5
  Epochs = {6, 7}
  MaxTicks = 3
  MaxBoots = 1
INVARIANTS
  RoundTrip
  DamageNoticed
  WindowExact
  QuietLine
  RecordTimeTrue
  FirstFetchRepaired
PROPERTIES
  RecordNotHeldBack
CHECK_DEADLOCK FALSE

SPECIFICATION UnitSpec
CONSTANTS
  MaxMessages = 2
  MaxCycles = 1
INVARIANT ResetAvoidsMeasuring

SPECIFICATION UnitSpec
CONSTANTS
  MaxMessages = 2
  MaxCycles = 1
INVARIANTS
  SessionLength
  MeasuresWithStored
  ConfigOfOneMessage
  CommandsAnswered
PROPERTIES
  RecordOffered
  SessionEnds

SPECIFICATION LogSpec
CONSTANTS
  LOG_RAM_BUFFER_SIZE = 5
  LOG_MANIPULATION_BUFF_LEN = 3
  STAMP_LEN = 1
  TEXT_LEN = 3
  OUTPUT_LEN = 1
  MaxLogs = 2
  MaxResets = 2
INVARIANTS
  DumpFaithful
  DumpBounded
PROPERTY LogThreadFinishes
CHECK_DEADLOCK FALSE

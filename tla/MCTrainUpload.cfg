SPECIFICATION UploadSpec
CONSTANTS
  WAVE_SAMPLE_LEN = 2
  NR_OF_SAMPLES_TO_MEASURE = 4
  rms_trig_end_duration = 1
  MEMCLR_LEN = 1
  PSRAM_CELLS = 7
  OFFSET_SAMPLES = 1
  MaxWait = 3
  CRC_ERR_LIMIT = 1
  MaxPress = 1
INVARIANTS
  FailuresCounted
  PressSpoilsOne
PROPERTY DeliversRecord
CHECK_DEADLOCK FALSE

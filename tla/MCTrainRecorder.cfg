SPECIFICATION RecorderSpec
CONSTANTS
  WAVE_SAMPLE_LEN = 3
  NR_OF_SAMPLES_TO_MEASURE = 9
  rms_trig_end_duration = 2
  MEMCLR_LEN = 2
  PSRAM_CELLS = 14
  OFFSET_SAMPLES = 2
  MaxWait = 8
INVARIANTS
  RecorderTypeOK
  StoredChronology
  RecordInPsram
  EndsExactly
PROPERTY RecordFinishes
CHECK_DEADLOCK FALSE

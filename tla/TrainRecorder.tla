---------------------------- MODULE TrainRecorder ----------------------------
(***************************************************************************)
(* The measurement stage of the LIS unit (mqtt_working/src/main.c): a      *)
(* hardware timer paces the ADC, a circular buffer holds the last samples  *)
(* before a train is detected, the samples after it go to the SPI PSRAM    *)
(* until the signal has been low for long enough or the sample limit is    *)
(* reached.                                                                *)
(*                                                                         *)
(* A sample is abstracted to its number: sample n is the n-th one taken    *)
(* since the unit began to wait for a train, so chronology and loss are    *)
(* visible and amplitudes are not.  Whether the RMS of the last window is  *)
(* over the start threshold, or under the end threshold, is the choice of  *)
(* the environment.  One PSRAM cell is the ten bytes (four channels and    *)
(* their CRC) written per sample, and flash addresses count cells.         *)
(***************************************************************************)
EXTENDS Integers

CONSTANTS
  WAVE_SAMPLE_LEN,          \* samples per packet; the circular buffer has the same length
  NR_OF_SAMPLES_TO_MEASURE, \* limit on the samples of one record
  rms_trig_end_duration,    \* low samples that must be exceeded to end a record
  MEMCLR_LEN,               \* cells written after the record (memclr_cnt)
  PSRAM_CELLS,              \* ten-byte cells of the PSRAM
  OFFSET_SAMPLES,           \* samples averaged for the channel offsets
  MaxWait                   \* bound: samples taken before a train must come

(* The circular buffer and a packet have one length: main.h says they must *)
(* be the same, and the buffer is sent as one packet.                      *)
CRCLR_BUFF_SIZE == WAVE_SAMPLE_LEN

(* The number of values of a uint16_t.                                     *)
UINT16 == 256 * 256

(* The PSRAM (8 MB) holds a full record, what is written after it, and the *)
(* rest of the last packet.                                                *)
ASSUME RecorderAssumption ==
  /\ WAVE_SAMPLE_LEN \in Nat \ {0}
  /\ NR_OF_SAMPLES_TO_MEASURE \in Nat
  /\ NR_OF_SAMPLES_TO_MEASURE >= WAVE_SAMPLE_LEN
  /\ rms_trig_end_duration \in 0 .. UINT16 - 1
  /\ MEMCLR_LEN \in Nat
  /\ PSRAM_CELLS \in Nat
  /\ PSRAM_CELLS >= NR_OF_SAMPLES_TO_MEASURE + MEMCLR_LEN + WAVE_SAMPLE_LEN
  /\ OFFSET_SAMPLES \in Nat \ {0}
  /\ MaxWait \in Nat \ {0}

VARIABLES
  pc,                       \* where the main thread is
  ADC_SAMPLE_FLAG,          \* set by the timer interrupt, cleared by main
  timer_enabled,            \* the sample timer runs
  offset_gather_cnt,        \* samples of the offset run still to take
  sample,                   \* number of the newest sample
  rms_over,                 \* the newest RMS value is over rms_trig_start
  circ_buff,                \* circ_buff_ch0 .. ch3
  buff_head,
  circ_buff_overflow,
  last_circ_buff_record,
  sample_cntr,
  total_recorded_samples,
  psram,
  flash_address_write,
  rms_low_counter_to_end,
  res,                      \* ch0_volt .. ch1_int, the chronological copy
  data_ready_to_send,
  trig,                     \* history: number of the sample that triggered
  last_loud                 \* history: newest sample of the record not under rms_trig_end

sampling == <<offset_gather_cnt, sample, rms_over>>
circular == <<circ_buff, buff_head, circ_buff_overflow, last_circ_buff_record>>
record   == <<sample_cntr, total_recorded_samples, psram, flash_address_write,
              rms_low_counter_to_end>>
outcome  == <<res, data_ready_to_send>>
history  == <<trig, last_loud>>

recorderVars == <<pc, ADC_SAMPLE_FLAG, timer_enabled, sampling, circular, record,
                  outcome, history>>

(* What a buffer slot or a cell can hold besides the number of a sample.   *)
Cleared == 0    \* memset of clear_buffer, static initialisation
OldCell == -1   \* a cell with a valid CRC from an earlier record
Garbage == -2   \* a cell whose CRC does not match

Slots == 0 .. CRCLR_BUFF_SIZE - 1
Cells == 0 .. PSRAM_CELLS - 1

-----------------------------------------------------------------------------
(* The interrupt of the sample timer, every TIME_TO_WAIT_US.  A tick that  *)
(* finds the flag still set is lost.                                       *)
timer_handler ==
  /\ timer_enabled
  /\ ADC_SAMPLE_FLAG' = 1
  /\ UNCHANGED <<pc, timer_enabled, sampling, circular, record, outcome, history>>

(* Main sees the flag and clears it.  A tick between the test and the      *)
(* clear has the effect of a tick just before the test.                    *)
TakeSample ==
  /\ ADC_SAMPLE_FLAG = 1
  /\ ADC_SAMPLE_FLAG' = 0

(* One sample of the run that averages the channel offsets.                *)
OffsetSample ==
  /\ pc = "offsets"
  /\ offset_gather_cnt > 0
  /\ TakeSample
  /\ offset_gather_cnt' = offset_gather_cnt - 1
  /\ UNCHANGED <<pc, timer_enabled, sample, rms_over, circular, record, outcome, history>>

(* The offsets are known: empty the circular buffer and wait for a train.  *)
circular_buffer_init ==
  /\ pc = "offsets"
  /\ offset_gather_cnt = 0
  /\ buff_head' = 0
  /\ circ_buff_overflow' = 1
  /\ circ_buff' = [i \in Slots |-> Cleared]
  /\ total_recorded_samples' = 0
  /\ pc' = "waiting"
  /\ UNCHANGED <<ADC_SAMPLE_FLAG, timer_enabled, sampling, last_circ_buff_record,
                 sample_cntr, psram, flash_address_write, rms_low_counter_to_end,
                 outcome, history>>

(* Mutant: the head may pass the end of the buffer by one.                 *)
CircSlotPastEnd == IF buff_head <= CRCLR_BUFF_SIZE THEN buff_head ELSE 0

(* The slot the next value goes to: the head, or the first when it is full.*)
CircSlot == IF buff_head < CRCLR_BUFF_SIZE THEN buff_head ELSE 0

circular_buffer_add_value(value) ==
  /\ circ_buff' = [circ_buff EXCEPT ![CircSlot] = value]
  /\ buff_head' = CircSlot + 1
  /\ circ_buff_overflow' = IF buff_head < CRCLR_BUFF_SIZE THEN circ_buff_overflow ELSE 1

(* One sample of the trigger waiting loop.                                 *)
WaitSample(over) ==
  /\ pc = "waiting"
  /\ ~rms_over
  /\ sample + 1 < MaxWait \/ over
  /\ TakeSample
  /\ sample' = sample + 1
  /\ rms_over' = over
  /\ circular_buffer_add_value(sample')
  /\ last_circ_buff_record' = buff_head'
  /\ UNCHANGED <<pc, timer_enabled, offset_gather_cnt, record, outcome, history>>

(* Mutant: the mark is read the wrong way round.                           *)
PreTriggerCountSwapped ==
  IF circ_buff_overflow = 0 THEN CRCLR_BUFF_SIZE ELSE last_circ_buff_record

(* Samples of the circular buffer that belong to the record.               *)
PreTriggerCount ==
  IF circ_buff_overflow = 1 THEN CRCLR_BUFF_SIZE ELSE last_circ_buff_record

(* Mutant: the timer is stopped before the record and not behind it.       *)
TriggerStopsTimer ==
  /\ pc = "waiting"
  /\ rms_over
  /\ sample_cntr' = PreTriggerCount
  /\ total_recorded_samples' = PreTriggerCount
  /\ flash_address_write' = 0
  /\ rms_low_counter_to_end' = 0
  /\ trig' = sample
  /\ last_loud' = sample
  /\ timer_enabled' = FALSE
  /\ pc' = "recording"
  /\ UNCHANGED <<ADC_SAMPLE_FLAG, sampling, circular, psram, outcome>>

(* The RMS crossed the start threshold: the record begins.                 *)
Trigger ==
  /\ pc = "waiting"
  /\ rms_over
  /\ sample_cntr' = PreTriggerCount
  /\ total_recorded_samples' = PreTriggerCount
  /\ flash_address_write' = 0
  /\ rms_low_counter_to_end' = 0
  /\ trig' = sample
  /\ last_loud' = sample
  /\ pc' = "recording"
  /\ UNCHANGED <<ADC_SAMPLE_FLAG, timer_enabled, sampling, circular, psram, outcome>>

(* rms_low_counter_to_end is a uint16_t, restarted by a sample that is not *)
(* under the end threshold.                                                *)
LowCounter(low) == IF low THEN (rms_low_counter_to_end + 1) % UINT16 ELSE 0

(* Mutant: the record ends one sample early.                               *)
MeasurementEndsEarly(lows, samples) ==
  \/ lows >= rms_trig_end_duration
  \/ samples >= NR_OF_SAMPLES_TO_MEASURE

(* trigger_measurement_end: low for long enough, or the sample limit.      *)
MeasurementEnds(lows, samples) ==
  \/ lows > rms_trig_end_duration
  \/ samples > NR_OF_SAMPLES_TO_MEASURE

(* One sample of the record goes to the PSRAM.                             *)
RecordSample(low) ==
  /\ pc = "recording"
  /\ TakeSample
  /\ sample' = sample + 1
  /\ psram' = [psram EXCEPT ![flash_address_write] = sample']
  /\ flash_address_write' = flash_address_write + 1
  /\ sample_cntr' = sample_cntr + 1
  /\ total_recorded_samples' = total_recorded_samples + 1
  /\ rms_low_counter_to_end' = LowCounter(low)
  /\ last_loud' = IF low THEN last_loud ELSE sample'
  /\ pc' = IF MeasurementEnds(rms_low_counter_to_end', sample_cntr')
           THEN "ending" ELSE "recording"
  /\ UNCHANGED <<timer_enabled, offset_gather_cnt, rms_over, circular, outcome, trig>>

(* The timer is stopped and the last sample is written MEMCLR_LEN more     *)
(* times behind the record.                                                *)
PadRecord ==
  /\ pc = "ending"
  /\ timer_enabled' = FALSE
  /\ psram' = [c \in Cells |->
                 IF c \in flash_address_write .. flash_address_write + MEMCLR_LEN - 1
                 THEN sample ELSE psram[c]]
  /\ flash_address_write' = flash_address_write + MEMCLR_LEN
  /\ pc' = "storing"
  /\ UNCHANGED <<ADC_SAMPLE_FLAG, sampling, circular, sample_cntr,
                 total_recorded_samples, rms_low_counter_to_end, outcome, history>>

(* Mutant: the buffer is read from its first slot.                         *)
CircIndexUnrotated(first, i) == i

(* The slot reached from first after i steps around the buffer.            *)
CircIndex(first, i) ==
  IF first + i < CRCLR_BUFF_SIZE THEN first + i ELSE first + i - CRCLR_BUFF_SIZE

(* The circular buffer is copied in chronological order to the result      *)
(* arrays and the record is announced.                                     *)
StoreRecord ==
  /\ pc = "storing"
  /\ LET first == IF circ_buff_overflow = 1 THEN last_circ_buff_record ELSE 0
     IN  res' = [i \in 0 .. PreTriggerCount - 1 |-> circ_buff[CircIndex(first, i)]]
  /\ data_ready_to_send' = 1
  /\ pc' = "ready"
  /\ UNCHANGED <<ADC_SAMPLE_FLAG, timer_enabled, sampling, circular, record, history>>

-----------------------------------------------------------------------------
(* The timer has just been enabled.  The PSRAM holds what an earlier       *)
(* record or the power-up left in it.                                      *)
RecorderInit ==
  /\ pc = "offsets"
  /\ ADC_SAMPLE_FLAG = 0
  /\ timer_enabled = TRUE
  /\ offset_gather_cnt = OFFSET_SAMPLES
  /\ sample = 0
  /\ rms_over = FALSE
  /\ circ_buff = [i \in Slots |-> Cleared]
  /\ buff_head = 0
  /\ circ_buff_overflow = 0
  /\ last_circ_buff_record = 0
  /\ sample_cntr = 0
  /\ total_recorded_samples = 0
  /\ \E left \in {OldCell, Garbage} : psram = [c \in Cells |-> left]
  /\ flash_address_write = 0
  /\ rms_low_counter_to_end = 0
  /\ res = [i \in Slots |-> Cleared]
  /\ data_ready_to_send = 0
  /\ trig = 0
  /\ last_loud = 0

RecorderStep ==
  \/ OffsetSample
  \/ circular_buffer_init
  \/ \E over \in BOOLEAN : WaitSample(over)
  \/ Trigger
  \/ \E low \in BOOLEAN : RecordSample(low)
  \/ PadRecord
  \/ StoreRecord

RecorderNext == timer_handler \/ RecorderStep

(* Main loops for ever around the flag and the timer interrupt keeps       *)
(* coming, so both are weakly fair; nothing obliges a train to come.       *)
RecorderSpec ==
  /\ RecorderInit
  /\ [][RecorderNext]_recorderVars
  /\ WF_recorderVars(timer_handler)
  /\ WF_recorderVars(RecorderStep)

-----------------------------------------------------------------------------
(* Stages of main, and those in which the record is closed.                *)
Stages == {"offsets", "waiting", "recording", "ending", "storing", "ready"}
Closed == {"storing", "ready"}

(* The types of the recorder's variables: indices stay inside their arrays.*)
RecorderTypeOK ==
  /\ pc \in Stages
  /\ ADC_SAMPLE_FLAG \in {0, 1}
  /\ timer_enabled \in BOOLEAN
  /\ offset_gather_cnt \in 0 .. OFFSET_SAMPLES
  /\ sample \in Nat
  /\ rms_over \in BOOLEAN
  /\ circ_buff \in [Slots -> Nat]
  /\ buff_head \in 0 .. CRCLR_BUFF_SIZE
  /\ circ_buff_overflow \in {0, 1}
  /\ last_circ_buff_record \in 0 .. CRCLR_BUFF_SIZE
  /\ sample_cntr \in Nat
  /\ total_recorded_samples \in Nat
  /\ psram \in [Cells -> Int]
  /\ flash_address_write \in 0 .. PSRAM_CELLS
  /\ rms_low_counter_to_end \in 0 .. UINT16 - 1
  /\ res \in [Slots -> Nat]
  /\ data_ready_to_send \in {0, 1}
  /\ trig \in Nat
  /\ last_loud \in Nat

(* What sample stands at place i of the window that ends with the trigger: *)
(* the window is as long as the buffer, and before the first sample it is  *)
(* made of the zeros circular_buffer_init wrote.                           *)
PreTrigger(i) ==
  IF trig - CRCLR_BUFF_SIZE + 1 + i > 0 THEN trig - CRCLR_BUFF_SIZE + 1 + i ELSE Cleared

(* Samples written to the PSRAM since the trigger.                         *)
Recorded == sample - trig

(* However often the circular buffer wrapped, and whether or not it filled *)
(* up, the copy made of it is the window that ends with the sample that    *)
(* triggered, oldest first, nothing missing, doubled or from the record.   *)
StoredChronology ==
  pc = "ready" => res = [i \in Slots |-> PreTrigger(i)]

(* Once the record is closed, the PSRAM holds every sample after the       *)
(* trigger in order from cell 0, then MEMCLR_LEN copies of the last one,   *)
(* and total_recorded_samples counts exactly these samples and the window. *)
RecordInPsram ==
  pc \in Closed =>
    /\ \A c \in 0 .. Recorded - 1 : psram[c] = trig + 1 + c
    /\ \A c \in Recorded .. Recorded + MEMCLR_LEN - 1 : psram[c] = sample
    /\ total_recorded_samples = CRCLR_BUFF_SIZE + Recorded

(* A record goes on while it is within the sample limit and some sample of *)
(* the last rms_trig_end_duration + 1 was not low, and it ends with the    *)
(* first sample that breaks either: never early, never late.               *)
EndsExactly ==
  /\ pc = "recording" => /\ total_recorded_samples <= NR_OF_SAMPLES_TO_MEASURE
                         /\ sample - last_loud <= rms_trig_end_duration
  /\ pc = "ending" => \/ total_recorded_samples = NR_OF_SAMPLES_TO_MEASURE + 1
                      \/ sample - last_loud = rms_trig_end_duration + 1

(* A record that began is closed and announced, however the signal moves.  *)
RecordFinishes == (pc = "recording") ~> (data_ready_to_send = 1)

-----------------------------------------------------------------------------
(* The parts of the inductive invariant behind the properties above.       *)

(* The slots below the head hold the samples up to newest in order; those  *)
(* from the head on go on from there one buffer length earlier, or are     *)
(* zero.                                                                   *)
Holds(newest) ==
  /\ buff_head <= newest
  /\ buff_head = 0 => newest = 0
  /\ \A i \in Slots :
       /\ i < buff_head => circ_buff[i] = newest - buff_head + 1 + i
       /\ i >= buff_head /\ newest - buff_head + 1 + i > CRCLR_BUFF_SIZE
            => circ_buff[i] = newest - buff_head + 1 + i - CRCLR_BUFF_SIZE
       /\ i >= buff_head /\ newest - buff_head + 1 + i <= CRCLR_BUFF_SIZE
            => circ_buff[i] = Cleared

CircularWindow ==
  /\ last_circ_buff_record = buff_head
  /\ pc = "offsets" => buff_head = 0 /\ sample = 0
  /\ pc # "offsets" => circ_buff_overflow = 1
  /\ pc = "waiting" => Holds(sample)
  /\ pc \notin {"offsets", "waiting"} => Holds(trig)

(* A train was heard, and the counters follow the samples since then.      *)
RecordCounts ==
  /\ rms_over => sample > 0
  /\ pc \in {"recording", "ending"} \cup Closed =>
       /\ 0 < trig /\ trig <= sample
       /\ sample_cntr = CRCLR_BUFF_SIZE + Recorded
       /\ total_recorded_samples = sample_cntr
  /\ pc = "recording" => sample_cntr <= NR_OF_SAMPLES_TO_MEASURE
  /\ pc \in {"ending"} \cup Closed =>
       /\ sample_cntr <= NR_OF_SAMPLES_TO_MEASURE + 1
       /\ trig < sample
  /\ pc \in {"recording", "ending"} => flash_address_write = Recorded
  /\ pc \in Closed => flash_address_write = Recorded + MEMCLR_LEN

(* The cells below the write address, while the record is open.            *)
OpenRecord ==
  pc \in {"recording", "ending"} => \A c \in 0 .. Recorded - 1 : psram[c] = trig + 1 + c

(* The low counter is the distance to the newest sample that was not low;  *)
(* a duration of 65535 could not be exceeded by it.                        *)
LowRun ==
  pc = "recording" => /\ last_loud <= sample
                      /\ rms_low_counter_to_end = sample - last_loud
                      /\ rms_low_counter_to_end <= rms_trig_end_duration

RecorderInv ==
  /\ RecorderTypeOK
  /\ CircularWindow
  /\ RecordCounts
  /\ OpenRecord
  /\ RecordInPsram
  /\ StoredChronology

=============================================================================

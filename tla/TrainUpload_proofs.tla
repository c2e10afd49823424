-------------------------- MODULE TrainUpload_proofs --------------------------
(***************************************************************************)
(* Proofs about the life of a record: the measurement stage, for every     *)
(* buffer length, sample limit, end duration, padding and PSRAM size that  *)
(* RecorderAssumption allows, and the upload, for every length of a packet,*)
(* every record the measurement stage can close, every limit on the reads  *)
(* of a sample and every number of presses of the button, and whatever the *)
(* PSRAM and the client answer.                                            *)
(***************************************************************************)
EXTENDS TrainUpload, SequenceTheorems, FiniteSetTheorems, TLAPS

(* The measurement stage.                                                  *)
LEMMA UINT16Positive == UINT16 \in Nat \ {0}
  BY DEF UINT16

(* A remainder is below the modulus, and a small number is its own.        *)
LEMMA Remainder ==
  ASSUME NEW n \in Nat
  PROVE  n % UINT16 \in 0 .. UINT16 - 1 /\ (n < UINT16 => n % UINT16 = n)
  BY UINT16Positive

(* The low counter stays a uint16_t.                                       *)
LEMMA LowCounterRange ==
  ASSUME NEW low \in BOOLEAN, rms_low_counter_to_end \in Nat
  PROVE  LowCounter(low) \in 0 .. UINT16 - 1
<1>1. rms_low_counter_to_end + 1 \in Nat
  OBVIOUS
<1>2. (rms_low_counter_to_end + 1) % UINT16 \in 0 .. UINT16 - 1
  BY <1>1, Remainder
<1>3. CASE low
  BY <1>2, <1>3 DEF LowCounter
<1>4. CASE ~low
  BY <1>4, UINT16Positive DEF LowCounter
<1>5. QED
  BY <1>3, <1>4

(* The initial states satisfy the invariant: nothing is recorded yet.      *)
LEMMA RecorderInvInit == RecorderInit => RecorderInv
<1> SUFFICES ASSUME RecorderInit PROVE RecorderInv
  OBVIOUS
<1> USE RecorderAssumption DEF RecorderInit
<1>1. RecorderTypeOK
  <2>1. psram \in [Cells -> Int]
    BY DEF OldCell, Garbage
  <2>2. circ_buff \in [Slots -> Nat] /\ res \in [Slots -> Nat]
    BY DEF Cleared
  <2>3. rms_low_counter_to_end \in 0 .. UINT16 - 1
    BY UINT16Positive
  <2>4. buff_head \in 0 .. CRCLR_BUFF_SIZE /\ last_circ_buff_record \in 0 .. CRCLR_BUFF_SIZE
    BY DEF CRCLR_BUFF_SIZE
  <2>5. offset_gather_cnt \in 0 .. OFFSET_SAMPLES /\ flash_address_write \in 0 .. PSRAM_CELLS
    OBVIOUS
  <2>6. QED
    BY <2>1, <2>2, <2>3, <2>4, <2>5 DEF RecorderTypeOK, Stages
<1>2. CircularWindow
  BY DEF CircularWindow
<1>3. RecordCounts
  BY DEF RecordCounts, Closed
<1>4. OpenRecord /\ RecordInPsram /\ StoredChronology
  BY DEF OpenRecord, RecordInPsram, StoredChronology, Closed
<1>5. QED
  BY <1>1, <1>2, <1>3, <1>4 DEF RecorderInv

-----------------------------------------------------------------------------
(* Steps that leave the record and the circular buffer alone: a tick, or   *)
(* nothing at all.                                                         *)
LEMMA QuietStep ==
  ASSUME RecorderInv, timer_handler \/ UNCHANGED recorderVars
  PROVE  RecorderInv'
<1>1. UNCHANGED <<pc, timer_enabled, sampling, circular, record, outcome, history>>
  BY DEF timer_handler, recorderVars
<1>2. ADC_SAMPLE_FLAG' \in {0, 1}
  BY DEF timer_handler, recorderVars, RecorderInv, RecorderTypeOK
<1> USE <1>1 DEF sampling, circular, record, outcome, history
<1>3. RecorderTypeOK'
  BY <1>2 DEF RecorderInv, RecorderTypeOK, Slots, Cells
<1>4. CircularWindow' /\ RecordCounts' /\ OpenRecord'
  BY DEF RecorderInv, CircularWindow, Holds, RecordCounts, OpenRecord, Recorded
<1>5. RecordInPsram' /\ StoredChronology'
  BY DEF RecorderInv, RecordInPsram, StoredChronology, Recorded, PreTrigger
<1>6. QED
  BY <1>3, <1>4, <1>5 DEF RecorderInv

(* An offset sample only counts down.                                      *)
LEMMA OffsetSampleStep ==
  ASSUME RecorderInv, OffsetSample
  PROVE  RecorderInv'
<1> USE RecorderAssumption
    DEF OffsetSample, TakeSample, circular, record, outcome, history
<1>1. RecorderTypeOK'
  BY DEF RecorderInv, RecorderTypeOK, Stages, Slots, Cells
<1>2. CircularWindow' /\ RecordCounts' /\ OpenRecord'
  BY DEF RecorderInv, CircularWindow, Holds, RecordCounts, OpenRecord, Recorded, Closed
<1>3. RecordInPsram' /\ StoredChronology'
  BY DEF RecorderInv, RecordInPsram, StoredChronology, Closed
<1>4. QED
  BY <1>1, <1>2, <1>3 DEF RecorderInv

(* The circular buffer starts empty and marked as full.                    *)
LEMMA CircularInitStep ==
  ASSUME RecorderInv, circular_buffer_init
  PROVE  RecorderInv'
<1> USE RecorderAssumption DEF circular_buffer_init, sampling, outcome, history
<1>1. RecorderTypeOK'
  BY DEF RecorderInv, RecorderTypeOK, Stages, Slots, Cells, CRCLR_BUFF_SIZE, Cleared
<1>2. CircularWindow'
  BY DEF RecorderInv, CircularWindow, Holds, Slots, CRCLR_BUFF_SIZE, Cleared
<1>3. RecordCounts' /\ OpenRecord' /\ RecordInPsram' /\ StoredChronology'
  BY DEF RecorderInv, RecordCounts, OpenRecord, RecordInPsram, StoredChronology, Closed
<1>4. QED
  BY <1>1, <1>2, <1>3 DEF RecorderInv

(* The new value goes to the head, or to the first slot when the head is   *)
(* at the end; the window moves on by one sample.                          *)
LEMMA WaitSampleStep ==
  ASSUME RecorderInv, NEW over \in BOOLEAN, WaitSample(over)
  PROVE  RecorderInv'
<1> USE RecorderAssumption DEF WaitSample, TakeSample, record, outcome, history
<1>1. /\ CircSlot \in Slots /\ CircSlot \in Nat
      /\ CircSlot = buff_head \/ (buff_head = CRCLR_BUFF_SIZE /\ CircSlot = 0)
      /\ buff_head' = CircSlot + 1
      /\ buff_head' \in 1 .. CRCLR_BUFF_SIZE
      /\ last_circ_buff_record' = buff_head'
  <2>1. buff_head \in 0 .. CRCLR_BUFF_SIZE /\ CRCLR_BUFF_SIZE \in Nat \ {0}
    BY DEF RecorderInv, RecorderTypeOK, CRCLR_BUFF_SIZE
  <2>2. \/ CircSlot = buff_head /\ buff_head < CRCLR_BUFF_SIZE
        \/ CircSlot = 0 /\ buff_head = CRCLR_BUFF_SIZE
    BY <2>1 DEF CircSlot
  <2>3. buff_head' = CircSlot + 1 /\ last_circ_buff_record' = buff_head'
    BY DEF circular_buffer_add_value
  <2>4. CircSlot \in 0 .. CRCLR_BUFF_SIZE - 1
    BY <2>1, <2>2
  <2>5. CircSlot + 1 \in 1 .. CRCLR_BUFF_SIZE
    BY <2>1, <2>4
  <2>6. QED
    BY <2>1, <2>2, <2>3, <2>4, <2>5 DEF Slots
<1>2. circ_buff \in [Slots -> Nat] /\ sample' \in Nat
  BY DEF RecorderInv, RecorderTypeOK
<1>3. circ_buff' = [circ_buff EXCEPT ![CircSlot] = sample']
  BY DEF circular_buffer_add_value
<1>4. circ_buff' \in [Slots -> Nat]
  BY <1>1, <1>2, <1>3
<1>5. circ_buff_overflow' = 1
  BY DEF RecorderInv, CircularWindow, circular_buffer_add_value
<1>6. RecorderTypeOK'
  <2>1. buff_head' \in 0 .. CRCLR_BUFF_SIZE
    BY <1>1 DEF CRCLR_BUFF_SIZE
  <2>2. QED
    BY <1>1, <1>2, <1>4, <1>5, <2>1 DEF RecorderInv, RecorderTypeOK, Cells, Slots
<1>7. Holds(sample)'
  <2>1. Holds(sample)
    BY DEF RecorderInv, CircularWindow
  <2>2. CircSlot \in Nat /\ buff_head \in 0 .. CRCLR_BUFF_SIZE /\ CRCLR_BUFF_SIZE \in Nat \ {0}
    BY <1>1 DEF RecorderInv, RecorderTypeOK, Slots, CRCLR_BUFF_SIZE
  <2>3. sample \in Nat /\ sample' = sample + 1
    BY DEF RecorderInv, RecorderTypeOK
  <2>4. buff_head' <= sample' /\ (buff_head' = 0 => sample' = 0)
    BY <1>1, <2>1, <2>2, <2>3 DEF Holds
  <2>5. ASSUME NEW i \in Slots
        PROVE  /\ i < buff_head' => circ_buff'[i] = sample' - buff_head' + 1 + i
               /\ i >= buff_head' /\ sample' - buff_head' + 1 + i > CRCLR_BUFF_SIZE
                    => circ_buff'[i] = sample' - buff_head' + 1 + i - CRCLR_BUFF_SIZE
               /\ i >= buff_head' /\ sample' - buff_head' + 1 + i <= CRCLR_BUFF_SIZE
                    => circ_buff'[i] = Cleared
    <3>1. CASE i = CircSlot
      BY <1>1, <1>2, <1>3, <2>2, <2>3, <3>1
    <3>2. CASE i # CircSlot
      <4>1. circ_buff'[i] = circ_buff[i] /\ i \in 0 .. CRCLR_BUFF_SIZE - 1
        BY <1>2, <1>3, <3>2 DEF Slots
      <4>2. CASE CircSlot = buff_head
        BY <1>1, <2>1, <2>2, <2>3, <3>2, <4>1, <4>2 DEF Holds
      <4>3. CASE buff_head = CRCLR_BUFF_SIZE /\ CircSlot = 0
        BY <1>1, <2>1, <2>2, <2>3, <3>2, <4>1, <4>3 DEF Holds
      <4>4. QED
        BY <1>1, <4>2, <4>3
    <3>3. QED
      BY <3>1, <3>2
  <2>6. QED
    BY <2>4, <2>5 DEF Holds
<1>8. CircularWindow'
  BY <1>1, <1>5, <1>7 DEF CircularWindow
<1>9. RecordCounts'
  BY DEF RecorderInv, RecorderTypeOK, RecordCounts, Closed
<1>10. OpenRecord' /\ RecordInPsram' /\ StoredChronology'
  BY DEF RecorderInv, OpenRecord, RecordInPsram, StoredChronology, Closed
<1>11. QED
  BY <1>6, <1>8, <1>9, <1>10 DEF RecorderInv

(* The window of the circular buffer stays as it is from now on.           *)
LEMMA TriggerStep ==
  ASSUME RecorderInv, Trigger
  PROVE  RecorderInv'
<1> USE RecorderAssumption DEF Trigger, sampling, circular, outcome
<1>1. PreTriggerCount = CRCLR_BUFF_SIZE
  BY DEF RecorderInv, CircularWindow, PreTriggerCount
<1>2. RecorderTypeOK'
  <2>1. rms_low_counter_to_end' \in 0 .. UINT16 - 1
    BY UINT16Positive
  <2>2. sample_cntr' \in Nat /\ flash_address_write' \in 0 .. PSRAM_CELLS /\ trig' \in Nat
    BY <1>1 DEF RecorderInv, RecorderTypeOK, CRCLR_BUFF_SIZE
  <2>3. QED
    BY <1>1, <2>1, <2>2 DEF RecorderInv, RecorderTypeOK, Stages
<1>3. CircularWindow'
  BY DEF RecorderInv, CircularWindow, Holds
<1>4. RecordCounts'
  BY <1>1 DEF RecorderInv, RecorderTypeOK, RecordCounts, Recorded, Closed, CRCLR_BUFF_SIZE
<1>5. OpenRecord' /\ RecordInPsram' /\ StoredChronology'
  BY DEF RecorderInv, RecorderTypeOK, OpenRecord, RecordInPsram, StoredChronology, Recorded, Closed
<1>6. QED
  BY <1>2, <1>3, <1>4, <1>5 DEF RecorderInv

(* One more sample behind the others, in a cell the PSRAM has.             *)
LEMMA RecordSampleStep ==
  ASSUME RecorderInv, NEW low \in BOOLEAN, RecordSample(low)
  PROVE  RecorderInv'
<1> USE RecorderAssumption DEF RecordSample, TakeSample, circular, outcome
<1>1. pc' \in {"recording", "ending"}
  OBVIOUS
<1>2. flash_address_write \in Cells /\ flash_address_write = Recorded
  BY DEF RecorderInv, RecorderTypeOK, RecordCounts, Recorded, Cells, CRCLR_BUFF_SIZE
<1>3. RecorderTypeOK'
  <2>1. rms_low_counter_to_end' \in 0 .. UINT16 - 1
    <3>1. rms_low_counter_to_end \in Nat
      BY UINT16Positive DEF RecorderInv, RecorderTypeOK
    <3>2. QED
      BY <3>1, LowCounterRange
  <2>2. psram' \in [Cells -> Int]
    BY <1>2 DEF RecorderInv, RecorderTypeOK
  <2>3. flash_address_write' \in 0 .. PSRAM_CELLS
    BY <1>2 DEF Cells
  <2>4. last_loud' \in Nat
    BY DEF RecorderInv, RecorderTypeOK
  <2>5. QED
    BY <1>1, <2>1, <2>2, <2>3, <2>4 DEF RecorderInv, RecorderTypeOK, Stages
<1>4. CircularWindow'
  BY <1>1 DEF RecorderInv, CircularWindow, Holds
<1>5. RecordCounts'
  BY <1>1 DEF RecorderInv, RecorderTypeOK, RecordCounts, Recorded, Closed, MeasurementEnds,
              CRCLR_BUFF_SIZE
<1>6. OpenRecord'
  BY <1>1, <1>2 DEF RecorderInv, RecorderTypeOK, OpenRecord, Recorded, Cells
<1>7. RecordInPsram' /\ StoredChronology'
  BY <1>1 DEF RecordInPsram, StoredChronology, Closed
<1>8. QED
  BY <1>3, <1>4, <1>5, <1>6, <1>7 DEF RecorderInv

(* The padding stays inside the PSRAM and behind the record.               *)
LEMMA PadRecordStep ==
  ASSUME RecorderInv, PadRecord
  PROVE  RecorderInv'
<1> USE RecorderAssumption DEF PadRecord, sampling, circular, outcome, history
<1>1. /\ flash_address_write = Recorded
      /\ Recorded + MEMCLR_LEN <= PSRAM_CELLS
  BY DEF RecorderInv, RecorderTypeOK, RecordCounts, Recorded, CRCLR_BUFF_SIZE
<1>2. RecorderTypeOK'
  <2>1. psram' \in [Cells -> Int]
    BY DEF RecorderInv, RecorderTypeOK
  <2>2. flash_address_write' \in 0 .. PSRAM_CELLS
    BY <1>1 DEF RecorderInv, RecorderTypeOK
  <2>3. QED
    BY <2>1, <2>2 DEF RecorderInv, RecorderTypeOK, Stages
<1>3. CircularWindow'
  BY DEF RecorderInv, CircularWindow, Holds
<1>4. RecordCounts'
  BY <1>1 DEF RecorderInv, RecorderTypeOK, RecordCounts, Recorded, Closed
<1>5. RecordInPsram'
  BY <1>1 DEF RecorderInv, RecorderTypeOK, RecordCounts, OpenRecord, RecordInPsram, Recorded,
              Closed, Cells
<1>6. OpenRecord' /\ StoredChronology'
  BY DEF OpenRecord, StoredChronology
<1>7. QED
  BY <1>2, <1>3, <1>4, <1>5, <1>6 DEF RecorderInv

(* Read around from the slot after the newest sample, the circular buffer  *)
(* is the window that ends with the trigger.                               *)
LEMMA WindowOfBuffer ==
  ASSUME RecorderInv, pc \notin {"offsets", "waiting"}, NEW i \in Slots
  PROVE  circ_buff[CircIndex(last_circ_buff_record, i)] = PreTrigger(i)
<1>1. /\ buff_head \in Nat /\ trig \in Nat /\ CRCLR_BUFF_SIZE \in Nat /\ i \in Int
      /\ 0 <= i /\ i < CRCLR_BUFF_SIZE /\ buff_head <= CRCLR_BUFF_SIZE
  BY RecorderAssumption DEF RecorderInv, RecorderTypeOK, Slots, CRCLR_BUFF_SIZE
<1>2. PICK head \in Nat, newest \in Nat, L \in Nat :
        /\ head = buff_head /\ newest = trig /\ L = CRCLR_BUFF_SIZE
        /\ 0 <= i /\ i < L /\ head <= L /\ i \in Int
  BY <1>1
<1>3. PICK at \in Int : at = IF head + i < L THEN head + i ELSE head + i - L
  BY <1>2
<1>4. at \in 0 .. L - 1 /\ at \in Slots
  BY <1>2, <1>3 DEF Slots
<1>5. CircIndex(last_circ_buff_record, i) = at
  BY <1>2, <1>3 DEF CircIndex, RecorderInv, CircularWindow
<1>6. Holds(newest)
  BY <1>2, <1>3 DEF RecorderInv, CircularWindow
<1>7. /\ at < head => circ_buff[at] = newest - head + 1 + at
      /\ at >= head /\ newest - head + 1 + at > L => circ_buff[at] = newest - head + 1 + at - L
      /\ at >= head /\ newest - head + 1 + at <= L => circ_buff[at] = Cleared
      /\ head <= newest
  BY <1>2, <1>3, <1>4, <1>6 DEF Holds
<1>8. PreTrigger(i) = IF newest - L + 1 + i > 0 THEN newest - L + 1 + i ELSE Cleared
  BY <1>2, <1>3 DEF PreTrigger
<1>9. CASE head + i < L
  <2>1. at = head + i /\ ~(at < head)
    BY <1>2, <1>3, <1>9
  <2>2. QED
    BY <1>2, <1>3, <1>5, <1>7, <1>8, <2>1
<1>10. CASE ~(head + i < L)
  <2>1. at = head + i - L /\ at < head
    BY <1>2, <1>3, <1>10
  <2>2. QED
    BY <1>2, <1>3, <1>5, <1>7, <1>8, <2>1
<1>11. QED
  BY <1>9, <1>10

(* The copy of the circular buffer is the window, oldest sample first.     *)
LEMMA StoreRecordStep ==
  ASSUME RecorderInv, StoreRecord
  PROVE  RecorderInv'
<1> USE RecorderAssumption DEF StoreRecord, sampling, circular, record, history
<1>1. circ_buff_overflow = 1 /\ PreTriggerCount = CRCLR_BUFF_SIZE
  BY DEF RecorderInv, CircularWindow, PreTriggerCount
<1>2. res' = [i \in Slots |-> circ_buff[CircIndex(last_circ_buff_record, i)]]
  BY <1>1 DEF Slots
<1>3. res' = [i \in Slots |-> PreTrigger(i)]
  BY <1>2, WindowOfBuffer
<1>4. \A i \in Slots : PreTrigger(i) \in Nat
  BY DEF RecorderInv, RecorderTypeOK, PreTrigger, Slots, CRCLR_BUFF_SIZE, Cleared
<1>5. RecorderTypeOK'
  <2>1. res' \in [Slots -> Nat]
    BY <1>3, <1>4
  <2>2. QED
    BY <2>1 DEF RecorderInv, RecorderTypeOK, Stages
<1>6. CircularWindow' /\ RecordCounts'
  BY DEF RecorderInv, CircularWindow, Holds, RecordCounts, Recorded, Closed
<1>7. OpenRecord' /\ RecordInPsram'
  BY DEF RecorderInv, OpenRecord, RecordInPsram, Recorded, Closed
<1>8. StoredChronology'
  BY <1>3 DEF StoredChronology, PreTrigger
<1>9. QED
  BY <1>5, <1>6, <1>7, <1>8 DEF RecorderInv

LEMMA RecorderInvStep == RecorderInv /\ [RecorderNext]_recorderVars => RecorderInv'
<1> SUFFICES ASSUME RecorderInv, [RecorderNext]_recorderVars PROVE RecorderInv'
  OBVIOUS
<1>1. CASE timer_handler \/ UNCHANGED recorderVars
  BY <1>1, QuietStep
<1>2. CASE RecorderStep
  BY <1>2, OffsetSampleStep, CircularInitStep, WaitSampleStep, TriggerStep, RecordSampleStep,
     PadRecordStep, StoreRecordStep DEF RecorderStep
<1>3. QED
  BY <1>1, <1>2 DEF RecorderNext

(* The inductive invariant holds of the measurement stage.                 *)
THEOREM RecorderInvariant == RecorderSpec => []RecorderInv
<1>1. QED
  BY RecorderInvInit, RecorderInvStep, PTL DEF RecorderSpec

-----------------------------------------------------------------------------
(* Every index of the measurement stage stays inside its array: the ring   *)
(* buffer of circular_buffer_add_value and the PSRAM addresses of the      *)
(* record and of its padding.                                              *)
THEOREM RecorderTypes == RecorderSpec => []RecorderTypeOK
<1>1. RecorderInv => RecorderTypeOK
  BY DEF RecorderInv
<1>2. QED
  BY <1>1, RecorderInvariant, PTL

(* The copy made of the circular buffer is the window that ends with the   *)
(* trigger, for every buffer length and every number of wraps.             *)
THEOREM Chronology == RecorderSpec => []StoredChronology
<1>1. RecorderInv => StoredChronology
  BY DEF RecorderInv
<1>2. QED
  BY <1>1, RecorderInvariant, PTL

(* The PSRAM holds every sample after the trigger, in order, and then the  *)
(* padding; the total counts the window and these samples.                 *)
THEOREM RecordStored == RecorderSpec => []RecordInPsram
<1>1. RecorderInv => RecordInPsram
  BY DEF RecorderInv
<1>2. QED
  BY <1>1, RecorderInvariant, PTL

-----------------------------------------------------------------------------
(* While the duration leaves the uint16_t counter a value to exceed it     *)
(* with, the counter is the distance to the newest sample that was not     *)
(* low, and the record ends exactly when it should.                        *)
LEMMA EndsInit ==
  RecorderInit => LowRun /\ EndsExactly
  BY DEF RecorderInit, LowRun, EndsExactly

LEMMA EndsStep ==
  ASSUME rms_trig_end_duration < UINT16 - 1,
         RecorderInv, LowRun, EndsExactly, [RecorderNext]_recorderVars
  PROVE  (LowRun /\ EndsExactly)'
<1> USE RecorderAssumption
<1>1. CASE timer_handler \/ UNCHANGED recorderVars
  BY <1>1 DEF timer_handler, recorderVars, sampling, record, history, LowRun, EndsExactly
<1>2. CASE Trigger
  <2>1. PreTriggerCount = CRCLR_BUFF_SIZE
    BY <1>2 DEF RecorderInv, CircularWindow, PreTriggerCount, Trigger
  <2>2. QED
    BY <1>2, <2>1 DEF Trigger, sampling, RecorderInv, RecorderTypeOK, LowRun, EndsExactly,
                      CRCLR_BUFF_SIZE
<1>3. ASSUME NEW low \in BOOLEAN, RecordSample(low)
      PROVE  (LowRun /\ EndsExactly)'
  <2>1. /\ pc = "recording"
        /\ sample' = sample + 1
        /\ total_recorded_samples' = total_recorded_samples + 1
        /\ sample_cntr' = total_recorded_samples'
        /\ rms_low_counter_to_end' = LowCounter(low)
        /\ last_loud' = IF low THEN last_loud ELSE sample'
        /\ pc' = IF MeasurementEnds(rms_low_counter_to_end', sample_cntr')
                 THEN "ending" ELSE "recording"
    BY <1>3 DEF RecordSample, RecorderInv, RecordCounts
  <2>2. /\ sample \in Nat /\ last_loud \in Nat /\ last_loud <= sample
        /\ rms_low_counter_to_end = sample - last_loud
        /\ rms_low_counter_to_end <= rms_trig_end_duration
        /\ total_recorded_samples \in Nat
        /\ total_recorded_samples <= NR_OF_SAMPLES_TO_MEASURE
        /\ rms_low_counter_to_end \in Nat /\ rms_trig_end_duration \in Nat
    BY <2>1, UINT16Positive DEF RecorderInv, RecorderTypeOK, LowRun, EndsExactly
  <2>3. LowCounter(low) = sample' - last_loud' /\ last_loud' <= sample'
    <3>1. CASE low
      <4>1. rms_low_counter_to_end + 1 \in Nat /\ rms_low_counter_to_end + 1 < UINT16
        BY <2>2, UINT16Positive
      <4>2. (rms_low_counter_to_end + 1) % UINT16 = rms_low_counter_to_end + 1
        BY <4>1, Remainder
      <4>3. LowCounter(low) = rms_low_counter_to_end + 1
        BY <3>1, <4>2 DEF LowCounter
      <4>4. last_loud' = last_loud
        BY <2>1, <3>1
      <4>5. QED
        BY <2>1, <2>2, <4>3, <4>4
    <3>2. CASE ~low
      BY <2>1, <2>2, <3>2 DEF LowCounter
    <3>3. QED
      BY <3>1, <3>2
  <2>4. sample' - last_loud' <= rms_trig_end_duration + 1
    BY <2>1, <2>2
  <2>5. QED
    BY <2>1, <2>2, <2>3, <2>4 DEF MeasurementEnds, LowRun, EndsExactly
<1>4. CASE OffsetSample \/ circular_buffer_init \/ (\E over \in BOOLEAN : WaitSample(over))
  BY <1>4 DEF OffsetSample, circular_buffer_init, WaitSample, LowRun, EndsExactly
<1>5. CASE PadRecord \/ StoreRecord
  BY <1>5 DEF PadRecord, StoreRecord, LowRun, EndsExactly
<1>6. QED
  BY <1>1, <1>2, <1>3, <1>4, <1>5 DEF RecorderNext, RecorderStep

(* A record ends with the first sample that completes the low run or       *)
(* passes the sample limit, never before and never after, for every        *)
(* duration but 65535, which the 16-bit counter cannot exceed.             *)
THEOREM RecordEnds ==
  ASSUME rms_trig_end_duration < UINT16 - 1
  PROVE  RecorderSpec => []EndsExactly
<1>1. RecorderInv /\ LowRun /\ EndsExactly /\ [RecorderNext]_recorderVars
        => (LowRun /\ EndsExactly)'
  BY EndsStep
<1>2. QED
  BY <1>1, EndsInit, RecorderInvariant, PTL DEF RecorderSpec

-----------------------------------------------------------------------------
(* The upload.                                                             *)
(* The variables of the upload keep their types.                           *)
UploadStages == {"idle", "header", "header_rest", "fill", "load", "publish", "failed", "done"}
Packets == [actual_packet_nr : Nat, total_packet_nr : Nat,
            timestamp : {"none", "record", "fixed"}, train_counter : Nat, CRC : Nat,
            data : [Slots -> Int]]

UploadTypeOK ==
  /\ stage \in UploadStages
  /\ pckt_cnt \in Nat
  /\ total_packet_to_send \in Nat
  /\ samples_to_load_cntr \in Nat
  /\ flash_address_read \in Nat
  /\ crc_err_counter \in Nat
  /\ flash_sample_fail_counter \in Nat
  /\ train_counter \in Nat
  /\ seed_packet \in Packets
  /\ wire \in Seq(Packets)
  /\ presses \in Nat

(* No cell of the PSRAM looks like the mark of a sample given up.          *)
NoMarks == \A c \in Cells : psram[c] # Failed

(* What main finds when it uploads: the record is closed, its window is in *)
(* the circular buffer and the rest in the PSRAM.                          *)
ClosedRecord ==
  /\ pc = "ready"
  /\ trig \in Nat \ {0} /\ sample \in Nat /\ trig < sample
  /\ WAVE_SAMPLE_LEN + Recorded <= NR_OF_SAMPLES_TO_MEASURE + 1
  /\ psram \in [Cells -> Int]
  /\ \A i \in Slots : circ_buff[CircIndex(last_circ_buff_record, i)] = PreTrigger(i)
  /\ RecordInPsram

RecordKept ==
  /\ NoMarks
  /\ stage = "idle" => RecorderInv
  /\ stage # "idle" => ClosedRecord

(* The stages in which a packet of the record is under construction.       *)
Filling == {"header_rest", "fill", "load", "publish"}

(* The packets on the wire are counted, their number is that of the record.*)
PacketsCounted ==
  /\ stage = "idle" => wire = <<>> /\ flash_sample_fail_counter = 0
  /\ stage # "idle" => total_packet_to_send = PacketsDue
  /\ stage = "header" => pckt_cnt = Len(wire) + 1 /\ Len(wire) <= PacketsDue
  /\ stage \in Filling => pckt_cnt = Len(wire) + 2
  /\ stage \in Filling \cup {"failed"} => Len(wire) < PacketsDue
  /\ stage = "done" => Len(wire) = PacketsDue

(* The first packet is the window, the read address of the others follows  *)
(* their place in the record.                                              *)
PlaceInRecord ==
  /\ stage \in {"header", "header_rest", "fill"} =>
       \/ wire = <<>> /\ circ_buff_overflow = 1 /\ flash_address_read = 0
       \/ /\ wire # <<>> /\ circ_buff_overflow = 0
          /\ flash_address_read = (Len(wire) - 1) * WAVE_SAMPLE_LEN
  /\ stage = "load" =>
       /\ wire # <<>> /\ circ_buff_overflow = 0
       /\ samples_to_load_cntr < WAVE_SAMPLE_LEN
       /\ flash_address_read = (Len(wire) - 1) * WAVE_SAMPLE_LEN + samples_to_load_cntr
  /\ stage = "publish" =>
       /\ circ_buff_overflow = 0
       /\ flash_address_read = Len(wire) * WAVE_SAMPLE_LEN

(* The slots filled so far hold what is due there.                         *)
SlotsDue ==
  /\ stage = "load" =>
       \A i \in Slots : i < samples_to_load_cntr =>
         Delivery!MayHold(Len(wire) + 1, i, seed_packet.data[i])
  /\ stage = "publish" =>
       \A i \in Slots : Delivery!MayHold(Len(wire) + 1, i, seed_packet.data[i])

UploadInv ==
  /\ UploadTypeOK
  /\ RecordKept
  /\ PacketsCounted
  /\ PlaceInRecord
  /\ SlotsDue

(* A press that spoiled the packet under construction is not yet on the    *)
(* wire.                                                                   *)
PressInv ==
  Cardinality({k \in 1 .. Len(wire) : Spoiled(wire[k], k)})
    + (IF stage \in Filling /\ Spoiled(seed_packet, Len(wire) + 1) THEN 1 ELSE 0) <= presses

-----------------------------------------------------------------------------
(* What the numbers of packets rest on: division by the packet's length.   *)
LEMMA LengthIsPositive == WAVE_SAMPLE_LEN \in Nat \ {0} /\ CRCLR_BUFF_SIZE = WAVE_SAMPLE_LEN
  BY RecorderAssumption DEF CRCLR_BUFF_SIZE

LEMMA Quotient ==
  ASSUME NEW n \in Nat
  PROVE  /\ n \div WAVE_SAMPLE_LEN \in Nat
         /\ (n \div WAVE_SAMPLE_LEN) * WAVE_SAMPLE_LEN <= n
         /\ n < (n \div WAVE_SAMPLE_LEN) * WAVE_SAMPLE_LEN + WAVE_SAMPLE_LEN
  BY LengthIsPositive

LEMMA ProductGrows ==
  ASSUME NEW m \in Int, NEW n \in Int, m <= n
  PROVE  m * WAVE_SAMPLE_LEN <= n * WAVE_SAMPLE_LEN
  BY LengthIsPositive

(* The window makes one packet more.                                       *)
LEMMA OnePacketMore ==
  ASSUME NEW n \in Nat
  PROVE  (WAVE_SAMPLE_LEN + n) \div WAVE_SAMPLE_LEN = n \div WAVE_SAMPLE_LEN + 1
<1> DEFINE q == n \div WAVE_SAMPLE_LEN
           p == (WAVE_SAMPLE_LEN + n) \div WAVE_SAMPLE_LEN
<1>1. /\ q \in Nat /\ p \in Nat
      /\ q * WAVE_SAMPLE_LEN <= n /\ n < q * WAVE_SAMPLE_LEN + WAVE_SAMPLE_LEN
      /\ p * WAVE_SAMPLE_LEN <= WAVE_SAMPLE_LEN + n
      /\ WAVE_SAMPLE_LEN + n < p * WAVE_SAMPLE_LEN + WAVE_SAMPLE_LEN
  <2>1. WAVE_SAMPLE_LEN + n \in Nat
    BY LengthIsPositive
  <2>2. QED
    BY <2>1, Quotient
<1> HIDE DEF q, p
<1>2. /\ (p - 1) * WAVE_SAMPLE_LEN = p * WAVE_SAMPLE_LEN - WAVE_SAMPLE_LEN
      /\ (p + 1) * WAVE_SAMPLE_LEN = p * WAVE_SAMPLE_LEN + WAVE_SAMPLE_LEN
      /\ (q + 1) * WAVE_SAMPLE_LEN = q * WAVE_SAMPLE_LEN + WAVE_SAMPLE_LEN
      /\ (q + 2) * WAVE_SAMPLE_LEN = q * WAVE_SAMPLE_LEN + WAVE_SAMPLE_LEN + WAVE_SAMPLE_LEN
  BY <1>1, LengthIsPositive
<1>3. ~(p <= q)
  <2>1. ASSUME p <= q PROVE p * WAVE_SAMPLE_LEN <= q * WAVE_SAMPLE_LEN
    BY <2>1, <1>1, ProductGrows
  <2>2. p * WAVE_SAMPLE_LEN \in Int /\ q * WAVE_SAMPLE_LEN \in Int
    BY <1>1, LengthIsPositive
  <2>3. QED
    BY <1>1, <2>1, <2>2, LengthIsPositive
<1>4. ~(q + 2 <= p)
  <2>1. ASSUME q + 2 <= p PROVE (q + 2) * WAVE_SAMPLE_LEN <= p * WAVE_SAMPLE_LEN
    BY <2>1, <1>1, ProductGrows
  <2>2. p * WAVE_SAMPLE_LEN \in Int /\ q * WAVE_SAMPLE_LEN \in Int
    BY <1>1, LengthIsPositive
  <2>3. QED
    BY <1>1, <1>2, <2>1, <2>2, LengthIsPositive
<1>5. p = q + 1
  BY <1>1, <1>3, <1>4
<1>6. QED
  BY <1>5 DEF p, q

-----------------------------------------------------------------------------
(* While it measures, the unit keeps the invariant of the recorder, and no *)
(* sample it writes looks like the mark.                                   *)
LEMMA MeasureStep ==
  ASSUME UploadInv, stage = "idle", Measure
  PROVE  UploadInv'
<1> USE DEF Measure, uploadVars, packets, reading, buttonVars
<1>1. RecorderInv /\ NoMarks
  BY DEF UploadInv, RecordKept
<1>2. RecorderInv'
  BY <1>1, RecorderInvStep
<1>3. NoMarks'
  <2>1. CASE UNCHANGED psram
    BY <1>1, <2>1 DEF NoMarks
  <2>2. CASE \E low \in BOOLEAN : RecordSample(low)
    BY <1>1, <2>2 DEF RecordSample, NoMarks, RecorderInv, RecorderTypeOK, Failed
  <2>3. CASE PadRecord
    BY <1>1, <2>3 DEF PadRecord, NoMarks, RecorderInv, RecorderTypeOK, Failed
  <2>4. QED
    BY <2>1, <2>2, <2>3 DEF RecorderNext, RecorderStep, timer_handler, OffsetSample,
       circular_buffer_init, WaitSample, Trigger, StoreRecord, record
<1>4. UploadTypeOK' /\ RecordKept'
  BY <1>2, <1>3 DEF UploadInv, UploadTypeOK, RecordKept
<1>5. PacketsCounted' /\ PlaceInRecord' /\ SlotsDue'
  BY DEF UploadInv, PacketsCounted, PlaceInRecord, SlotsDue, Filling
<1>6. QED
  BY <1>4, <1>5 DEF UploadInv

(* The closed record does not change any more.                             *)
LEMMA RecordStays ==
  ASSUME ClosedRecord, NoMarks,
         UNCHANGED <<pc, trig, sample, psram, circ_buff, last_circ_buff_record,
                     total_recorded_samples>>
  PROVE  ClosedRecord' /\ NoMarks' /\ PacketsDue' = PacketsDue
<1>1. Recorded' = Recorded
  BY DEF Recorded
<1>2. \A i \in Slots : PreTrigger(i)' = PreTrigger(i)
  BY DEF PreTrigger
<1>3. RecordInPsram'
  BY <1>1 DEF ClosedRecord, RecordInPsram
<1>4. \A i \in Slots : (circ_buff[CircIndex(last_circ_buff_record, i)] = PreTrigger(i))'
  BY <1>2 DEF ClosedRecord
<1>5. QED
  BY <1>1, <1>3, <1>4 DEF ClosedRecord, NoMarks, PacketsDue

(* When the record is announced, the recorder has nothing left to do but   *)
(* to take a last tick.                                                    *)
LEMMA ReadyStep ==
  ASSUME UploadInv, stage # "idle", Measure \/ UNCHANGED allVars
  PROVE  UploadInv' /\ UNCHANGED <<uploadVars, psram, circ_buff_overflow, sample, trig>>
<1> USE DEF uploadVars, packets, reading, buttonVars
<1>1. ClosedRecord /\ NoMarks
  BY DEF UploadInv, RecordKept
<1>2. /\ UNCHANGED uploadVars
      /\ UNCHANGED <<pc, trig, sample, psram, circ_buff, last_circ_buff_record,
                     total_recorded_samples, circ_buff_overflow>>
  BY <1>1 DEF ClosedRecord, Measure, allVars, RecorderNext, RecorderStep, timer_handler,
     OffsetSample, circular_buffer_init, WaitSample, Trigger, RecordSample, PadRecord, StoreRecord,
     recorderVars, sampling, circular, record, outcome, history
<1>3. ClosedRecord' /\ NoMarks' /\ PacketsDue' = PacketsDue
  BY <1>1, <1>2, RecordStays
<1>4. UploadTypeOK' /\ RecordKept'
  BY <1>2, <1>3 DEF UploadInv, UploadTypeOK, RecordKept
<1>5. PacketsCounted' /\ PlaceInRecord'
  BY <1>2, <1>3 DEF UploadInv, PacketsCounted, PlaceInRecord, Filling
<1>6. \A k, i, value : Delivery!MayHold(k, i, value)' <=> Delivery!MayHold(k, i, value)
  BY <1>2 DEF Delivery!MayHold, Delivery!Number
<1>7. SlotsDue'
  BY <1>2, <1>6 DEF UploadInv, SlotsDue
<1>8. QED
  BY <1>2, <1>4, <1>5, <1>7 DEF UploadInv

(* A header written by halves, or all at once, leaves a packet with the    *)
(* data it had.                                                            *)
LEMMA NumbersTyped ==
  ASSUME NEW packet \in Packets, NEW n \in Nat, NEW m \in Nat
  PROVE  LET numbered == [packet EXCEPT !.actual_packet_nr = n, !.total_packet_nr = m]
         IN  /\ numbered \in Packets
             /\ numbered.actual_packet_nr = n /\ numbered.total_packet_nr = m
             /\ numbered.data = packet.data
<1>1. /\ [packet EXCEPT !.actual_packet_nr = n, !.total_packet_nr = m] =
         [[packet EXCEPT !.actual_packet_nr = n] EXCEPT !.total_packet_nr = m]
  BY DEF Packets
<1>2. QED
  BY <1>1 DEF Packets

LEMMA RestTyped ==
  ASSUME NEW packet \in Packets, NEW t \in {"none", "record", "fixed"}, NEW count \in Nat
  PROVE  LET stamped == [packet EXCEPT !.timestamp = t, !.train_counter = count, !.CRC = Magic]
         IN  /\ stamped \in Packets
             /\ stamped.actual_packet_nr = packet.actual_packet_nr
             /\ stamped.total_packet_nr = packet.total_packet_nr
             /\ stamped.data = packet.data
<1>1. /\ [packet EXCEPT !.timestamp = t, !.train_counter = count, !.CRC = Magic] =
         [[[packet EXCEPT !.timestamp = t] EXCEPT !.train_counter = count] EXCEPT !.CRC = Magic]
  BY DEF Packets
<1>2. Magic \in Nat
  BY DEF Magic
<1>3. QED
  BY <1>1, <1>2 DEF Packets

-----------------------------------------------------------------------------
(* The upload begins with the record the recorder closed: the window and   *)
(* the packets of the PSRAM are counted.                                   *)
LEMMA BeginStep ==
  ASSUME UploadInv, UploadBegin
  PROVE  UploadInv' /\ trig > 0 /\ sample > trig
<1> USE DEF UploadBegin, measured, buttonVars, sampling, record, history
<1>1. RecorderInv /\ NoMarks /\ wire = <<>>
  BY DEF UploadInv, RecordKept, PacketsCounted
<1>2. /\ trig \in Nat \ {0} /\ sample \in Nat /\ trig < sample
      /\ Recorded \in Nat /\ total_recorded_samples = WAVE_SAMPLE_LEN + Recorded
      /\ total_recorded_samples <= NR_OF_SAMPLES_TO_MEASURE + 1
      /\ psram \in [Cells -> Int]
      /\ circ_buff_overflow = 1
  BY <1>1 DEF RecorderInv, RecorderTypeOK, RecordCounts, CircularWindow, Closed, Recorded,
     CRCLR_BUFF_SIZE
<1>3. \A i \in Slots : circ_buff[CircIndex(last_circ_buff_record, i)] = PreTrigger(i)
  BY <1>1, WindowOfBuffer
<1>4. ClosedRecord
  BY <1>1, <1>2, <1>3 DEF ClosedRecord, RecorderInv
<1>5. ClosedRecord' /\ NoMarks' /\ PacketsDue' = PacketsDue
  BY <1>1, <1>4, RecordStays
<1>6. total_packet_to_send' = PacketsDue /\ PacketsDue \in Nat
  BY <1>2, OnePacketMore, Quotient DEF PacketsFor, PacketsDue
<1>7. UploadTypeOK' /\ RecordKept'
  BY <1>5, <1>6 DEF UploadInv, UploadTypeOK, UploadStages, RecordKept
<1>8. PacketsCounted' /\ PlaceInRecord' /\ SlotsDue'
  BY <1>1, <1>2, <1>5, <1>6, LengthIsPositive DEF PacketsCounted, PlaceInRecord, SlotsDue, Filling
<1>9. QED
  BY <1>2, <1>7, <1>8 DEF UploadInv

(* Steps between the beginning and the end of the upload leave the record  *)
(* alone.                                                                  *)
LEMMA RecordUntouched ==
  ASSUME UploadInv, stage # "idle", stage' # "idle", UNCHANGED measured
  PROVE  RecordKept' /\ PacketsDue' = PacketsDue /\ PacketsDue \in Nat
                     /\ Recorded \in Nat /\ total_packet_to_send = PacketsDue
<1>1. ClosedRecord' /\ NoMarks' /\ PacketsDue' = PacketsDue
  BY RecordStays DEF UploadInv, RecordKept, measured, sampling, record, history
<1>2. Recorded \in Nat
  BY DEF UploadInv, RecordKept, ClosedRecord, Recorded
<1>3. PacketsDue \in Nat
  BY <1>2, Quotient DEF PacketsDue
<1>4. QED
  BY <1>1, <1>2, <1>3 DEF RecordKept, UploadInv, PacketsCounted

(* The promise to the receiver is about the record, which stays.           *)
LEMMA PromiseStays ==
  ASSUME UNCHANGED <<trig, sample>>
  PROVE  \A k, i, value : Delivery!MayHold(k, i, value)' <=> Delivery!MayHold(k, i, value)
  BY DEF Delivery!MayHold, Delivery!Number

LEMMA HeaderStep ==
  ASSUME UploadInv, HeaderNumbers \/ HeaderRest
  PROVE  UploadInv'
<1> USE DEF HeaderNumbers, HeaderRest, recorderVars, packets, reading, buttonVars
<1>1. UNCHANGED measured /\ stage # "idle" /\ stage' # "idle"
  BY DEF measured, sampling, circular, record, outcome, history
<1>2. /\ RecordKept' /\ PacketsDue' = PacketsDue /\ PacketsDue \in Nat
      /\ total_packet_to_send = PacketsDue
  BY <1>1, RecordUntouched
<1>3. UploadTypeOK'
  <2>1. seed_packet' \in Packets
    <3>1. seed_packet \in Packets /\ pckt_cnt \in Nat /\ total_packet_to_send \in Nat
          /\ train_counter \in Nat
      BY DEF UploadInv, UploadTypeOK
    <3>2. CASE HeaderNumbers
      BY <3>1, <3>2, NumbersTyped
    <3>3. CASE HeaderRest
      BY <3>1, <3>3, RestTyped
    <3>4. QED
      BY <3>2, <3>3
  <2>2. QED
    BY <2>1 DEF UploadInv, UploadTypeOK, UploadStages
<1>4. Len(wire) \in Nat
  BY DEF UploadInv, UploadTypeOK
<1>5. PacketsCounted'
  BY <1>2, <1>4 DEF UploadInv, PacketsCounted, Filling
<1>6. PlaceInRecord' /\ SlotsDue'
  BY DEF UploadInv, PlaceInRecord, SlotsDue, circular
<1>7. QED
  BY <1>2, <1>3, <1>5, <1>6 DEF UploadInv

(* The first packet is the window that ends with the trigger.              *)
LEMMA WindowStep ==
  ASSUME UploadInv, FillFromCircular
  PROVE  UploadInv' /\ \A i \in Slots : seed_packet'.data[i] # Failed
<1> USE DEF FillFromCircular, packets, reading, buttonVars
<1>1. stage # "idle" /\ stage' # "idle" /\ UNCHANGED <<trig, sample>>
  BY DEF measured, sampling, history
<1>2. /\ RecordKept' /\ PacketsDue' = PacketsDue /\ PacketsDue \in Nat
      /\ total_packet_to_send = PacketsDue
  BY <1>1, RecordUntouched
<1>3. wire = <<>> /\ flash_address_read = 0 /\ ClosedRecord
  BY DEF UploadInv, PlaceInRecord, RecordKept
<1>4. \A i \in Slots : PreTrigger(i) \in Nat
  BY <1>3, LengthIsPositive DEF ClosedRecord, PreTrigger, Slots, Cleared
<1>5. FromCircular = [i \in Slots |-> PreTrigger(i)] /\ FromCircular \in [Slots -> Int]
  BY <1>3, <1>4 DEF FromCircular, ClosedRecord
<1>6. /\ seed_packet' = [seed_packet EXCEPT !.data = FromCircular]
      /\ seed_packet'.data = FromCircular
      /\ seed_packet' \in Packets
  BY <1>5 DEF UploadInv, UploadTypeOK, Packets
<1>7. UploadTypeOK'
  BY <1>6 DEF UploadInv, UploadTypeOK, UploadStages
<1>8. PacketsCounted'
  BY <1>2 DEF UploadInv, PacketsCounted, Filling
<1>9. PlaceInRecord'
  BY <1>3, LengthIsPositive DEF PlaceInRecord
<1>10. ASSUME NEW i \in Slots
       PROVE  Delivery!MayHold(1, i, PreTrigger(i))
  BY <1>3, <1>10, LengthIsPositive
     DEF Delivery!MayHold, Delivery!Number, PreTrigger, ClosedRecord, Slots, Cleared
<1>11. \A i \in Slots : Delivery!MayHold(Len(wire) + 1, i, PreTrigger(i))
  BY <1>3, <1>10
<1>12. SlotsDue'
  BY <1>1, <1>5, <1>6, <1>11, PromiseStays DEF SlotsDue
<1>13. QED
  BY <1>2, <1>4, <1>5, <1>6, <1>7, <1>8, <1>9, <1>12 DEF UploadInv, Failed

LEMMA StartLoadingStep ==
  ASSUME UploadInv, StartLoading
  PROVE  UploadInv'
<1> USE DEF StartLoading, recorderVars, packets, reading, buttonVars
<1>1. UNCHANGED measured /\ stage # "idle" /\ stage' # "idle"
  BY DEF measured, sampling, circular, record, outcome, history
<1>2. RecordKept' /\ PacketsDue' = PacketsDue
  BY <1>1, RecordUntouched
<1>3. UploadTypeOK'
  BY DEF UploadInv, UploadTypeOK, UploadStages
<1>4. PacketsCounted'
  BY <1>2 DEF UploadInv, PacketsCounted, Filling
<1>5. PlaceInRecord'
  <2>1. Len(wire) \in Nat
    BY DEF UploadInv, UploadTypeOK
  <2>2. wire # <<>> /\ flash_address_read = (Len(wire) - 1) * WAVE_SAMPLE_LEN
    BY DEF UploadInv, PlaceInRecord
  <2>3. flash_address_read \in Nat
    BY DEF UploadInv, UploadTypeOK
  <2>4. flash_address_read' = (Len(wire') - 1) * WAVE_SAMPLE_LEN + samples_to_load_cntr'
    BY <2>2, <2>3
  <2>5. QED
    BY <2>2, <2>4, LengthIsPositive DEF PlaceInRecord, circular
<1>6. SlotsDue'
  BY DEF SlotsDue, Slots
<1>7. QED
  BY <1>2, <1>3, <1>4, <1>5, <1>6 DEF UploadInv

-----------------------------------------------------------------------------
(* The cell read is inside the PSRAM, and what it holds, when its CRC      *)
(* matches, or the mark, is what is due at the slot.                       *)
LEMMA CellDue ==
  ASSUME UploadInv, stage = "load"
  PROVE  /\ flash_address_read \in Cells
         /\ samples_to_load_cntr \in Slots
         /\ psram[flash_address_read] \in Int
         /\ psram[flash_address_read] # Failed
         /\ Delivery!MayHold(Len(wire) + 1, samples_to_load_cntr, psram[flash_address_read])
         /\ Delivery!MayHold(Len(wire) + 1, samples_to_load_cntr, Failed)
<1>1. ClosedRecord /\ NoMarks
  BY DEF UploadInv, RecordKept
<1>2. PICK n \in Nat : n = Len(wire)
  BY DEF UploadInv, UploadTypeOK
<1>3. /\ n > 0 /\ samples_to_load_cntr \in Nat /\ samples_to_load_cntr < WAVE_SAMPLE_LEN
      /\ flash_address_read \in Nat
      /\ flash_address_read = (n - 1) * WAVE_SAMPLE_LEN + samples_to_load_cntr
  <2>1. wire # <<>> /\ wire \in Seq(Packets)
    BY DEF UploadInv, UploadTypeOK, PlaceInRecord
  <2>2. Len(wire) > 0
    BY <2>1, EmptySeq, LenProperties
  <2>3. QED
    BY <1>2, <2>2 DEF UploadInv, UploadTypeOK, PlaceInRecord
<1>4. Recorded \in Nat /\ WAVE_SAMPLE_LEN + Recorded <= NR_OF_SAMPLES_TO_MEASURE + 1
  BY <1>1 DEF ClosedRecord, Recorded
<1>5. (n - 1) * WAVE_SAMPLE_LEN <= Recorded
  <2>1. n < PacketsDue
    BY <1>2 DEF UploadInv, PacketsCounted, Filling
  <2>2. PICK q \in Nat : q = Recorded \div WAVE_SAMPLE_LEN /\ q * WAVE_SAMPLE_LEN <= Recorded
    BY <1>4, Quotient
  <2>3. n - 1 <= q
    BY <1>2, <2>1, <2>2 DEF PacketsDue
  <2>4. (n - 1) * WAVE_SAMPLE_LEN <= q * WAVE_SAMPLE_LEN
    BY <1>2, <2>2, <2>3, ProductGrows
  <2>5. (n - 1) * WAVE_SAMPLE_LEN \in Int /\ q * WAVE_SAMPLE_LEN \in Int
    BY <1>2, <2>2, LengthIsPositive
  <2>6. QED
    BY <1>4, <2>2, <2>4, <2>5
<1>6. flash_address_read \in Cells
  <2>1. (n - 1) * WAVE_SAMPLE_LEN \in Int
    BY <1>2, LengthIsPositive
  <2>2. flash_address_read < PSRAM_CELLS
    BY <1>3, <1>4, <1>5, <2>1, RecorderAssumption
  <2>3. QED
    BY <1>3, <2>2, RecorderAssumption DEF Cells
<1>7. samples_to_load_cntr \in Slots
  BY <1>3, LengthIsPositive DEF Slots
<1>8. Delivery!Number(n + 1, samples_to_load_cntr) = trig + 1 + flash_address_read
  <2>1. (n + 1 - 1) * WAVE_SAMPLE_LEN = (n - 1) * WAVE_SAMPLE_LEN + WAVE_SAMPLE_LEN
    BY <1>2, LengthIsPositive
  <2>2. /\ (n - 1) * WAVE_SAMPLE_LEN \in Int
        /\ trig \in Nat
    BY <1>1, <1>2, LengthIsPositive DEF ClosedRecord
  <2>3. QED
    BY <1>3, <2>1, <2>2, LengthIsPositive DEF Delivery!Number
<1>9. Delivery!MayHold(n + 1, samples_to_load_cntr, psram[flash_address_read])
  <2>1. /\ \A c \in 0 .. Recorded - 1 : psram[c] = trig + 1 + c
        /\ \A c \in Recorded .. Recorded + MEMCLR_LEN - 1 : psram[c] = sample
    BY <1>1 DEF ClosedRecord, RecordInPsram, Closed
  <2>2. trig \in Nat /\ sample \in Nat /\ Recorded = sample - trig /\ MEMCLR_LEN \in Nat
    BY <1>1, RecorderAssumption DEF ClosedRecord, Recorded
  <2>3. CASE flash_address_read < Recorded
    <3>1. psram[flash_address_read] = trig + 1 + flash_address_read
      BY <1>3, <1>4, <2>1, <2>3
    <3>2. trig + 1 + flash_address_read \in 1 .. sample
      BY <1>3, <2>2, <2>3
    <3>3. QED
      BY <1>8, <3>1, <3>2 DEF Delivery!MayHold
  <2>4. CASE flash_address_read \in Recorded .. Recorded + MEMCLR_LEN - 1
    <3>1. psram[flash_address_read] = sample
      BY <2>1, <2>4
    <3>2. trig + 1 + flash_address_read \in sample + 1 .. sample + MEMCLR_LEN
      BY <1>3, <2>2, <2>4
    <3>3. QED
      BY <1>8, <3>1, <3>2 DEF Delivery!MayHold
  <2>5. CASE flash_address_read >= Recorded + MEMCLR_LEN
    <3>1. trig + 1 + flash_address_read > sample + MEMCLR_LEN
      BY <1>3, <2>2, <2>5
    <3>2. QED
      BY <1>8, <3>1 DEF Delivery!MayHold
  <2>6. QED
    BY <1>3, <1>4, <2>2, <2>3, <2>4, <2>5
<1>10. Delivery!MayHold(n + 1, samples_to_load_cntr, Failed)
  BY <1>3 DEF Delivery!MayHold
<1>11. psram[flash_address_read] \in Int /\ psram[flash_address_read] # Failed
  BY <1>1, <1>6 DEF ClosedRecord, NoMarks
<1>12. QED
  BY <1>2, <1>6, <1>7, <1>9, <1>10, <1>11

(* A slot is filled with what is due there and the cell behind it is next. *)
LEMMA AdvanceStep ==
  ASSUME UploadInv, stage = "load", NEW value \in Int, Advance(value),
         Delivery!MayHold(Len(wire) + 1, samples_to_load_cntr, value),
         UNCHANGED <<recorderVars, packets, train_counter, wire, buttonVars>>,
         crc_err_counter' \in Nat, flash_sample_fail_counter' \in Nat
  PROVE  UploadInv'
<1> USE DEF recorderVars, packets, buttonVars
<1>1. UNCHANGED measured /\ stage # "idle" /\ stage' # "idle" /\ UNCHANGED <<trig, sample>>
  BY DEF measured, sampling, circular, record, outcome, history, Advance
<1>2. RecordKept' /\ PacketsDue' = PacketsDue
  BY <1>1, RecordUntouched
<1>3. /\ samples_to_load_cntr \in Slots
      /\ samples_to_load_cntr \in Nat
      /\ flash_address_read \in Nat
      /\ seed_packet \in Packets
      /\ seed_packet.data \in [Slots -> Int]
  BY CellDue DEF UploadInv, UploadTypeOK, Packets
<1>4. /\ samples_to_load_cntr' = samples_to_load_cntr + 1
      /\ flash_address_read' = flash_address_read + 1
      /\ stage' = IF samples_to_load_cntr' = WAVE_SAMPLE_LEN THEN "publish" ELSE "load"
      /\ seed_packet' = [seed_packet EXCEPT !.data[samples_to_load_cntr] = value]
  BY DEF Advance
<1>5. /\ seed_packet' \in Packets
      /\ seed_packet'.data = [seed_packet.data EXCEPT ![samples_to_load_cntr] = value]
  <2>1. [seed_packet.data EXCEPT ![samples_to_load_cntr] = value] \in [Slots -> Int]
    BY <1>3
  <2>2. QED
    BY <1>3, <1>4, <2>1 DEF Packets
<1>6. UploadTypeOK'
  <2>1. /\ samples_to_load_cntr' \in Nat /\ flash_address_read' \in Nat
        /\ stage' \in UploadStages /\ seed_packet' \in Packets
    BY <1>3, <1>4, <1>5 DEF UploadStages
  <2>2. /\ pckt_cnt' \in Nat /\ total_packet_to_send' \in Nat /\ crc_err_counter' \in Nat
        /\ flash_sample_fail_counter' \in Nat /\ train_counter' \in Nat
        /\ wire' \in Seq(Packets) /\ presses' \in Nat
    BY DEF UploadInv, UploadTypeOK, Advance
  <2>3. QED
    BY <2>1, <2>2 DEF UploadTypeOK
<1>7. PacketsCounted'
  BY <1>1, <1>2, <1>4 DEF UploadInv, PacketsCounted, Filling
<1>8. PlaceInRecord'
  <2>1. PICK n \in Nat : n = Len(wire)
    BY DEF UploadInv, UploadTypeOK
  <2>2. /\ wire # <<>> /\ circ_buff_overflow = 0
        /\ samples_to_load_cntr < WAVE_SAMPLE_LEN
        /\ flash_address_read = (n - 1) * WAVE_SAMPLE_LEN + samples_to_load_cntr
    BY <2>1 DEF UploadInv, PlaceInRecord
  <2>3. /\ (n - 1) * WAVE_SAMPLE_LEN \in Int
        /\ n * WAVE_SAMPLE_LEN = (n - 1) * WAVE_SAMPLE_LEN + WAVE_SAMPLE_LEN
    BY <2>1, LengthIsPositive
  <2>4. PICK c \in Nat : c = samples_to_load_cntr'
    BY <1>3, <1>4
  <2>5. CASE c = WAVE_SAMPLE_LEN
    <3>1. flash_address_read' = n * WAVE_SAMPLE_LEN
      BY <1>3, <1>4, <2>2, <2>3, <2>4, <2>5
    <3>2. QED
      BY <1>4, <2>1, <2>2, <2>4, <2>5, <3>1 DEF PlaceInRecord, circular
  <2>6. CASE c # WAVE_SAMPLE_LEN
    <3>1. flash_address_read' = (n - 1) * WAVE_SAMPLE_LEN + c
      BY <1>3, <1>4, <2>2, <2>3, <2>4
    <3>2. c < WAVE_SAMPLE_LEN
      BY <1>3, <1>4, <2>2, <2>4, <2>6, LengthIsPositive
    <3>3. QED
      BY <1>4, <2>1, <2>2, <2>4, <2>6, <3>1, <3>2 DEF PlaceInRecord, circular
  <2>7. QED
    BY <2>5, <2>6
<1>9. SlotsDue'
  <2>1. \A i \in Slots : i < samples_to_load_cntr =>
          Delivery!MayHold(Len(wire) + 1, i, seed_packet.data[i])
    BY DEF UploadInv, SlotsDue
  <2>2. \A i \in Slots : i < samples_to_load_cntr + 1 =>
          Delivery!MayHold(Len(wire) + 1, i, seed_packet'.data[i])
    <3> SUFFICES ASSUME NEW i \in Slots, i < samples_to_load_cntr + 1
                 PROVE  Delivery!MayHold(Len(wire) + 1, i, seed_packet'.data[i])
      OBVIOUS
    <3>1. CASE i = samples_to_load_cntr
      BY <1>3, <1>5, <3>1
    <3>2. CASE i # samples_to_load_cntr
      <4>1. i < samples_to_load_cntr /\ seed_packet'.data[i] = seed_packet.data[i]
        BY <1>3, <1>5, <3>2 DEF Slots
      <4>2. QED
        BY <2>1, <4>1
    <3>3. QED
      BY <3>1, <3>2
  <2>3. PICK n, packet : n = Len(wire) + 1 /\ packet = seed_packet'
    OBVIOUS
  <2>4. \A i \in Slots : i < samples_to_load_cntr + 1 =>
          Delivery!MayHold(n, i, packet.data[i])'
    BY <1>1, <2>2, <2>3, PromiseStays
  <2>5. samples_to_load_cntr' = WAVE_SAMPLE_LEN =>
          \A i \in Slots : Delivery!MayHold(n, i, packet.data[i])'
    BY <1>4, <2>4, LengthIsPositive DEF Slots
  <2>6. n = Len(wire') + 1
    BY <2>3
  <2>7. QED
    BY <1>4, <2>3, <2>4, <2>5, <2>6 DEF SlotsDue
<1>10. QED
  BY <1>2, <1>6, <1>7, <1>8, <1>9 DEF UploadInv

LEMMA LoadSampleStep ==
  ASSUME UploadInv, LoadSample
  PROVE  UploadInv'
<1> DEFINE value == psram[flash_address_read]
<1>1. value \in Int /\ Delivery!MayHold(Len(wire) + 1, samples_to_load_cntr, value)
  BY CellDue DEF LoadSample
<1>2. stage = "load" /\ Advance(value)
  BY DEF LoadSample, FLASH_MEMORY_READ_DATA
<1>3. UNCHANGED <<recorderVars, packets, train_counter, wire, buttonVars>>
  BY DEF LoadSample
<1>4. crc_err_counter' \in Nat /\ flash_sample_fail_counter' \in Nat
  BY DEF LoadSample, UploadInv, UploadTypeOK
<1> HIDE DEF value
<1>5. QED
  BY <1>1, <1>2, <1>3, <1>4, AdvanceStep

(* A step that keeps the place in the record and the packet's data keeps   *)
(* the invariant.                                                          *)
LEMMA StandStill ==
  ASSUME UploadInv, stage # "idle", UploadTypeOK', stage' = stage,
         UNCHANGED <<recorderVars, packets, samples_to_load_cntr, flash_address_read, wire>>,
         seed_packet'.data = seed_packet.data
  PROVE  UploadInv'
<1> USE DEF recorderVars, packets
<1>1. UNCHANGED measured /\ UNCHANGED <<trig, sample>>
  BY DEF measured, sampling, circular, record, outcome, history
<1>2. RecordKept' /\ PacketsDue' = PacketsDue
  BY <1>1, RecordUntouched
<1>3. PacketsCounted'
  BY <1>2 DEF UploadInv, PacketsCounted, Filling
<1>4. PlaceInRecord'
  BY DEF UploadInv, PlaceInRecord, circular
<1>5. SlotsDue'
  <2>1. PICK n, data : n = Len(wire) + 1 /\ data = seed_packet.data
    OBVIOUS
  <2>2. /\ stage = "load" => \A i \in Slots : i < samples_to_load_cntr =>
             Delivery!MayHold(n, i, data[i])'
        /\ stage = "publish" => \A i \in Slots : Delivery!MayHold(n, i, data[i])'
    BY <1>1, <2>1, PromiseStays DEF UploadInv, SlotsDue
  <2>3. QED
    BY <2>1, <2>2 DEF SlotsDue
<1>6. QED
  BY <1>2, <1>3, <1>4, <1>5 DEF UploadInv

LEMMA CrcMismatchStep ==
  ASSUME UploadInv, CrcMismatch
  PROVE  UploadInv'
<1>1. CASE GivenUp(crc_err_counter + 1)
  <2>1. stage = "load" /\ Advance(Failed) /\ Failed \in Int
    BY <1>1 DEF CrcMismatch, Failed
  <2>2. UNCHANGED <<recorderVars, packets, train_counter, wire, buttonVars>>
    BY DEF CrcMismatch
  <2>3. crc_err_counter' \in Nat /\ flash_sample_fail_counter' \in Nat
    BY <1>1 DEF CrcMismatch, UploadInv, UploadTypeOK
  <2>4. Delivery!MayHold(Len(wire) + 1, samples_to_load_cntr, Failed)
    BY <2>1, CellDue
  <2>5. QED
    BY <2>1, <2>2, <2>3, <2>4, AdvanceStep
<1>2. CASE ~GivenUp(crc_err_counter + 1)
  <2>1. /\ stage = "load" /\ stage' = stage /\ crc_err_counter' = crc_err_counter + 1
        /\ UNCHANGED <<recorderVars, packets, samples_to_load_cntr, flash_address_read, wire,
                       flash_sample_fail_counter, seed_packet, train_counter, buttonVars>>
    BY <1>2 DEF CrcMismatch
  <2>2. UploadTypeOK'
    BY <2>1 DEF UploadInv, UploadTypeOK, packets, buttonVars
  <2>3. QED
    BY <2>1, <2>2, StandStill
<1>3. QED
  BY <1>1, <1>2

(* What a packet more does to the wire.                                    *)
LEMMA PacketMore ==
  ASSUME UploadInv
  PROVE  /\ Append(wire, seed_packet) \in Seq(Packets)
         /\ Len(Append(wire, seed_packet)) = Len(wire) + 1
         /\ Append(wire, seed_packet) # <<>>
         /\ Append(wire, seed_packet)[Len(wire) + 1] = seed_packet
         /\ \A k \in 1 .. Len(wire) : Append(wire, seed_packet)[k] = wire[k]
<1>1. wire \in Seq(Packets) /\ seed_packet \in Packets
  BY DEF UploadInv, UploadTypeOK
<1>2. QED
  BY <1>1, AppendProperties

LEMMA PublishStep ==
  ASSUME UploadInv, PublishPacket
  PROVE  UploadInv'
<1> USE DEF PublishPacket, recorderVars, packets, reading, buttonVars, data_publish
<1>1. UNCHANGED measured /\ stage # "idle" /\ stage' # "idle"
  BY DEF measured, sampling, circular, record, outcome, history
<1>2. RecordKept' /\ PacketsDue' = PacketsDue /\ total_packet_to_send = PacketsDue
      /\ PacketsDue \in Nat
  BY <1>1, RecordUntouched
<1>3. PICK n \in Nat : n = Len(wire)
  BY DEF UploadInv, UploadTypeOK
<1>4. wire' \in Seq(Packets) /\ Len(wire') = n + 1 /\ wire' # <<>>
  BY <1>3, PacketMore
<1>5. UploadTypeOK'
  <2>1. seed_packet' \in Packets
    BY DEF UploadInv, UploadTypeOK, Packets
  <2>2. QED
    BY <1>4, <2>1 DEF UploadInv, UploadTypeOK, UploadStages
<1>6. PacketsCounted'
  BY <1>2, <1>3, <1>4 DEF UploadInv, PacketsCounted, Filling
<1>7. PlaceInRecord'
  <2>1. circ_buff_overflow' = 0 /\ flash_address_read = n * WAVE_SAMPLE_LEN
    BY <1>3 DEF UploadInv, PlaceInRecord, circular
  <2>2. flash_address_read' = (Len(wire') - 1) * WAVE_SAMPLE_LEN
    BY <1>3, <1>4, <2>1
  <2>3. QED
    BY <1>4, <2>1, <2>2 DEF PlaceInRecord
<1>8. SlotsDue'
  BY DEF SlotsDue
<1>9. QED
  BY <1>2, <1>5, <1>6, <1>7, <1>8 DEF UploadInv

LEMMA EndingStep ==
  ASSUME UploadInv, PublishFails \/ UploadEnds
  PROVE  UploadInv'
<1> USE DEF PublishFails, UploadEnds, recorderVars, packets, reading, buttonVars
<1>1. UNCHANGED measured /\ stage # "idle" /\ stage' # "idle"
  BY DEF measured, sampling, circular, record, outcome, history
<1>2. RecordKept' /\ PacketsDue' = PacketsDue /\ total_packet_to_send = PacketsDue
      /\ PacketsDue \in Nat
  BY <1>1, RecordUntouched
<1>3. UploadTypeOK'
  BY DEF UploadInv, UploadTypeOK, UploadStages
<1>4. Len(wire) \in Nat
  BY DEF UploadInv, UploadTypeOK
<1>5. PacketsCounted'
  BY <1>2, <1>4 DEF UploadInv, PacketsCounted, Filling
<1>6. PlaceInRecord' /\ SlotsDue'
  BY DEF PlaceInRecord, SlotsDue
<1>7. QED
  BY <1>2, <1>3, <1>5, <1>6 DEF UploadInv

(* The button handler overwrites the header only, wherever main is.        *)
LEMMA ButtonTyped ==
  ASSUME UploadInv, ButtonFills
  PROVE  seed_packet' \in Packets /\ seed_packet'.data = seed_packet.data
<1>1. seed_packet \in Packets /\ train_counter \in Nat
  BY DEF UploadInv, UploadTypeOK
<1>2. PICK one \in Nat : one = 1
  OBVIOUS
<1>3. PICK numbered :
         numbered = [seed_packet EXCEPT !.actual_packet_nr = one, !.total_packet_nr = one]
  OBVIOUS
<1>4. numbered \in Packets /\ numbered.data = seed_packet.data
  BY <1>1, <1>3 DEF Packets
<1>5. seed_packet' = [numbered EXCEPT !.timestamp = "fixed", !.train_counter = train_counter,
                                      !.CRC = Magic]
  BY <1>1, <1>2, <1>3 DEF ButtonFills, Packets
<1>6. QED
  BY <1>1, <1>4, <1>5, RestTyped

LEMMA ButtonHandlerStep ==
  ASSUME UploadInv, ButtonStep
  PROVE  UploadInv'
<1>1. /\ UNCHANGED <<recorderVars, stage, packets, reading, wire>>
      /\ seed_packet' \in Packets /\ seed_packet'.data = seed_packet.data
      /\ train_counter' \in Nat /\ presses' \in Nat
  <2>1. train_counter \in Nat /\ presses \in Nat /\ seed_packet \in Packets
    BY DEF UploadInv, UploadTypeOK
  <2>2. CASE ButtonFills
    BY <2>1, <2>2, ButtonTyped DEF ButtonFills
  <2>3. CASE ButtonPublishes
    BY <2>1, <2>3 DEF ButtonPublishes
  <2>4. QED
    BY <2>2, <2>3 DEF ButtonStep
<1>2. UploadTypeOK'
  BY <1>1 DEF UploadInv, UploadTypeOK, packets, reading
<1>3. CASE stage # "idle"
  BY <1>1, <1>2, <1>3, StandStill DEF reading
<1>4. CASE stage = "idle"
  <2>1. UNCHANGED recorderVars /\ UNCHANGED <<stage, wire, flash_sample_fail_counter>>
    BY <1>1 DEF reading
  <2>2. RecorderInv'
    BY <1>4, <2>1, RecorderInvStep DEF UploadInv, RecordKept
  <2>3. RecordKept'
    BY <1>4, <2>1, <2>2 DEF UploadInv, RecordKept, NoMarks, recorderVars, record
  <2>4. PacketsCounted' /\ PlaceInRecord' /\ SlotsDue'
    BY <1>4, <2>1 DEF UploadInv, PacketsCounted, PlaceInRecord, SlotsDue, Filling
  <2>5. QED
    BY <1>2, <2>3, <2>4 DEF UploadInv
<1>5. QED
  BY <1>3, <1>4

LEMMA UploadInvInit == UploadInit => UploadInv
<1> SUFFICES ASSUME UploadInit PROVE UploadInv
  OBVIOUS
<1>1. RecorderInv
  BY RecorderInvInit DEF UploadInit
<1>2. NoMarks
  BY DEF UploadInit, RecorderInit, NoMarks, OldCell, Garbage, Failed
<1>3. UploadTypeOK
  <2>1. seed_packet \in Packets
    BY DEF UploadInit, Packets, Cleared
  <2>2. wire \in Seq(Packets)
    BY DEF UploadInit
  <2>3. QED
    BY <2>1, <2>2 DEF UploadInit, UploadTypeOK, UploadStages
<1>4. RecordKept
  BY <1>1, <1>2 DEF UploadInit, RecordKept
<1>5. PacketsCounted /\ PlaceInRecord /\ SlotsDue
  BY DEF UploadInit, PacketsCounted, PlaceInRecord, SlotsDue, Filling
<1>6. QED
  BY <1>3, <1>4, <1>5 DEF UploadInv

LEMMA UploadInvStep == UploadInv /\ [UploadNext]_allVars => UploadInv'
<1> SUFFICES ASSUME UploadInv, [UploadNext]_allVars PROVE UploadInv'
  OBVIOUS
<1>1. CASE Measure \/ UNCHANGED allVars
  <2>1. CASE stage # "idle"
    BY <1>1, <2>1, ReadyStep
  <2>2. CASE stage = "idle" /\ Measure
    BY <2>2, MeasureStep
  <2>3. CASE stage = "idle" /\ UNCHANGED allVars
    <3>1. RecorderInv'
      BY <2>3, RecorderInvStep DEF UploadInv, RecordKept, allVars
    <3>2. RecordKept'
      BY <2>3, <3>1 DEF UploadInv, RecordKept, NoMarks, allVars, uploadVars, recorderVars, record
    <3>3. UploadTypeOK' /\ PacketsCounted' /\ PlaceInRecord' /\ SlotsDue'
      BY <2>3 DEF UploadInv, UploadTypeOK, PacketsCounted, PlaceInRecord, SlotsDue, Filling,
         allVars, uploadVars, packets, reading, buttonVars
    <3>4. QED
      BY <3>2, <3>3 DEF UploadInv
  <2>4. QED
    BY <1>1, <2>1, <2>2, <2>3
<1>2. CASE UploadStep
  BY <1>2, BeginStep, HeaderStep, WindowStep, StartLoadingStep, LoadSampleStep, CrcMismatchStep,
     PublishStep, EndingStep DEF UploadStep
<1>3. CASE ButtonStep
  BY <1>3, ButtonHandlerStep
<1>4. QED
  BY <1>1, <1>2, <1>3 DEF UploadNext

(* The inductive invariant holds of the upload.                            *)
THEOREM UploadInvariant == UploadSpec => []UploadInv
<1>1. QED
  BY UploadInvInit, UploadInvStep, PTL DEF UploadSpec

-----------------------------------------------------------------------------
(* Every step of the upload is a step of what the receiver is promised, or *)
(* no step for the receiver at all.                                        *)
LEMMA DeliveryStep ==
  ASSUME UploadInv, [UploadNext]_allVars
  PROVE  [Delivery!DeliveryNext]_(Delivery!deliveryVars)
<1> USE DEF Delivery!deliveryVars
<1>1. CASE Measure \/ UNCHANGED allVars
  <2>1. CASE stage = "idle"
    <3>1. UNCHANGED <<stage, wire>>
      BY <1>1 DEF Measure, allVars, uploadVars
    <3>2. RecorderInv'
      BY <1>1, <2>1, RecorderInvStep DEF UploadInv, RecordKept, Measure, allVars
    <3>3. trig' \in Nat /\ sample' \in Nat
      BY <3>2 DEF RecorderInv, RecorderTypeOK
    <3>4. Delivery!Measuring
      BY <2>1, <3>1, <3>3 DEF Delivery!Measuring
    <3>5. QED
      BY <3>4 DEF Delivery!DeliveryNext
  <2>2. CASE stage # "idle"
    BY <1>1, <2>2, ReadyStep DEF uploadVars
  <2>3. QED
    BY <2>1, <2>2
<1>2. CASE UploadBegin
  <2>1. /\ trig > 0 /\ sample > trig /\ stage = "idle" /\ stage' = "header"
        /\ UNCHANGED <<trig, sample, wire>>
    BY <1>2, BeginStep DEF UploadBegin, measured, sampling, history
  <2>2. Delivery!Begin
    BY <2>1 DEF Delivery!Begin
  <2>3. QED
    BY <2>2 DEF Delivery!DeliveryNext
<1>3. CASE \/ HeaderNumbers \/ HeaderRest \/ FillFromCircular \/ StartLoading
           \/ LoadSample \/ CrcMismatch
  <2>1. /\ stage \in {"header", "header_rest", "fill", "load"}
        /\ stage' \in {"header_rest", "fill", "load", "publish"}
        /\ UNCHANGED <<trig, sample, wire>>
    BY <1>3 DEF HeaderNumbers, HeaderRest, FillFromCircular, StartLoading, LoadSample,
       CrcMismatch, Advance, recorderVars, measured, sampling, history
  <2>2. QED
    BY <2>1
<1>4. CASE PublishPacket
  <2>1. /\ stage = "publish" /\ stage' = "header" /\ UNCHANGED <<trig, sample>>
        /\ wire' = Append(wire, seed_packet)
    BY <1>4 DEF PublishPacket, data_publish, recorderVars, sampling, history
  <2>2. PICK n \in Nat : n = Len(wire)
    BY DEF UploadInv, UploadTypeOK
  <2>3. n < PacketsDue
    BY <2>1, <2>2 DEF UploadInv, PacketsCounted, Filling
  <2>4. \A i \in Slots : Delivery!MayHold(n + 1, i, seed_packet.data[i])
    BY <2>1, <2>2 DEF UploadInv, SlotsDue
  <2> DEFINE before == [k \in DOMAIN wire |-> wire[k].data]
             after  == [k \in DOMAIN wire' |-> wire'[k].data]
  <2>5. /\ DOMAIN wire = 1 .. n /\ DOMAIN wire' = 1 .. n + 1
        /\ wire'[n + 1] = seed_packet
        /\ \A k \in 1 .. n : wire'[k] = wire[k]
    BY <2>1, <2>2, PacketMore DEF UploadInv, UploadTypeOK
  <2>6. /\ before \in Seq([Slots -> Int]) /\ Len(before) = n
        /\ after \in Seq([Slots -> Int]) /\ Len(after) = n + 1
        /\ after[n + 1] = seed_packet.data
        /\ after = Append(before, seed_packet.data)
    <3>1. \A k \in 1 .. n : wire[k] \in Packets
      BY <2>2 DEF UploadInv, UploadTypeOK
    <3>2. seed_packet \in Packets
      BY DEF UploadInv, UploadTypeOK
    <3>3. before \in [1 .. n -> [Slots -> Int]]
      BY <2>5, <3>1 DEF Packets
    <3>4. after \in [1 .. n + 1 -> [Slots -> Int]]
      <4>1. PICK w : w = wire'
        OBVIOUS
      <4>2. \A k \in 1 .. n + 1 : k = n + 1 \/ k \in 1 .. n
        OBVIOUS
      <4>3. \A k \in 1 .. n + 1 : w[k] \in Packets
        BY <2>5, <3>1, <3>2, <4>1, <4>2
      <4>4. QED
        BY <2>5, <4>1, <4>3 DEF Packets
    <3>5. before \in Seq([Slots -> Int]) /\ Len(before) = n
      BY <3>3, IsASeq, LenProperties
    <3>6. after \in Seq([Slots -> Int]) /\ Len(after) = n + 1
      BY <3>4, IsASeq, LenProperties
    <3>7. /\ after[n + 1] = seed_packet.data
          /\ \A k \in 1 .. n : after[k] = before[k]
      BY <2>5
    <3> HIDE DEF before, after
    <3>8. seed_packet.data \in [Slots -> Int]
      BY <3>2 DEF Packets
    <3>9. after = Append(before, seed_packet.data)
      BY <3>5, <3>6, <3>7, <3>8, AppendProperties, SeqEqual
    <3>10. QED
      BY <3>5, <3>6, <3>7, <3>9
  <2>7. Delivery!SendChunk
    BY <2>1, <2>2, <2>3, <2>4, <2>6, PromiseStays
       DEF Delivery!SendChunk, Delivery!Chunks, Delivery!Places, Slots, CRCLR_BUFF_SIZE,
           PacketsDue, Recorded
  <2>8. QED
    BY <2>7 DEF Delivery!DeliveryNext
<1>5. CASE PublishFails \/ UploadEnds
  <2>1. UNCHANGED <<trig, sample, wire>>
    BY <1>5 DEF PublishFails, UploadEnds, recorderVars, sampling, history
  <2>2. PICK n \in Nat : n = Len(wire)
    BY DEF UploadInv, UploadTypeOK
  <2> DEFINE before == [k \in DOMAIN wire |-> wire[k].data]
  <2>3. Len(before) = n
    BY <2>2, LenProperties DEF UploadInv, UploadTypeOK
  <2>4. CASE PublishFails
    <3>1. stage = "publish" /\ stage' = "failed" /\ n < PacketsDue
      BY <2>2, <2>4 DEF PublishFails, UploadInv, PacketsCounted, Filling
    <3>2. Delivery!Abandon
      BY <2>1, <2>3, <3>1 DEF Delivery!Abandon, Delivery!Chunks, PacketsDue, Recorded
    <3>3. QED
      BY <3>2 DEF Delivery!DeliveryNext
  <2>5. CASE UploadEnds
    <3>1. stage = "header" /\ stage' = "done" /\ n = PacketsDue
      <4>1. PacketsDue \in Nat /\ total_packet_to_send = PacketsDue
        BY <2>5, RecordUntouched DEF UploadEnds, recorderVars, measured, sampling, circular,
           record, outcome, history
      <4>2. QED
        BY <2>2, <2>5, <4>1 DEF UploadEnds, UploadInv, PacketsCounted
    <3>2. Delivery!Complete
      BY <2>1, <2>3, <3>1 DEF Delivery!Complete, Delivery!Chunks, PacketsDue, Recorded
    <3>3. QED
      BY <3>2 DEF Delivery!DeliveryNext
  <2>6. QED
    BY <1>5, <2>4, <2>5
<1>6. CASE ButtonStep
  BY <1>6 DEF ButtonStep, ButtonFills, ButtonPublishes, recorderVars, sampling, history
<1>7. QED
  BY <1>1, <1>2, <1>3, <1>4, <1>5, <1>6 DEF UploadNext, UploadStep

(* The upload does what TrainDelivery promises the receiver: every chunk   *)
(* in its turn, every slot the sample due there or the mark, the stream    *)
(* complete or broken off behind a whole chunk and not resumed.            *)
THEOREM RecordDelivered == UploadSpec => Delivery!DeliverySafety
<1>1. UploadInit => Delivery!DeliveryInit
  BY DEF UploadInit, RecorderInit, Delivery!DeliveryInit
<1>2. UploadInv /\ [UploadNext]_allVars => [Delivery!DeliveryNext]_(Delivery!deliveryVars)
  BY DeliveryStep
<1>3. QED
  BY <1>1, <1>2, UploadInvariant, PTL DEF UploadSpec, Delivery!DeliverySafety

-----------------------------------------------------------------------------
(* The marks of a packet and of the wire are finite sets, whatever the     *)
(* packets hold.                                                           *)
LEMMA SlotsFinite == IsFiniteSet(Slots)
  BY FS_Interval, LengthIsPositive DEF Slots

LEMMA MarksAreNatural ==
  ASSUME NEW packet, NEW n
  PROVE  /\ IsFiniteSet({i \in Slots : i < n /\ packet.data[i] = Failed})
         /\ Marks(packet, n) \in Nat
<1>1. {i \in Slots : i < n /\ packet.data[i] = Failed} \subseteq Slots
  OBVIOUS
<1>2. IsFiniteSet({i \in Slots : i < n /\ packet.data[i] = Failed})
  BY <1>1, SlotsFinite, FS_Subset
<1>3. QED
  BY <1>2, FS_CardinalityType DEF Marks

LEMMA NoMarksYet == ASSUME NEW packet PROVE Marks(packet, 0) = 0
<1>1. {i \in Slots : i < 0 /\ packet.data[i] = Failed} = {}
  BY LengthIsPositive DEF Slots
<1>2. QED
  BY <1>1, FS_EmptySet DEF Marks

(* One slot more adds a mark when it is filled with one.                   *)
LEMMA MarksAdvance ==
  ASSUME NEW packet, NEW c \in Slots, NEW value, NEW next,
         packet.data \in [Slots -> Int],
         next.data = [packet.data EXCEPT ![c] = value]
  PROVE  Marks(next, c + 1) = Marks(packet, c) + (IF value = Failed THEN 1 ELSE 0)
<1> DEFINE old == {i \in Slots : i < c /\ packet.data[i] = Failed}
           new == {i \in Slots : i < c + 1 /\ next.data[i] = Failed}
<1>1. c \in Int /\ \A i \in Slots : i \in Int /\ (i < c + 1 <=> i < c \/ i = c)
  BY LengthIsPositive DEF Slots
<1>2. \A i \in Slots : next.data[i] = IF i = c THEN value ELSE packet.data[i]
  OBVIOUS
<1>3. c \notin old /\ IsFiniteSet(old)
  BY <1>1, MarksAreNatural
<1>4. CASE value = Failed
  <2>1. new = old \cup {c}
    BY <1>1, <1>2, <1>4
  <2>2. QED
    BY <1>3, <1>4, <2>1, FS_AddElement DEF Marks
<1>5. CASE value # Failed
  <2>1. \A i \in Slots : i \in new <=> i \in old
    <3> SUFFICES ASSUME NEW i \in Slots PROVE i \in new <=> i \in old
      OBVIOUS
    <3>1. CASE i = c
      BY <1>1, <1>2, <1>5, <3>1
    <3>2. CASE i # c
      BY <1>1, <1>2, <3>2
    <3>3. QED
      BY <3>1, <3>2
  <2>2. new = old
    BY <2>1
  <2>3. Cardinality(old) \in Nat
    BY <1>3, FS_CardinalityType
  <2>4. QED
    BY <1>5, <2>2, <2>3 DEF Marks
<1>6. QED
  BY <1>4, <1>5

(* A packet that goes out takes its marks along.                           *)
LEMMA MarksPublished ==
  ASSUME UploadInv, wire' = Append(wire, seed_packet)
  PROVE  MarksSent' = MarksSent + Marks(seed_packet, WAVE_SAMPLE_LEN)
<1>1. PICK n \in Nat : n = Len(wire)
  BY DEF UploadInv, UploadTypeOK
<1>2. PICK w : w = wire'
  OBVIOUS
<1>3. /\ Len(w) = n + 1 /\ w[n + 1] = seed_packet
      /\ \A k \in 1 .. n : w[k] = wire[k]
  BY <1>1, <1>2, PacketMore
<1> DEFINE old  == {p \in (1 .. n) \X Slots : wire[p[1]].data[p[2]] = Failed}
           new  == {p \in (1 .. n + 1) \X Slots : w[p[1]].data[p[2]] = Failed}
           mark == {i \in Slots : i < WAVE_SAMPLE_LEN /\ seed_packet.data[i] = Failed}
           sent == {<<n + 1, i>> : i \in mark}
<1>4. MarksSent = Cardinality(old) /\ MarksSent' = Cardinality(new)
  BY <1>1, <1>2, <1>3 DEF MarksSent
<1>5. \A i \in Slots : i < WAVE_SAMPLE_LEN
  BY LengthIsPositive DEF Slots
<1>6. new = old \cup sent
  <2>1. ASSUME NEW p \in (1 .. n) \X Slots PROVE p \in new <=> p \in old
    BY <1>3
  <2>2. ASSUME NEW i \in Slots PROVE <<n + 1, i>> \in new <=> i \in mark
    BY <1>3, <1>5
  <2>3. (1 .. n + 1) \X Slots = ((1 .. n) \X Slots) \cup {<<n + 1, i>> : i \in Slots}
    <3>1. 1 .. n + 1 = (1 .. n) \cup {n + 1}
      OBVIOUS
    <3>2. QED
      BY <3>1
  <2>4. QED
    BY <2>1, <2>2, <2>3
<1>7. old \cap sent = {}
  OBVIOUS
<1>8. IsFiniteSet(old)
  <2>1. IsFiniteSet(1 .. n)
    BY FS_Interval
  <2>2. IsFiniteSet((1 .. n) \X Slots)
    BY <2>1, SlotsFinite, FS_Product
  <2>3. QED
    BY <2>2, FS_Subset
<1>9. IsFiniteSet(sent) /\ Cardinality(sent) = Cardinality(mark)
  <2>1. IsFiniteSet(mark)
    BY MarksAreNatural
  <2> DEFINE place == [i \in mark |-> <<n + 1, i>>]
  <2>2. place \in Bijection(mark, sent)
    BY DEF Bijection, Injection, Surjection, IsInjective
  <2>3. QED
    BY <2>1, <2>2, FS_Bijection DEF ExistsBijection
<1>10. Marks(seed_packet, WAVE_SAMPLE_LEN) = Cardinality(mark)
  BY DEF Marks
<1> HIDE DEF old, new, mark, sent
<1>11. Cardinality(new) = Cardinality(old) + Cardinality(sent)
  <2>1. Cardinality(old \cup sent) =
          Cardinality(old) + Cardinality(sent) - Cardinality(old \cap sent)
    BY <1>8, <1>9, FS_Union
  <2>2. Cardinality(old \cap sent) = 0
    BY <1>7, FS_EmptySet
  <2>3. Cardinality(old) \in Nat /\ Cardinality(sent) \in Nat
    BY <1>8, <1>9, FS_CardinalityType
  <2>4. QED
    BY <1>6, <2>1, <2>2, <2>3
<1>12. QED
  BY <1>4, <1>9, <1>10, <1>11

LEMMA MarksSentStay == ASSUME UNCHANGED wire PROVE MarksSent' = MarksSent
  BY DEF MarksSent

LEMMA MarksSentNatural == ASSUME UploadInv PROVE MarksSent \in Nat
<1>1. PICK n \in Nat : n = Len(wire)
  BY DEF UploadInv, UploadTypeOK
<1>2. IsFiniteSet(1 .. n)
  BY FS_Interval
<1>3. IsFiniteSet((1 .. n) \X Slots)
  BY <1>2, SlotsFinite, FS_Product
<1>4. IsFiniteSet({p \in (1 .. n) \X Slots : wire[p[1]].data[p[2]] = Failed})
  BY <1>3, FS_Subset
<1>5. QED
  BY <1>1, <1>4, FS_CardinalityType DEF MarksSent

(* A slot that is filled and counted when it is marked.                    *)
LEMMA FilledAndCounted ==
  ASSUME UploadInv, FailuresCounted, stage = "load", NEW value, Advance(value), UNCHANGED wire,
         flash_sample_fail_counter' =
           flash_sample_fail_counter + (IF value = Failed THEN 1 ELSE 0)
  PROVE  FailuresCounted'
<1>1. PICK c, m, packet, next :
        /\ c \in Slots /\ m \in Nat
        /\ c = samples_to_load_cntr /\ m = Marks(seed_packet, samples_to_load_cntr)
        /\ packet = seed_packet /\ next = seed_packet'
  BY CellDue, MarksAreNatural
<1>2. /\ packet.data \in [Slots -> Int]
      /\ next.data = [packet.data EXCEPT ![c] = value]
  BY <1>1 DEF UploadInv, UploadTypeOK, Packets, Advance
<1>3. Marks(next, c + 1) = Marks(packet, c) + (IF value = Failed THEN 1 ELSE 0)
  BY <1>1, <1>2, MarksAdvance
<1>4. /\ samples_to_load_cntr' = c + 1
      /\ stage' = IF c + 1 = WAVE_SAMPLE_LEN THEN "publish" ELSE "load"
  BY <1>1 DEF Advance
<1>5. MarksFilled = Marks(packet, c)
  BY <1>1 DEF MarksFilled
<1>6. MarksFilled' = Marks(next, c + 1)
  BY <1>1, <1>4 DEF MarksFilled, Marks
<1>7. MarksSent' = MarksSent /\ MarksSent \in Nat /\ Marks(packet, c) \in Nat
  BY MarksSentStay, MarksSentNatural, MarksAreNatural
<1>8. QED
  BY <1>3, <1>5, <1>6, <1>7 DEF FailuresCounted

LEMMA FailuresCountedStep ==
  ASSUME UploadInv, FailuresCounted, [UploadNext]_allVars
  PROVE  FailuresCounted'
<1>1. CASE /\ UNCHANGED <<stage, wire, samples_to_load_cntr, flash_sample_fail_counter>>
           /\ seed_packet'.data = seed_packet.data
  <2>1. MarksFilled' = MarksFilled
    BY <1>1 DEF MarksFilled, Marks
  <2>2. QED
    BY <1>1, <2>1, MarksSentStay DEF FailuresCounted
<1>2. CASE Measure \/ UNCHANGED allVars
  BY <1>1, <1>2 DEF Measure, allVars, uploadVars, reading
<1>3. CASE ButtonStep
  BY <1>1, <1>3, ButtonTyped DEF ButtonStep, ButtonFills, ButtonPublishes, reading
<1>4. CASE UploadBegin
  <2>1. wire = <<>> /\ stage = "idle" /\ stage' = "header" /\ flash_sample_fail_counter = 0
        /\ flash_sample_fail_counter' = 0 /\ UNCHANGED wire
    BY <1>4 DEF UploadBegin, UploadInv, PacketsCounted
  <2>2. QED
    BY <2>1, MarksSentStay DEF FailuresCounted, MarksFilled
<1>5. CASE HeaderNumbers \/ HeaderRest \/ UploadEnds
  <2>1. /\ stage \in {"header", "header_rest"} /\ stage' \in {"header_rest", "fill", "done"}
        /\ UNCHANGED <<wire, flash_sample_fail_counter>>
    BY <1>5 DEF HeaderNumbers, HeaderRest, UploadEnds, reading
  <2>2. QED
    BY <2>1, MarksSentStay DEF FailuresCounted, MarksFilled
<1>6. CASE FillFromCircular
  <2>1. /\ stage = "fill" /\ stage' = "publish"
        /\ UNCHANGED <<wire, flash_sample_fail_counter>>
        /\ \A i \in Slots : seed_packet'.data[i] # Failed
    BY <1>6, WindowStep DEF FillFromCircular, reading
  <2>2. {i \in Slots : i < WAVE_SAMPLE_LEN /\ seed_packet'.data[i] = Failed} = {}
    BY <2>1
  <2>3. MarksFilled = 0 /\ MarksFilled' = 0
    BY <2>1, <2>2, FS_EmptySet DEF MarksFilled, Marks
  <2>4. QED
    BY <2>1, <2>3, MarksSentStay DEF FailuresCounted
<1>7. CASE StartLoading
  <2>1. /\ stage = "fill" /\ stage' = "load" /\ samples_to_load_cntr' = 0
        /\ UNCHANGED <<wire, flash_sample_fail_counter, seed_packet>>
    BY <1>7 DEF StartLoading
  <2>2. MarksFilled = 0
    BY <2>1 DEF MarksFilled
  <2>3. MarksFilled' = Marks(seed_packet, 0)
    BY <2>1 DEF MarksFilled, Marks
  <2>4. QED
    BY <2>1, <2>2, <2>3, NoMarksYet, MarksSentStay DEF FailuresCounted
<1>8. CASE LoadSample
  <2>1. PICK value : value = psram[flash_address_read]
    OBVIOUS
  <2>2. stage = "load" /\ Advance(value) /\ UNCHANGED <<wire, flash_sample_fail_counter>>
    BY <1>8, <2>1 DEF LoadSample, FLASH_MEMORY_READ_DATA
  <2>3. value # Failed
    BY <2>1, <2>2, CellDue
  <2>4. flash_sample_fail_counter \in Nat
    BY DEF UploadInv, UploadTypeOK
  <2>5. QED
    BY <2>2, <2>3, <2>4, FilledAndCounted
<1>9. CASE CrcMismatch
  <2>1. CASE GivenUp(crc_err_counter + 1)
    BY <1>9, <2>1, FilledAndCounted DEF CrcMismatch
  <2>2. CASE ~GivenUp(crc_err_counter + 1)
    BY <1>1, <1>9, <2>2 DEF CrcMismatch
  <2>3. QED
    BY <2>1, <2>2
<1>10. CASE PublishPacket
  <2>1. /\ stage = "publish" /\ stage' = "header" /\ UNCHANGED flash_sample_fail_counter
        /\ wire' = Append(wire, seed_packet)
    BY <1>10 DEF PublishPacket, data_publish, reading
  <2>2. MarksFilled = Marks(seed_packet, WAVE_SAMPLE_LEN) /\ MarksFilled' = 0
    BY <2>1 DEF MarksFilled
  <2>3. MarksSent' = MarksSent + Marks(seed_packet, WAVE_SAMPLE_LEN)
    BY <2>1, MarksPublished
  <2>4. MarksSent \in Nat /\ Marks(seed_packet, WAVE_SAMPLE_LEN) \in Nat
    BY MarksSentNatural, MarksAreNatural
  <2>5. QED
    BY <2>1, <2>2, <2>3, <2>4 DEF FailuresCounted
<1>11. CASE PublishFails
  <2>1. /\ stage = "publish" /\ stage' = "failed"
        /\ UNCHANGED <<wire, flash_sample_fail_counter, seed_packet>>
    BY <1>11 DEF PublishFails, reading
  <2>2. MarksFilled' = MarksFilled
    BY <2>1 DEF MarksFilled, Marks
  <2>3. QED
    BY <2>1, <2>2, MarksSentStay DEF FailuresCounted
<1>12. QED
  BY <1>2, <1>3, <1>4, <1>5, <1>6, <1>7, <1>8, <1>9, <1>10, <1>11 DEF UploadNext, UploadStep

(* The count of given-up samples is the number of marks in what was sent   *)
(* and in the packet being filled: none uncounted, none overwritten.       *)
THEOREM MarksCounted == UploadSpec => []FailuresCounted
<1>1. UploadInit => FailuresCounted
  <2> SUFFICES ASSUME UploadInit PROVE FailuresCounted
    OBVIOUS
  <2>1. wire = <<>> /\ stage = "idle" /\ flash_sample_fail_counter = 0
    BY DEF UploadInit
  <2>2. (1 .. 0) \X Slots = {}
    OBVIOUS
  <2>3. {p \in (1 .. Len(wire)) \X Slots : wire[p[1]].data[p[2]] = Failed} = {}
    BY <2>1, <2>2
  <2>4. MarksSent = 0
    BY <2>3, FS_EmptySet DEF MarksSent
  <2>5. QED
    BY <2>1, <2>4 DEF FailuresCounted, MarksFilled
<1>2. UploadInv /\ FailuresCounted /\ [UploadNext]_allVars => FailuresCounted'
  BY FailuresCountedStep
<1>3. QED
  BY <1>1, <1>2, UploadInvariant, PTL DEF UploadSpec

-----------------------------------------------------------------------------
(* The packets a press spoiled are some of those on the wire.              *)
SpoiledOnWire == {k \in 1 .. Len(wire) : Spoiled(wire[k], k)}
Spoiling == stage \in Filling /\ Spoiled(seed_packet, Len(wire) + 1)

LEMMA SpoiledFinite ==
  ASSUME UploadInv
  PROVE  IsFiniteSet(SpoiledOnWire) /\ Cardinality(SpoiledOnWire) \in Nat
<1>1. PICK n \in Nat : n = Len(wire)
  BY DEF UploadInv, UploadTypeOK
<1>2. IsFiniteSet(1 .. n)
  BY FS_Interval
<1>3. IsFiniteSet(SpoiledOnWire)
  BY <1>1, <1>2, FS_Subset DEF SpoiledOnWire
<1>4. QED
  BY <1>3, FS_CardinalityType

(* Before the upload there is nothing to spoil.                            *)
LEMMA NothingSpoiled ==
  ASSUME wire = <<>>, stage \notin Filling, presses \in Nat
  PROVE  PressInv
<1>1. {k \in 1 .. Len(wire) : Spoiled(wire[k], k)} = {}
  OBVIOUS
<1>2. QED
  BY <1>1, FS_EmptySet DEF PressInv

(* While nothing is sent, a packet gets spoiled by a press only.           *)
LEMMA SpoiledByPress ==
  ASSUME UploadInv, PressInv, UNCHANGED wire, PacketsDue' = PacketsDue,
         presses \in Nat,
         \/ presses' = presses /\ (Spoiling' => Spoiling)
         \/ presses' = presses + 1
  PROVE  PressInv'
<1>1. SpoiledOnWire' = SpoiledOnWire
  BY DEF SpoiledOnWire, Spoiled
<1>2. /\ PressInv <=> Cardinality(SpoiledOnWire) + (IF Spoiling THEN 1 ELSE 0) <= presses
      /\ PressInv' <=> Cardinality(SpoiledOnWire') + (IF Spoiling' THEN 1 ELSE 0) <= presses'
  BY DEF PressInv, SpoiledOnWire, Spoiling
<1>3. QED
  BY <1>1, <1>2, SpoiledFinite

LEMMA PressInvStep ==
  ASSUME UploadInv, UploadInv', PressInv, [UploadNext]_allVars
  PROVE  PressInv'
<1>1. presses \in Nat /\ presses' \in Nat /\ Len(wire) \in Nat
  BY DEF UploadInv, UploadTypeOK
<1>2. CASE stage = "idle"
  <2>1. wire' = <<>> /\ stage' \in {"idle", "header"}
    <3>1. wire = <<>>
      BY <1>2 DEF UploadInv, PacketsCounted
    <3>2. UNCHANGED wire /\ stage' \in {"idle", "header"}
      BY <1>2 DEF UploadNext, UploadStep, Measure, ButtonStep, UploadBegin, HeaderNumbers,
         HeaderRest, FillFromCircular, StartLoading, LoadSample, CrcMismatch, PublishPacket,
         PublishFails, UploadEnds, ButtonFills, ButtonPublishes, uploadVars, allVars
    <3>3. QED
      BY <3>1, <3>2
  <2>2. stage' \notin Filling
    BY <2>1 DEF Filling
  <2>3. SpoiledOnWire' = {}
    BY <2>1 DEF SpoiledOnWire
  <2>4. ~Spoiling'
    BY <2>2 DEF Spoiling
  <2>5. PressInv' <=> Cardinality(SpoiledOnWire') + (IF Spoiling' THEN 1 ELSE 0) <= presses'
    BY DEF PressInv, SpoiledOnWire, Spoiling
  <2>6. QED
    BY <1>1, <2>3, <2>4, <2>5, FS_EmptySet
<1>3. CASE stage # "idle" /\ (Measure \/ UNCHANGED allVars)
  <2>1. UNCHANGED <<stage, wire, seed_packet, presses>> /\ PacketsDue' = PacketsDue
    BY <1>3, ReadyStep DEF uploadVars, buttonVars, PacketsDue, Recorded
  <2>2. Spoiling' => Spoiling
    BY <2>1 DEF Spoiling, Spoiled
  <2>3. QED
    BY <1>1, <2>1, <2>2, SpoiledByPress
<1>4. CASE stage # "idle" /\ ButtonStep
  <2>1. UNCHANGED <<wire, stage>> /\ PacketsDue' = PacketsDue
    BY <1>4 DEF ButtonStep, ButtonFills, ButtonPublishes, recorderVars, sampling, history,
       PacketsDue, Recorded
  <2>2. CASE ButtonFills
    BY <1>1, <2>1, <2>2, SpoiledByPress DEF ButtonFills
  <2>3. CASE ButtonPublishes
    <3>1. presses' = presses /\ (Spoiling' => Spoiling)
      BY <2>1, <2>3 DEF ButtonPublishes, Spoiling, Spoiled
    <3>2. QED
      BY <1>1, <2>1, <3>1, SpoiledByPress
  <2>4. QED
    BY <1>4, <2>2, <2>3 DEF ButtonStep
<1>5. CASE stage # "idle" /\ UploadStep
  <2>1. UNCHANGED measured /\ UNCHANGED presses /\ stage' # "idle"
    BY <1>5 DEF UploadStep, UploadBegin, HeaderNumbers, HeaderRest, FillFromCircular,
       StartLoading, LoadSample, CrcMismatch, Advance, PublishPacket, PublishFails, UploadEnds,
       recorderVars, measured, sampling, circular, record, outcome, history, buttonVars
  <2>2. PacketsDue' = PacketsDue /\ total_packet_to_send = PacketsDue /\ PacketsDue \in Nat
    BY <1>5, <2>1, RecordUntouched
  <2>3. CASE HeaderNumbers
    <3>1. /\ UNCHANGED wire /\ pckt_cnt = Len(wire) + 1 /\ pckt_cnt \in Nat
          /\ seed_packet' = [seed_packet EXCEPT !.actual_packet_nr = pckt_cnt,
                                                !.total_packet_nr = total_packet_to_send]
          /\ seed_packet \in Packets
      BY <2>3 DEF HeaderNumbers, UploadInv, UploadTypeOK, PacketsCounted
    <3>2. seed_packet'.actual_packet_nr = pckt_cnt /\ seed_packet'.total_packet_nr = PacketsDue
      BY <2>2, <3>1 DEF Packets
    <3>3. ~Spoiling'
      BY <2>2, <3>1, <3>2 DEF Spoiling, Spoiled
    <3>4. QED
      BY <1>1, <2>1, <2>2, <3>1, <3>3, SpoiledByPress
  <2>4. CASE \/ HeaderRest \/ FillFromCircular \/ StartLoading \/ LoadSample \/ CrcMismatch
             \/ PublishFails \/ UploadEnds
    <3>1. /\ UNCHANGED wire
          /\ stage' \in Filling => stage \in Filling
          /\ seed_packet'.actual_packet_nr = seed_packet.actual_packet_nr
          /\ seed_packet'.total_packet_nr = seed_packet.total_packet_nr
      <4>1. seed_packet \in Packets
        BY DEF UploadInv, UploadTypeOK
      <4>2. CASE HeaderRest
        <5>1. /\ UNCHANGED wire /\ stage \in Filling
              /\ seed_packet' = [seed_packet EXCEPT !.timestamp = "record",
                                    !.train_counter = train_counter, !.CRC = Magic]
          BY <4>2 DEF HeaderRest, Filling
        <5>2. QED
          BY <4>1, <5>1 DEF Packets
      <4>3. CASE FillFromCircular
        BY <4>1, <4>3 DEF FillFromCircular, Filling, Packets
      <4>4. CASE LoadSample \/ CrcMismatch
        <5>1. UNCHANGED wire /\ stage \in Filling
          BY <4>4 DEF LoadSample, CrcMismatch, Filling
        <5>2. ASSUME NEW value, Advance(value)
              PROVE  /\ seed_packet'.actual_packet_nr = seed_packet.actual_packet_nr
                     /\ seed_packet'.total_packet_nr = seed_packet.total_packet_nr
          BY <4>1, <5>2 DEF Advance, Packets
        <5>3. QED
          BY <4>4, <5>1, <5>2 DEF LoadSample, CrcMismatch
      <4>5. CASE StartLoading \/ PublishFails \/ UploadEnds
        BY <4>5 DEF StartLoading, PublishFails, UploadEnds, Filling
      <4>6. QED
        BY <2>4, <4>2, <4>3, <4>4, <4>5
    <3>2. Spoiling' => Spoiling
      BY <2>2, <3>1 DEF Spoiling, Spoiled
    <3>3. QED
      BY <1>1, <2>1, <2>2, <3>1, <3>2, SpoiledByPress
  <2>5. CASE PublishPacket
    <3>1. PICK n, w : n \in Nat /\ n = Len(wire) /\ w = wire'
      BY <1>1
    <3>2. /\ stage \in Filling /\ stage' \notin Filling
          /\ wire' = Append(wire, seed_packet)
      BY <2>5 DEF PublishPacket, data_publish, Filling
    <3>3. /\ Len(w) = n + 1 /\ w[n + 1] = seed_packet
          /\ \A k \in 1 .. n : w[k] = wire[k]
      BY <3>1, <3>2, PacketMore
    <3> DEFINE fresh == IF Spoiled(seed_packet, n + 1) THEN {n + 1} ELSE {}
    <3>4. SpoiledOnWire' = SpoiledOnWire \cup fresh
      <4>1. SpoiledOnWire' = {k \in 1 .. n + 1 : Spoiled(w[k], k)}
        BY <2>2, <3>1, <3>3 DEF SpoiledOnWire, Spoiled
      <4>2. 1 .. n + 1 = (1 .. n) \cup {n + 1}
        BY <3>1
      <4>3. \A k \in 1 .. n : Spoiled(w[k], k) <=> Spoiled(wire[k], k)
        BY <3>3
      <4>4. Spoiled(w[n + 1], n + 1) <=> Spoiled(seed_packet, n + 1)
        BY <3>3
      <4>5. SpoiledOnWire = {k \in 1 .. n : Spoiled(wire[k], k)}
        BY <3>1 DEF SpoiledOnWire
      <4>6. QED
        BY <4>1, <4>2, <4>3, <4>4, <4>5
    <3>5. n + 1 \notin SpoiledOnWire
      BY <3>1 DEF SpoiledOnWire
    <3>6. Cardinality(SpoiledOnWire') =
            Cardinality(SpoiledOnWire) + (IF Spoiling THEN 1 ELSE 0)
      <4>1. PICK S, T : S = SpoiledOnWire /\ T = SpoiledOnWire'
        OBVIOUS
      <4>2. IsFiniteSet(S) /\ Cardinality(S) \in Nat /\ n + 1 \notin S /\ T = S \cup fresh
        BY <3>4, <3>5, <4>1, SpoiledFinite
      <4>3. Spoiling <=> Spoiled(seed_packet, n + 1)
        BY <3>1, <3>2 DEF Spoiling
      <4>4. CASE Spoiling
        <5>1. T = S \cup {n + 1}
          BY <4>2, <4>3, <4>4
        <5>2. Cardinality(S \cup {n + 1}) = Cardinality(S) + 1
          BY <4>2, FS_AddElement
        <5>3. QED
          BY <4>1, <4>4, <5>1, <5>2
      <4>5. CASE ~Spoiling
        <5>1. T = S
          BY <4>2, <4>3, <4>5
        <5>2. SpoiledOnWire' = SpoiledOnWire
          BY <4>1, <5>1
        <5>3. Cardinality(SpoiledOnWire) + 0 = Cardinality(SpoiledOnWire)
          BY SpoiledFinite
        <5>4. QED
          BY <4>5, <5>2, <5>3
      <4>6. QED
        BY <4>4, <4>5
    <3>7. Cardinality(SpoiledOnWire') <= presses' /\ Cardinality(SpoiledOnWire') \in Nat
      BY <2>1, <3>6, SpoiledFinite DEF PressInv, SpoiledOnWire, Spoiling
    <3>8. ~Spoiling'
      BY <3>2 DEF Spoiling
    <3>9. PressInv' <=> Cardinality(SpoiledOnWire') + (IF Spoiling' THEN 1 ELSE 0) <= presses'
      BY DEF PressInv, SpoiledOnWire, Spoiling
    <3>10. QED
      BY <3>7, <3>8, <3>9
  <2>6. QED
    BY <1>5, <2>3, <2>4, <2>5 DEF UploadStep, UploadBegin
<1>6. QED
  BY <1>2, <1>3, <1>4, <1>5 DEF UploadNext

(* One press spoils the numbers of at most one packet of the record, when  *)
(* ever it comes and however many come.                                    *)
THEOREM PressesContained == UploadSpec => []PressSpoilsOne
<1>1. UploadInit => PressInv
  BY NothingSpoiled DEF UploadInit, Filling
<1>2. UploadInv /\ UploadInv' /\ PressInv /\ [UploadNext]_allVars => PressInv'
  BY PressInvStep
<1>3. UploadInv /\ PressInv => PressSpoilsOne
  <2> SUFFICES ASSUME UploadInv, PressInv PROVE PressSpoilsOne
    OBVIOUS
  <2>1. Cardinality(SpoiledOnWire) + (IF Spoiling THEN 1 ELSE 0) <= presses
    BY DEF PressInv, SpoiledOnWire, Spoiling
  <2>2. Cardinality(SpoiledOnWire) \in Nat /\ presses \in Nat
    BY SpoiledFinite DEF UploadInv, UploadTypeOK
  <2>3. QED
    BY <2>1, <2>2 DEF PressSpoilsOne, SpoiledOnWire
<1>4. QED
  BY <1>1, <1>2, <1>3, UploadInvariant, PTL DEF UploadSpec

=============================================================================

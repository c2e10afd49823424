------------------------------ MODULE SignalPath ------------------------------
(***************************************************************************)
(* From the ADC to the trigger (mqtt_working/src/main.c): the mean of the  *)
(* last BUFFER_LENGTH samples, the offset an exponential filter finds in   *)
(* it before the unit waits for a train, and the effective value of the    *)
(* last RMS_BUFFER_SIZE differences, kept up by a running sum of squares.  *)
(* TrainRecorder leaves open which samples are loud and which are quiet;   *)
(* here this is computed.  All four channels go the same way: one is kept. *)
(***************************************************************************)
EXTENDS Integers, Sequences, Sums

CONSTANTS
  BUFFER_LENGTH, RMS_BUFFER_SIZE, ALPHA_NUM, ALPHA_DEN,
  FilterStart,          \* where the filter starts, 5200 in the code
  OffsetGatherCnt,      \* samples the offset is taken from, 5000 in the code
  Inputs,               \* what the ADC may give
  MaxWaiting            \* bound: samples after the offset

(* What the ADC gives: 14 bits, differential.                              *)
Converted == -8192 .. 8191

ASSUME SignalAssumption ==
  /\ {BUFFER_LENGTH, RMS_BUFFER_SIZE, ALPHA_NUM, OffsetGatherCnt} \subseteq Nat \ {0}
  /\ ALPHA_DEN \in Nat /\ ALPHA_NUM < ALPHA_DEN
  /\ Inputs \subseteq Converted /\ FilterStart \in Converted
  /\ MaxWaiting \in Nat

VARIABLES
  buffer, index,       \* the last inputs and where the next one goes
  filtered,            \* filtered_value_array
  gathered,            \* samples the filter has seen
  offset,
  buffer_rms, indexx, sum_squares,
  rms_value,
  inputs, means        \* history: all inputs; their means less the offset

lineVars   == <<buffer, index>>
offsetVars == <<filtered, gathered, offset>>
rmsVars    == <<buffer_rms, indexx, sum_squares, rms_value>>
signalVars == <<lineVars, offsetVars, rmsVars, inputs, means>>

-----------------------------------------------------------------------------
(* The division of C: toward zero.                                         *)
Quotient(a, b) == IF a >= 0 THEN a \div b ELSE -((-a) \div b)

(* The whole part of a square root.                                        *)
Root(n) == CHOOSE r \in 0 .. n : r * r <= n /\ n < (r + 1) * (r + 1)

add_samples_to_buffer(v) ==
  /\ buffer' = [buffer EXCEPT ![index] = v]
  /\ index' = (index + 1) % BUFFER_LENGTH

average_of_vectors(array) == Quotient(Total(array, BUFFER_LENGTH), BUFFER_LENGTH)

(* Mutant: the weights add up to less than one.                            *)
exponential_filter_light(previous, new) ==
  Quotient(ALPHA_NUM * new + (ALPHA_DEN - ALPHA_NUM - 1) * previous, ALPHA_DEN)

exponential_filter(previous, new) ==
  Quotient(ALPHA_NUM * new + (ALPHA_DEN - ALPHA_NUM) * previous, ALPHA_DEN)

(* Mutant: what leaves the window stays in the sum.                        *)
OldestForgotten(buf, at) == 0

Oldest(buf, at) == buf[at]

update_rms(v) ==
  /\ sum_squares' = sum_squares - Oldest(buffer_rms, indexx) * Oldest(buffer_rms, indexx) + v * v
  /\ buffer_rms' = [buffer_rms EXCEPT ![indexx] = v]
  /\ indexx' = (indexx + 1) % RMS_BUFFER_SIZE
  /\ rms_value' = Root(Quotient(sum_squares', RMS_BUFFER_SIZE))

-----------------------------------------------------------------------------
(* Offset gathering; the last sample sets the offset.                      *)
GatherOffset(v) ==
  /\ gathered < OffsetGatherCnt
  /\ add_samples_to_buffer(v)
  /\ gathered' = gathered + 1
  /\ LET f == exponential_filter(filtered, average_of_vectors(buffer'))
         last == gathered' = OffsetGatherCnt
     IN  /\ filtered' = IF last THEN 0 ELSE f
         /\ offset' = IF last THEN f ELSE offset
  /\ inputs' = Append(inputs, v)
  /\ UNCHANGED <<rmsVars, means>>

(* Trigger waiting and recording take a sample in the same way.            *)
Measure(v) ==
  /\ gathered = OffsetGatherCnt
  /\ Len(inputs) < OffsetGatherCnt + MaxWaiting
  /\ add_samples_to_buffer(v)
  /\ LET new_sample == average_of_vectors(buffer') - offset
     IN  update_rms(new_sample) /\ means' = Append(means, new_sample)
  /\ inputs' = Append(inputs, v)
  /\ UNCHANGED offsetVars

SignalInit ==
  /\ buffer = [k \in 0 .. BUFFER_LENGTH - 1 |-> 0] /\ index = 0
  /\ filtered = FilterStart /\ gathered = 0 /\ offset = 0
  /\ buffer_rms = [k \in 0 .. RMS_BUFFER_SIZE - 1 |-> 0] /\ indexx = 0
  /\ sum_squares = 0 /\ rms_value = 0
  /\ inputs = <<>> /\ means = <<>>

SignalNext == \E v \in Inputs : GatherOffset(v) \/ Measure(v)

SignalSpec == SignalInit /\ [][SignalNext]_signalVars

-----------------------------------------------------------------------------
LastOf(s, n) == SubSeq(s, IF Len(s) < n THEN 1 ELSE Len(s) - n + 1, Len(s))
Squares(s) == Total([k \in 0 .. Len(s) - 1 |-> s[k + 1] * s[k + 1]], Len(s))

(* The effective value is that of the last RMS_BUFFER_SIZE differences, no *)
(* matter what came before: the running sum never drifts, is never         *)
(* negative under the root, and a loud train leaves no trace that would    *)
(* keep the next record from ending.                                       *)
WindowExact ==
  /\ sum_squares = Squares(LastOf(means, RMS_BUFFER_SIZE))
  /\ rms_value * rms_value * RMS_BUFFER_SIZE <= sum_squares
  /\ sum_squares < (rms_value + 1) * (rms_value + 1) * RMS_BUFFER_SIZE

(* A line without a train is quiet: it has been at one level while the     *)
(* offset was taken, however far from where the filter starts, and has     *)
(* come back to it, whatever ran over it before.  The filter leaves less   *)
(* than ALPHA_DEN / ALPHA_NUM of the level, 24 in the code: below the      *)
(* default threshold 35 that ends a record and the 55 that starts one.     *)
QuietLine ==
  \A v \in Inputs :
    /\ gathered = OffsetGatherCnt
    /\ \A k \in 1 .. OffsetGatherCnt : inputs[k] = v
    /\ Len(means) >= RMS_BUFFER_SIZE
    /\ LET tail == LastOf(inputs, RMS_BUFFER_SIZE + BUFFER_LENGTH - 1)
       IN  \A k \in DOMAIN tail : tail[k] = v
    => rms_value * ALPHA_NUM < ALPHA_DEN

=============================================================================

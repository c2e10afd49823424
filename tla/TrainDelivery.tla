---------------------------- MODULE TrainDelivery ----------------------------
(***************************************************************************)
(* What the LIS unit promises the receiver of a record: the samples from   *)
(* one window before the trigger to the end of the train come as a stream  *)
(* of chunks, contiguous and in order, with marks in the place of samples  *)
(* that could not be read; the stream is complete, or breaks off after a   *)
(* whole chunk and is not resumed.                                         *)
(***************************************************************************)
EXTENDS Integers, Sequences

CONSTANTS WAVE_SAMPLE_LEN, MEMCLR_LEN, Failed, Cleared

VARIABLES phase, trigger, last, stream

deliveryVars == <<phase, trigger, last, stream>>

Places == 0 .. WAVE_SAMPLE_LEN - 1

(* The number of the sample due at place i of the k-th chunk.              *)
Number(k, i) == trigger - WAVE_SAMPLE_LEN + 1 + (k - 1) * WAVE_SAMPLE_LEN + i

(* The last chunk is filled up with MEMCLR_LEN copies of the last sample;  *)
(* what comes after these is not defined.                                  *)
MayHold(k, i, value) ==
  LET n == Number(k, i)
  IN  \/ n <= 0 /\ value = Cleared
      \/ n \in 1 .. last /\ value = n
      \/ n \in last + 1 .. last + MEMCLR_LEN /\ value = last
      \/ n > last + MEMCLR_LEN
      \/ k > 1 /\ value = Failed

(* Chunks that hold the window and all the samples after the trigger.      *)
Chunks == (last - trigger) \div WAVE_SAMPLE_LEN + 2

Measuring ==
  /\ phase = "measuring"
  /\ trigger' \in Nat
  /\ last' \in Nat
  /\ UNCHANGED <<phase, stream>>

Begin ==
  /\ phase = "measuring"
  /\ trigger > 0
  /\ last > trigger
  /\ phase' = "sending"
  /\ UNCHANGED <<trigger, last, stream>>

SendChunk ==
  /\ phase = "sending"
  /\ Len(stream) < Chunks
  /\ Len(stream') = Len(stream) + 1
  /\ LET k     == Len(stream')
         chunk == stream'[k]
     IN  /\ stream' = Append(stream, chunk)
         /\ \A i \in Places : MayHold(k, i, chunk[i])
  /\ UNCHANGED <<phase, trigger, last>>

Complete ==
  /\ phase = "sending"
  /\ Len(stream) = Chunks
  /\ phase' = "complete"
  /\ UNCHANGED <<trigger, last, stream>>

Abandon ==
  /\ phase = "sending"
  /\ Len(stream) < Chunks
  /\ phase' = "abandoned"
  /\ UNCHANGED <<trigger, last, stream>>

DeliveryInit ==
  /\ phase = "measuring"
  /\ trigger = 0
  /\ last = 0
  /\ stream = <<>>

DeliveryNext == Measuring \/ Begin \/ SendChunk \/ Complete \/ Abandon

(* The promise without its end: what a step may do.                        *)
DeliverySafety == DeliveryInit /\ [][DeliveryNext]_deliveryVars

(* A stream that began comes to its end.                                   *)
DeliverySpec == DeliverySafety /\ ((phase = "sending") ~> (phase \in {"complete", "abandoned"}))

=============================================================================

----------------------------- MODULE TrainUpload -----------------------------
(***************************************************************************)
(* A record goes to the broker (mqtt_working/src/main.c): first a packet   *)
(* with the window of the circular buffer, then packets of                 *)
(* WAVE_SAMPLE_LEN samples read back from the PSRAM, each sample checked   *)
(* by its CRC, read again while the CRC does not match and given up for a  *)
(* mark when too many reads have failed.  The button handler runs on the   *)
(* system work queue, whose thread preempts main, and fills and sends the  *)
(* same seed_packet.                                                       *)
(*                                                                         *)
(* A read of a cell either delivers what was written or fails its CRC; a   *)
(* damaged cell whose CRC matches by accident is left out.                 *)
(***************************************************************************)
EXTENDS TrainRecorder, Sequences, FiniteSets

CONSTANTS
  CRC_ERR_LIMIT,  \* mismatches that must be exceeded to give a sample up
  MaxPress        \* bound: presses of button 1

ASSUME UploadAssumption == CRC_ERR_LIMIT \in Nat /\ MaxPress \in Nat

VARIABLES
  stage,                \* where main is in the upload
  pckt_cnt,
  total_packet_to_send,
  samples_to_load_cntr,
  flash_address_read,
  crc_err_counter,
  flash_sample_fail_counter,
  train_counter,
  seed_packet,          \* the packet under construction
  wire,                 \* packets main handed to the MQTT client
  button,               \* where the button handler is
  presses

reading    == <<samples_to_load_cntr, flash_address_read, crc_err_counter,
                flash_sample_fail_counter>>
packets    == <<pckt_cnt, total_packet_to_send>>
buttonVars == <<button, presses>>
uploadVars == <<stage, packets, reading, train_counter, seed_packet, wire, buttonVars>>
allVars    == <<recorderVars, uploadVars>>

(* The recorder's variables but the two the upload writes.                 *)
measured == <<pc, ADC_SAMPLE_FLAG, timer_enabled, sampling, circ_buff, buff_head,
              last_circ_buff_record, record, res, history>>

(* The mark of a sample that was given up, -32760; saturate_channel_values *)
(* keeps every measured value above it.                                    *)
Failed == -3

Magic == 43981  \* 0xABCD, what the header writes to the CRC field

(* Mutant: the packet of the circular buffer is not counted.               *)
PacketsForPsram(samples, overflow) == samples \div WAVE_SAMPLE_LEN

(* Packets a record of samples samples fills, one more when the circular   *)
(* buffer makes a packet of its own.                                       *)
PacketsFor(samples, overflow) ==
  samples \div WAVE_SAMPLE_LEN + (IF overflow = 1 THEN 1 ELSE 0)

-----------------------------------------------------------------------------
(* The upload session finds the record: the flag is cleared first of all.  *)
UploadBegin ==
  /\ pc = "ready"
  /\ stage = "idle"
  /\ data_ready_to_send = 1
  /\ data_ready_to_send' = 0
  /\ crc_err_counter' = 0
  /\ flash_sample_fail_counter' = 0
  /\ pckt_cnt' = 1
  /\ total_packet_to_send' = PacketsFor(total_recorded_samples, circ_buff_overflow)
  /\ flash_address_read' = 0
  /\ samples_to_load_cntr' = 0
  /\ stage' = "header"
  /\ UNCHANGED <<measured, circ_buff_overflow, train_counter, seed_packet, wire,
                 buttonVars>>

(* The header is written field by field; the button handler may come       *)
(* before, after, or between the numbers and the rest.                     *)
HeaderNumbers ==
  /\ stage = "header"
  /\ pckt_cnt <= total_packet_to_send
  /\ seed_packet' = [seed_packet EXCEPT !.actual_packet_nr = pckt_cnt,
                                        !.total_packet_nr = total_packet_to_send]
  /\ pckt_cnt' = pckt_cnt + 1
  /\ stage' = "header_rest"
  /\ UNCHANGED <<recorderVars, total_packet_to_send, reading, train_counter, wire,
                 buttonVars>>

HeaderRest ==
  /\ stage = "header_rest"
  /\ seed_packet' = [seed_packet EXCEPT !.timestamp = "record",
                                        !.train_counter = train_counter,
                                        !.CRC = Magic]
  /\ stage' = "fill"
  /\ UNCHANGED <<recorderVars, packets, reading, train_counter, wire, buttonVars>>

(* Mutant: the circular buffer is sent from its first slot.                *)
FromCircularUnrotated == [i \in Slots |-> circ_buff[i]]

(* The circular buffer from the slot after the newest value, around.       *)
FromCircular == [i \in Slots |-> circ_buff[CircIndex(last_circ_buff_record, i)]]

(* The first packet is the circular buffer; its overflow mark is cleared,  *)
(* so that the packets after it come from the PSRAM.                       *)
FillFromCircular ==
  /\ stage = "fill"
  /\ circ_buff_overflow = 1
  /\ circ_buff_overflow' = 0
  /\ seed_packet' = [seed_packet EXCEPT !.data = FromCircular]
  /\ stage' = "publish"
  /\ UNCHANGED <<measured, data_ready_to_send, packets, reading, train_counter, wire,
                 buttonVars>>

(* Mutant: the count of given-up samples starts anew with each packet.     *)
StartLoadingRestarts ==
  /\ stage = "fill"
  /\ circ_buff_overflow = 0
  /\ samples_to_load_cntr' = 0
  /\ flash_sample_fail_counter' = 0
  /\ stage' = "load"
  /\ UNCHANGED <<recorderVars, packets, flash_address_read, crc_err_counter,
                 train_counter, seed_packet, wire, buttonVars>>

(* From the second packet on, the samples come from the PSRAM.             *)
StartLoading ==
  /\ stage = "fill"
  /\ circ_buff_overflow = 0
  /\ samples_to_load_cntr' = 0
  /\ stage' = "load"
  /\ UNCHANGED <<recorderVars, packets, flash_address_read, crc_err_counter,
                 flash_sample_fail_counter, train_counter, seed_packet, wire, buttonVars>>

(* Slot and cell advance together, whether the sample was read or not.     *)
Advance(value) ==
  /\ seed_packet' = [seed_packet EXCEPT !.data[samples_to_load_cntr] = value]
  /\ samples_to_load_cntr' = samples_to_load_cntr + 1
  /\ flash_address_read' = flash_address_read + 1
  /\ stage' = IF samples_to_load_cntr' = WAVE_SAMPLE_LEN THEN "publish" ELSE "load"

(* What the PSRAM answers: the cell, which may have lost its CRC.          *)
FLASH_MEMORY_READ_DATA(address) == psram[address]

(* The CRC read with the sample matches it.                                *)
LoadSample ==
  /\ stage = "load"
  /\ FLASH_MEMORY_READ_DATA(flash_address_read) # Garbage
  /\ Advance(FLASH_MEMORY_READ_DATA(flash_address_read))
  /\ UNCHANGED <<recorderVars, packets, crc_err_counter, flash_sample_fail_counter,
                 train_counter, wire, buttonVars>>

(* More mismatches than the limit, and the sample is marked.               *)
GivenUp(errors) == errors > CRC_ERR_LIMIT

(* The CRC does not match: the sample is read again, or given up when the  *)
(* mismatches counted since the last one given up exceed the limit.  A     *)
(* good read does not restart the count.                                   *)
CrcMismatch ==
  /\ stage = "load"
  /\ IF GivenUp(crc_err_counter + 1)
     THEN /\ crc_err_counter' = 0
          /\ flash_sample_fail_counter' = flash_sample_fail_counter + 1
          /\ Advance(Failed)
     ELSE /\ crc_err_counter' = crc_err_counter + 1
          /\ UNCHANGED <<flash_sample_fail_counter, seed_packet, samples_to_load_cntr,
                         flash_address_read, stage>>
  /\ UNCHANGED <<recorderVars, packets, train_counter, wire, buttonVars>>

data_publish(packet) == wire' = Append(wire, packet)

(* The packet goes to the client; an error ends the upload there, and the  *)
(* record is not offered again.  The count of given-up samples is written  *)
(* to the CRC field only after the packet has gone.                        *)
PublishPacket ==
  /\ stage = "publish"
  /\ data_publish(seed_packet)
  /\ seed_packet' = [seed_packet EXCEPT !.CRC = flash_sample_fail_counter]
  /\ stage' = "header"
  /\ UNCHANGED <<recorderVars, packets, reading, train_counter, buttonVars>>

PublishFails ==
  /\ stage = "publish"
  /\ stage' = "failed"
  /\ UNCHANGED <<recorderVars, packets, reading, train_counter, seed_packet, wire,
                 buttonVars>>

UploadEnds ==
  /\ stage = "header"
  /\ pckt_cnt > total_packet_to_send
  /\ train_counter' = train_counter + 1
  /\ stage' = "done"
  /\ UNCHANGED <<recorderVars, packets, reading, seed_packet, wire, buttonVars>>

-----------------------------------------------------------------------------
(* button_handler: the header is overwritten, and the packet published     *)
(* after a sleep in which main goes on.  The increment of train_counter is *)
(* taken as one step: main's own comes after its last header.              *)
ButtonFills ==
  /\ button = "idle"
  /\ presses < MaxPress
  /\ presses' = presses + 1
  /\ seed_packet' = [seed_packet EXCEPT !.actual_packet_nr = 1,
                                        !.total_packet_nr = 1,
                                        !.timestamp = "fixed",
                                        !.train_counter = train_counter,
                                        !.CRC = Magic]
  /\ train_counter' = train_counter + 1
  /\ button' = "publish"
  /\ UNCHANGED <<recorderVars, stage, packets, reading, wire>>

(* The handler's own packet and what the client says to it are left out:   *)
(* they change nothing more here.                                          *)
ButtonPublishes ==
  /\ button = "publish"
  /\ button' = "idle"
  /\ UNCHANGED <<recorderVars, stage, packets, reading, train_counter, seed_packet, wire,
                 presses>>

-----------------------------------------------------------------------------
UploadInit ==
  /\ RecorderInit
  /\ stage = "idle"
  /\ pckt_cnt = 1
  /\ total_packet_to_send = 0
  /\ samples_to_load_cntr = 0
  /\ flash_address_read = 0
  /\ crc_err_counter = 0
  /\ flash_sample_fail_counter = 0
  /\ train_counter = 0
  /\ seed_packet = [actual_packet_nr |-> 0, total_packet_nr |-> 0, timestamp |-> "none",
                    train_counter |-> 0, CRC |-> 0, data |-> [i \in Slots |-> Cleared]]
  /\ wire = <<>>
  /\ button = "idle"
  /\ presses = 0

UploadStep ==
  \/ UploadBegin
  \/ HeaderNumbers
  \/ HeaderRest
  \/ FillFromCircular
  \/ StartLoading
  \/ LoadSample
  \/ CrcMismatch
  \/ PublishPacket
  \/ PublishFails
  \/ UploadEnds

ButtonStep == ButtonFills \/ ButtonPublishes

Measure == RecorderNext /\ UNCHANGED uploadVars

UploadNext == Measure \/ UploadStep \/ ButtonStep

(* Main runs whenever the button handler lets it: it is weakly fair, and   *)
(* nothing is assumed of the CRC, of the client, or of the button.         *)
UploadSpec ==
  /\ UploadInit
  /\ [][UploadNext]_allVars
  /\ WF_allVars(UploadStep)

-----------------------------------------------------------------------------
(* The number of packets of the record, whatever circ_buff_overflow is by  *)
(* now: the window and the packets of the PSRAM.                           *)
PacketsDue == Recorded \div WAVE_SAMPLE_LEN + 2

(* Slots of a packet, among its first n, that carry the mark.              *)
Marks(packet, n) == Cardinality({i \in Slots : i < n /\ packet.data[i] = Failed})

(* Marks in the packets of the wire, summed over packets and slots.        *)
MarksSent ==
  Cardinality({p \in (1 .. Len(wire)) \X Slots : wire[p[1]].data[p[2]] = Failed})

(* Marks in the packet under construction.                                 *)
MarksFilled ==
  CASE stage = "load"                  -> Marks(seed_packet, samples_to_load_cntr)
    [] stage \in {"publish", "failed"} -> Marks(seed_packet, WAVE_SAMPLE_LEN)
    [] OTHER                           -> 0

(* The counter of given-up samples is the number of marks in what was sent *)
(* and in the packet being filled: no sample is marked and not counted, or *)
(* counted and overwritten.                                                *)
FailuresCounted == flash_sample_fail_counter = MarksSent + MarksFilled

(* A packet of the record without its place in it or without the number of *)
(* its packets.                                                            *)
Spoiled(packet, k) == packet.actual_packet_nr # k \/ packet.total_packet_nr # PacketsDue

(* One press of the button spoils the numbers of at most one packet of the *)
(* record, wherever it preempts main; all the others carry their own place *)
(* in the record and the number of its packets.                            *)
PressSpoilsOne == Cardinality({k \in 1 .. Len(wire) : Spoiled(wire[k], k)}) <= presses

(* A comment at the last assignment of the loop calls the CRC field the    *)
(* information about the failed reads, so a record some of whose samples   *)
(* were given up has a packet that says so.                                *)
FailuresReported ==
  stage = "done" /\ flash_sample_fail_counter > 0
    => \E k \in 1 .. Len(wire) : wire[k].CRC = flash_sample_fail_counter

(* What the receiver is promised, see TrainDelivery.                       *)
Delivery == INSTANCE TrainDelivery WITH
  phase   <- CASE stage = "idle"   -> "measuring"
               [] stage = "done"   -> "complete"
               [] stage = "failed" -> "abandoned"
               [] OTHER            -> "sending",
  trigger <- trig,
  last    <- sample,
  stream  <- [k \in DOMAIN wire |-> wire[k].data]

(* The upload delivers the record as promised: every chunk in its turn,    *)
(* every slot the sample due there or the mark, and an end.                *)
DeliversRecord == Delivery!DeliverySpec

=============================================================================

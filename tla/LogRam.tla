-------------------------------- MODULE LogRam --------------------------------
(***************************************************************************)
(* The log of the LIS unit in retained RAM (mqtt_working/src:              *)
(* log_ram_backend.c, and LDM in main.c): the log thread puts a time stamp *)
(* and the text of each message into a ring buffer that a warm reset does  *)
(* not clear; main empties the ring in chunks and publishes them.  Main    *)
(* has the higher priority and comes between any two puts.                 *)
(*                                                                         *)
(* A byte of the log is the number of its production.  The ring buffer is  *)
(* Zephyr's: a first-in first-out store that takes what fits.              *)
(***************************************************************************)
EXTENDS Integers, Sequences

CONSTANTS
  LOG_RAM_BUFFER_SIZE,
  LOG_MANIPULATION_BUFF_LEN,
  STAMP_LEN, TEXT_LEN,  \* bytes of the time stamp and of the text of a message
  OUTPUT_LEN,           \* size of log_output_buf: the text comes in such pieces
  MaxLogs, MaxResets    \* bounds: messages of the other threads, resets

ASSUME LogAssumption ==
  /\ {LOG_RAM_BUFFER_SIZE, LOG_MANIPULATION_BUFF_LEN, STAMP_LEN, TEXT_LEN, OUTPUT_LEN}
       \subseteq Nat \ {0}
  /\ MaxLogs \in Nat /\ MaxResets \in Nat

VARIABLES
  magic,         \* log_ram_ret.magic is LOG_RAM_MAGIC
  rb,            \* the bytes in log_ram_ret.rb
  queued,        \* messages that wait for the log thread
  logger,        \* where the log thread is
  left,          \* bytes of the text not yet taken by ram_output_func
  main,          \* where main is
  buf, len,      \* the chunk main has read
  logs, resets,  \* messages and resets so far
  made,          \* history: bytes produced
  accepted,      \* history: bytes the ring took since it was initialised
  wire,          \* history: bytes published since then, up to a chunk lost
  disturbed,     \* history: a chunk was lost, by the client or by a reset
  due            \* history: bytes a running dump may still have to send

writer  == <<queued, logger, left>>
dump    == <<main, buf, len>>
counts  == <<logs, resets>>
ringVars == <<rb, made, accepted>>
logVars == <<magic, ringVars, writer, dump, counts, wire, disturbed, due>>

Places == 1 .. LOG_MANIPULATION_BUFF_LEN
Empty  == [i \in Places |-> 0]
Lesser(a, b) == IF a < b THEN a ELSE b

Dumping == main \in {"read", "publish"}

-----------------------------------------------------------------------------
(* ring_buf_put: the bytes that fit, from the first on.                    *)
Fits(n) == Lesser(n, LOG_RAM_BUFFER_SIZE - Len(rb))

(* The bytes offered count as produced when the caller has done with them. *)
Put(n, done) ==
  LET bytes == [i \in 1 .. Fits(n) |-> made + i]
  IN  /\ rb' = rb \o bytes
      /\ accepted' = accepted \o bytes
      /\ made' = made + done

(* Any thread but a dumping main logs a message.                           *)
Log ==
  /\ logs < MaxLogs
  /\ logs' = logs + 1
  /\ queued' = queued + 1
  /\ due' = IF Dumping THEN due + STAMP_LEN + TEXT_LEN ELSE due
  /\ UNCHANGED <<magic, ringVars, logger, left, dump, resets, wire, disturbed>>

(* log_ram_process: the stamp first.                                       *)
PutStamp ==
  /\ logger = "idle" /\ main # "init"
  /\ queued > 0
  /\ queued' = queued - 1
  /\ Put(STAMP_LEN, STAMP_LEN)
  /\ left' = TEXT_LEN
  /\ logger' = "text"
  /\ UNCHANGED <<magic, dump, counts, wire, disturbed, due>>

(* Mutant: the output function tells how much the ring took.               *)
TakenOfFit(n) == Fits(n)

(* What ram_output_func tells it took of n bytes: all, also those that did *)
(* not fit, for the caller offers the rest again until none is left.       *)
Taken(n) == n

(* log_output_msg_process, one call of ram_output_func.                    *)
PutText ==
  /\ logger = "text" /\ left > 0
  /\ LET n == Lesser(left, OUTPUT_LEN)
     IN  Put(n, Taken(n)) /\ left' = left - Taken(n)
  /\ UNCHANGED <<magic, queued, logger, dump, counts, wire, disturbed, due>>

MessageDone ==
  /\ logger = "text" /\ left = 0
  /\ logger' = "idle"
  /\ UNCHANGED <<magic, ringVars, queued, left, dump, counts, wire, disturbed, due>>

-----------------------------------------------------------------------------
(* LDM: main begins to empty the ring.                                     *)
StartDump ==
  /\ main = "other"
  /\ main' = "read"
  /\ due' = Len(rb) + left + queued * (STAMP_LEN + TEXT_LEN)
  /\ UNCHANGED <<magic, ringVars, writer, buf, len, counts, wire, disturbed>>

(* log_ram_read: up to a buffer full; the rest of the buffer stays.        *)
ReadChunk ==
  /\ main = "read"
  /\ len' = Lesser(Len(rb), LOG_MANIPULATION_BUFF_LEN)
  /\ buf' = [i \in Places |-> IF i <= len' THEN rb[i] ELSE buf[i]]
  /\ rb' = SubSeq(rb, len' + 1, Len(rb))
  /\ main' = IF len' > 0 THEN "publish" ELSE "other"
  /\ due' = IF len' > 0 THEN due ELSE 0
  /\ UNCHANGED <<magic, made, accepted, writer, counts, wire, disturbed>>

(* Mutant: the publishing of a chunk is logged like other publishing.      *)
LogsOfPublishOne == 1

(* Messages sys_log_data_publish logs: it prints to the console instead,   *)
(* which is not part of the log (CONFIG_LOG_PRINTK=n).                     *)
LogsOfPublish == 0

(* The whole buffer is published, whatever was read; the result is ignored.*)
PublishChunk(sent) ==
  /\ main = "publish"
  /\ disturbed' = (disturbed \/ ~sent)
  /\ wire' = IF disturbed' THEN wire ELSE wire \o buf
  /\ queued' = queued + LogsOfPublish
  /\ due' = due - len
  /\ main' = "read"
  /\ UNCHANGED <<magic, ringVars, logger, left, buf, len, counts>>

-----------------------------------------------------------------------------
(* A reset: warm, or with a loss of power that leaves anything in the RAM. *)
Reset(power) ==
  /\ resets < MaxResets
  /\ resets' = resets + 1
  /\ main' = "init"
  /\ IF power THEN magic' = FALSE /\ rb' \in {<<>>, <<0>>} ELSE UNCHANGED <<magic, rb>>
  /\ queued' = 0 /\ logger' = "idle" /\ left' = 0
  /\ buf' = Empty /\ len' = 0
  /\ disturbed' = (disturbed \/ main = "publish")
  /\ due' = 0
  /\ UNCHANGED <<made, accepted, logs, wire>>

(* Mutant: the ring is initialised on every start.                         *)
KeepsRingNever == FALSE

(* The test of log_ram_init that keeps the ring of the run before.         *)
KeepsRing == magic

log_ram_init ==
  /\ main = "init"
  /\ main' = "other"
  /\ magic' = TRUE
  /\ IF KeepsRing THEN UNCHANGED rb ELSE rb' = <<>>
  /\ IF magic THEN UNCHANGED <<accepted, wire, disturbed>>
              ELSE accepted' = <<>> /\ wire' = <<>> /\ disturbed' = FALSE
  /\ UNCHANGED <<made, writer, buf, len, counts, due>>

LogInit ==
  /\ magic = FALSE /\ rb = <<>>
  /\ queued = 0 /\ logger = "idle" /\ left = 0
  /\ main = "init" /\ buf = Empty /\ len = 0
  /\ logs = 0 /\ resets = 0
  /\ made = 0 /\ accepted = <<>> /\ wire = <<>> /\ disturbed = FALSE /\ due = 0

Writer == PutStamp \/ PutText \/ MessageDone

LogNext ==
  \/ Log \/ Writer
  \/ StartDump \/ ReadChunk \/ \E sent \in BOOLEAN : PublishChunk(sent)
  \/ \E power \in BOOLEAN : Reset(power)
  \/ log_ram_init

(* The log thread gets the processor sooner or later; nothing is assumed   *)
(* of main, which need not fetch the log.                                  *)
LogSpec == LogInit /\ [][LogNext]_logVars /\ WF_logVars(Writer)

-----------------------------------------------------------------------------
InHand == IF main = "publish" THEN SubSeq(buf, 1, len) ELSE <<>>

(* What the ring took and neither main nor the ring holds any more.        *)
Delivered == SubSeq(accepted, 1, Len(accepted) - Len(InHand) - Len(rb))

(* A byte arrives behind all the bytes before it.                          *)
BehindOthers(q) ==
  \E n \in DOMAIN Delivered :
    /\ wire[q] = Delivered[n]
    /\ \A m \in 1 .. n - 1 : \E p \in 1 .. q - 1 : wire[p] = Delivered[m]

(* The receiver gets the log as the ring took it, over any number of warm  *)
(* resets, dumps and messages that came in between, unless a chunk was     *)
(* lost: the chunk in hand and the ring are the end of what was accepted,  *)
(* and everything before has arrived in order.  A chunk that is not full   *)
(* ends with bytes of chunks before, or with zeros.                        *)
DumpFaithful ==
  magic /\ ~disturbed =>
    /\ accepted = Delivered \o InHand \o rb
    /\ \A n \in DOMAIN Delivered : \E q \in DOMAIN wire : wire[q] = Delivered[n]
    /\ \A q \in DOMAIN wire : wire[q] = 0 \/ BehindOthers(q)

(* A dump ends when everybody else is quiet: the chunks to come never      *)
(* carry more than the ring held at its begin and others logged since.     *)
DumpBounded == Dumping => Len(rb) + Len(InHand) <= due

(* The log thread gets done with a message, also when the ring is full and *)
(* nobody ever empties it.                                                 *)
LogThreadFinishes == (logger = "text") ~> (logger = "idle")

=============================================================================

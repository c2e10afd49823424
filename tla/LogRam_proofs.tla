---------------------------- MODULE LogRam_proofs ----------------------------
(***************************************************************************)
(* The retained log, for every size of the ring, of the chunks and of the  *)
(* messages, and any number of messages and resets.                        *)
(***************************************************************************)
EXTENDS LogRam, SequenceTheorems, TLAPS

LogTypes ==
  /\ magic \in BOOLEAN /\ disturbed \in BOOLEAN
  /\ rb \in Seq(Nat) /\ accepted \in Seq(Nat) /\ wire \in Seq(Nat)
  /\ buf \in [Places -> Nat] /\ len \in 0 .. LOG_MANIPULATION_BUFF_LEN
  /\ queued \in Nat /\ left \in Nat /\ made \in Nat /\ due \in Nat
  /\ main \in {"init", "other", "read", "publish"} /\ logger \in {"idle", "text"}
  /\ Len(rb) <= LOG_RAM_BUFFER_SIZE

Phases ==
  /\ ~magic => main = "init"
  /\ main = "init" => buf = Empty
  /\ main = "publish" => len > 0
  /\ logger = "idle" => left = 0

(* How many bytes main has in hand, and how many have left the unit.       *)
Hand == IF main = "publish" THEN len ELSE 0
Gone == Len(accepted) - Hand - Len(rb)

(* Where every byte accepted is: gone, in hand, or in the ring; and what   *)
(* stands behind the bytes in hand in the chunk has gone before.           *)
PlacesInv ==
  /\ Gone >= 0
  /\ \A i \in 1 .. Len(rb) : rb[i] = accepted[Gone + Hand + i]
  /\ \A i \in 1 .. Hand : buf[i] = accepted[Gone + i]
  /\ \A i \in Places : i > Hand => buf[i] = 0 \/ \E n \in 1 .. Gone : buf[i] = accepted[n]

(* The receiver's w[1 .. W] holds the first g of the bytes a, in order of  *)
(* their first arrival, and between them only zeros and bytes once more.   *)
Received(w, W, a, g) ==
  /\ \A n \in 1 .. g : \E q \in 1 .. W : w[q] = a[n]
  /\ \A q \in 1 .. W : w[q] = 0 \/ \E n \in 1 .. g :
        w[q] = a[n] /\ \A m \in 1 .. n - 1 : \E p \in 1 .. q - 1 : w[p] = a[m]

WireInv == Received(wire, Len(wire), accepted, Gone)

KeptInv == magic /\ ~disturbed => PlacesInv /\ WireInv

(* A running dump is owed the ring, the chunk in hand and what the log     *)
(* thread has still to put, and nothing else.                              *)
DueInv ==
  Dumping => Len(rb) + Hand + left + queued * (STAMP_LEN + TEXT_LEN) <= due

LogInv == LogTypes /\ Phases /\ KeptInv /\ DueInv

-----------------------------------------------------------------------------
(* What ring_buf_put does to the ring and to the history, wherever its n   *)
(* bytes come from.                                                        *)
LEMMA PutExtends ==
  ASSUME LogTypes, NEW n \in Nat, NEW done, Put(n, done)
  PROVE  /\ Fits(n) \in 0 .. n /\ Len(rb) + Fits(n) <= LOG_RAM_BUFFER_SIZE
         /\ rb' \in Seq(Nat) /\ Len(rb') = Len(rb) + Fits(n)
         /\ accepted' \in Seq(Nat) /\ Len(accepted') = Len(accepted) + Fits(n)
         /\ \A i \in 1 .. Len(rb) : rb'[i] = rb[i]
         /\ \A i \in 1 .. Len(accepted) : accepted'[i] = accepted[i]
         /\ \A i \in 1 .. Fits(n) : rb'[Len(rb) + i] = accepted'[Len(accepted) + i]
<1> DEFINE f == Fits(n)
           bytes == [i \in 1 .. f |-> made + i]
<1>1. f \in 0 .. n /\ Len(rb) + f <= LOG_RAM_BUFFER_SIZE
  BY LogAssumption DEF LogTypes, Fits, Lesser
<1> HIDE DEF f
<1>2. bytes \in Seq(Nat) /\ Len(bytes) = f
  BY <1>1 DEF LogTypes
<1>3. rb' = rb \o bytes /\ accepted' = accepted \o bytes
  BY DEF Put, f
<1> HIDE DEF bytes
<1>4. rb \in Seq(Nat) /\ accepted \in Seq(Nat)
  BY DEF LogTypes
<1>5. /\ rb' \in Seq(Nat) /\ Len(rb') = Len(rb) + f
      /\ \A i \in 1 .. Len(rb) + f : rb'[i] = IF i <= Len(rb) THEN rb[i] ELSE bytes[i - Len(rb)]
  BY <1>2, <1>3, <1>4, ConcatProperties
<1>6. /\ accepted' \in Seq(Nat) /\ Len(accepted') = Len(accepted) + f
      /\ \A i \in 1 .. Len(accepted) + f :
            accepted'[i] = IF i <= Len(accepted) THEN accepted[i] ELSE bytes[i - Len(accepted)]
  BY <1>2, <1>3, <1>4, ConcatProperties
<1>7. Len(rb) \in Nat /\ Len(accepted) \in Nat
  BY <1>4
<1>8. ASSUME NEW i \in 1 .. f PROVE rb'[Len(rb) + i] = accepted'[Len(accepted) + i]
  <2>1. rb'[Len(rb) + i] = bytes[Len(rb) + i - Len(rb)]
    BY <1>1, <1>5, <1>7
  <2>2. accepted'[Len(accepted) + i] = bytes[Len(accepted) + i - Len(accepted)]
    <3>1. Len(accepted) + i \in 1 .. Len(accepted) + f /\ ~(Len(accepted) + i <= Len(accepted))
      BY <1>1, <1>7
    <3>2. QED
      BY <3>1, <1>6
  <2>3. Len(rb) + i - Len(rb) = i /\ Len(accepted) + i - Len(accepted) = i
    BY <1>1, <1>7
  <2>4. QED
    BY <2>1, <2>2, <2>3
<1>9. /\ \A i \in 1 .. Len(rb) : rb'[i] = rb[i]
      /\ \A i \in 1 .. Len(accepted) : accepted'[i] = accepted[i]
  <2>1. /\ \A i \in 1 .. Len(rb) : i \in 1 .. Len(rb) + f /\ i <= Len(rb)
        /\ \A i \in 1 .. Len(accepted) : i \in 1 .. Len(accepted) + f /\ i <= Len(accepted)
    BY <1>1, <1>7
  <2>2. QED
    BY <2>1, <1>5, <1>6
<1>10. QED
  BY <1>1, <1>5, <1>6, <1>8, <1>9 DEF f

(* A put leaves everything where it is.                                    *)
LEMMA PutKeeps ==
  ASSUME LogInv, NEW n \in Nat, NEW done, Put(n, done),
         UNCHANGED <<magic, dump, wire, disturbed>>
  PROVE  KeptInv'
<1> SUFFICES ASSUME magic, ~disturbed PROVE PlacesInv' /\ WireInv'
  BY DEF KeptInv
<1> DEFINE f == Fits(n)
<1>1. /\ f \in 0 .. n /\ Len(rb') = Len(rb) + f /\ Len(accepted') = Len(accepted) + f
      /\ \A i \in 1 .. Len(rb) : rb'[i] = rb[i]
      /\ \A i \in 1 .. Len(accepted) : accepted'[i] = accepted[i]
      /\ \A i \in 1 .. f : rb'[Len(rb) + i] = accepted'[Len(accepted) + i]
  BY PutExtends DEF LogInv
<1> HIDE DEF f
<1>2. /\ Len(rb) \in Nat /\ Len(accepted) \in Nat /\ Hand \in Nat /\ Hand' = Hand
      /\ Gone \in Nat /\ Len(accepted) = Gone + Hand + Len(rb)
  BY DEF LogInv, LogTypes, KeptInv, PlacesInv, Hand, Gone, dump
<1>3. Gone' = Gone
  BY <1>1, <1>2 DEF Gone
<1>4. PlacesInv /\ WireInv /\ buf' = buf /\ wire' = wire
  BY DEF LogInv, KeptInv, dump
<1>5. \A i \in 1 .. Gone + Hand : accepted'[i] = accepted[i]
  <2>1. \A i \in 1 .. Gone + Hand : i \in 1 .. Len(accepted)
    BY <1>2
  <2>2. QED
    BY <2>1, <1>1
<1>6. ASSUME NEW i \in 1 .. Len(rb') PROVE rb'[i] = accepted'[Gone + Hand + i]
  <2>1. CASE i <= Len(rb)
    BY <2>1, <1>1, <1>2, <1>4 DEF PlacesInv
  <2>2. CASE i > Len(rb)
    <3>1. i - Len(rb) \in 1 .. f
      BY <2>2, <1>1, <1>2
    <3>2. rb'[Len(rb) + (i - Len(rb))] = accepted'[Len(accepted) + (i - Len(rb))]
      BY <3>1, <1>1
    <3>3. Len(rb) + (i - Len(rb)) = i /\ Len(accepted) + (i - Len(rb)) = Gone + Hand + i
      BY <1>1, <1>2
    <3>4. QED
      BY <3>2, <3>3
  <2>3. QED
    BY <2>1, <2>2, <1>1, <1>2
<1>7. PlacesInv'
  BY <1>2, <1>3, <1>4, <1>5, <1>6 DEF PlacesInv
<1>8. WireInv'
  <2>1. \A i \in 1 .. Gone : i \in 1 .. Gone + Hand
    BY <1>2
  <2>2. \A i \in 1 .. Gone : accepted'[i] = accepted[i]
    BY <2>1, <1>5
  <2>3. \A k \in 1 .. Gone : \A m \in 1 .. k - 1 : accepted'[m] = accepted[m]
    BY <2>2, <1>2
  <2>4. Received(wire, Len(wire), accepted', Gone)
    BY <2>2, <2>3, <1>4 DEF WireInv, Received
  <2>5. QED
    BY <2>4, <1>3, <1>4 DEF WireInv, Received
<1>9. QED
  BY <1>7, <1>8
-----------------------------------------------------------------------------
LEMMA PutStampStep == LogInv /\ PutStamp => LogInv'
<1> SUFFICES ASSUME LogInv, PutStamp PROVE LogInv'
  OBVIOUS
<1>1. STAMP_LEN \in Nat /\ TEXT_LEN \in Nat
  BY LogAssumption
<1>2. /\ Put(STAMP_LEN, STAMP_LEN)
      /\ UNCHANGED <<magic, dump, counts, wire, disturbed, due>>
      /\ logger = "idle" /\ queued > 0 /\ queued' = queued - 1
      /\ left' = TEXT_LEN /\ logger' = "text" /\ main # "init"
  BY DEF PutStamp
<1>3. KeptInv'
  BY <1>1, <1>2, PutKeeps
<1>4. /\ Fits(STAMP_LEN) \in 0 .. STAMP_LEN /\ Len(rb) + Fits(STAMP_LEN) <= LOG_RAM_BUFFER_SIZE
      /\ rb' \in Seq(Nat) /\ Len(rb') = Len(rb) + Fits(STAMP_LEN) /\ accepted' \in Seq(Nat)
  BY <1>1, <1>2, PutExtends DEF LogInv
<1>5. made' = made + STAMP_LEN
  BY <1>2 DEF Put
<1>6. LogTypes' /\ Phases'
  BY <1>1, <1>2, <1>4, <1>5 DEF LogInv, LogTypes, Phases, dump
<1>7. DueInv'
  <2> SUFFICES ASSUME Dumping PROVE Len(rb') + Hand + TEXT_LEN + queued' * (STAMP_LEN + TEXT_LEN) <= due
    BY <1>2 DEF DueInv, Dumping, Hand, dump
  <2>1. Len(rb) + Hand + left + queued * (STAMP_LEN + TEXT_LEN) <= due /\ left = 0
    BY <1>2 DEF LogInv, DueInv, Phases
  <2>2. queued * (STAMP_LEN + TEXT_LEN) = queued' * (STAMP_LEN + TEXT_LEN) + (STAMP_LEN + TEXT_LEN)
    <3>1. queued \in Nat /\ queued' \in Nat /\ queued = queued' + 1
      BY <1>2 DEF LogInv, LogTypes
    <3>2. \A q, k \in Nat : (q + 1) * k = q * k + k
      OBVIOUS
    <3>3. QED
      BY <1>1, <3>1, <3>2
  <2>3. /\ Len(rb) \in Nat /\ Hand \in Nat /\ due \in Nat
        /\ queued' * (STAMP_LEN + TEXT_LEN) \in Int
    BY <1>1, <1>2 DEF LogInv, LogTypes, Hand
  <2> DEFINE rest == queued' * (STAMP_LEN + TEXT_LEN)
  <2>4. Len(rb) + Hand + 0 + (rest + (STAMP_LEN + TEXT_LEN)) <= due /\ rest \in Int
    BY <2>1, <2>2, <2>3
  <2> HIDE DEF rest
  <2>5. \A r, h \in Nat, f \in 0 .. STAMP_LEN :
          r + h + 0 + (rest + (STAMP_LEN + TEXT_LEN)) <= due => r + f + h + TEXT_LEN + rest <= due
    BY <1>1, <2>3, <2>4
  <2>6. Len(rb) + Fits(STAMP_LEN) + Hand + TEXT_LEN + rest <= due
    BY <1>4, <2>3, <2>4, <2>5
  <2>7. QED
    BY <1>4, <2>6 DEF rest
<1>8. QED
  BY <1>3, <1>6, <1>7 DEF LogInv

LEMMA PutTextStep == LogInv /\ PutText => LogInv'
<1> SUFFICES ASSUME LogInv, PutText PROVE LogInv'
  OBVIOUS
<1> DEFINE n == Lesser(left, OUTPUT_LEN)
<1>1. n \in Nat /\ n <= left
  BY LogAssumption DEF LogInv, LogTypes, Lesser
<1>2. /\ Put(n, n) /\ left' = left - n
      /\ UNCHANGED <<magic, queued, logger, dump, counts, wire, disturbed, due>>
      /\ logger = "text"
  BY DEF PutText, Taken
<1> HIDE DEF n
<1>3. KeptInv'
  BY <1>1, <1>2, PutKeeps
<1>4. /\ Fits(n) \in 0 .. n /\ Len(rb) + Fits(n) <= LOG_RAM_BUFFER_SIZE
      /\ rb' \in Seq(Nat) /\ Len(rb') = Len(rb) + Fits(n) /\ accepted' \in Seq(Nat)
  BY <1>1, <1>2, PutExtends DEF LogInv
<1>5. made' = made + n
  BY <1>2 DEF Put
<1>6. LogTypes' /\ Phases'
  BY <1>1, <1>2, <1>4, <1>5 DEF LogInv, LogTypes, Phases, dump
<1>7. DueInv'
  <2> SUFFICES ASSUME Dumping PROVE Len(rb') + Hand + left' + queued * (STAMP_LEN + TEXT_LEN) <= due
    BY <1>2 DEF DueInv, Dumping, Hand, dump
  <2> DEFINE rest == queued * (STAMP_LEN + TEXT_LEN)
  <2>1. Len(rb) + Hand + left + rest <= due
    BY DEF LogInv, DueInv
  <2>2. Len(rb) \in Nat /\ Hand \in Nat /\ due \in Nat /\ left \in Nat /\ rest \in Int
    BY LogAssumption DEF LogInv, LogTypes, Hand
  <2> HIDE DEF rest
  <2>3. Len(rb') + Hand + left' + rest <= due
    BY <1>1, <1>2, <1>4, <2>1, <2>2
  <2>4. QED
    BY <2>3 DEF rest
<1>8. QED
  BY <1>3, <1>6, <1>7 DEF LogInv

(* The log thread is done with a message; another thread logs one; main    *)
(* begins a dump.                                                          *)
LEMMA BesideStep == LogInv /\ (MessageDone \/ Log \/ StartDump) => LogInv'
<1> SUFFICES ASSUME LogInv, MessageDone \/ Log \/ StartDump PROVE LogInv'
  OBVIOUS
<1>1. STAMP_LEN \in Nat /\ TEXT_LEN \in Nat
  BY LogAssumption
<1>2. CASE MessageDone
  BY <1>2 DEF MessageDone, LogInv, LogTypes, Phases, KeptInv, PlacesInv, WireInv, Received,
     Hand, Gone, DueInv, Dumping, ringVars, dump, counts
<1>3. CASE Log
  <2>1. queued * (STAMP_LEN + TEXT_LEN) + STAMP_LEN + TEXT_LEN = (queued + 1) * (STAMP_LEN + TEXT_LEN)
    BY <1>1 DEF LogInv, LogTypes
  <2>2. queued * (STAMP_LEN + TEXT_LEN) \in Nat
    BY <1>1 DEF LogInv, LogTypes
  <2>3. LogTypes' /\ Phases' /\ KeptInv'
    BY <1>1, <1>3 DEF Log, LogInv, LogTypes, Phases, KeptInv, PlacesInv, WireInv, Received,
       Hand, Gone, Dumping, ringVars, dump
  <2>4. DueInv'
    <3> SUFFICES ASSUME Dumping PROVE Len(rb) + Hand + left + queued' * (STAMP_LEN + TEXT_LEN) <= due'
      BY <1>3 DEF Log, DueInv, Dumping, Hand, ringVars, dump
    <3> DEFINE rest == queued * (STAMP_LEN + TEXT_LEN)
    <3>1. Len(rb) + Hand + left + rest <= due
      BY DEF LogInv, DueInv
    <3>2. /\ Len(rb) \in Nat /\ Hand \in Nat /\ left \in Nat /\ due \in Nat /\ rest \in Nat
      BY <2>2 DEF LogInv, LogTypes, Hand
    <3>3. /\ due' = due + STAMP_LEN + TEXT_LEN
          /\ queued' * (STAMP_LEN + TEXT_LEN) = rest + STAMP_LEN + TEXT_LEN
      BY <1>3, <2>1 DEF Log
    <3> HIDE DEF rest
    <3>4. Len(rb) + Hand + left + (rest + STAMP_LEN + TEXT_LEN) <= due + STAMP_LEN + TEXT_LEN
      BY <1>1, <3>1, <3>2
    <3>5. QED
      BY <3>3, <3>4
  <2>5. QED
    BY <2>3, <2>4 DEF LogInv
<1>4. CASE StartDump
  <2>1. queued * (STAMP_LEN + TEXT_LEN) \in Nat
    BY <1>1 DEF LogInv, LogTypes
  <2>2. LogTypes' /\ Phases' /\ KeptInv'
    BY <1>4, <2>1 DEF StartDump, LogInv, LogTypes, Phases, KeptInv, PlacesInv, WireInv, Received,
       Hand, Gone, ringVars, writer
  <2>3. DueInv'
    <3>1. /\ due' = Len(rb) + left + queued * (STAMP_LEN + TEXT_LEN) /\ Hand' = 0
          /\ UNCHANGED <<rb, left, queued>>
      BY <1>4 DEF StartDump, Hand, ringVars, writer
    <3>2. Len(rb) \in Nat /\ left \in Nat
      BY DEF LogInv, LogTypes
    <3>3. /\ Len(rb) + 0 + left + queued * (STAMP_LEN + TEXT_LEN)
               <= Len(rb) + left + queued * (STAMP_LEN + TEXT_LEN)
      BY <2>1, <3>2
    <3>4. QED
      BY <3>1, <3>3 DEF DueInv
  <2>4. QED
    BY <2>2, <2>3 DEF LogInv
<1>5. QED
  BY <1>2, <1>3, <1>4

(* A chunk of k bytes moves from the ring into main's hand.                *)
LEMMA ChunkMoves ==
  ASSUME LogInv, ReadChunk, NEW k \in 0 .. LOG_MANIPULATION_BUFF_LEN, len' = k
  PROVE  /\ k <= Len(rb) /\ (k = 0 => rb = <<>>)
         /\ rb' \in Seq(Nat) /\ Len(rb') = Len(rb) - k
         /\ \A i \in 1 .. Len(rb) - k : rb'[i] = rb[k + i]
         /\ buf' \in [Places -> Nat]
         /\ \A i \in Places : buf'[i] = IF i <= k THEN rb[i] ELSE buf[i]
<1>1. /\ LOG_MANIPULATION_BUFF_LEN \in Nat \ {0} /\ rb \in Seq(Nat) /\ Len(rb) \in Nat
      /\ buf \in [Places -> Nat]
  BY LogAssumption DEF LogInv, LogTypes
<1>2. /\ k = Lesser(Len(rb), LOG_MANIPULATION_BUFF_LEN)
      /\ buf' = [i \in Places |-> IF i <= k THEN rb[i] ELSE buf[i]]
      /\ rb' = SubSeq(rb, k + 1, Len(rb))
  BY DEF ReadChunk
<1>3. k <= Len(rb) /\ (k = 0 => Len(rb) = 0)
  BY <1>1, <1>2 DEF Lesser
<1>4. /\ rb' \in Seq(Nat) /\ Len(rb') = Len(rb) - k
      /\ \A i \in 1 .. Len(rb) - k : rb'[i] = rb[k + i]
  <2>1. \A i \in k + 1 .. Len(rb) : rb[i] \in Nat
    BY <1>1, <1>3
  <2>2. /\ rb' \in Seq(Nat)
        /\ Len(rb') = IF k + 1 <= Len(rb) THEN Len(rb) - (k + 1) + 1 ELSE 0
        /\ \A i \in 1 .. Len(rb) - (k + 1) + 1 : rb'[i] = rb[(k + 1) + i - 1]
    <3>1. k + 1 \in Int /\ Len(rb) \in Int
      BY <1>1
    <3>2. /\ SubSeq(rb, k + 1, Len(rb)) \in Seq(Nat)
          /\ Len(SubSeq(rb, k + 1, Len(rb))) =
               IF k + 1 <= Len(rb) THEN Len(rb) - (k + 1) + 1 ELSE 0
          /\ \A i \in 1 .. Len(rb) - (k + 1) + 1 :
               SubSeq(rb, k + 1, Len(rb))[i] = rb[(k + 1) + i - 1]
      BY <2>1, <3>1, SubSeqProperties
    <3>3. QED
      BY <1>2, <3>2
  <2>3. /\ Len(rb) - (k + 1) + 1 = Len(rb) - k
        /\ (IF k + 1 <= Len(rb) THEN Len(rb) - (k + 1) + 1 ELSE 0) = Len(rb) - k
    BY <1>1, <1>3
  <2>4. ASSUME NEW i \in 1 .. Len(rb) - k PROVE rb'[i] = rb[k + i]
    <3>1. (k + 1) + i - 1 = k + i
      BY <1>1
    <3>2. rb'[i] = rb[(k + 1) + i - 1]
      BY <2>2, <2>3
    <3>3. QED
      BY <3>1, <3>2
  <2>5. QED
    BY <2>2, <2>3, <2>4
<1>5. /\ buf' \in [Places -> Nat]
      /\ \A i \in Places : buf'[i] = IF i <= k THEN rb[i] ELSE buf[i]
  <2>1. \A i \in Places : (IF i <= k THEN rb[i] ELSE buf[i]) \in Nat
    BY <1>1, <1>3 DEF Places
  <2>2. QED
    BY <1>2, <2>1
<1>6. QED
  BY <1>1, <1>3, <1>4, <1>5

LEMMA ReadChunkStep == LogInv /\ ReadChunk => LogInv'
<1> SUFFICES ASSUME LogInv, ReadChunk PROVE LogInv'
  OBVIOUS
<1>1. /\ LOG_MANIPULATION_BUFF_LEN \in Nat /\ rb \in Seq(Nat) /\ Len(rb) \in Nat
      /\ accepted \in Seq(Nat) /\ Len(accepted) \in Nat
  BY LogAssumption DEF LogInv, LogTypes
<1>. PICK k \in 0 .. LOG_MANIPULATION_BUFF_LEN : len' = k
  BY <1>1 DEF ReadChunk, Lesser
<1>2. /\ len' = k
      /\ main = "read" /\ main' = IF k > 0 THEN "publish" ELSE "other"
      /\ due' = IF k > 0 THEN due ELSE 0
      /\ UNCHANGED <<magic, made, accepted, writer, counts, wire, disturbed>>
  BY DEF ReadChunk
<1>3. /\ k <= Len(rb)
      /\ rb' \in Seq(Nat) /\ Len(rb') = Len(rb) - k
      /\ \A i \in 1 .. Len(rb) - k : rb'[i] = rb[k + i]
      /\ buf' \in [Places -> Nat]
      /\ \A i \in Places : buf'[i] = IF i <= k THEN rb[i] ELSE buf[i]
  BY ChunkMoves
<1>4. Hand = 0 /\ Hand' = k /\ Gone' = Gone
  <2>1. Hand = 0 /\ Hand' = k
    BY <1>2 DEF Hand
  <2>2. Len(accepted) - k - (Len(rb) - k) = Len(accepted) - 0 - Len(rb)
    BY <1>1
  <2>3. QED
    BY <1>2, <1>3, <2>1, <2>2 DEF Gone
<1>5. LogTypes' /\ Phases'
  <2>1. Len(rb) - k <= LOG_RAM_BUFFER_SIZE
    BY <1>1, LogAssumption DEF LogInv, LogTypes
  <2>2. LogTypes'
    BY <1>2, <1>3, <2>1 DEF LogInv, LogTypes, writer
  <2>3. QED
    BY <1>2, <2>2 DEF LogInv, LogTypes, Phases, writer
<1>6. KeptInv'
  <2> SUFFICES ASSUME magic, ~disturbed PROVE PlacesInv' /\ WireInv'
    BY <1>2 DEF KeptInv
  <2>1. PlacesInv /\ WireInv
    BY DEF LogInv, KeptInv
  <2>2. Gone \in Nat
    BY <1>1, <1>4, <2>1 DEF PlacesInv, Gone
  <2>3. WireInv'
    BY <1>2, <1>4, <2>1 DEF WireInv, Received
  <2>4. \A i \in 1 .. Len(rb) - k : rb'[i] = accepted[Gone + k + i]
    <3> SUFFICES ASSUME NEW i \in 1 .. Len(rb) - k PROVE rb[k + i] = accepted[Gone + k + i]
      BY <1>3
    <3>1. k + i \in 1 .. Len(rb)
      BY <1>1, <1>3
    <3>2. rb[k + i] = accepted[Gone + 0 + (k + i)]
      BY <1>4, <2>1, <3>1 DEF PlacesInv
    <3>3. Gone + 0 + (k + i) = Gone + k + i
      BY <2>2
    <3>4. QED
      BY <3>2, <3>3
  <2>5. \A i \in 1 .. k : buf'[i] = accepted[Gone + i]
    <3> SUFFICES ASSUME NEW i \in 1 .. k PROVE buf'[i] = accepted[Gone + i]
      OBVIOUS
    <3>1. buf'[i] = rb[i] /\ i \in 1 .. Len(rb)
      BY <1>1, <1>3 DEF Places
    <3>2. rb[i] = accepted[Gone + 0 + i] /\ Gone + 0 + i = Gone + i
      BY <1>4, <2>1, <2>2, <3>1 DEF PlacesInv
    <3>3. QED
      BY <3>1, <3>2
  <2>6. \A i \in Places : i > k => buf'[i] = 0 \/ \E n \in 1 .. Gone : buf'[i] = accepted[n]
    <3> SUFFICES ASSUME NEW i \in Places, i > k
                 PROVE  buf'[i] = 0 \/ \E n \in 1 .. Gone : buf'[i] = accepted[n]
      OBVIOUS
    <3>1. i \in Int /\ i > 0
      BY <1>1 DEF Places
    <3>2. buf'[i] = buf[i]
      BY <1>3, <3>1
    <3>3. QED
      BY <1>4, <2>1, <3>1, <3>2 DEF PlacesInv
  <2>7. QED
    BY <1>2, <1>3, <1>4, <2>2, <2>3, <2>4, <2>5, <2>6 DEF PlacesInv
<1>7. DueInv'
  <2> DEFINE rest == queued * (STAMP_LEN + TEXT_LEN)
  <2>1. Len(rb) + 0 + left + rest <= due
    BY <1>2, <1>4 DEF LogInv, DueInv, Dumping
  <2>2. left \in Nat /\ rest \in Int /\ due \in Nat /\ left' = left /\ queued' = queued
    BY <1>2, LogAssumption DEF LogInv, LogTypes, writer
  <2> HIDE DEF rest
  <2>3. Len(rb) - k + k + left + rest <= due
    BY <1>1, <2>1, <2>2
  <2>4. Dumping' => due' = due
    BY <1>2 DEF Dumping
  <2>5. QED
    BY <1>3, <1>4, <2>2, <2>3, <2>4 DEF DueInv, rest
<1>8. QED
  BY <1>5, <1>6, <1>7 DEF LogInv

(* What has been received after a chunk b[1 .. L] that begins with the     *)
(* next k bytes and goes on with old ones or zeros.                        *)
LEMMA ChunkArrives ==
  ASSUME NEW L \in Nat, NEW k \in 0 .. L, NEW g \in Nat, NEW W \in Nat,
         NEW a, NEW b, NEW w, NEW v,
         \A q \in 1 .. W : v[q] = w[q],
         \A i \in 1 .. L : v[W + i] = b[i],
         \A i \in 1 .. k : b[i] = a[g + i],
         \A i \in 1 .. L : i > k => b[i] = 0 \/ \E n \in 1 .. g : b[i] = a[n],
         Received(w, W, a, g)
  PROVE  Received(v, W + L, a, g + k)
<1>0. /\ \A n \in 1 .. g : \E q \in 1 .. W : w[q] = a[n]
      /\ \A q \in 1 .. W : w[q] = 0 \/ \E n \in 1 .. g :
            w[q] = a[n] /\ \A m \in 1 .. n - 1 : \E p \in 1 .. q - 1 : w[p] = a[m]
  BY DEF Received
<1>1. \A n \in 1 .. g : \E q \in 1 .. W : v[q] = a[n]
  BY <1>0
<1>2. ASSUME NEW n \in 1 .. g + k, n > g
      PROVE  n - g \in 1 .. k /\ v[W + (n - g)] = a[n]
  <2>1. n - g \in 1 .. L /\ n - g \in 1 .. k /\ g + (n - g) = n
    BY <1>2
  <2>2. QED
    BY <2>1
<1>3. ASSUME NEW n \in 1 .. g + k PROVE \E q \in 1 .. W + L : v[q] = a[n]
  <2>1. CASE n <= g
    <3>1. PICK q \in 1 .. W : v[q] = a[n]
      BY <1>1, <2>1
    <3>2. q \in 1 .. W + L
      OBVIOUS
    <3>3. QED
      BY <3>1, <3>2
  <2>2. CASE n > g
    <3>1. n - g \in 1 .. k /\ v[W + (n - g)] = a[n]
      BY <1>2, <2>2
    <3>2. W + (n - g) \in 1 .. W + L
      BY <3>1
    <3>3. QED
      BY <3>1, <3>2
  <2>3. QED
    BY <2>1, <2>2
<1> DEFINE Behind(q, n) == \A m \in 1 .. n - 1 : \E p \in 1 .. q - 1 : v[p] = a[m]
<1>4. ASSUME NEW q \in 1 .. W + L
      PROVE  v[q] = 0 \/ \E n \in 1 .. g + k : v[q] = a[n] /\ Behind(q, n)
  <2>1. CASE q <= W
    <3>1. q \in 1 .. W /\ v[q] = w[q] /\ \A p \in 1 .. q - 1 : v[p] = w[p]
      BY <2>1
    <3>2. CASE w[q] # 0
      <4>1. PICK n \in 1 .. g :
              w[q] = a[n] /\ \A m \in 1 .. n - 1 : \E p \in 1 .. q - 1 : w[p] = a[m]
        BY <1>0, <3>1, <3>2
      <4>2. n \in 1 .. g + k
        OBVIOUS
      <4>3. QED
        BY <3>1, <4>1, <4>2
    <3>3. QED
      BY <3>1, <3>2
  <2>2. CASE q > W
    <3>1. PICK i \in 1 .. L : W + i = q
      <4>1. q - W \in 1 .. L /\ W + (q - W) = q
        BY <2>2
      <4>2. QED
        BY <4>1
    <3>2. v[q] = b[i]
      BY <3>1
    <3>3. ASSUME NEW m \in 1 .. g + k, m <= g \/ m - g < i
          PROVE  \E p \in 1 .. q - 1 : v[p] = a[m]
      <4>1. CASE m <= g
        <5>1. PICK p \in 1 .. W : v[p] = a[m]
          BY <1>1, <4>1
        <5>2. p \in 1 .. q - 1
          BY <2>2
        <5>3. QED
          BY <5>1, <5>2
      <4>2. CASE m > g
        <5>1. v[W + (m - g)] = a[m] /\ m - g \in 1 .. k
          BY <1>2, <4>2
        <5>2. W + (m - g) \in 1 .. q - 1
          BY <3>1, <3>3, <4>2, <5>1
        <5>3. QED
          BY <5>1, <5>2
      <4>3. QED
        BY <4>1, <4>2
    <3>4. CASE i <= k
      <4>1. i \in 1 .. k /\ g + i \in 1 .. g + k
        BY <3>4
      <4>2. v[q] = a[g + i]
        BY <3>2, <4>1
      <4>3. \A m \in 1 .. (g + i) - 1 : m \in 1 .. g + k /\ (m <= g \/ m - g < i)
        BY <4>1
      <4>4. Behind(q, g + i)
        BY <3>3, <4>3
      <4>5. QED
        BY <4>1, <4>2, <4>4
    <3>5. CASE i > k
      <4>1. \A n \in 1 .. g : n \in 1 .. g + k /\ \A m \in 1 .. n - 1 : m \in 1 .. g + k /\ m <= g
        OBVIOUS
      <4>2. \A n \in 1 .. g : Behind(q, n)
        BY <3>3, <4>1
      <4>3. QED
        BY <3>2, <3>5, <4>1, <4>2
    <3>6. QED
      BY <3>4, <3>5
  <2>3. QED
    BY <2>1, <2>2
<1>5. QED
  BY <1>3, <1>4 DEF Received

LEMMA PublishChunkStep ==
  ASSUME LogInv, NEW sent \in BOOLEAN, PublishChunk(sent)
  PROVE  LogInv'
<1> DEFINE L == LOG_MANIPULATION_BUFF_LEN
           W == Len(wire)
<1>1. /\ L \in Nat /\ len \in 0 .. L /\ W \in Nat
      /\ Len(rb) \in Nat /\ Len(accepted) \in Nat
  BY LogAssumption DEF LogInv, LogTypes
<1>2. wire \in Seq(Nat) /\ buf \in Seq(Nat) /\ Len(buf) = L
  BY <1>1 DEF LogInv, LogTypes, Places
<1>3. /\ main = "publish" /\ main' = "read" /\ queued' = queued /\ due' = due - len
      /\ disturbed' = (disturbed \/ ~sent) /\ wire' = IF disturbed' THEN wire ELSE wire \o buf
      /\ UNCHANGED <<magic, ringVars, logger, left, buf, len, counts>>
  BY DEF PublishChunk, LogsOfPublish, LogInv, LogTypes
<1>4. /\ wire \o buf \in Seq(Nat) /\ Len(wire \o buf) = W + L
      /\ \A q \in 1 .. W + L : (wire \o buf)[q] = IF q <= W THEN wire[q] ELSE buf[q - W]
  BY <1>2, ConcatProperties
<1>5. Hand = len /\ Hand' = 0
  BY <1>3 DEF Hand
<1>6. due' \in Nat /\ DueInv'
  <2> DEFINE rest == queued * (STAMP_LEN + TEXT_LEN)
  <2>1. rest \in Nat
    BY LogAssumption DEF LogInv, LogTypes
  <2>2. left \in Nat /\ due \in Nat /\ Len(rb) + len + left + rest <= due
    BY <1>3, <1>5 DEF LogInv, LogTypes, DueInv, Dumping
  <2>3. UNCHANGED <<rb, left, queued>>
    BY <1>3 DEF ringVars
  <2> HIDE DEF rest
  <2>4. due - len \in Nat /\ Len(rb) + 0 + left + rest <= due - len
    BY <1>1, <2>1, <2>2
  <2>5. QED
    BY <1>3, <1>5, <2>3, <2>4 DEF DueInv, rest
<1>7. LogTypes' /\ Phases'
  BY <1>3, <1>4, <1>6 DEF LogInv, LogTypes, Phases, ringVars, counts
<1>8. KeptInv'
  <2> SUFFICES ASSUME magic, ~disturbed, sent PROVE PlacesInv' /\ WireInv'
    BY <1>3 DEF KeptInv
  <2> DEFINE g == Gone
             v == wire \o buf
  <2>1. PlacesInv /\ WireInv
    BY DEF LogInv, KeptInv
  <2>2. /\ g = Len(accepted) - len - Len(rb) /\ g >= 0
        /\ Gone' = Len(accepted) - 0 - Len(rb)
    BY <1>3, <1>5, <2>1 DEF PlacesInv, Gone, ringVars
  <2>3. g \in Nat /\ Gone' = g + len
    BY <1>1, <2>2
  <2>4. wire' = v /\ UNCHANGED <<rb, accepted, buf>>
    BY <1>3 DEF ringVars
  <2>5. /\ \A i \in 1 .. Len(rb) : rb[i] = accepted[g + len + i]
        /\ \A i \in 1 .. len : buf[i] = accepted[g + i]
        /\ \A i \in 1 .. L : i > len => buf[i] = 0 \/ \E n \in 1 .. g : buf[i] = accepted[n]
    BY <1>5, <2>1 DEF PlacesInv, Places
  <2>6. Received(wire, W, accepted, g)
    BY <2>1 DEF WireInv
  <2> HIDE DEF g
  <2>7. (\A q \in 1 .. W : v[q] = wire[q]) /\ \A i \in 1 .. L : v[W + i] = buf[i]
    <3> SUFFICES ASSUME NEW W1 \in Nat, W1 = W
                 PROVE (\A q \in 1 .. W1 : v[q] = wire[q]) /\ \A i \in 1 .. L : v[W1 + i] = buf[i]
      BY <1>1
    <3>1. \A q \in 1 .. W1 + L : v[q] = IF q <= W1 THEN wire[q] ELSE buf[q - W1]
      BY <1>4
    <3> HIDE DEF v, L, W
    <3>2. ASSUME NEW i \in 1 .. L PROVE v[W1 + i] = buf[i]
      <4>1. W1 + i \in 1 .. W1 + L /\ ~(W1 + i <= W1) /\ W1 + i - W1 = i
        BY <1>1
      <4>2. v[W1 + i] = buf[W1 + i - W1]
        BY <3>1, <4>1
      <4>3. QED
        BY <4>1, <4>2
    <3>3. \A q \in 1 .. W1 : q \in 1 .. W1 + L /\ q <= W1
      BY <1>1
    <3>4. QED
      BY <3>1, <3>2, <3>3
  <2> HIDE DEF v
  <2>8. Received(v, W + L, accepted, g + len)
    <3> HIDE DEF L, W
    <3>1. QED
      BY <1>1, <2>3, <2>5, <2>6, <2>7, ChunkArrives
  <2>9. WireInv'
    BY <1>4, <2>3, <2>4, <2>8 DEF WireInv, v
  <2>10. PlacesInv'
    <3>1. \A i \in Places : buf[i] = 0 \/ \E n \in 1 .. g + len : buf[i] = accepted[n]
      <4> SUFFICES ASSUME NEW i \in 1 .. L
                   PROVE  buf[i] = 0 \/ \E n \in 1 .. g + len : buf[i] = accepted[n]
        BY DEF Places
      <4>1. \A n \in 1 .. g : n \in 1 .. g + len
        BY <1>1, <2>3
      <4>2. i <= len => i \in 1 .. len /\ g + i \in 1 .. g + len
        BY <1>1, <2>3
      <4>3. i <= len \/ i > len
        BY <1>1
      <4>4. QED
        BY <2>5, <4>1, <4>2, <4>3
    <3>2. g + len + 0 = g + len /\ g + len >= 0 /\ 1 .. 0 = {}
      BY <1>1, <2>3
    <3>3. QED
      BY <1>5, <2>3, <2>4, <2>5, <3>1, <3>2 DEF PlacesInv
  <2>11. QED
    BY <2>9, <2>10
<1>9. QED
  BY <1>6, <1>7, <1>8 DEF LogInv

(* A reset, and the start behind it.                                       *)
LEMMA ResetStep ==
  LogInv /\ ((\E power \in BOOLEAN : Reset(power)) \/ log_ram_init) => LogInv'
<1> SUFFICES ASSUME LogInv, (\E power \in BOOLEAN : Reset(power)) \/ log_ram_init PROVE LogInv'
  OBVIOUS
<1>1. /\ Empty \in [Places -> Nat] /\ \A i \in Places : Empty[i] = 0
      /\ <<>> \in Seq(Nat) /\ Len(<<>>) = 0 /\ <<0>> \in Seq(Nat) /\ Len(<<0>>) = 1
      /\ LOG_RAM_BUFFER_SIZE \in Nat \ {0}
  BY LogAssumption DEF Empty
<1>2. ASSUME NEW power \in BOOLEAN, Reset(power) PROVE LogInv'
  <2>1. /\ main' = "init" /\ queued' = 0 /\ logger' = "idle" /\ left' = 0
        /\ buf' = Empty /\ len' = 0 /\ disturbed' = (disturbed \/ main = "publish") /\ due' = 0
        /\ UNCHANGED <<made, accepted, logs, wire>>
        /\ magic' = (magic /\ ~power)
        /\ rb' = rb \/ (power /\ rb' \in {<<>>, <<0>>})
        /\ ~power => rb' = rb
    BY <1>2 DEF Reset, LogInv, LogTypes
  <2>2. rb' \in Seq(Nat) /\ Len(rb') <= LOG_RAM_BUFFER_SIZE
    <3>1. rb \in Seq(Nat) /\ Len(rb) <= LOG_RAM_BUFFER_SIZE
      BY DEF LogInv, LogTypes
    <3>2. rb' = rb \/ rb' = <<>> \/ rb' = <<0>>
      BY <2>1
    <3>3. 0 <= LOG_RAM_BUFFER_SIZE /\ 1 <= LOG_RAM_BUFFER_SIZE
      BY <1>1
    <3>4. QED
      BY <1>1, <3>1, <3>2, <3>3
  <2>3. LogTypes' /\ Phases' /\ DueInv'
    BY <1>1, <2>1, <2>2, LogAssumption DEF LogInv, LogTypes, Phases, DueInv, Dumping
  <2>4. KeptInv'
    <3> SUFFICES ASSUME magic, ~disturbed, main # "publish", rb' = rb PROVE PlacesInv' /\ WireInv'
      BY <2>1 DEF KeptInv
    <3>1. Hand = 0 /\ Hand' = 0 /\ Gone' = Gone
      BY <2>1 DEF Hand, Gone
    <3>2. PlacesInv /\ WireInv
      BY DEF LogInv, KeptInv
    <3>3. QED
      BY <1>1, <2>1, <3>1, <3>2 DEF PlacesInv, WireInv, Received
  <2>5. QED
    BY <2>3, <2>4 DEF LogInv
<1>3. CASE log_ram_init
  <2>1. /\ main = "init" /\ main' = "other" /\ magic' = TRUE
        /\ UNCHANGED <<made, writer, buf, len, counts, due>>
        /\ buf = Empty
    BY <1>3 DEF log_ram_init, LogInv, Phases
  <2>2. CASE magic
    <3>1. UNCHANGED <<rb, accepted, wire, disturbed>>
      BY <1>3, <2>2 DEF log_ram_init, KeepsRing
    <3>2. Hand = 0 /\ Hand' = 0 /\ Gone' = Gone
      BY <2>1, <3>1 DEF Hand, Gone
    <3>3. QED
      BY <2>1, <2>2, <3>1, <3>2 DEF LogInv, LogTypes, Phases, KeptInv, PlacesInv, WireInv, Received,
         DueInv, Dumping, writer
  <2>3. CASE ~magic
    <3>1. rb' = <<>> /\ accepted' = <<>> /\ wire' = <<>> /\ disturbed' = FALSE
      BY <1>3, <2>3 DEF log_ram_init, KeepsRing
    <3>2. Hand' = 0 /\ Gone' = 0
      BY <1>1, <2>1, <3>1 DEF Hand, Gone
    <3>3. PlacesInv' /\ WireInv'
      <4>1. 1 .. 0 = {} /\ 0 >= 0
        OBVIOUS
      <4>2. PlacesInv'
        BY <1>1, <2>1, <3>1, <3>2, <4>1 DEF PlacesInv
      <4>3. Received(<<>>, 0, <<>>, 0)
        BY <4>1 DEF Received
      <4>4. QED
        BY <1>1, <3>1, <3>2, <4>2, <4>3 DEF WireInv
    <3>4. 0 <= LOG_RAM_BUFFER_SIZE
      BY <1>1
    <3>5. LogTypes'
      BY <1>1, <2>1, <3>1, <3>4 DEF LogInv, LogTypes, writer
    <3>6. Phases' /\ DueInv' /\ KeptInv'
      BY <2>1, <3>1, <3>3 DEF LogInv, Phases, KeptInv, DueInv, Dumping, writer
    <3>7. QED
      BY <3>5, <3>6 DEF LogInv
  <2>4. QED
    BY <2>2, <2>3 DEF LogInv, LogTypes
<1>4. QED
  BY <1>2, <1>3

-----------------------------------------------------------------------------
(* The ring never holds more than its buffer, and while no chunk was lost  *)
(* every byte it took is in the ring, in main's hand, or received.         *)
THEOREM LogInvariant == LogSpec => []LogInv
<1>1. LogInit => LogInv
  <2> SUFFICES ASSUME LogInit PROVE LogInv
    OBVIOUS
  <2>1. Empty \in [Places -> Nat] /\ <<>> \in Seq(Nat) /\ Len(<<>>) = 0
    BY LogAssumption DEF Empty
  <2>2. 0 <= LOG_RAM_BUFFER_SIZE /\ 0 \in 0 .. LOG_MANIPULATION_BUFF_LEN
    BY LogAssumption
  <2>3. LogTypes
    BY <2>1, <2>2 DEF LogInit, LogTypes
  <2>4. QED
    BY <2>3 DEF LogInit, LogInv, Phases, KeptInv, DueInv, Dumping
<1>2. LogInv /\ [LogNext]_logVars => LogInv'
  <2>1. LogInv /\ LogNext => LogInv'
    BY PutStampStep, PutTextStep, BesideStep, ReadChunkStep, PublishChunkStep, ResetStep
       DEF LogNext, Writer
  <2>2. LogInv /\ UNCHANGED logVars => LogInv'
    BY DEF logVars, ringVars, writer, dump, counts, LogInv, LogTypes, Phases, KeptInv, PlacesInv,
       WireInv, Received, Hand, Gone, DueInv, Dumping
  <2>3. QED
    BY <2>1, <2>2
<1>3. QED
  BY <1>1, <1>2, PTL DEF LogSpec

LEMMA HandOfMain ==
  ASSUME LogTypes
  PROVE  /\ InHand \in Seq(Nat) /\ Len(InHand) = Hand /\ Hand \in Nat
         /\ \A i \in 1 .. Hand : InHand[i] = buf[i]
<1>1. len \in Nat /\ len <= LOG_MANIPULATION_BUFF_LEN /\ LOG_MANIPULATION_BUFF_LEN \in Nat
  BY LogAssumption DEF LogTypes
<1>2. \A i \in 1 .. len : buf[i] \in Nat
  BY <1>1 DEF LogTypes, Places
<1>3. /\ SubSeq(buf, 1, len) \in Seq(Nat)
      /\ Len(SubSeq(buf, 1, len)) = IF 1 <= len THEN len - 1 + 1 ELSE 0
      /\ \A i \in 1 .. len - 1 + 1 : SubSeq(buf, 1, len)[i] = buf[1 + i - 1]
  BY <1>1, <1>2, SubSeqProperties
<1>4. /\ (IF 1 <= len THEN len - 1 + 1 ELSE 0) = len /\ len - 1 + 1 = len
      /\ \A i \in 1 .. len : 1 + i - 1 = i
  BY <1>1
<1>5. /\ Len(SubSeq(buf, 1, len)) = len
      /\ \A i \in 1 .. len : SubSeq(buf, 1, len)[i] = buf[i]
  BY <1>3, <1>4
<1>6. CASE main = "publish"
  BY <1>1, <1>3, <1>5, <1>6 DEF InHand, Hand
<1>7. CASE main # "publish"
  BY <1>7 DEF InHand, Hand
<1>8. QED
  BY <1>6, <1>7

(* A dump never has more to send than the ring held when it began and the  *)
(* other threads have logged since: publishing the log does not feed it.   *)
THEOREM DumpIsBounded == LogSpec => []DumpBounded
<1>1. LogInv => DumpBounded
  <2> SUFFICES ASSUME LogInv, Dumping PROVE Len(rb) + Len(InHand) <= due
    BY DEF DumpBounded
  <2> DEFINE rest == queued * (STAMP_LEN + TEXT_LEN)
  <2>1. rest \in Nat
    BY LogAssumption DEF LogInv, LogTypes
  <2>2. Len(rb) + Hand + left + rest <= due
    BY DEF LogInv, DueInv
  <2>3. Len(InHand) = Hand /\ Hand \in Nat /\ Len(rb) \in Nat /\ left \in Nat /\ due \in Nat
    BY HandOfMain DEF LogInv, LogTypes
  <2> HIDE DEF rest
  <2>4. Len(rb) + Hand <= due
    BY <2>1, <2>2, <2>3
  <2>5. QED
    BY <2>3, <2>4
<1>2. QED
  BY <1>1, LogInvariant, PTL

(* The receiver gets the log as the ring took it, whatever warm resets,    *)
(* dumps and messages of other threads come in between (log_ram_read,      *)
(* sys_log_data_publish): nothing is lost, doubled into a place of its own *)
(* or overtaken while no chunk was lost.                                   *)
THEOREM DumpIsFaithful == LogSpec => []DumpFaithful
<1>1. LogInv => DumpFaithful
  <2> SUFFICES ASSUME LogInv, magic, ~disturbed
      PROVE  /\ accepted = Delivered \o InHand \o rb
             /\ \A n \in DOMAIN Delivered : \E q \in DOMAIN wire : wire[q] = Delivered[n]
             /\ \A q \in DOMAIN wire : wire[q] = 0 \/ BehindOthers(q)
    BY DEF DumpFaithful
  <2> DEFINE g == Gone
             h == Hand
  <2>1. /\ rb \in Seq(Nat) /\ accepted \in Seq(Nat) /\ wire \in Seq(Nat)
        /\ Len(rb) \in Nat /\ Len(accepted) \in Nat /\ DOMAIN wire = 1 .. Len(wire)
    BY DEF LogInv, LogTypes
  <2>2. PlacesInv /\ WireInv
    BY DEF LogInv, KeptInv
  <2>3. InHand \in Seq(Nat) /\ Len(InHand) = h /\ h \in Nat /\ \A i \in 1 .. h : InHand[i] = buf[i]
    BY HandOfMain DEF LogInv
  <2>4. g \in Nat /\ Len(accepted) - h - Len(rb) = g /\ Len(accepted) = g + h + Len(rb)
    BY <2>1, <2>2, <2>3 DEF PlacesInv, Gone
  <2>5. /\ \A i \in 1 .. Len(rb) : rb[i] = accepted[g + h + i]
        /\ \A i \in 1 .. h : InHand[i] = accepted[g + i]
    BY <2>2, <2>3 DEF PlacesInv
  <2>6. /\ \A n \in 1 .. g : \E q \in 1 .. Len(wire) : wire[q] = accepted[n]
        /\ \A q \in 1 .. Len(wire) : wire[q] = 0 \/ \E n \in 1 .. g :
              wire[q] = accepted[n] /\ \A m \in 1 .. n - 1 : \E p \in 1 .. q - 1 : wire[p] = accepted[m]
    BY <2>2 DEF WireInv, Received
  <2> HIDE DEF g, h
  <2>. g \in Nat /\ h \in Nat
    BY <2>3, <2>4
  <2>7. /\ Delivered \in Seq(Nat) /\ Len(Delivered) = g /\ DOMAIN Delivered = 1 .. g
        /\ \A n \in 1 .. g : Delivered[n] = accepted[n]
    <3>1. Delivered = SubSeq(accepted, 1, g)
      BY <2>3, <2>4 DEF Delivered
    <3>2. \A i \in 1 .. g : accepted[i] \in Nat
      BY <2>1, <2>3, <2>4
    <3>3. /\ SubSeq(accepted, 1, g) \in Seq(Nat)
          /\ Len(SubSeq(accepted, 1, g)) = IF 1 <= g THEN g - 1 + 1 ELSE 0
          /\ \A i \in 1 .. g - 1 + 1 : SubSeq(accepted, 1, g)[i] = accepted[1 + i - 1]
      BY <2>4, <3>2, SubSeqProperties
    <3>4. /\ (IF 1 <= g THEN g - 1 + 1 ELSE 0) = g /\ g - 1 + 1 = g
          /\ \A i \in 1 .. g : 1 + i - 1 = i
      BY <2>4
    <3>5. QED
      BY <3>1, <3>3, <3>4
  <2>8. accepted = Delivered \o InHand \o rb
    <3> DEFINE d == Delivered \o InHand
    <3>1. /\ d \in Seq(Nat) /\ Len(d) = g + h
          /\ \A i \in 1 .. g + h : d[i] = IF i <= g THEN Delivered[i] ELSE InHand[i - g]
      BY <2>3, <2>7, ConcatProperties
    <3>2. \A i \in 1 .. g + h : d[i] = accepted[i]
      <4> SUFFICES ASSUME NEW i \in 1 .. g + h PROVE d[i] = accepted[i]
        OBVIOUS
      <4>1. CASE i <= g
        <5>1. i \in 1 .. g
          BY <4>1
        <5>2. QED
          BY <2>7, <3>1, <4>1, <5>1
      <4>2. CASE i > g
        <5>1. i - g \in 1 .. h /\ g + (i - g) = i /\ ~(i <= g)
          BY <4>2
        <5>2. QED
          BY <2>5, <3>1, <5>1
      <4>3. i <= g \/ i > g
        OBVIOUS
      <4>4. QED
        BY <4>1, <4>2, <4>3
    <3> HIDE DEF d
    <3>3. /\ d \o rb \in Seq(Nat) /\ Len(d \o rb) = g + h + Len(rb)
          /\ \A i \in 1 .. g + h + Len(rb) : (d \o rb)[i] = IF i <= g + h THEN d[i] ELSE rb[i - (g + h)]
      <4>1. /\ d \o rb \in Seq(Nat) /\ Len(d \o rb) = Len(d) + Len(rb)
            /\ \A i \in 1 .. Len(d) + Len(rb) : (d \o rb)[i] = IF i <= Len(d) THEN d[i] ELSE rb[i - Len(d)]
        BY <2>1, <3>1, ConcatProperties
      <4>2. QED
        BY <3>1, <4>1
    <3>4. ASSUME NEW i \in 1 .. g + h + Len(rb) PROVE accepted[i] = (d \o rb)[i]
      <4> SUFFICES ASSUME NEW r \in Nat, r = Len(rb), i \in 1 .. g + h + r PROVE accepted[i] = (d \o rb)[i]
        BY <2>1
      <4>1. CASE i <= g + h
        <5>1. i \in 1 .. g + h
          BY <4>1
        <5>2. QED
          BY <3>2, <3>3, <4>1, <5>1
      <4>2. CASE i > g + h
        <5>1. i - (g + h) \in 1 .. r /\ g + h + (i - (g + h)) = i /\ ~(i <= g + h)
          BY <4>2
        <5>2. rb[i - (g + h)] = accepted[g + h + (i - (g + h))]
          BY <2>5, <5>1
        <5>3. QED
          BY <3>3, <5>1, <5>2
      <4>3. i <= g + h \/ i > g + h
        OBVIOUS
      <4>4. QED
        BY <4>1, <4>2, <4>3
    <3>5. accepted = d \o rb
      <4> DEFINE e == d \o rb
      <4>1. e \in Seq(Nat) /\ Len(accepted) = Len(e) /\ \A i \in 1 .. Len(accepted) : accepted[i] = e[i]
        BY <2>4, <3>3, <3>4
      <4> HIDE DEF e
      <4>2. accepted = e
        BY <2>1, <4>1, SeqEqual
      <4>3. QED
        BY <4>2 DEF e
    <3>6. QED
      BY <3>5 DEF d
  <2>9. \A n \in DOMAIN Delivered : \E q \in DOMAIN wire : wire[q] = Delivered[n]
    <3>1. ASSUME NEW n \in 1 .. g PROVE \E q \in 1 .. Len(wire) : wire[q] = Delivered[n]
      <4>1. PICK q \in 1 .. Len(wire) : wire[q] = accepted[n]
        BY <2>6
      <4>2. accepted[n] = Delivered[n]
        BY <2>7
      <4>3. QED
        BY <4>1, <4>2
    <3>2. DOMAIN Delivered = 1 .. g /\ DOMAIN wire = 1 .. Len(wire)
      BY <2>1, <2>7
    <3>3. QED
      BY <3>1, <3>2
  <2>10. ASSUME NEW q \in DOMAIN wire PROVE wire[q] = 0 \/ BehindOthers(q)
    <3>1. \A n \in 1 .. g : \A m \in 1 .. n - 1 : m \in 1 .. g
      OBVIOUS
    <3>2. q \in 1 .. Len(wire) /\ DOMAIN Delivered = 1 .. g
      BY <2>1, <2>7
    <3>3. \A n \in 1 .. g : accepted[n] = Delivered[n]
      BY <2>7
    <3>4. ASSUME wire[q] # 0
          PROVE  \E n \in 1 .. g : /\ wire[q] = Delivered[n]
                    /\ \A m \in 1 .. n - 1 : \E p \in 1 .. q - 1 : wire[p] = Delivered[m]
      <4>1. PICK n \in 1 .. g : wire[q] = accepted[n]
              /\ \A m \in 1 .. n - 1 : \E p \in 1 .. q - 1 : wire[p] = accepted[m]
        BY <2>6, <3>2, <3>4
      <4>2. \A m \in 1 .. n - 1 : accepted[m] = Delivered[m]
        BY <3>1, <3>3
      <4>3. QED
        BY <3>3, <4>1, <4>2
    <3>5. QED
      BY <3>2, <3>4 DEF BehindOthers
  <2>11. QED
    BY <2>8, <2>9, <2>10
<1>2. QED
  BY <1>1, LogInvariant, PTL
=============================================================================

------------------------------ MODULE SampleCodec ------------------------------
(***************************************************************************)
(* How a sample of four channels becomes ten bytes of the PSRAM and comes  *)
(* back (mqtt_working/src: unit_lib.c, the record loop and the upload in   *)
(* main.c).  Between the two the memory or the SPI line may change the     *)
(* cell; the checksum decides whether the upload believes what it reads.   *)
(* TrainUpload stands on what is checked here: a read delivers the sample  *)
(* or is known to have failed.                                             *)
(*                                                                         *)
(* A word of bits is the set of the positions of its ones; the bits of a   *)
(* cell are numbered in the order the checksum takes them.                 *)
(***************************************************************************)
EXTENDS Integers, Sums

CONSTANTS
  Samples,     \* what the channels may give, the offset taken away
  Damages      \* sets of bits of a cell that are read wrong

Channels == 0 .. 3
CellBits == 0 .. 79
DataBits == 64

(* What two values of the ADC, each of 14 bits, can differ by.             *)
Difference == -16383 .. 16383

ASSUME CodecAssumption ==
  /\ Samples \subseteq [Channels -> Difference]
  /\ \A e \in Damages : e \subseteq CellBits

Xor(a, b) == (a \ b) \cup (b \ a)

VARIABLES
  stage,      \* "record", "stored", "read"
  sample,     \* the four channels as measured
  cell,       \* the bits of the cell as the upload will read it
  damage,     \* the bits that are wrong in it
  got         \* what the upload makes of it: a sample, or the mark

codecVars == <<stage, sample, cell, damage, got>>

-----------------------------------------------------------------------------
Saturated(v) == IF v > 32750 THEN 32750 ELSE IF v < -32750 THEN -32750 ELSE v

(* The sixteen bits of an int16_t, the sign first.                         *)
Bit16(v) == {p \in 0 .. 15 : ((v % 65536) \div 2^(15 - p)) % 2 = 1}

(* The value of sixteen bits, read back into an int16_t.                   *)
Weight(p) == IF p = 0 THEN -32768 ELSE 2^(15 - p)

Int16(bits) == Total([p \in 0 .. 15 |-> IF p \in bits THEN Weight(p) ELSE 0], 16)

(* Mutant: the bytes come back in the other order.                         *)
DecodedSwapped(bits) ==
  [c \in Channels |->
     Int16({p \in 0 .. 15 : 16 * c + ((p + 8) % 16) \in bits})]

Encoded(s) ==
  {b \in 0 .. 63 : b % 16 \in Bit16(Saturated(s[b \div 16]))}

Decoded(bits) ==
  [c \in Channels |-> Int16({p \in 0 .. 15 : 16 * c + p \in bits})]

(* Mutant: the register starts at zero.                                    *)
CrcZeroStart == {}

(* The register of crc16_ccitt_jch: position 15 is its highest bit.        *)
CrcStart == 0 .. 15

Polynomial == {0, 5, 12}

Shifted(crc) == {p + 1 : p \in crc} \ {16}

(* One round: the bit of the data meets the highest bit of the register.   *)
CrcBit(crc, one) ==
  IF one # (15 \in crc) THEN Xor(Shifted(crc), Polynomial) ELSE Shifted(crc)

crc16_ccitt_jch(bits) ==
  LET crc[k \in 0 .. DataBits] ==
        IF k = 0 THEN CrcStart ELSE CrcBit(crc[k - 1], k - 1 \in bits)
  IN  crc[DataBits]

(* The eight bytes of a cell before its checksum.                          *)
DataOf(bits) == bits \cap 0 .. DataBits - 1

(* The checksum behind the data, high byte first.                          *)
WithCrc(bits) == bits \cup {64 + (15 - p) : p \in crc16_ccitt_jch(bits)}

StoredCrc(bits) == {p \in 0 .. 15 : 64 + (15 - p) \in bits}

(* What the packet carries for a sample that could not be read.            *)
Mark == [c \in Channels |-> -32760]

-----------------------------------------------------------------------------
(* The record loop stores the measured values.                             *)
Store(s) ==
  /\ stage = "record"
  /\ sample' = s
  /\ cell' = WithCrc(Encoded(s))
  /\ damage' = {}
  /\ stage' = "stored"
  /\ UNCHANGED got

(* Bits of the cell are lost, or come over the line wrong.                 *)
Damage(e) ==
  /\ stage = "stored" /\ damage = {}
  /\ cell' = Xor(cell, e)
  /\ damage' = e
  /\ UNCHANGED <<stage, sample, got>>

(* A memory that does not answer: the line is low or high for all bits.    *)
LineStuck(level) ==
  /\ stage = "stored" /\ damage = {}
  /\ cell' = IF level = 1 THEN CellBits ELSE {}
  /\ damage' = Xor(cell, cell')
  /\ UNCHANGED <<stage, sample, got>>

Believed(bits) == crc16_ccitt_jch(DataOf(bits)) = StoredCrc(bits)

(* The last of a hundred reads; those before only repeat it.               *)
Read ==
  /\ stage = "stored"
  /\ got' = IF Believed(cell) THEN Decoded(cell) ELSE Mark
  /\ stage' = "read"
  /\ UNCHANGED <<sample, cell, damage>>

CodecInit ==
  /\ stage = "record"
  /\ sample = Mark /\ got = Mark
  /\ cell = {} /\ damage = {}

CodecNext ==
  \/ \E s \in Samples : Store(s)
  \/ \E e \in Damages : Damage(e)
  \/ \E level \in {0, 1} : LineStuck(level)
  \/ Read

CodecSpec == CodecInit /\ [][CodecNext]_codecVars

-----------------------------------------------------------------------------
(* A cell that was left alone comes back as the sample it was made of:     *)
(* sign, order of the channels and of the bytes, and no value the ADC can  *)
(* give is touched by the saturation or by the int16_t.                    *)
RoundTrip == stage = "read" /\ damage = {} => got = sample

(* A cell with one of the damages, among them a dead line, is never taken  *)
(* for a sample but marked as unreadable; a cell of zeros does not carry   *)
(* the checksum of its zeros.  No measured sample looks like the mark.     *)
DamageNoticed ==
  stage = "read" /\ damage # {} => got = Mark /\ \A c \in Channels : sample[c] # Mark[c]

=============================================================================

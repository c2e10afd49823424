---------------------------- MODULE Values_proofs ----------------------------
(***************************************************************************)
(* The values a unit publishes, for every value of the constants: the      *)
(* clock and the climate of the telemetry, the effective value of the      *)
(* signal, and the stored sample with its checksum.                        *)
(*                                                                         *)
(* The operators of the signal and of the checksum are recursive functions *)
(* over the length of an array.  What they compute is shown with the least *)
(* counterexample (WFMin of the library, over the numbers), stated for a   *)
(* set of numbers: AllNumbers.                                             *)
(***************************************************************************)
EXTENDS SampleCodec, SignalPath, UnitTelemetry,
        SequenceTheorems, WellFoundedInduction, TLAPS

-----------------------------------------------------------------------------
(* The clock and the climate.                                              *)

TimeType ==
    /\ epoch \in Nat /\ now \in Nat
    /\ rtcc \in [valid : BOOLEAN, base : Nat, uptime : Nat, record : Nat]
    /\ begin \in [stamp : Nat, true : Nat]

(* The clock was set with the seconds of a moment not after now; what it   *)
(* remembers without being set is the 0 of rtcc_init.                      *)
ClockTrue ==
    /\ rtcc.valid => rtcc.uptime <= now /\ rtcc.base = (epoch + rtcc.uptime) \div Second
    /\ ~rtcc.valid => rtcc.record = 0

StampTrue ==
    begin.stamp # 0 => begin.stamp <= begin.true /\ begin.true <= begin.stamp + 1

TimeInv ==
    /\ TimeType /\ ClockTrue /\ StampTrue
    /\ at = "sent" => telemetry.stamp = begin.stamp

(* The sum of two truncated halves is the truncated half of the sum, or    *)
(* one less.                                                               *)
LEMMA Halves ==
    ASSUME NEW a \in Nat, NEW b \in Nat
    PROVE  /\ a \div 2 + b \div 2 <= (a + b) \div 2
           /\ (a + b) \div 2 <= a \div 2 + b \div 2 + 1
           /\ a \div 2 \in Nat
  OBVIOUS

(* The time the clock gives is at most a second late, or 0 when it was     *)
(* never set.                                                              *)
LEMMA ClockReading ==
    ASSUME TimeType, ClockTrue
    PROVE  /\ rtcc_get_unix_time(rtcc) \in Nat /\ UnixTime \in Nat
           /\ rtcc_get_unix_time(rtcc) # 0 =>
                /\ rtcc_get_unix_time(rtcc) <= UnixTime
                /\ UnixTime <= rtcc_get_unix_time(rtcc) + 1
<1>1. CASE rtcc.valid
  <2>1. rtcc.uptime \in Nat /\ now - rtcc.uptime \in Nat /\ epoch + rtcc.uptime \in Nat
    BY <1>1 DEF TimeType, ClockTrue
  <2>2. (epoch + rtcc.uptime) + (now - rtcc.uptime) = epoch + now
    BY <2>1 DEF TimeType
  <2>3. UnixTime \in Nat
    BY Halves DEF TimeType, UnixTime, Second
  <2>4. rtcc_get_unix_time(rtcc) = (epoch + rtcc.uptime) \div 2 + (now - rtcc.uptime) \div 2
    BY <1>1 DEF rtcc_get_unix_time, ClockTrue, Second
  <2>5. QED
    BY <2>1, <2>2, <2>3, <2>4, Halves DEF UnixTime, Second
<1>2. CASE ~rtcc.valid
  BY <1>2, Halves DEF rtcc_get_unix_time, ClockTrue, TimeType, UnixTime, Second
<1>3. QED
  BY <1>1, <1>2 DEF TimeType

(* A session asks for the time: the clock is set or left alone, and        *)
(* remembers what it answers.                                              *)
LEMMA ClockAsked ==
    ASSUME TimeType, ClockTrue, NEW known \in BOOLEAN,
           modem_get_time_procedure(known), UNCHANGED <<epoch, now, begin>>
    PROVE  TimeType' /\ ClockTrue'
<1> DEFINE set == rtcc_update_unix_time(UnixTime)
<1>1. rtcc_get_unix_time(rtcc) \in Nat /\ UnixTime \in Nat
  BY ClockReading
<1>2. CASE known
  <2>1. /\ set \in [valid : BOOLEAN, base : Nat, uptime : Nat, record : Nat]
        /\ set.valid /\ set.uptime = now /\ set.base = UnixTime
    BY <1>1 DEF rtcc_update_unix_time, TimeType
  <2>2. rtcc_get_unix_time(set) \in Nat
    BY <2>1, <1>1 DEF rtcc_get_unix_time, TimeType, Second
  <2>3. rtcc' = [set EXCEPT !.record = rtcc_get_unix_time(set)]
    BY <1>2 DEF modem_get_time_procedure
  <2>4. QED
    BY <2>1, <2>2, <2>3 DEF TimeType, ClockTrue, UnixTime
<1>3. CASE ~known
  <2>1. rtcc' = [rtcc EXCEPT !.record = rtcc_get_unix_time(rtcc)]
    BY <1>3 DEF modem_get_time_procedure
  <2>2. ~rtcc.valid => rtcc_get_unix_time(rtcc) = 0
    BY DEF rtcc_get_unix_time, ClockTrue
  <2>3. QED
    BY <1>1, <2>1, <2>2 DEF TimeType, ClockTrue
<1>4. QED
  BY <1>2, <1>3

(* The trigger of a train is stamped.                                      *)
LEMMA TriggerStep == TimeInv /\ Trigger => TimeInv'
<1> SUFFICES ASSUME TimeInv, Trigger PROVE TimeInv'
  OBVIOUS
<1>1. /\ rtcc_get_unix_time(rtcc) \in Nat /\ UnixTime \in Nat
      /\ rtcc_get_unix_time(rtcc) # 0 =>
           /\ rtcc_get_unix_time(rtcc) <= UnixTime
           /\ UnixTime <= rtcc_get_unix_time(rtcc) + 1
  BY ClockReading DEF TimeInv
<1>2. ~rtcc.valid => rtcc_get_unix_time(rtcc) = 0
  BY DEF rtcc_get_unix_time, ClockTrue, TimeInv
<1>3. TimeType' /\ ClockTrue'
  BY <1>1, <1>2 DEF Trigger, TimeInv, TimeType, ClockTrue
<1>4. StampTrue'
  BY <1>1 DEF Trigger, StampTrue
<1>5. at' # "sent"
  BY DEF Trigger
<1>6. QED
  BY <1>3, <1>4, <1>5 DEF TimeInv

(* The driver does not touch the time, and never ends in "sent".           *)
LEMMA DriverTime ==
    ASSUME TimeInv, UNCHANGED timeVars, at' # "sent"
    PROVE  TimeInv'
  BY DEF TimeInv, TimeType, ClockTrue, StampTrue, timeVars

LEMMA DriverStepTime ==
    ASSUME TimeInv,
           Driver \/ \E bytes \in {"garbage", buf} : custom_bme280_sample_fetch(bytes)
    PROVE  TimeInv'
<1>1. UNCHANGED timeVars /\ at' # "sent"
  <2>1. CASE \E answer \in {"error", "sensor", "low", "high"} :
               bme280_reset(answer) \/ ReadId(answer) \/ ReadData(answer)
    BY <2>1 DEF bme280_reset, ReadId, ReadData, DriverStep
  <2>2. CASE \E answer \in {"error", "sensor", "low", "high"}, busy \in BOOLEAN :
               bme280_wait_until_ready(answer, busy)
    BY <2>2 DEF bme280_wait_until_ready, Waited, DriverStep
  <2>3. CASE \E answer \in {"error", "sensor", "low", "high"}, trimmed \in BOOLEAN :
               custom_bme280_init(answer, trimmed)
    BY <2>3 DEF custom_bme280_init, DriverStep
  <2>4. CASE \E bytes \in {"garbage", buf} : custom_bme280_sample_fetch(bytes)
    BY <2>4 DEF custom_bme280_sample_fetch, Complete, DriverStep
  <2>5. QED
    BY <2>1, <2>2, <2>3, <2>4 DEF Driver
<1>2. QED
  BY <1>1, DriverTime

(* A session asks for the time before the measurement and again before the *)
(* packet is published.                                                    *)
LEMMA SessionSteps ==
    ASSUME TimeInv, FirstSession \/ prepare_and_send_telemetry_data
    PROVE  TimeInv'
<1>1. PICK known \in BOOLEAN : modem_get_time_procedure(known)
  BY DEF FirstSession, prepare_and_send_telemetry_data
<1>2. UNCHANGED <<epoch, now, begin>>
  BY DEF FirstSession, prepare_and_send_telemetry_data
<1>3. TimeType' /\ ClockTrue'
  BY <1>1, <1>2, ClockAsked DEF TimeInv
<1>4. StampTrue'
  BY <1>2 DEF StampTrue, TimeInv
<1>5. (at = "sent" => telemetry.stamp = begin.stamp)'
  BY DEF FirstSession, prepare_and_send_telemetry_data
<1>6. QED
  BY <1>3, <1>4, <1>5 DEF TimeInv

THEOREM TimeInvariant == TelemetrySpec => []TimeInv
<1>1. TelemetryInit => TimeInv
  BY TimeAssumption DEF TelemetryInit, TimeInv, TimeType, ClockTrue, StampTrue
<1>2. TimeInv /\ [TelemetryNext]_telemetryVars => TimeInv'
  <2> SUFFICES ASSUME TimeInv, [TelemetryNext]_telemetryVars PROVE TimeInv'
    OBVIOUS
  <2>1. CASE Tick
    <3>1. /\ epoch' = epoch /\ rtcc' = rtcc /\ begin' = begin /\ at' = at
          /\ telemetry' = telemetry /\ now' = now + 1
      BY <2>1 DEF Tick
    <3>2. QED
      BY <3>1 DEF TimeInv, TimeType, ClockTrue, StampTrue
  <2>2. CASE FirstSession \/ prepare_and_send_telemetry_data
    BY <2>2, SessionSteps
  <2>3. CASE Trigger
    BY <2>3, TriggerStep
  <2>4. CASE RecordEnds
    BY <2>4, DriverTime DEF RecordEnds
  <2>5. CASE Driver \/ \E bytes \in {"garbage", buf} : custom_bme280_sample_fetch(bytes)
    BY <2>5, DriverStepTime
  <2>6. CASE sys_reboot
    <3>1. epoch' = epoch + now /\ now' = 0 /\ at' = "session"
      BY <2>6 DEF sys_reboot, Boot
    <3>2. /\ rtcc' = [valid |-> FALSE, base |-> 0, uptime |-> 0, record |-> 0]
          /\ begin' = [stamp |-> 0, true |-> 0]
      BY <2>6 DEF sys_reboot, Boot
    <3>3. QED
      BY <3>1, <3>2 DEF TimeInv, TimeType, ClockTrue, StampTrue
  <2>7. CASE UNCHANGED telemetryVars
    BY <2>7 DEF telemetryVars, timeVars, TimeInv, TimeType, ClockTrue, StampTrue
  <2>8. QED
    BY <2>1, <2>2, <2>3, <2>4, <2>5, <2>6, <2>7 DEF TelemetryNext, MainStep
<1>3. QED
  BY <1>1, <1>2, PTL DEF TelemetrySpec

(* The time stamp of a record is 0, or less than two seconds before its    *)
(* trigger and never after it (rtcc_*, record_begin_unix_time_s).          *)
THEOREM StampOfRecord == TelemetrySpec => []RecordTimeTrue
<1>1. TimeInv => RecordTimeTrue
  BY DEF TimeInv, TimeType, StampTrue, RecordTimeTrue
<1>2. QED
  BY <1>1, TimeInvariant, PTL

-----------------------------------------------------------------------------
(* The sensor, from its reset to the packet.                               *)
BeforeFetch == {"session", "reset", "id", "init", "trim", "train", "recording"}
Fetching == {"wait", "read", "compensate", "failed"}

(* Nothing has failed that what follows does not repair.                   *)
Repairable == enabled /\ line = "sensor" /\ faults \subseteq {"reset", "first"}

(* Behind the setup the sensor measures and its trim values are known; an  *)
(* error of the first fetch is still ahead of the second, which reads a    *)
(* sample.                                                                 *)
RepairInv ==
    /\ at \in BeforeFetch \cup Fetching \cup {"upload", "sent"}
    /\ sens_data \in [trim : {"zero", "partial", "read"}, comp : {"none", "measured", "nonsense"}]
    /\ at \in BeforeFetch => fetches = 0
    /\ at \in Fetching => fetches \in {0, 1}
    /\ Repairable =>
        /\ at \in {"train", "recording", "upload", "sent"} \cup Fetching
              => measuring /\ sens_data.trim = "read"
        /\ at = "compensate" => buf = "sample"
        /\ at = "failed" => fetches = 0
        /\ at \in {"upload", "sent"} => unit_values = "measured"
        /\ at = "sent" => telemetry.values = "measured"

LEMMA DriverRepairs ==
    ASSUME RepairInv, Driver
    PROVE  RepairInv'
<1> USE DEF RepairInv, Repairable, BeforeFetch, Fetching, DriverStep, Note, bme280_reg_read, bme280_reg_write
<1>1. ASSUME NEW answer \in {"error", "sensor", "low", "high"}, bme280_reset(answer) PROVE RepairInv'
  BY <1>1 DEF bme280_reset
<1>2. ASSUME NEW answer \in {"error", "sensor", "low", "high"}, ReadId(answer) PROVE RepairInv'
  BY <1>2 DEF ReadId
<1>3. ASSUME NEW answer \in {"error", "sensor", "low", "high"}, ReadData(answer) PROVE RepairInv'
  BY <1>3 DEF ReadData
<1>4. ASSUME NEW answer \in {"error", "sensor", "low", "high"}, NEW busy \in BOOLEAN,
             bme280_wait_until_ready(answer, busy)
      PROVE  RepairInv'
  BY <1>4 DEF bme280_wait_until_ready, Waited
<1>5. ASSUME NEW answer \in {"error", "sensor", "low", "high"}, NEW trimmed \in BOOLEAN,
             custom_bme280_init(answer, trimmed)
      PROVE  RepairInv'
  BY <1>5 DEF custom_bme280_init
<1>6. QED
  BY <1>1, <1>2, <1>3, <1>4, <1>5 DEF Driver

THEOREM RepairInvariant == TelemetrySpec => []RepairInv
<1>1. TelemetryInit => RepairInv
  BY DEF TelemetryInit, RepairInv, Repairable, BeforeFetch, Fetching
<1>2. RepairInv /\ [TelemetryNext]_telemetryVars => RepairInv'
  <2> SUFFICES ASSUME RepairInv, [TelemetryNext]_telemetryVars PROVE RepairInv'
    OBVIOUS
  <2> USE DEF RepairInv, Repairable, BeforeFetch, Fetching
  <2>1. CASE Tick \/ FirstSession \/ Trigger \/ RecordEnds
    BY <2>1 DEF Tick, FirstSession, Trigger, RecordEnds, driverVars
  <2>2. CASE Driver
    BY <2>2, DriverRepairs
  <2>3. CASE \E bytes \in {"garbage", buf} : custom_bme280_sample_fetch(bytes)
    BY <2>3 DEF custom_bme280_sample_fetch, Compensated, Complete, DriverStep
  <2>4. CASE prepare_and_send_telemetry_data
    BY <2>4 DEF prepare_and_send_telemetry_data, driverVars
  <2>5. CASE sys_reboot
    BY <2>5 DEF sys_reboot, Boot
  <2>6. CASE UNCHANGED telemetryVars
    BY <2>6 DEF telemetryVars, driverVars
  <2>7. QED
    BY <2>1, <2>2, <2>3, <2>4, <2>5, <2>6 DEF TelemetryNext, MainStep
<1>3. QED
  BY <1>1, <1>2, PTL DEF TelemetrySpec

(* The published climate is the sensor's when nothing but the reset and    *)
(* the first fetch failed, although no error is ever reported to main      *)
(* (custom_bme280_sample_fetch, called twice).                             *)
THEOREM ClimateMeasured == TelemetrySpec => []FirstFetchRepaired
<1>1. RepairInv => FirstFetchRepaired
  BY DEF RepairInv, Repairable, FirstFetchRepaired
<1>2. QED
  BY <1>1, RepairInvariant, PTL

-----------------------------------------------------------------------------
(* Numbers and sums.                                                       *)

(* A set of numbers has a least one.                                       *)
LEMMA LeastNumber ==
    ASSUME NEW T, T \subseteq Nat, T # {}
    PROVE  \E m \in T : \A n \in T : m <= n
  <1> DEFINE R == {ss \in Nat \X Nat : ss[1] < ss[2]}
  <1>1. IsWellFoundedOn(R, Nat)
    BY NatLessThanWellFounded DEF OpToRel
  <1> HIDE DEF R
  <1>2. PICK m \in T : \A n \in T : ~ (<<n, m>> \in R)
    BY <1>1, WFMin
  <1>3. ASSUME NEW n \in T PROVE m <= n
    <2>1. m \in Nat /\ n \in Nat
      OBVIOUS
    <2>2. <<n, m>> \in Nat \X Nat /\ <<n, m>>[1] = n /\ <<n, m>>[2] = m
      BY <2>1
    <2>3. ~ (n < m)
      BY <1>2, <2>2 DEF R
    <2> QED BY <2>1, <2>3
  <1> QED BY <1>3

(* Induction: a set of numbers that has 0 and every next one has all.      *)
LEMMA AllNumbers ==
    ASSUME NEW T, 0 \in T, \A n \in Nat : n \in T => n + 1 \in T
    PROVE  \A n \in Nat : n \in T
  <1> SUFFICES ASSUME Nat \ T # {} PROVE FALSE
    OBVIOUS
  <1>1. PICK m \in Nat \ T : \A n \in Nat \ T : m <= n
    BY LeastNumber
  <1>2. m # 0 /\ m - 1 \in Nat
    OBVIOUS
  <1>3. m - 1 \in T
    BY <1>1, <1>2
  <1>4. (m - 1) + 1 \in T
    BY <1>2, <1>3
  <1> QED BY <1>4

-----------------------------------------------------------------------------
(* The function behind Total.                                              *)
SumTo(f, n) ==
    CHOOSE sum : sum = [k \in 0 .. n |-> IF k = 0 THEN 0 ELSE sum[k - 1] + f[k - 1]]

LEMMA TotalIsSum ==
    ASSUME NEW f, NEW n
    PROVE  Total(f, n) = SumTo(f, n)[n]
  BY DEF Total, SumTo

LEMMA SumExists ==
    ASSUME NEW f
    PROVE  \A n \in Nat :
             \E s : s = [k \in 0 .. n |-> IF k = 0 THEN 0 ELSE s[k - 1] + f[k - 1]]
  <1> DEFINE P(n) == \E s : s = [k \in 0 .. n |-> IF k = 0 THEN 0 ELSE s[k - 1] + f[k - 1]]
             T == {n \in Nat : P(n)}
  <1>1. 0 \in T
    <2> DEFINE g == [k \in 0 .. 0 |-> 0]
    <2>1. g = [k \in 0 .. 0 |-> IF k = 0 THEN 0 ELSE g[k - 1] + f[k - 1]]
      OBVIOUS
    <2>2. P(0)
      BY <2>1
    <2> QED BY <2>2
  <1>2. ASSUME NEW n \in Nat, n \in T PROVE n + 1 \in T
    <2>1. PICK s : s = [k \in 0 .. n |-> IF k = 0 THEN 0 ELSE s[k - 1] + f[k - 1]]
      BY <1>2
    <2> DEFINE g == [k \in 0 .. n + 1 |-> IF k = n + 1 THEN s[n] + f[n] ELSE s[k]]
    <2>2. ASSUME NEW k \in 0 .. n + 1
          PROVE  g[k] = IF k = 0 THEN 0 ELSE g[k - 1] + f[k - 1]
      <3>1. CASE k = 0
        BY <2>1, <3>1
      <3>2. CASE k = n + 1
        BY <3>2
      <3>3. CASE k \in 1 .. n
        <4>1. g[k] = s[k] /\ g[k - 1] = s[k - 1]
          BY <3>3
        <4>2. s[k] = s[k - 1] + f[k - 1]
          BY <2>1, <3>3
        <4> QED BY <4>1, <4>2, <3>3
      <3> QED BY <3>1, <3>2, <3>3
    <2>3. g = [k \in 0 .. n + 1 |-> IF k = 0 THEN 0 ELSE g[k - 1] + f[k - 1]]
      BY <2>2
    <2> HIDE DEF g
    <2>4. P(n + 1)
      BY <2>3
    <2> QED BY <2>4
  <1> HIDE DEF T
  <1>3. \A n \in Nat : n \in T
    BY <1>1, <1>2, AllNumbers
  <1> QED BY <1>3 DEF T

LEMMA SumSteps ==
    ASSUME NEW f, NEW n \in Nat
    PROVE  /\ SumTo(f, n)[0] = 0
           /\ \A k \in 1 .. n : SumTo(f, n)[k] = SumTo(f, n)[k - 1] + f[k - 1]
  <1> DEFINE s == SumTo(f, n)
  <1>1. s = [k \in 0 .. n |-> IF k = 0 THEN 0 ELSE s[k - 1] + f[k - 1]]
    BY SumExists DEF SumTo
  <1> HIDE DEF s
  <1>2. s[0] = 0 /\ \A k \in 1 .. n : s[k] = s[k - 1] + f[k - 1]
    BY <1>1
  <1> QED BY <1>2 DEF s

(* Only what is added counts, not where the sum goes on to.                *)
LEMMA SumAgrees ==
    ASSUME NEW f, NEW g, NEW n \in Nat, NEW m \in Nat,
           \A k \in 0 .. n - 1 : f[k] = g[k], n <= m
    PROVE  SumTo(f, n)[n] = SumTo(g, m)[n]
  <1> DEFINE T == {k \in Nat : k <= n => SumTo(f, n)[k] = SumTo(g, m)[k]}
  <1>1. 0 \in T
    BY SumSteps
  <1>2. ASSUME NEW k \in Nat, k \in T PROVE k + 1 \in T
    <2> SUFFICES ASSUME k + 1 <= n
                 PROVE  SumTo(f, n)[k + 1] = SumTo(g, m)[k + 1]
      OBVIOUS
    <2>1. SumTo(f, n)[k + 1] = SumTo(f, n)[k] + f[k]
      BY SumSteps
    <2>2. SumTo(g, m)[k + 1] = SumTo(g, m)[k] + g[k]
      BY SumSteps
    <2>3. SumTo(f, n)[k] = SumTo(g, m)[k] /\ f[k] = g[k]
      BY <1>2
    <2> QED BY <2>1, <2>2, <2>3
  <1> HIDE DEF T
  <1>3. n \in T
    BY <1>1, <1>2, AllNumbers
  <1> QED BY <1>3 DEF T

LEMMA TotalSteps ==
    ASSUME NEW f
    PROVE  /\ Total(f, 0) = 0
           /\ \A n \in Nat : Total(f, n + 1) = Total(f, n) + f[n]
  <1>1. Total(f, 0) = 0
    BY TotalIsSum, SumSteps
  <1>2. ASSUME NEW n \in Nat PROVE Total(f, n + 1) = Total(f, n) + f[n]
    <2>1. SumTo(f, n + 1)[n + 1] = SumTo(f, n + 1)[n] + f[n]
      BY SumSteps
    <2>2. SumTo(f, n)[n] = SumTo(f, n + 1)[n]
      BY SumAgrees
    <2> QED BY <2>1, <2>2, TotalIsSum
  <1> QED BY <1>1, <1>2

LEMMA TotalAgrees ==
    ASSUME NEW f, NEW g, NEW n \in Nat, \A k \in 0 .. n - 1 : f[k] = g[k]
    PROVE  Total(f, n) = Total(g, n)
  BY SumAgrees, TotalIsSum

LEMMA TotalInt ==
    ASSUME NEW n \in Nat, NEW f, \A k \in 0 .. n - 1 : f[k] \in Int
    PROVE  Total(f, n) \in Int
  <1> DEFINE T == {k \in Nat : k <= n => Total(f, k) \in Int}
  <1>1. 0 \in T
    BY TotalSteps
  <1>2. ASSUME NEW k \in Nat, k \in T PROVE k + 1 \in T
    BY <1>2, TotalSteps
  <1> HIDE DEF T
  <1>3. n \in T
    BY <1>1, <1>2, AllNumbers
  <1> QED BY <1>3 DEF T

LEMMA TotalBounds ==
    ASSUME NEW n \in Nat, NEW f, NEW low \in Int, NEW high \in Int,
           \A k \in 0 .. n - 1 : f[k] \in low .. high
    PROVE  Total(f, n) \in Int /\ n * low <= Total(f, n) /\ Total(f, n) <= n * high
  <1> DEFINE T == {k \in Nat : k <= n => /\ Total(f, k) \in Int
                                         /\ k * low <= Total(f, k)
                                         /\ Total(f, k) <= k * high}
  <1>1. 0 \in T
    BY TotalSteps
  <1>2. ASSUME NEW k \in Nat, k \in T PROVE k + 1 \in T
    <2> SUFFICES ASSUME k + 1 <= n
                 PROVE  /\ Total(f, k + 1) \in Int
                        /\ (k + 1) * low <= Total(f, k + 1)
                        /\ Total(f, k + 1) <= (k + 1) * high
      OBVIOUS
    <2>1. Total(f, k + 1) = Total(f, k) + f[k] /\ f[k] \in low .. high
      BY TotalSteps
    <2>2. (k + 1) * low = k * low + low /\ (k + 1) * high = k * high + high
      OBVIOUS
    <2>3. k * low \in Int /\ k * high \in Int
      OBVIOUS
    <2> QED BY <1>2, <2>1, <2>2, <2>3
  <1> HIDE DEF T
  <1>3. n \in T
    BY <1>1, <1>2, AllNumbers
  <1> QED BY <1>3 DEF T

(* The first summand taken out.                                            *)
LEMMA TotalShift ==
    ASSUME NEW n \in Nat, NEW f, NEW g,
           \A k \in 0 .. n : f[k] \in Int,
           \A k \in 0 .. n - 1 : g[k] = f[k + 1]
    PROVE  Total(f, n + 1) = f[0] + Total(g, n)
  <1> DEFINE T == {k \in Nat : k <= n => Total(f, k + 1) = f[0] + Total(g, k)}
  <1>1. 0 \in T
    <2>1. Total(f, 0 + 1) = Total(f, 0) + f[0] /\ Total(f, 0) = 0 /\ Total(g, 0) = 0
      BY TotalSteps
    <2> QED BY <2>1
  <1>2. ASSUME NEW k \in Nat, k \in T PROVE k + 1 \in T
    <2> SUFFICES ASSUME k + 1 <= n
                 PROVE  Total(f, (k + 1) + 1) = f[0] + Total(g, k + 1)
      OBVIOUS
    <2>1. Total(f, (k + 1) + 1) = Total(f, k + 1) + f[k + 1]
      BY TotalSteps
    <2>2. Total(g, k + 1) = Total(g, k) + g[k]
      BY TotalSteps
    <2>3. Total(f, k + 1) = f[0] + Total(g, k) /\ g[k] = f[k + 1]
      BY <1>2
    <2>4. Total(g, k) \in Int /\ f[0] \in Int /\ f[k + 1] \in Int
      BY TotalInt
    <2> QED BY <2>1, <2>2, <2>3, <2>4
  <1> HIDE DEF T
  <1>3. n \in T
    BY <1>1, <1>2, AllNumbers
  <1> QED BY <1>3 DEF T

LEMMA TotalNat ==
    ASSUME NEW n \in Nat, NEW f, \A k \in 0 .. n - 1 : f[k] \in Nat
    PROVE  Total(f, n) \in Nat
  <1> DEFINE T == {k \in Nat : k <= n => Total(f, k) \in Nat}
  <1>1. 0 \in T
    BY TotalSteps
  <1>2. ASSUME NEW k \in Nat, k \in T PROVE k + 1 \in T
    BY <1>2, TotalSteps
  <1> HIDE DEF T
  <1>3. n \in T
    BY <1>1, <1>2, AllNumbers
  <1> QED BY <1>3 DEF T

-----------------------------------------------------------------------------
(* Arithmetic of the filters.                                              *)
LEMMA Monotonic ==
    ASSUME NEW a \in Nat, NEW x \in Int, NEW y \in Int, x <= y
    PROVE  a * x \in Int /\ a * y \in Int /\ a * x <= a * y
  OBVIOUS

LEMMA SquareIsNat ==
    ASSUME NEW v \in Int
    PROVE  v * v \in Nat
  OBVIOUS

LEMMA DivisionExact ==
    ASSUME NEW a \in Nat, NEW b \in Nat \ {0}
    PROVE  a \div b \in Nat /\ b * (a \div b) <= a /\ a < b * (a \div b + 1)
  OBVIOUS

(* A mean lies between the least and the greatest of its values, whichever *)
(* way the division cuts.                                                  *)
LEMMA QuotientBounds ==
    ASSUME NEW a \in Int, NEW b \in Nat \ {0}, NEW low \in Int, NEW high \in Int,
           b * low <= a, a <= b * high
    PROVE  Quotient(a, b) \in Int /\ low <= Quotient(a, b) /\ Quotient(a, b) <= high
  <1>0. ASSUME NEW y \in Int, NEW z \in Int, b * y < b * (z + 1) PROVE y <= z
    <2> SUFFICES ASSUME z + 1 <= y PROVE FALSE
      OBVIOUS
    <2>1. /\ b * (z + 1) <= b * y /\ b * (z + 1) \in Int /\ b * y \in Int
      BY Monotonic
    <2> QED BY <1>0, <2>1
  <1>1. CASE a >= 0
    <2> DEFINE q == a \div b
    <2>1. q \in Nat /\ b * q <= a /\ a < b * (q + 1)
      BY <1>1, DivisionExact
    <2> HIDE DEF q
    <2>2. b * (high + 1) = b * high + b /\ b * high \in Int /\ b * low \in Int
          /\ b * q \in Int /\ b * (q + 1) \in Int
      BY <2>1
    <2>3. b * low < b * (q + 1) /\ b * q < b * (high + 1)
      BY <2>1, <2>2
    <2>4. low <= q /\ q <= high
      BY <1>0, <2>1, <2>3
    <2> QED BY <1>1, <2>1, <2>4 DEF Quotient, q
  <1>2. CASE ~(a >= 0)
    <2> DEFINE q == (-a) \div b
    <2>1. q \in Nat /\ b * q <= -a /\ -a < b * (q + 1)
      BY <1>2, DivisionExact
    <2> HIDE DEF q
    <2>2. /\ b * (-low + 1) = b - b * low /\ b * (-high) = -(b * high)
          /\ b * high \in Int /\ b * low \in Int /\ b * q \in Int /\ b * (q + 1) \in Int
      BY <2>1
    <2>3. b * (-high) < b * (q + 1) /\ b * q < b * (-low + 1)
      BY <2>1, <2>2
    <2>4. -high <= q /\ q <= -low
      BY <1>0, <2>1, <2>3
    <2>5. Quotient(a, b) = -q
      BY <1>2 DEF Quotient, q
    <2> QED BY <2>1, <2>4, <2>5
  <1> QED BY <1>1, <1>2

(* Every number has a whole root.                                          *)
LEMMA RootExists ==
    ASSUME NEW n \in Nat
    PROVE  \E r \in 0 .. n : r * r <= n /\ n < (r + 1) * (r + 1)
  <1> DEFINE T == {r \in Nat : n < (r + 1) * (r + 1)}
  <1>1. n \in T
    <2>1. (n + 1) * (n + 1) = n * n + 2 * n + 1 /\ n * n \in Nat
      OBVIOUS
    <2> QED BY <2>1
  <1>2. T \subseteq Nat
    OBVIOUS
  <1>3. PICK r \in T : \A m \in T : r <= m
    <2> HIDE DEF T
    <2> QED BY <1>1, <1>2, LeastNumber
  <1>4. r \in 0 .. n
    <2> HIDE DEF T
    <2> QED BY <1>1, <1>2, <1>3
  <1>5. r * r <= n
    <2>1. CASE r = 0
      BY <2>1
    <2>2. CASE r # 0
      <3>1. r - 1 \in Nat /\ r - 1 \notin T
        <4> HIDE DEF T
        <4> QED BY <1>3, <1>4, <2>2
      <3>2. ~(n < ((r - 1) + 1) * ((r - 1) + 1))
        BY <3>1
      <3>3. (r - 1) + 1 = r /\ r * r \in Nat
        BY <1>4
      <3> QED BY <3>2, <3>3
    <2> QED BY <2>1, <2>2
  <1> QED BY <1>3, <1>4, <1>5

LEMMA RootIs ==
    ASSUME NEW n \in Nat
    PROVE  /\ Root(n) \in Nat
           /\ Root(n) * Root(n) <= n
           /\ n < (Root(n) + 1) * (Root(n) + 1)
  <1> DEFINE P(r) == r * r <= n /\ n < (r + 1) * (r + 1)
  <1>1. \E r \in 0 .. n : P(r)
    BY RootExists
  <1>2. Root(n) = CHOOSE r \in 0 .. n : P(r)
    BY DEF Root
  <1> HIDE DEF P
  <1>3. Root(n) \in 0 .. n /\ P(Root(n))
    BY <1>1, <1>2
  <1> QED BY <1>3 DEF P

-----------------------------------------------------------------------------
(* The sum of squares of a window.                                         *)
LEMMA SquaresNat ==
    ASSUME NEW s \in Seq(Int)
    PROVE  Squares(s) \in Nat
  <1> DEFINE f == [k \in 0 .. Len(s) - 1 |-> s[k + 1] * s[k + 1]]
  <1>1. ASSUME NEW k \in 0 .. Len(s) - 1 PROVE f[k] \in Nat
    <2>1. s[k + 1] \in Int
      OBVIOUS
    <2> QED BY <2>1, SquareIsNat
  <1> HIDE DEF f
  <1>2. Len(s) \in Nat
    OBVIOUS
  <1> QED BY <1>1, <1>2, TotalNat DEF Squares, f

LEMMA SquaresBound ==
    ASSUME NEW h \in Nat, NEW s \in Seq(-h .. h)
    PROVE  Squares(s) <= Len(s) * (h * h)
  <1> DEFINE f == [k \in 0 .. Len(s) - 1 |-> s[k + 1] * s[k + 1]]
  <1>1. ASSUME NEW k \in 0 .. Len(s) - 1 PROVE f[k] \in 0 .. h * h
    <2>1. s[k + 1] \in -h .. h
      OBVIOUS
    <2>2. ASSUME NEW v \in -h .. h PROVE v * v \in 0 .. h * h
      OBVIOUS
    <2> QED BY <2>1, <2>2
  <1>2. Squares(s) = Total(f, Len(s))
    BY DEF Squares
  <1> HIDE DEF f
  <1>3. Len(s) \in Nat /\ 0 \in Int /\ h * h \in Int
    OBVIOUS
  <1>4. Total(f, Len(s)) <= Len(s) * (h * h)
    BY <1>1, <1>3, TotalBounds
  <1> QED BY <1>2, <1>4

LEMMA SquaresEnter ==
    ASSUME NEW w \in Seq(Int), NEW u \in Seq(Int), NEW v \in Int,
           Len(u) = Len(w) + 1,
           \A i \in 1 .. Len(w) : u[i] = w[i],
           u[Len(w) + 1] = v
    PROVE  Squares(u) = Squares(w) + v * v
  <1> DEFINE f == [k \in 0 .. Len(w) - 1 |-> w[k + 1] * w[k + 1]]
             g == [k \in 0 .. Len(u) - 1 |-> u[k + 1] * u[k + 1]]
  <1>1. Squares(w) = Total(f, Len(w)) /\ Squares(u) = Total(g, Len(u))
    BY DEF Squares
  <1>2. Len(w) \in Nat
    OBVIOUS
  <1>3. ASSUME NEW k \in 0 .. Len(w) - 1 PROVE f[k] = g[k]
    <2>1. k + 1 \in 1 .. Len(w) /\ k \in 0 .. Len(u) - 1
      BY <1>2
    <2>2. f[k] = w[k + 1] * w[k + 1] /\ g[k] = u[k + 1] * u[k + 1]
      BY <2>1
    <2> QED BY <2>1, <2>2, Zenon
  <1>4. g[Len(w)] = v * v
    BY <1>2
  <1> HIDE DEF f, g
  <1>5. Total(g, Len(w) + 1) = Total(g, Len(w)) + g[Len(w)]
    BY <1>2, TotalSteps
  <1>6. Total(f, Len(w)) = Total(g, Len(w))
    BY <1>2, <1>3, TotalAgrees
  <1> QED BY <1>1, <1>4, <1>5, <1>6

(* u is the window of m + 1 values behind w: the oldest is gone, v is new. *)
Behind(w, u, v, m) ==
    /\ m \in Nat /\ v \in Int
    /\ w \in Seq(Int) /\ Len(w) = m + 1
    /\ u \in Seq(Int) /\ Len(u) = m + 1
    /\ \A i \in 1 .. m : u[i] = w[i + 1]
    /\ u[m + 1] = v

LEMMA SquaresSlide ==
    ASSUME NEW w, NEW u, NEW v, NEW m, Behind(w, u, v, m)
    PROVE  Squares(u) = Squares(w) - w[1] * w[1] + v * v
  <1>0. /\ m \in Nat /\ v \in Int
        /\ w \in Seq(Int) /\ Len(w) = m + 1
        /\ u \in Seq(Int) /\ Len(u) = m + 1
        /\ \A i \in 1 .. m : u[i] = w[i + 1]
        /\ u[m + 1] = v
    BY DEF Behind
  <1> DEFINE f == [k \in 0 .. Len(w) - 1 |-> w[k + 1] * w[k + 1]]
             g == [k \in 0 .. Len(u) - 1 |-> u[k + 1] * u[k + 1]]
  <1>1. Squares(w) = Total(f, m + 1) /\ Squares(u) = Total(g, m + 1)
    BY <1>0 DEF Squares
  <1>2. ASSUME NEW k \in 0 .. m PROVE f[k] \in Int
    <2>1. f[k] = w[k + 1] * w[k + 1] /\ w[k + 1] \in Int
      BY <1>0
    <2> HIDE DEF f
    <2> QED BY <2>1
  <1>3. ASSUME NEW k \in 0 .. m - 1 PROVE g[k] = f[k + 1]
    <2>1. u[k + 1] = w[(k + 1) + 1]
      BY <1>0
    <2>2. g[k] = u[k + 1] * u[k + 1] /\ f[k + 1] = w[(k + 1) + 1] * w[(k + 1) + 1]
      BY <1>0
    <2> HIDE DEF f, g
    <2> QED BY <2>1, <2>2
  <1>4. f[0] = w[1] * w[1] /\ g[m] = v * v
    BY <1>0
  <1> HIDE DEF f, g
  <1>5. Total(f, m + 1) = f[0] + Total(g, m)
    BY <1>0, <1>2, <1>3, TotalShift
  <1>6. Total(g, m + 1) = Total(g, m) + g[m]
    BY <1>0, TotalSteps
  <1>7. ASSUME NEW k \in 0 .. m - 1 PROVE g[k] \in Int
    <2>1. k + 1 \in 0 .. m
      BY <1>0
    <2> QED BY <1>2, <1>3, <2>1
  <1>8. Total(g, m) \in Int
    BY <1>0, <1>7, TotalInt
  <1>9. f[0] \in Int /\ v * v \in Int
    BY <1>0, <1>2
  <1> QED BY <1>1, <1>4, <1>5, <1>6, <1>8, <1>9

LEMMA LastOfShort ==
    ASSUME NEW s \in Seq(Int), NEW R \in Nat, Len(s) <= R
    PROVE  LastOf(s, R) = s
  <1>1. LastOf(s, R) = SubSeq(s, 1, Len(s))
    <2>1. (IF Len(s) < R THEN 1 ELSE Len(s) - R + 1) = 1
      OBVIOUS
    <2> QED BY <2>1 DEF LastOf
  <1>2. SubSeq(s, 1, Len(s)) = s
    BY SubSeqFull
  <1> QED BY <1>1, <1>2

LEMMA LastOfLong ==
    ASSUME NEW s \in Seq(Int), NEW R \in Nat, R <= Len(s)
    PROVE  /\ LastOf(s, R) \in Seq(Int)
           /\ Len(LastOf(s, R)) = R
           /\ \A i \in 1 .. R : LastOf(s, R)[i] = s[Len(s) - R + i]
  <1> DEFINE n == Len(s)
             a == n - R + 1
             w == SubSeq(s, a, n)
  <1>1. n \in Nat /\ a \in 1 .. n + 1 /\ n - a + 1 = R
    OBVIOUS
  <1>2. LastOf(s, R) = w
    <2>1. a = IF Len(s) < R THEN 1 ELSE Len(s) - R + 1
      OBVIOUS
    <2> QED BY <2>1 DEF LastOf
  <1>3. \A i \in a .. n : s[i] \in Int
    BY <1>1
  <1>4. \A i \in 1 .. R : a + i - 1 = n - R + i
    OBVIOUS
  <1> HIDE DEF a
  <1>5. w \in Seq(Int) /\ Len(w) = n - a + 1 /\ \A i \in 1 .. n - a + 1 : w[i] = s[a + i - 1]
    BY <1>1, <1>3, SubSeqProperties
  <1> HIDE DEF w
  <1> QED BY <1>1, <1>2, <1>4, <1>5

(* A new value enters the window; the one R before it leaves.              *)
LEMMA WindowSlides ==
    ASSUME NEW s \in Seq(Int), NEW v \in Int, NEW R \in Nat \ {0}, NEW old \in Int,
           old = IF R <= Len(s) THEN s[Len(s) + 1 - R] ELSE 0
    PROVE  Squares(LastOf(Append(s, v), R)) = Squares(LastOf(s, R)) - old * old + v * v
  <1> DEFINE n == Len(s)
             t == Append(s, v)
             w == LastOf(s, R)
             u == LastOf(t, R)
  <1>1. /\ n \in Nat /\ R \in Nat /\ s \in Seq(Int)
        /\ t \in Seq(Int) /\ Len(t) = n + 1
        /\ t[n + 1] = v /\ \A i \in 1 .. n : t[i] = s[i]
    OBVIOUS
  <1> HIDE DEF t
  <1>2. CASE n < R
    <2>1. w = s /\ u = t
      BY <1>1, <1>2, LastOfShort
    <2>2. Squares(t) = Squares(s) + v * v
      BY <1>1, SquaresEnter
    <2>3. Squares(s) \in Nat /\ old = 0
      BY <1>2, SquaresNat
    <2>4. Squares(s) = Squares(s) - old * old
      BY <2>3
    <2> QED BY <2>1, <2>2, <2>4 DEF t
  <1>3. CASE R <= n
    <2> DEFINE m == R - 1
    <2>1. w \in Seq(Int) /\ Len(w) = R /\ \A i \in 1 .. R : w[i] = s[n - R + i]
      BY <1>1, <1>3, LastOfLong
    <2>2. u \in Seq(Int) /\ Len(u) = R /\ \A i \in 1 .. R : u[i] = t[Len(t) - R + i]
      <3>1. R <= Len(t)
        BY <1>1, <1>3
      <3> HIDE DEF n
      <3> QED BY <1>1, <3>1, LastOfLong
    <2> HIDE DEF u, w
    <2>3. m \in Nat /\ R = m + 1
      OBVIOUS
    <2>4. ASSUME NEW i \in 1 .. m PROVE u[i] = w[i + 1]
      <3>1. /\ i \in 1 .. R /\ i + 1 \in 1 .. R
            /\ (n + 1) - R + i = n - R + (i + 1) /\ (n + 1) - R + i \in 1 .. n
        BY <1>3
      <3>2. u[i] = t[(n + 1) - R + i] /\ w[i + 1] = s[n - R + (i + 1)]
        BY <1>1, <2>1, <2>2, <3>1
      <3>3. t[(n + 1) - R + i] = s[(n + 1) - R + i]
        BY <1>1, <3>1
      <3> QED BY <3>1, <3>2, <3>3
    <2>5. u[m + 1] = v
      <3>1. R \in 1 .. R /\ (n + 1) - R + R = n + 1
        OBVIOUS
      <3> QED BY <1>1, <2>2, <2>3, <3>1
    <2>6. w[1] = old
      <3>1. 1 \in 1 .. R /\ n - R + 1 = n + 1 - R
        OBVIOUS
      <3> QED BY <1>3, <2>1, <3>1
    <2>7. w \in Seq(Int) /\ u \in Seq(Int) /\ Len(w) = m + 1 /\ Len(u) = m + 1
      <3>1. Len(w) = R /\ Len(u) = R
        BY <2>1, <2>2, Zenon
      <3> QED BY <2>1, <2>2, <2>3, <3>1, Zenon
    <2> HIDE DEF m
    <2>8. Squares(u) = Squares(w) - w[1] * w[1] + v * v
      <3>1. Behind(w, u, v, m)
        BY <2>3, <2>4, <2>5, <2>7 DEF Behind
      <3> QED BY <3>1, SquaresSlide
    <2> QED BY <2>6, <2>8 DEF u, w, t
  <1> QED BY <1>1, <1>2, <1>3

-----------------------------------------------------------------------------
(* The place of the value that came d values ago.                          *)
Back(d) == IF d <= indexx THEN indexx - d ELSE indexx - d + RMS_BUFFER_SIZE

SignalType ==
    /\ buffer \in [0 .. BUFFER_LENGTH - 1 -> Converted] /\ index \in 0 .. BUFFER_LENGTH - 1
    /\ filtered \in Converted /\ offset \in Converted /\ gathered \in Nat
    /\ buffer_rms \in [0 .. RMS_BUFFER_SIZE - 1 -> Difference]
    /\ indexx \in 0 .. RMS_BUFFER_SIZE - 1
    /\ sum_squares \in Int
    /\ inputs \in Seq(Converted) /\ means \in Seq(Difference)

(* The ring holds the last differences, zeros where there were none.       *)
RingHolds ==
    \A d \in 1 .. RMS_BUFFER_SIZE :
      buffer_rms[Back(d)] = IF d <= Len(means) THEN means[Len(means) + 1 - d] ELSE 0

SumHolds ==
    /\ sum_squares = Squares(LastOf(means, RMS_BUFFER_SIZE))
    /\ rms_value = Root(Quotient(sum_squares, RMS_BUFFER_SIZE))

SignalInv == SignalType /\ RingHolds /\ SumHolds

LEMMA RangeIs ==
    ASSUME NEW a \in Int, NEW b \in Int
    PROVE  \A v : v \in a .. b <=> v \in Int /\ a <= v /\ v <= b
  OBVIOUS

LEMMA Ranges ==
    /\ \A v : v \in Converted <=> v \in Int /\ -8192 <= v /\ v <= 8191
    /\ \A v : v \in Difference <=> v \in Int /\ -16383 <= v /\ v <= 16383
    /\ 0 \in Converted /\ 0 \in Difference
    /\ \A a, b \in Converted : a - b \in Difference
    /\ Converted \subseteq Int /\ Difference \subseteq Int
  <1>2. \A v : v \in Converted <=> v \in Int /\ -8192 <= v /\ v <= 8191
    <2> DEFINE low == -8192
               high == 8191
    <2>1. low \in Int /\ high \in Int
      OBVIOUS
    <2>2. Converted = low .. high
      BY DEF Converted
    <2> HIDE DEF low, high
    <2>3. \A v : v \in Converted <=> v \in Int /\ low <= v /\ v <= high
      BY <2>1, <2>2, RangeIs
    <2> QED BY <2>3 DEF low, high
  <1>3. \A v : v \in Difference <=> v \in Int /\ -16383 <= v /\ v <= 16383
    <2> DEFINE low == -16383
               high == 16383
    <2>1. low \in Int /\ high \in Int
      OBVIOUS
    <2>2. Difference = low .. high
      BY DEF Difference
    <2> HIDE DEF low, high
    <2>3. \A v : v \in Difference <=> v \in Int /\ low <= v /\ v <= high
      BY <2>1, <2>2, RangeIs
    <2> QED BY <2>3 DEF low, high
  <1>4. ASSUME NEW a \in Converted, NEW b \in Converted PROVE a - b \in Difference
    BY <1>2, <1>3
  <1> QED BY <1>2, <1>3, <1>4

LEMMA DifferencesAreInts ==
    ASSUME NEW s \in Seq(Difference)
    PROVE  s \in Seq(Int)
  <1>1. \A i \in 1 .. Len(s) : s[i] \in Int
    BY Ranges
  <1>2. s = [i \in 1 .. Len(s) |-> s[i]] /\ Len(s) \in Nat
    OBVIOUS
  <1> QED BY <1>1, <1>2

LEMMA SignalConstants ==
    /\ BUFFER_LENGTH \in Nat \ {0} /\ RMS_BUFFER_SIZE \in Nat \ {0}
    /\ ALPHA_NUM \in Nat \ {0} /\ ALPHA_DEN \in Nat /\ ALPHA_NUM < ALPHA_DEN
    /\ ALPHA_DEN - ALPHA_NUM \in Nat /\ ALPHA_DEN \in Nat \ {0}
    /\ Inputs \subseteq Converted
  <1>1. ASSUME NEW v \in Inputs PROVE v \in Converted
    BY SignalAssumption
  <1>2. /\ BUFFER_LENGTH \in Nat \ {0} /\ RMS_BUFFER_SIZE \in Nat \ {0}
        /\ ALPHA_NUM \in Nat \ {0} /\ ALPHA_DEN \in Nat /\ ALPHA_NUM < ALPHA_DEN
    BY SignalAssumption
  <1>3. ALPHA_DEN - ALPHA_NUM \in Nat /\ ALPHA_DEN \in Nat \ {0}
    BY <1>2
  <1> QED BY <1>1, <1>2, <1>3

(* An index runs around its ring.                                          *)
LEMMA NextIndex ==
    ASSUME NEW n \in Nat \ {0}, NEW i \in 0 .. n - 1
    PROVE  /\ (i + 1) % n \in 0 .. n - 1
           /\ (i + 1) % n = IF i + 1 < n THEN i + 1 ELSE 0
  OBVIOUS

LEMMA AverageInRange ==
    ASSUME NEW array \in [0 .. BUFFER_LENGTH - 1 -> Converted]
    PROVE  average_of_vectors(array) \in Converted
  <1> DEFINE n == BUFFER_LENGTH
             t == Total(array, n)
  <1>1. n \in Nat \ {0}
    BY SignalConstants
  <1> HIDE DEF n
  <1>2. PICK low \in Int, high \in Int :
          /\ low <= 0 /\ 0 <= high
          /\ \A v : v \in Converted <=> v \in Int /\ low <= v /\ v <= high
    <2>1. -8192 \in Int /\ 8191 \in Int /\ -8192 <= 0 /\ 0 <= 8191
      OBVIOUS
    <2> QED BY <2>1, Ranges
  <1>3. \A k \in 0 .. n - 1 : array[k] \in low .. high
    BY <1>2 DEF n
  <1>4. t \in Int /\ n * low <= t /\ t <= n * high
    BY <1>1, <1>3, TotalBounds
  <1> HIDE DEF t
  <1>5. Quotient(t, n) \in Int /\ low <= Quotient(t, n) /\ Quotient(t, n) <= high
    BY <1>1, <1>2, <1>4, QuotientBounds
  <1>6. Quotient(t, n) \in Converted
    BY <1>2, <1>5
  <1> QED BY <1>6 DEF average_of_vectors, t, n

LEMMA FilterInRange ==
    ASSUME NEW p \in Converted, NEW v \in Converted
    PROVE  exponential_filter(p, v) \in Converted
  <1> DEFINE a == ALPHA_NUM
             d == ALPHA_DEN
             b == d - a
             x == a * v
             y == b * p
  <1>1. a \in Nat /\ b \in Nat /\ d \in Nat \ {0} /\ d = a + b
    BY SignalConstants
  <1> HIDE DEF a, b, d
  <1>2. PICK low \in Int, high \in Int :
          /\ low <= 0 /\ 0 <= high
          /\ \A u : u \in Converted <=> u \in Int /\ low <= u /\ u <= high
    <2>1. -8192 \in Int /\ 8191 \in Int /\ -8192 <= 0 /\ 0 <= 8191
      OBVIOUS
    <2> QED BY <2>1, Ranges
  <1>3. p \in Int /\ v \in Int /\ low <= p /\ p <= high /\ low <= v /\ v <= high
    BY <1>2
  <1>4. /\ a * low <= x /\ x <= a * high /\ x \in Int
        /\ b * low <= y /\ y <= b * high /\ y \in Int
    BY <1>1, <1>3, Monotonic
  <1>5. d * low = a * low + b * low /\ d * high = a * high + b * high
    BY <1>1
  <1>6. a * low \in Int /\ b * low \in Int /\ a * high \in Int /\ b * high \in Int
    BY <1>1
  <1> HIDE DEF x, y
  <1>7. x + y \in Int /\ d * low <= x + y /\ x + y <= d * high
    BY <1>4, <1>5, <1>6
  <1>8. /\ Quotient(x + y, d) \in Int
        /\ low <= Quotient(x + y, d) /\ Quotient(x + y, d) <= high
    BY <1>1, <1>2, <1>7, QuotientBounds
  <1>9. Quotient(x + y, d) \in Converted
    BY <1>2, <1>8
  <1> QED BY <1>9 DEF exponential_filter, x, y, a, b, d

LEMMA SignalStart == SignalInit => SignalInv
  <1> SUFFICES ASSUME SignalInit PROVE SignalInv
    OBVIOUS
  <1> USE SignalConstants
  <1>1. SignalType
    BY Ranges, SignalAssumption DEF SignalInit, SignalType
  <1>2. RingHolds
    <2>1. ASSUME NEW d \in 1 .. RMS_BUFFER_SIZE PROVE Back(d) \in 0 .. RMS_BUFFER_SIZE - 1
      BY DEF SignalInit, Back
    <2> QED BY <2>1 DEF SignalInit, RingHolds
  <1>3. SumHolds
    <2>1. means = <<>> /\ sum_squares = 0 /\ rms_value = 0
      BY DEF SignalInit
    <2>2. LastOf(means, RMS_BUFFER_SIZE) = means
      <3>1. <<>> \in Seq(Int) /\ Len(<<>>) = 0
        OBVIOUS
      <3>2. RMS_BUFFER_SIZE \in Nat /\ 0 <= RMS_BUFFER_SIZE
        OBVIOUS
      <3> QED BY <2>1, <3>1, <3>2, LastOfShort
    <2>3. Squares(<<>>) = 0
      BY TotalSteps DEF Squares
    <2>4. Quotient(0, RMS_BUFFER_SIZE) = 0
      BY DEF Quotient
    <2>5. Root(0) = 0
      BY RootIs DEF Root
    <2> QED BY <2>1, <2>2, <2>3, <2>4, <2>5 DEF SumHolds
  <1> QED BY <1>1, <1>2, <1>3 DEF SignalInv

(* A new difference in the ring, seen from the index behind it.            *)
LEMMA RingStep ==
    ASSUME SignalInv, NEW v \in Difference, update_rms(v), means' = Append(means, v)
    PROVE  /\ buffer_rms' \in [0 .. RMS_BUFFER_SIZE - 1 -> Difference]
           /\ indexx' \in 0 .. RMS_BUFFER_SIZE - 1
           /\ RingHolds'
  <1> DEFINE R == RMS_BUFFER_SIZE
             n == Len(means)
  <1> USE SignalConstants
  <1>1. /\ indexx \in 0 .. R - 1 /\ buffer_rms \in [0 .. R - 1 -> Difference]
        /\ means \in Seq(Difference) /\ n \in Nat
    BY DEF SignalInv, SignalType
  <1>2. /\ buffer_rms' = [buffer_rms EXCEPT ![indexx] = v]
        /\ indexx' = (indexx + 1) % R
    BY DEF update_rms
  <1>3. indexx' \in 0 .. R - 1 /\ indexx' = IF indexx + 1 < R THEN indexx + 1 ELSE 0
    BY <1>1, <1>2, NextIndex
  <1>4. buffer_rms' \in [0 .. R - 1 -> Difference]
    BY <1>1, <1>2
  <1>5. /\ Len(means') = n + 1 /\ means'[n + 1] = v
        /\ \A i \in 1 .. n : means'[i] = means[i]
    BY <1>1
  <1>6. ASSUME NEW d \in 1 .. R
        PROVE  buffer_rms'[Back(d)'] = IF d <= n + 1 THEN means'[(n + 1) + 1 - d] ELSE 0
    <2>1. CASE d = 1
      <3>1. Back(d)' = indexx
        BY <1>1, <1>3, <2>1 DEF Back
      <3>2. buffer_rms'[indexx] = v
        BY <1>1, <1>2
      <3> QED BY <1>1, <1>5, <2>1, <3>1, <3>2
    <2>2. CASE d # 1
      <3> DEFINE e == d - 1
      <3>1. e \in 1 .. R - 1 /\ e \in 1 .. R /\ d = e + 1
        BY <2>2
      <3> HIDE DEF e
      <3>2. Back(d)' = Back(e) /\ Back(e) # indexx /\ Back(e) \in 0 .. R - 1
        BY <1>1, <1>3, <3>1 DEF Back
      <3>3. buffer_rms'[Back(e)] = buffer_rms[Back(e)]
        BY <1>1, <1>2, <3>2
      <3>4. buffer_rms[Back(e)] = IF e <= n THEN means[n + 1 - e] ELSE 0
        BY <3>1 DEF SignalInv, RingHolds
      <3>5. e <= n => means'[(n + 1) + 1 - d] = means[n + 1 - e]
        BY <1>1, <1>5, <3>1
      <3> QED BY <1>1, <3>1, <3>2, <3>3, <3>4, <3>5
    <2> QED BY <2>1, <2>2
  <1> QED BY <1>3, <1>4, <1>5, <1>6 DEF RingHolds

LEMMA SumStep ==
    ASSUME SignalInv, NEW v \in Difference, update_rms(v), means' = Append(means, v)
    PROVE  sum_squares' \in Int /\ SumHolds'
  <1> DEFINE R == RMS_BUFFER_SIZE
             n == Len(means)
             old == buffer_rms[indexx]
  <1> USE SignalConstants
  <1>1. /\ indexx \in 0 .. R - 1 /\ buffer_rms \in [0 .. R - 1 -> Difference]
        /\ means \in Seq(Int) /\ n \in Nat /\ v \in Int
    <2>1. means \in Seq(Int) /\ v \in Int
      BY DifferencesAreInts, Ranges DEF SignalInv, SignalType
    <2> QED BY <2>1 DEF SignalInv, SignalType
  <1>2. old \in Int
    BY <1>1, Ranges
  <1>3. old = IF R <= n THEN means[n + 1 - R] ELSE 0
    <2>1. R \in 1 .. R /\ Back(R) = indexx
      BY <1>1 DEF Back
    <2> QED BY <2>1 DEF SignalInv, RingHolds
  <1>4. sum_squares' = sum_squares - old * old + v * v
    BY DEF update_rms, Oldest
  <1> HIDE DEF old
  <1>5. Squares(LastOf(Append(means, v), R)) = Squares(LastOf(means, R)) - old * old + v * v
    BY <1>1, <1>2, <1>3, WindowSlides
  <1>6. sum_squares' = Squares(LastOf(means', R))
    BY <1>4, <1>5 DEF SignalInv, SumHolds
  <1>7. rms_value' = Root(Quotient(sum_squares', R))
    BY DEF update_rms
  <1>8. sum_squares' \in Int
    <2>1. sum_squares \in Int /\ old * old \in Int /\ v * v \in Int
      BY <1>1, <1>2 DEF SignalInv, SignalType
    <2> QED BY <1>4, <2>1
  <1> QED BY <1>6, <1>7, <1>8 DEF SumHolds

LEMMA LineStep ==
    ASSUME SignalInv, NEW v \in Inputs, add_samples_to_buffer(v),
           inputs' = Append(inputs, v)
    PROVE  /\ buffer' \in [0 .. BUFFER_LENGTH - 1 -> Converted]
           /\ index' \in 0 .. BUFFER_LENGTH - 1
           /\ inputs' \in Seq(Converted)
  <1>1. v \in Converted
    BY SignalConstants
  <1>2. index' \in 0 .. BUFFER_LENGTH - 1
    BY SignalConstants, NextIndex DEF SignalInv, SignalType, add_samples_to_buffer
  <1> QED BY <1>1, <1>2 DEF SignalInv, SignalType, add_samples_to_buffer

LEMMA SignalStep == SignalInv /\ [SignalNext]_signalVars => SignalInv'
  <1> SUFFICES ASSUME SignalInv, [SignalNext]_signalVars PROVE SignalInv'
    OBVIOUS
  <1>1. ASSUME NEW v \in Inputs, GatherOffset(v) PROVE SignalInv'
    <2>1. /\ buffer' \in [0 .. BUFFER_LENGTH - 1 -> Converted]
          /\ index' \in 0 .. BUFFER_LENGTH - 1 /\ inputs' \in Seq(Converted)
      BY <1>1, LineStep DEF GatherOffset
    <2>2. exponential_filter(filtered, average_of_vectors(buffer')) \in Converted
      BY <2>1, AverageInRange, FilterInRange DEF SignalInv, SignalType
    <2>3. filtered' \in Converted /\ offset' \in Converted /\ gathered' \in Nat
      BY <1>1, <2>2, Ranges DEF GatherOffset, SignalInv, SignalType
    <2>4. UNCHANGED <<buffer_rms, indexx, sum_squares, rms_value, means>>
      BY <1>1 DEF GatherOffset, rmsVars
    <2>5. SignalType'
      BY <2>1, <2>3, <2>4 DEF SignalInv, SignalType
    <2>6. RingHolds' /\ SumHolds'
      BY <2>4 DEF SignalInv, RingHolds, SumHolds, Back
    <2> QED BY <2>5, <2>6 DEF SignalInv
  <1>2. ASSUME NEW v \in Inputs, Measure(v) PROVE SignalInv'
    <2>1. /\ buffer' \in [0 .. BUFFER_LENGTH - 1 -> Converted]
          /\ index' \in 0 .. BUFFER_LENGTH - 1 /\ inputs' \in Seq(Converted)
      BY <1>2, LineStep DEF Measure
    <2> DEFINE s == average_of_vectors(buffer') - offset
    <2>2. s \in Difference
      <3>1. average_of_vectors(buffer') \in Converted /\ offset \in Converted
        BY <2>1, AverageInRange DEF SignalInv, SignalType
      <3> QED BY <3>1, Ranges
    <2>3. update_rms(s) /\ means' = Append(means, s)
      BY <1>2 DEF Measure
    <2> HIDE DEF s
    <2>4. /\ buffer_rms' \in [0 .. RMS_BUFFER_SIZE - 1 -> Difference]
          /\ indexx' \in 0 .. RMS_BUFFER_SIZE - 1 /\ RingHolds'
      BY <2>2, <2>3, RingStep
    <2>5. sum_squares' \in Int /\ SumHolds'
      BY <2>2, <2>3, SumStep
    <2>6. means' \in Seq(Difference)
      BY <2>2, <2>3 DEF SignalInv, SignalType
    <2>7. filtered' = filtered /\ offset' = offset /\ gathered' = gathered
      BY <1>2 DEF Measure, offsetVars
    <2>8. SignalType'
      BY <2>1, <2>4, <2>5, <2>6, <2>7 DEF SignalInv, SignalType
    <2> QED BY <2>4, <2>5, <2>8 DEF SignalInv
  <1>3. CASE UNCHANGED signalVars
    BY <1>3 DEF signalVars, lineVars, offsetVars, rmsVars, SignalInv, SignalType,
       RingHolds, SumHolds, Back
  <1> QED BY <1>1, <1>2, <1>3 DEF SignalNext

LEMMA SignalInvariant == SignalSpec => []SignalInv
  BY SignalStart, SignalStep, PTL DEF SignalSpec

(* The window is exact for every length of the buffers, every weight of    *)
(* the filter and whatever the ADC gave before: update_rms takes away the  *)
(* square it has put in RMS_BUFFER_SIZE samples ago and no other.          *)
THEOREM EffectiveValue == SignalSpec => []WindowExact
  <1>1. SignalInv => WindowExact
    <2> SUFFICES ASSUME SignalInv PROVE WindowExact
      OBVIOUS
    <2> DEFINE R == RMS_BUFFER_SIZE
               S == sum_squares
               q == S \div R
               r == rms_value
    <2>1. R \in Nat \ {0}
      BY SignalConstants
    <2>2. S = Squares(LastOf(means, R))
      BY DEF SignalInv, SumHolds
    <2>3. S \in Nat
      <3>1. means \in Seq(Int)
        BY DifferencesAreInts DEF SignalInv, SignalType
      <3>2. LastOf(means, R) \in Seq(Int)
        <4>1. CASE Len(means) <= R
          BY <2>1, <3>1, <4>1, LastOfShort
        <4>2. CASE R <= Len(means)
          BY <2>1, <3>1, <4>2, LastOfLong
        <4>3. Len(means) \in Nat
          BY <3>1
        <4> QED BY <2>1, <4>1, <4>2, <4>3
      <3> QED BY <2>2, <3>2, SquaresNat
    <2>4. r = Root(q)
      BY <2>3 DEF SignalInv, SumHolds, Quotient
    <2> HIDE DEF R, S, r
    <2>5. q \in Nat /\ R * q <= S /\ S < R * (q + 1)
      BY <2>1, <2>3, DivisionExact
    <2> HIDE DEF q
    <2>6. r \in Nat /\ r * r <= q /\ q < (r + 1) * (r + 1)
      BY <2>4, <2>5, RootIs
    <2>7. r * r \in Nat /\ (r + 1) * (r + 1) \in Nat /\ q + 1 <= (r + 1) * (r + 1)
      BY <2>5, <2>6
    <2>8. R * (r * r) <= R * q /\ R * (q + 1) <= R * ((r + 1) * (r + 1))
      BY <2>1, <2>5, <2>6, <2>7, Monotonic
    <2>9. R * (r * r) <= S /\ S < R * ((r + 1) * (r + 1))
      BY <2>1, <2>3, <2>5, <2>7, <2>8
    <2>10. R * (r * r) = r * r * R /\ R * ((r + 1) * (r + 1)) = (r + 1) * (r + 1) * R
      BY <2>1, <2>6
    <2> QED BY <2>2, <2>9, <2>10 DEF WindowExact, R, S, r
  <1> QED BY <1>1, SignalInvariant, PTL

-----------------------------------------------------------------------------
(* The filter on a line at one level v: what is left to the level, from    *)
(* above or from below, falls.                                             *)
Rest(v, f) == IF f >= v THEN f - v ELSE v - f

LEMMA RestIs ==
    ASSUME NEW v \in Int, NEW f \in Int
    PROVE  /\ Rest(v, f) \in Nat
           /\ \A m \in Int : Rest(v, f) <= m <=> v - m <= f /\ f <= v + m
  BY DEF Rest

LEMMA Cancel ==
    ASSUME NEW a \in Nat \ {0}, NEW x \in Int, NEW y \in Int
    PROVE  /\ a * x < a * y => x < y
           /\ a * x = a * y => x = y
  <1>1. ASSUME x >= y PROVE a * x >= a * y
    BY <1>1
  <1>2. ASSUME x > y PROVE a * x > a * y
    BY <1>2
  <1>3. ASSUME x < y PROVE a * x < a * y
    BY <1>3
  <1>4. a * x \in Int /\ a * y \in Int
    OBVIOUS
  <1> QED BY <1>1, <1>2, <1>3, <1>4

LEMMA FilterBetween ==
    ASSUME NEW p \in Int, NEW u \in Int, NEW low \in Int, NEW high \in Int,
           ALPHA_DEN * low <= ALPHA_NUM * u + (ALPHA_DEN - ALPHA_NUM) * p,
           ALPHA_NUM * u + (ALPHA_DEN - ALPHA_NUM) * p <= ALPHA_DEN * high
    PROVE  /\ exponential_filter(p, u) \in Int
           /\ low <= exponential_filter(p, u) /\ exponential_filter(p, u) <= high
  <1> DEFINE d == ALPHA_DEN
             x == ALPHA_NUM * u + (ALPHA_DEN - ALPHA_NUM) * p
  <1>1. d \in Nat \ {0} /\ x \in Int
    BY SignalConstants
  <1>2. d * low <= x /\ x <= d * high
    OBVIOUS
  <1>3. exponential_filter(p, u) = Quotient(x, d)
    BY DEF exponential_filter
  <1> HIDE DEF d, x
  <1> QED BY <1>1, <1>2, <1>3, QuotientBounds

(* A step leaves no more of the rest than there was before, or than there  *)
(* is to the new value.                                                    *)
LEMMA FilterStays ==
    ASSUME NEW v \in Int, NEW p \in Int, NEW u \in Int, NEW m \in Int,
           Rest(v, p) <= m, Rest(v, u) <= m
    PROVE  exponential_filter(p, u) \in Int /\ Rest(v, exponential_filter(p, u)) <= m
  <1> DEFINE a == ALPHA_NUM
             d == ALPHA_DEN
             b == ALPHA_DEN - ALPHA_NUM
             low == v - m
             high == v + m
  <1>1. a \in Nat /\ b \in Nat /\ d \in Nat \ {0} /\ d = a + b
    BY SignalConstants
  <1>2. low \in Int /\ high \in Int /\ low <= p /\ p <= high /\ low <= u /\ u <= high
    BY RestIs
  <1>3. \A f \in Int : low <= f /\ f <= high => Rest(v, f) <= m
    BY RestIs
  <1> HIDE DEF a, b, d, low, high
  <1>4. /\ a * low <= a * u /\ a * u <= a * high /\ b * low <= b * p /\ b * p <= b * high
        /\ a * u \in Int /\ b * p \in Int
    BY <1>1, <1>2, Monotonic
  <1>5. /\ d * low = a * low + b * low /\ d * high = a * high + b * high
        /\ a * low \in Int /\ b * low \in Int /\ a * high \in Int /\ b * high \in Int
    <2>1. ASSUME NEW z \in Int PROVE d * z = a * z + b * z /\ a * z \in Int /\ b * z \in Int
      <3>1. (a + b) * z = a * z + b * z
        BY <1>1
      <3> QED BY <1>1, <3>1
    <2> QED BY <1>2, <2>1
  <1>6. d * low <= a * u + b * p /\ a * u + b * p <= d * high
    BY <1>4, <1>5
  <1>7. /\ exponential_filter(p, u) \in Int
        /\ low <= exponential_filter(p, u) /\ exponential_filter(p, u) <= high
    BY <1>2, <1>6, FilterBetween DEF a, b, d
  <1> QED BY <1>3, <1>7

(* Where alpha times the rest is a whole k, a step takes k of it away.     *)
LEMMA FilterCloses ==
    ASSUME NEW v \in Int, NEW p \in Int, NEW k \in Nat,
           ALPHA_NUM * Rest(v, p) >= k * ALPHA_DEN
    PROVE  /\ exponential_filter(p, v) \in Int
           /\ Rest(v, exponential_filter(p, v)) <= Rest(v, p) - k
  <1> DEFINE a == ALPHA_NUM
             d == ALPHA_DEN
             b == ALPHA_DEN - ALPHA_NUM
             e == Rest(v, p)
             x == a * v + b * p
  <1>1. a \in Nat \ {0} /\ b \in Nat /\ d \in Nat \ {0} /\ d = a + b
    BY SignalConstants
  <1>2. e \in Nat /\ a * e >= k * d
    BY RestIs
  <1>3. \/ p >= v /\ e = p - v
        \/ p < v /\ e = v - p
    BY DEF Rest
  <1> HIDE DEF a, b, d, e
  <1>4. CASE p >= v
    <2>1. x = d * v + b * e /\ x = d * p - a * e /\ d * (p - k) = d * p - k * d
      <3>1. e = p - v
        BY <1>3, <1>4
      <3>2. b * (v + e) = b * v + b * e /\ a * (p - e) = a * p - a * e
            /\ (a + b) * v = a * v + b * v /\ (a + b) * p = a * p + b * p
        BY <1>1, <1>2
      <3>3. p = v + e /\ v = p - e
        BY <1>2, <3>1
      <3>4. d * (p - k) = d * p - k * d
        BY <1>1
      <3>5. /\ a * v \in Int /\ b * v \in Int /\ b * e \in Int /\ a * p \in Int
            /\ b * p \in Int /\ a * e \in Int
        BY <1>1, <1>2
      <3>6. b * p = b * v + b * e /\ a * v = a * p - a * e
        BY <3>2, <3>3
      <3> QED BY <1>1, <3>2, <3>4, <3>5, <3>6
    <2>2. /\ b * e \in Nat /\ d * v \in Int /\ d * p \in Int /\ a * e \in Int /\ k * d \in Int
      BY <1>1, <1>2
    <2>3. d * v <= x /\ x <= d * (p - k)
      BY <1>2, <2>1, <2>2
    <2> DEFINE high == p - k
    <2>4. high \in Int /\ d * v <= x /\ x <= d * high
      BY <2>3
    <2> HIDE DEF high
    <2>5. /\ exponential_filter(p, v) \in Int
          /\ v <= exponential_filter(p, v) /\ exponential_filter(p, v) <= high
      BY <2>4, FilterBetween DEF a, b, d
    <2> QED BY <1>2, <1>3, <1>4, <2>5 DEF Rest, e, high
  <1>5. CASE p < v
    <2>1. x = d * v - b * e /\ x = d * p + a * e /\ d * (p + k) = d * p + k * d
      <3>1. e = v - p
        BY <1>3, <1>5
      <3>2. b * (v - e) = b * v - b * e /\ a * (p + e) = a * p + a * e
            /\ (a + b) * v = a * v + b * v /\ (a + b) * p = a * p + b * p
        BY <1>1, <1>2
      <3>3. p = v - e /\ v = p + e
        BY <1>2, <3>1
      <3>4. d * (p + k) = d * p + k * d
        BY <1>1
      <3>5. /\ a * v \in Int /\ b * v \in Int /\ b * e \in Int /\ a * p \in Int
            /\ b * p \in Int /\ a * e \in Int
        BY <1>1, <1>2
      <3>6. b * p = b * v - b * e /\ a * v = a * p + a * e
        BY <3>2, <3>3
      <3> QED BY <1>1, <3>2, <3>4, <3>5, <3>6
    <2>2. /\ b * e \in Nat /\ d * v \in Int /\ d * p \in Int /\ a * e \in Int /\ k * d \in Int
      BY <1>1, <1>2
    <2>3. d * (p + k) <= x /\ x <= d * v
      BY <1>2, <2>1, <2>2
    <2> DEFINE low == p + k
    <2>4. low \in Int /\ d * low <= x /\ x <= d * v
      BY <2>3
    <2> HIDE DEF low
    <2>5. /\ exponential_filter(p, v) \in Int
          /\ low <= exponential_filter(p, v) /\ exponential_filter(p, v) <= v
      BY <2>4, FilterBetween DEF a, b, d
    <2> QED BY <1>2, <1>3, <1>5, <2>5 DEF Rest, e, low
  <1> QED BY <1>4, <1>5

(* A bound for four times the steps the filter still takes: four of the    *)
(* rest at a time while it is large, then one, k at most.                  *)
Left(d, k) == IF ALPHA_NUM * d >= 4 * ALPHA_DEN THEN d + 4 * k ELSE 4 * d

Settled(d) == ALPHA_NUM * d < ALPHA_DEN

LEMMA LeftFalls ==
    ASSUME NEW k \in Nat, ALPHA_NUM * k >= 4 * ALPHA_DEN,
           NEW d \in Nat, NEW e \in Nat,
           e <= d,
           ALPHA_NUM * d >= 1 * ALPHA_DEN => e <= d - 1,
           ALPHA_NUM * d >= 4 * ALPHA_DEN => e <= d - 4
    PROVE  /\ Left(d, k) \in Nat /\ Left(d, k) <= d + 4 * k
           /\ Settled(e) \/ Left(e, k) <= Left(d, k) - 4
  <1> DEFINE a == ALPHA_NUM
             c == ALPHA_DEN
  <1>0. a \in Nat \ {0} /\ c \in Nat \ {0}
    BY SignalConstants
  <1>1. a * d \in Int /\ a * e \in Int /\ a * k \in Int /\ a * e <= a * d
    BY <1>0, Monotonic
  <1>2. ASSUME NEW x \in Nat, a * x < 4 * c PROVE x < k
    <2>1. a * x < a * k
      BY <1>0, <1>1, <1>2
    <2> QED BY <1>0, <2>1, Cancel
  <1> DEFINE x == a * d
             y == a * e
  <1>3. /\ x \in Int /\ y \in Int /\ y <= x /\ c \in Nat
        /\ x >= c => e <= d - 1
        /\ x >= 4 * c => e <= d - 4
    BY <1>0, <1>1
  <1>4. /\ Left(d, k) = IF x >= 4 * c THEN d + 4 * k ELSE 4 * d
        /\ Left(e, k) = IF y >= 4 * c THEN e + 4 * k ELSE 4 * e
        /\ Settled(e) <=> y < c
    BY DEF Left, Settled
  <1>5. /\ x < 4 * c => d < k
        /\ y < 4 * c => e < k
    BY <1>2
  <1> HIDE DEF a, c, x, y
  <1>6. x < c \/ (x >= c /\ x < 4 * c) \/ x >= 4 * c
    BY <1>3
  <1> QED BY <1>3, <1>4, <1>5, <1>6

(* One step of the filter on a line at one level.                          *)
LEMMA FilterStep ==
    ASSUME NEW v \in Int, NEW p \in Int,
           NEW k \in Nat, ALPHA_NUM * k >= 4 * ALPHA_DEN
    PROVE  \/ Settled(Rest(v, exponential_filter(p, v)))
           \/ Left(Rest(v, exponential_filter(p, v)), k) <= Left(Rest(v, p), k) - 4
  <1> DEFINE f == exponential_filter(p, v)
             d == Rest(v, p)
             e == Rest(v, f)
  <1>1. d \in Nat
    BY RestIs
  <1>2. ALPHA_NUM \in Nat /\ ALPHA_DEN \in Nat
    BY SignalConstants
  <1>3. ALPHA_NUM * d >= 0 * ALPHA_DEN
    BY <1>1, <1>2
  <1>4. f \in Int /\ e <= d - 0
    BY <1>3, FilterCloses
  <1>5. ALPHA_NUM * d >= 1 * ALPHA_DEN => e <= d - 1
    BY FilterCloses
  <1>6. ALPHA_NUM * d >= 4 * ALPHA_DEN => e <= d - 4
    BY FilterCloses
  <1> HIDE DEF f
  <1>7. e \in Nat
    BY <1>4, RestIs
  <1> HIDE DEF d, e
  <1>8. e <= d
    BY <1>1, <1>4, <1>7
  <1>9. Settled(e) \/ Left(e, k) <= Left(d, k) - 4
    BY <1>1, <1>5, <1>6, <1>7, <1>8, LeftFalls
  <1> QED BY <1>9 DEF d, e, f

(* A division that leaves nothing over.                                    *)
LEMMA QuotientExact ==
    ASSUME NEW n \in Nat \ {0}, NEW x \in Nat
    PROVE  Quotient(n * x, n) = x
  <1>1. n * x \in Nat
    OBVIOUS
  <1>2. Quotient(n * x, n) = (n * x) \div n
    BY <1>1 DEF Quotient
  <1> DEFINE q == (n * x) \div n
  <1>3. q \in Nat /\ n * q <= n * x /\ n * x < n * (q + 1)
    BY <1>1, DivisionExact
  <1> HIDE DEF q
  <1>4. n * (q + 1) = n * q + n
    BY <1>3
  <1>5. x < q + 1
    BY <1>3, Cancel
  <1>6. x < q => n * x < n * q
    BY <1>3
  <1>7. n * q \in Int
    BY <1>3
  <1> QED BY <1>1, <1>2, <1>3, <1>5, <1>6, <1>7 DEF q

(* What the averaging makes of a line that has only had one level, before  *)
(* and after the buffer is full of it.                                     *)
LEMMA AverageOfLevel ==
    ASSUME NEW v \in Int, NEW f, \A j \in 0 .. BUFFER_LENGTH - 1 : f[j] \in {0, v}
    PROVE  /\ average_of_vectors(f) \in Int
           /\ Rest(v, average_of_vectors(f)) <= Rest(v, 0)
           /\ (\A j \in 0 .. BUFFER_LENGTH - 1 : f[j] = v) => average_of_vectors(f) = v
  <1> DEFINE n == BUFFER_LENGTH
             t == Total(f, n)
             low == IF v >= 0 THEN 0 ELSE v
             high == IF v >= 0 THEN v ELSE 0
  <1>1. n \in Nat \ {0}
    BY SignalConstants
  <1>2. low \in Int /\ high \in Int
    OBVIOUS
  <1>3. \A j \in 0 .. n - 1 : f[j] \in low .. high
    OBVIOUS
  <1>4. average_of_vectors(f) = Quotient(t, n)
    BY DEF average_of_vectors
  <1>5. \A q \in Int : low <= q /\ q <= high => Rest(v, q) <= Rest(v, 0)
    BY DEF Rest
  <1> HIDE DEF n, low, high
  <1>6. t \in Int /\ n * low <= t /\ t <= n * high
    BY <1>1, <1>2, <1>3, TotalBounds
  <1> HIDE DEF t
  <1>7. Quotient(t, n) \in Int /\ low <= Quotient(t, n) /\ Quotient(t, n) <= high
    BY <1>1, <1>2, <1>6, QuotientBounds
  <1>8. ASSUME \A j \in 0 .. n - 1 : f[j] = v PROVE Quotient(t, n) = v
    <2>1. \A j \in 0 .. n - 1 : f[j] \in v .. v
      BY <1>8
    <2>2. n * v <= t /\ t <= n * v
      BY <1>1, <2>1, TotalBounds DEF t
    <2>3. v <= Quotient(t, n) /\ Quotient(t, n) <= v
      BY <1>1, <1>6, <2>2, QuotientBounds
    <2> QED BY <1>7, <2>3
  <1> QED BY <1>4, <1>5, <1>7, <1>8 DEF n

LEMMA RootOfSquare ==
    ASSUME NEW h \in Nat
    PROVE  Root(h * h) = h
  <1> DEFINE r == Root(h * h)
  <1>1. h * h \in Nat
    OBVIOUS
  <1>2. r \in Nat /\ r * r <= h * h /\ h * h < (r + 1) * (r + 1)
    BY <1>1, RootIs
  <1> HIDE DEF r
  <1>3. ASSUME r > h PROVE FALSE
    <2>1. r * r >= (h + 1) * (h + 1)
      BY <1>2, <1>3
    <2>2. (h + 1) * (h + 1) = h * h + 2 * h + 1
      OBVIOUS
    <2> QED BY <1>1, <1>2, <2>1, <2>2
  <1>4. ASSUME r < h PROVE FALSE
    <2>1. (r + 1) * (r + 1) <= h * h
      BY <1>2, <1>4
    <2> QED BY <1>1, <1>2, <2>1
  <1>5. r = h
    BY <1>2, <1>3, <1>4
  <1> QED BY <1>5 DEF r

-----------------------------------------------------------------------------
(* The buffer of the averaging holds the last inputs, zeros before them.   *)
Place(i, d) == IF d <= i THEN i - d ELSE i - d + BUFFER_LENGTH

Holds(array, i, s) ==
    \A d \in 1 .. BUFFER_LENGTH :
      array[Place(i, d)] = IF d <= Len(s) THEN s[Len(s) + 1 - d] ELSE 0

LineHolds == Holds(buffer, index, inputs)

(* The line has been at level v from the a-th sample to the b-th.          *)
Level(s, v, a, b) == \A j \in a .. b : s[j] = v

LineInv ==
    /\ LineHolds
    /\ gathered <= OffsetGatherCnt
    /\ Len(inputs) = gathered + Len(means)
    /\ gathered < OffsetGatherCnt => means = <<>>

LEMMA LineMoves ==
    ASSUME SignalInv, LineInv, NEW v \in Inputs, add_samples_to_buffer(v),
           inputs' = Append(inputs, v)
    PROVE  /\ LineHolds'
           /\ Len(inputs') = Len(inputs) + 1
           /\ inputs'[Len(inputs) + 1] = v
           /\ \A j \in 1 .. Len(inputs) : inputs'[j] = inputs[j]
  <1> DEFINE B == BUFFER_LENGTH
             n == Len(inputs)
  <1> USE SignalConstants
  <1>1. /\ index \in 0 .. B - 1 /\ buffer \in [0 .. B - 1 -> Converted]
        /\ inputs \in Seq(Converted) /\ n \in Nat /\ v \in Converted
    BY DEF SignalInv, SignalType
  <1>2. buffer' = [buffer EXCEPT ![index] = v] /\ index' = (index + 1) % B
    BY DEF add_samples_to_buffer
  <1>3. index' \in 0 .. B - 1 /\ index' = IF index + 1 < B THEN index + 1 ELSE 0
    BY <1>1, <1>2, NextIndex
  <1>4. /\ Len(inputs') = n + 1 /\ inputs'[n + 1] = v
        /\ \A i \in 1 .. n : inputs'[i] = inputs[i]
    BY <1>1
  <1>5. ASSUME NEW d \in 1 .. B
        PROVE  buffer'[Place(index', d)] = IF d <= n + 1 THEN inputs'[(n + 1) + 1 - d] ELSE 0
    <2>1. CASE d = 1
      <3>1. Place(index', d) = index
        BY <1>1, <1>3, <2>1 DEF Place
      <3>2. buffer'[index] = v
        BY <1>1, <1>2
      <3> QED BY <1>1, <1>4, <2>1, <3>1, <3>2
    <2>2. CASE d # 1
      <3> DEFINE e == d - 1
      <3>1. e \in 1 .. B - 1 /\ e \in 1 .. B /\ d = e + 1
        BY <2>2
      <3> HIDE DEF e
      <3>2. Place(index', d) = Place(index, e) /\ Place(index, e) # index /\ Place(index, e) \in 0 .. B - 1
        BY <1>1, <1>3, <3>1 DEF Place
      <3>3. buffer'[Place(index, e)] = buffer[Place(index, e)]
        BY <1>1, <1>2, <3>2
      <3>4. buffer[Place(index, e)] = IF e <= n THEN inputs[n + 1 - e] ELSE 0
        BY <3>1 DEF LineInv, LineHolds, Holds
      <3>5. e <= n => inputs'[(n + 1) + 1 - d] = inputs[n + 1 - e]
        BY <1>1, <1>4, <3>1
      <3> QED BY <1>1, <3>1, <3>2, <3>3, <3>4, <3>5
    <2> QED BY <2>1, <2>2
  <1> QED BY <1>4, <1>5 DEF LineHolds, Holds

(* The average of a line at one level.                                     *)
LEMMA AverageOfLine ==
    ASSUME NEW array, NEW i \in 0 .. BUFFER_LENGTH - 1, NEW s \in Seq(Converted),
           Holds(array, i, s), NEW w \in Converted
    PROVE  /\ Level(s, w, 1, Len(s)) =>
                /\ average_of_vectors(array) \in Int
                /\ Rest(w, average_of_vectors(array)) <= Rest(w, 0)
           /\ BUFFER_LENGTH <= Len(s) /\ Level(s, w, Len(s) - BUFFER_LENGTH + 1, Len(s))
              => average_of_vectors(array) = w
  <1> DEFINE B == BUFFER_LENGTH
             n == Len(s)
  <1> USE SignalConstants
  <1>1. n \in Nat /\ w \in Int
    BY Ranges
  <1>2. ASSUME NEW j \in 0 .. B - 1
        PROVE  \E d \in 1 .. B :
                 array[j] = IF d <= n THEN s[n + 1 - d] ELSE 0
    <2> DEFINE d == IF j < i THEN i - j ELSE i - j + B
    <2>1. d \in 1 .. B /\ Place(i, d) = j
      BY <1>1 DEF Place
    <2> HIDE DEF d
    <2> QED BY <2>1 DEF Holds
  <1>3. ASSUME Level(s, w, 1, n), NEW j \in 0 .. B - 1 PROVE array[j] \in {0, w}
    <2>1. PICK d \in 1 .. B : array[j] = IF d <= n THEN s[n + 1 - d] ELSE 0
      BY <1>2
    <2>2. d <= n => n + 1 - d \in 1 .. n
      BY <1>1
    <2> QED BY <1>3, <2>1, <2>2 DEF Level
  <1>4. ASSUME B <= n, Level(s, w, n - B + 1, n), NEW j \in 0 .. B - 1 PROVE array[j] = w
    <2>1. PICK d \in 1 .. B : array[j] = IF d <= n THEN s[n + 1 - d] ELSE 0
      BY <1>2
    <2>2. d <= n /\ n + 1 - d \in n - B + 1 .. n
      BY <1>1, <1>4
    <2> QED BY <1>4, <2>1, <2>2 DEF Level
  <1>5. ASSUME Level(s, w, 1, n)
        PROVE  /\ average_of_vectors(array) \in Int
               /\ Rest(w, average_of_vectors(array)) <= Rest(w, 0)
    BY <1>1, <1>3, <1>5, AverageOfLevel
  <1>6. ASSUME B <= n, Level(s, w, n - B + 1, n) PROVE average_of_vectors(array) = w
    <2>1. \A j \in 0 .. B - 1 : array[j] \in {0, w} /\ array[j] = w
      BY <1>4, <1>6
    <2> QED BY <1>1, <2>1, AverageOfLevel
  <1> QED BY <1>5, <1>6

(* A line that has kept its level: the filter comes closer with every      *)
(* sample after the buffer is full, until the rest is settled.             *)
GatherInv(k, m) ==
    \A v \in Inputs :
      gathered < OffsetGatherCnt /\ Level(inputs, v, 1, gathered) =>
        /\ Rest(v, filtered) <= m
        /\ \/ Settled(Rest(v, filtered))
           \/ Left(Rest(v, filtered), k) <= m + 4 * k - 4 * (gathered - (BUFFER_LENGTH - 1))

OffsetInv ==
    \A v \in Inputs :
      gathered = OffsetGatherCnt /\ Level(inputs, v, 1, OffsetGatherCnt) =>
        Settled(Rest(v, offset))

MeansInv ==
    \A i \in 1 .. Len(means), v \in Inputs :
      Level(inputs, v, OffsetGatherCnt + i - (BUFFER_LENGTH - 1), OffsetGatherCnt + i)
        => means[i] = v - offset

QuietInv(k, m) == LineInv /\ GatherInv(k, m) /\ OffsetInv /\ MeansInv

(* The samples of the offset are enough for the filter to settle on any    *)
(* level no further than m from zero and from where the filter starts: a   *)
(* quarter of m, and k more for the last steps.                            *)
Ample(k, m) ==
    /\ k \in Nat /\ m \in Nat
    /\ ALPHA_NUM * k >= 4 * ALPHA_DEN
    /\ \A v \in Inputs : Rest(v, 0) <= m /\ Rest(v, FilterStart) <= m
    /\ 4 * OffsetGatherCnt >= 4 * BUFFER_LENGTH + m + 4 * k

LEMMA InputsAreInts ==
    ASSUME NEW v \in Inputs
    PROVE  v \in Converted /\ v \in Int
  <1>1. v \in Converted
    BY SignalConstants
  <1> QED BY <1>1, Ranges

LEMMA RestBound ==
    ASSUME NEW k, NEW m, Ample(k, m), NEW v \in Inputs, NEW f \in Int, Rest(v, f) <= m
    PROVE  /\ Rest(v, f) \in Nat
           /\ Left(Rest(v, f), k) \in Nat
           /\ Left(Rest(v, f), k) <= m + 4 * k
  <1> DEFINE d == Rest(v, f)
             a == ALPHA_NUM
             c == ALPHA_DEN
  <1>1. v \in Int /\ m \in Nat /\ k \in Nat
    BY InputsAreInts DEF Ample
  <1>2. d \in Nat /\ d <= m
    BY <1>1, RestIs
  <1>3. a \in Nat \ {0} /\ c \in Nat \ {0} /\ a * k >= 4 * c
    BY SignalConstants DEF Ample
  <1>4. Left(d, k) = IF a * d >= 4 * c THEN d + 4 * k ELSE 4 * d
    BY DEF Left
  <1> HIDE DEF a, c, d
  <1>5. a * d \in Int /\ a * k \in Int
    BY <1>1, <1>2, <1>3
  <1>6. a * d < a * k => d < k
    BY <1>1, <1>2, <1>3, Cancel
  <1> DEFINE x == a * d
             y == a * k
  <1>7. /\ x \in Int /\ y \in Int /\ y >= 4 * c /\ (x < y => d < k)
        /\ Left(d, k) = IF x >= 4 * c THEN d + 4 * k ELSE 4 * d
    BY <1>3, <1>4, <1>5, <1>6
  <1> HIDE DEF x, y
  <1>8. Left(d, k) \in Nat /\ Left(d, k) <= m + 4 * k
    BY <1>1, <1>2, <1>3, <1>7
  <1> QED BY <1>2, <1>8 DEF d

LEMMA QuietStart == ASSUME NEW k, NEW m, Ample(k, m), SignalInit PROVE QuietInv(k, m)
  <1> USE SignalConstants
  <1>0. OffsetGatherCnt \in Nat \ {0}
    BY SignalAssumption
  <1>1. LineInv
    <2>1. ASSUME NEW d \in 1 .. BUFFER_LENGTH PROVE Place(0, d) \in 0 .. BUFFER_LENGTH - 1
      BY DEF Place
    <2> QED BY <1>0, <2>1 DEF SignalInit, LineInv, LineHolds, Holds
  <1>2. GatherInv(k, m)
    <2> DEFINE F == FilterStart
    <2> SUFFICES ASSUME NEW v \in Inputs
                 PROVE  /\ Rest(v, F) <= m
                        /\ Left(Rest(v, F), k) <= m + 4 * k - 4 * (0 - (BUFFER_LENGTH - 1))
      BY DEF SignalInit, GatherInv
    <2>1. Rest(v, F) <= m /\ F \in Int
      BY Ranges, SignalAssumption DEF Ample
    <2>2. Left(Rest(v, F), k) \in Nat /\ Left(Rest(v, F), k) <= m + 4 * k
      BY <2>1, RestBound
    <2> QED BY <2>1, <2>2 DEF Ample
  <1>3. OffsetInv
    BY <1>0 DEF SignalInit, OffsetInv
  <1>4. MeansInv
    BY DEF SignalInit, MeansInv
  <1> QED BY <1>1, <1>2, <1>3, <1>4 DEF QuietInv

(* The filter of a line that has had one level through the next sample.    *)
LEMMA GatherSettles ==
    ASSUME NEW k, NEW m, Ample(k, m), SignalInv, QuietInv(k, m), NEW u \in Inputs, GatherOffset(u),
           NEW v \in Inputs, Level(inputs', v, 1, gathered + 1),
           NEW f, f = exponential_filter(filtered, average_of_vectors(buffer'))
    PROVE  /\ Rest(v, f) <= m /\ f \in Int
           /\ \/ Settled(Rest(v, f))
              \/ Left(Rest(v, f), k)
                   <= m + 4 * k - 4 * (gathered + 1 - (BUFFER_LENGTH - 1))
  <1> DEFINE a == average_of_vectors(buffer')
             n == Len(inputs)
             b == BUFFER_LENGTH - 1
  <1> USE SignalConstants
  <1>1. /\ add_samples_to_buffer(u) /\ inputs' = Append(inputs, u)
        /\ gathered < OffsetGatherCnt
    BY DEF GatherOffset
  <1>2. /\ LineHolds' /\ Len(inputs') = n + 1
        /\ \A j \in 1 .. n : inputs'[j] = inputs[j]
    BY <1>1, LineMoves DEF QuietInv
  <1>3. n = gathered /\ gathered \in Nat /\ filtered \in Int /\ v \in Int
    <2>1. Len(means) = 0
      BY <1>1 DEF QuietInv, LineInv
    <2>2. filtered \in Int /\ gathered \in Nat /\ v \in Int
      BY Ranges, InputsAreInts DEF SignalInv, SignalType
    <2> QED BY <2>1, <2>2 DEF QuietInv, LineInv
  <1>4. /\ index' \in 0 .. BUFFER_LENGTH - 1 /\ inputs' \in Seq(Converted)
        /\ Holds(buffer', index', inputs')
    BY <1>1, <1>2, LineStep DEF LineHolds
  <1>5. Level(inputs, v, 1, gathered)
    BY <1>2, <1>3 DEF Level
  <1>6. /\ Rest(v, filtered) <= m
        /\ \/ Settled(Rest(v, filtered))
           \/ Left(Rest(v, filtered), k) <= m + 4 * k - 4 * (gathered - b)
    BY <1>1, <1>5 DEF QuietInv, GatherInv
  <1>7. Level(inputs', v, 1, Len(inputs')) /\ v \in Converted
    BY <1>2, <1>3, InputsAreInts
  <1>8. a \in Int /\ Rest(v, a) <= m
    <2>1. a \in Int /\ Rest(v, a) <= Rest(v, 0)
      BY <1>4, <1>7, AverageOfLine
    <2>2. Rest(v, 0) <= m /\ m \in Nat
      BY DEF Ample
    <2>3. Rest(v, a) \in Nat /\ Rest(v, 0) \in Nat
      BY <1>3, <2>1, RestIs
    <2> QED BY <2>1, <2>2, <2>3
  <1>9. BUFFER_LENGTH <= n + 1 => a = v
    <2>1. BUFFER_LENGTH <= n + 1
            => Level(inputs', v, Len(inputs') - BUFFER_LENGTH + 1, Len(inputs'))
      BY <1>2, <1>3, <1>7 DEF Level
    <2> QED BY <1>2, <1>4, <2>1, AverageOfLine
  <1> HIDE DEF a
  <1>10. f \in Int /\ Rest(v, f) <= m
    <2>1. f = exponential_filter(filtered, a)
      BY DEF a
    <2>2. m \in Int
      BY DEF Ample
    <2> QED BY <1>3, <1>6, <1>8, <2>1, <2>2, FilterStays
  <1>11. k \in Nat /\ m \in Nat /\ ALPHA_NUM * k >= 4 * ALPHA_DEN
    BY DEF Ample
  <1>12. CASE gathered + 1 <= b
    <2>1. Left(Rest(v, f), k) \in Nat /\ Left(Rest(v, f), k) <= m + 4 * k
      BY <1>10, RestBound
    <2>2. m + 4 * k <= m + 4 * k - 4 * (gathered + 1 - b)
      BY <1>3, <1>11, <1>12
    <2> QED BY <1>3, <1>10, <1>11, <2>1, <2>2
  <1>13. CASE gathered + 1 > b
    <2>1. f = exponential_filter(filtered, v)
      BY <1>3, <1>9, <1>13 DEF a
    <2>2. \/ Settled(Rest(v, f))
          \/ Left(Rest(v, f), k) <= Left(Rest(v, filtered), k) - 4
      BY <1>3, <1>6, <1>11, <2>1, FilterStep
    <2>3. Settled(Rest(v, filtered)) => Settled(Rest(v, f))
      <3>1. ALPHA_NUM * Rest(v, filtered) >= 0 * ALPHA_DEN
        <4>1. Rest(v, filtered) \in Nat
          BY <1>3, RestIs
        <4> QED BY <4>1, SignalConstants
      <3>2. Rest(v, f) <= Rest(v, filtered) - 0
        BY <1>3, <2>1, <3>1, FilterCloses
      <3>3. Rest(v, f) \in Nat /\ Rest(v, filtered) \in Nat
        BY <1>3, <1>10, RestIs
      <3>4. ALPHA_NUM * Rest(v, f) <= ALPHA_NUM * Rest(v, filtered)
        BY <3>2, <3>3, Monotonic
      <3>5. ALPHA_NUM * Rest(v, f) \in Int /\ ALPHA_NUM * Rest(v, filtered) \in Int
        BY <3>3
      <3> QED BY <3>4, <3>5 DEF Settled
    <2>4. Left(Rest(v, f), k) \in Nat /\ Left(Rest(v, filtered), k) \in Nat
      BY <1>3, <1>6, <1>10, RestBound
    <2> QED BY <1>3, <1>6, <1>10, <1>11, <2>2, <2>3, <2>4
  <1> QED BY <1>3, <1>12, <1>13

LEMMA QuietGather ==
    ASSUME NEW k, NEW m, Ample(k, m), SignalInv, QuietInv(k, m), NEW u \in Inputs, GatherOffset(u)
    PROVE  QuietInv(k, m)'
  <1> DEFINE f == exponential_filter(filtered, average_of_vectors(buffer'))
             b == BUFFER_LENGTH - 1
             G == OffsetGatherCnt
  <1>1. /\ add_samples_to_buffer(u) /\ inputs' = Append(inputs, u)
        /\ gathered < G /\ gathered' = gathered + 1 /\ means' = means
        /\ filtered' = IF gathered' = G THEN 0 ELSE f
        /\ offset' = IF gathered' = G THEN f ELSE offset
    BY DEF GatherOffset
  <1>2. LineHolds' /\ Len(inputs') = Len(inputs) + 1
    BY <1>1, LineMoves DEF QuietInv
  <1>3. gathered \in Nat /\ G \in Nat /\ b \in Int /\ k \in Nat /\ m \in Nat
        /\ 4 * G >= 4 * (b + 1) + m + 4 * k
    BY SignalAssumption, SignalConstants DEF SignalInv, SignalType, Ample
  <1>4. means = <<>> /\ Len(inputs) = gathered + Len(means)
    BY <1>1 DEF QuietInv, LineInv
  <1>5. LineInv'
    BY <1>1, <1>2, <1>3, <1>4 DEF LineInv
  <1>6. ASSUME NEW v \in Inputs, Level(inputs', v, 1, gathered + 1)
        PROVE  /\ Rest(v, f) <= m /\ f \in Int
               /\ \/ Settled(Rest(v, f))
                  \/ Left(Rest(v, f), k) <= m + 4 * k - 4 * (gathered + 1 - b)
    BY <1>6, GatherSettles
  <1> HIDE DEF f, b, G
  <1>7. GatherInv(k, m)'
    <2> SUFFICES ASSUME NEW v \in Inputs, gathered' < G, Level(inputs', v, 1, gathered')
                 PROVE  /\ Rest(v, filtered') <= m
                        /\ \/ Settled(Rest(v, filtered'))
                           \/ Left(Rest(v, filtered'), k) <= m + 4 * k - 4 * (gathered' - b)
      BY DEF GatherInv, b, G
    <2>1. filtered' = f /\ gathered' = gathered + 1
      BY <1>1, <1>3
    <2>2. Level(inputs', v, 1, gathered + 1)
      BY <2>1
    <2>3. /\ Rest(v, f) <= m
          /\ \/ Settled(Rest(v, f))
             \/ Left(Rest(v, f), k) <= m + 4 * k - 4 * (gathered + 1 - b)
      BY <1>6, <2>2
    <2> QED BY <1>3, <2>1, <2>3
  <1>8. OffsetInv'
    <2> SUFFICES ASSUME NEW v \in Inputs, gathered' = G, Level(inputs', v, 1, G)
                 PROVE  Settled(Rest(v, offset'))
      BY DEF OffsetInv, G
    <2>1. offset' = f /\ gathered + 1 = G
      BY <1>1
    <2>2. /\ Rest(v, f) <= m /\ f \in Int
          /\ \/ Settled(Rest(v, f))
             \/ Left(Rest(v, f), k) <= m + 4 * k - 4 * (G - b)
      <3>1. Level(inputs', v, 1, gathered + 1)
        BY <2>1
      <3>2. /\ Rest(v, f) <= m /\ f \in Int
            /\ \/ Settled(Rest(v, f))
               \/ Left(Rest(v, f), k) <= m + 4 * k - 4 * (gathered + 1 - b)
        BY <1>6, <3>1
      <3> QED BY <1>3, <2>1, <3>2
    <2>3. Left(Rest(v, f), k) \in Nat
      BY <2>2, RestBound
    <2>4. m + 4 * k - 4 * (G - b) < 0
      BY <1>3
    <2> QED BY <1>3, <2>1, <2>2, <2>3, <2>4
  <1>9. MeansInv'
    BY <1>1, <1>4 DEF MeansInv
  <1> QED BY <1>5, <1>7, <1>8, <1>9 DEF QuietInv

LEMMA QuietMeasure ==
    ASSUME NEW k, NEW m, Ample(k, m), SignalInv, QuietInv(k, m), NEW u \in Inputs, Measure(u)
    PROVE  QuietInv(k, m)'
  <1> DEFINE s == average_of_vectors(buffer') - offset
             n == Len(inputs)
             l == Len(means)
             B == BUFFER_LENGTH
             G == OffsetGatherCnt
  <1>1. /\ add_samples_to_buffer(u) /\ inputs' = Append(inputs, u)
        /\ gathered = G /\ gathered' = gathered /\ offset' = offset
        /\ means' = Append(means, s)
    BY DEF Measure, offsetVars
  <1>2. /\ LineHolds' /\ Len(inputs') = n + 1
        /\ \A j \in 1 .. n : inputs'[j] = inputs[j]
    BY <1>1, LineMoves DEF QuietInv
  <1>3. /\ G \in Nat /\ B \in Nat \ {0} /\ B <= G /\ n = G + l
        /\ k \in Nat /\ m \in Nat
    BY <1>1, SignalAssumption, SignalConstants DEF Ample, QuietInv, LineInv
  <1>4. means \in Seq(Difference) /\ l \in Nat
    BY DEF SignalInv, SignalType
  <1>5. index' \in 0 .. B - 1 /\ inputs' \in Seq(Converted) /\ Holds(buffer', index', inputs')
    BY <1>1, <1>2, LineStep DEF LineHolds
  <1>6. /\ Len(means') = l + 1 /\ means'[l + 1] = s
        /\ \A i \in 1 .. l : means'[i] = means[i]
    BY <1>1, <1>4
  <1> HIDE DEF n, l, B, G, s
  <1>7. LineInv'
    <2>1. gathered' <= G /\ ~(gathered' < G)
      BY <1>1, <1>3
    <2>2. Len(inputs') = gathered' + Len(means')
      BY <1>1, <1>2, <1>3, <1>4, <1>6
    <2> QED BY <1>2, <2>1, <2>2 DEF LineInv, G
  <1>8. GatherInv(k, m)'
    BY <1>1, <1>3 DEF GatherInv, G
  <1>9. ASSUME NEW v \in Inputs, NEW a \in Nat \ {0}, NEW c \in Nat, c <= n, Level(inputs', v, a, c)
        PROVE  Level(inputs, v, a, c)
    <2>1. ASSUME NEW j \in a .. c PROVE j \in 1 .. n
      BY <1>3, <1>4, <1>9
    <2> QED BY <1>2, <1>9, <2>1 DEF Level
  <1>10. OffsetInv'
    <2> SUFFICES ASSUME NEW v \in Inputs, gathered' = G, Level(inputs', v, 1, G)
                 PROVE  Settled(Rest(v, offset'))
      BY DEF OffsetInv, G
    <2>1. Level(inputs, v, 1, G)
      BY <1>3, <1>4, <1>9
    <2> QED BY <1>1, <2>1 DEF QuietInv, OffsetInv, G
  <1>11. MeansInv'
    <2> SUFFICES ASSUME NEW i \in 1 .. l + 1, NEW v \in Inputs,
                        Level(inputs', v, G + i - (B - 1), G + i)
                 PROVE  means'[i] = v - offset
      BY <1>1, <1>6 DEF MeansInv, B, G
    <2>1. CASE i <= l
      <3>1. Level(inputs, v, G + i - (B - 1), G + i)
        <4>1. G + i - (B - 1) \in Nat \ {0} /\ G + i \in Nat /\ G + i <= n
          BY <1>3, <1>4, <2>1
        <4> QED BY <1>9, <4>1
      <3>2. i \in 1 .. l
        BY <1>4, <2>1
      <3>3. means[i] = v - offset
        BY <3>1, <3>2 DEF QuietInv, MeansInv, l, B, G
      <3> QED BY <1>6, <3>2, <3>3
    <2>2. CASE i = l + 1
      <3>1. G + i = n + 1 /\ G + i - (B - 1) = (n + 1) - B + 1 /\ B <= n + 1
        BY <1>3, <1>4, <2>2
      <3>2. Level(inputs', v, Len(inputs') - B + 1, Len(inputs')) /\ B <= Len(inputs')
        BY <1>2, <3>1
      <3>3. v \in Converted
        BY InputsAreInts
      <3>4. average_of_vectors(buffer') = v
        BY <1>5, <3>2, <3>3, AverageOfLine DEF B
      <3> QED BY <1>6, <2>2, <3>4 DEF s
    <2> QED BY <1>4, <2>1, <2>2
  <1> QED BY <1>7, <1>8, <1>10, <1>11 DEF QuietInv

LEMMA QuietStep ==
    ASSUME NEW k, NEW m, Ample(k, m), SignalInv, QuietInv(k, m), [SignalNext]_signalVars
    PROVE  QuietInv(k, m)'
  <1>1. CASE UNCHANGED signalVars
    BY <1>1 DEF signalVars, lineVars, offsetVars, QuietInv, LineInv, LineHolds, GatherInv,
       OffsetInv, MeansInv
  <1> QED BY <1>1, QuietGather, QuietMeasure DEF SignalNext

LEMMA QuietInvariant ==
    ASSUME NEW k, NEW m, Ample(k, m)
    PROVE  SignalSpec => []QuietInv(k, m)
  <1>1. SignalInit => QuietInv(k, m)
    BY QuietStart
  <1>2. SignalInv /\ QuietInv(k, m) /\ [SignalNext]_signalVars => QuietInv(k, m)'
    BY QuietStep
  <1> QED BY <1>1, <1>2, SignalInvariant, PTL DEF SignalSpec

(* The effective value of a window in which every difference is x or -x.   *)
LEMMA EffectiveOfLevel ==
    ASSUME SignalInv, RMS_BUFFER_SIZE <= Len(means), NEW h \in Nat,
           \A i \in Len(means) - RMS_BUFFER_SIZE + 1 .. Len(means) :
             means[i] \in Int /\ means[i] * means[i] = h * h
    PROVE  rms_value = h
  <1> DEFINE R == RMS_BUFFER_SIZE
             w == LastOf(means, R)
             y == h * h
             l == Len(means)
  <1>1. R \in Nat \ {0} /\ R <= l
    BY SignalConstants
  <1>2. means \in Seq(Int) /\ l \in Nat
    BY DifferencesAreInts DEF SignalInv, SignalType
  <1>3. Len(w) = R /\ \A i \in 1 .. R : w[i] = means[l - R + i]
    BY <1>1, <1>2, LastOfLong
  <1>4. \A i \in l - R + 1 .. l : means[i] * means[i] = y
    OBVIOUS
  <1>5. y \in Nat
    OBVIOUS
  <1>6. rms_value = Root(Quotient(Squares(w), R))
    BY DEF SignalInv, SumHolds
  <1> HIDE DEF R, w, y, l
  <1>7. ASSUME NEW j \in 0 .. R - 1 PROVE w[j + 1] * w[j + 1] = y
    <2>1. j + 1 \in 1 .. R /\ l - R + (j + 1) \in l - R + 1 .. l
      BY <1>1, <1>2
    <2>2. w[j + 1] = means[l - R + (j + 1)]
      BY <1>3, <2>1
    <2> QED BY <1>4, <2>1, <2>2
  <1> DEFINE f == [j \in 0 .. Len(w) - 1 |-> w[j + 1] * w[j + 1]]
  <1>8. Squares(w) = Total(f, R)
    BY <1>3 DEF Squares
  <1>9. \A j \in 0 .. R - 1 : f[j] = y
    BY <1>3, <1>7
  <1> HIDE DEF f
  <1>10. \A j \in 0 .. R - 1 : f[j] \in y .. y
    BY <1>5, <1>9
  <1>11. Total(f, R) \in Int /\ R * y <= Total(f, R) /\ Total(f, R) <= R * y
    <2>1. R \in Nat /\ y \in Int
      BY <1>1, <1>5
    <2>2. ASSUME NEW low \in Int, NEW high \in Int, \A j \in 0 .. R - 1 : f[j] \in low .. high
          PROVE  Total(f, R) \in Int /\ R * low <= Total(f, R) /\ Total(f, R) <= R * high
      BY <2>1, <2>2, TotalBounds
    <2> QED BY <1>10, <2>1, <2>2
  <1>12. R * y \in Int
    BY <1>1, <1>5
  <1>13. Total(f, R) = R * y
    BY <1>11, <1>12
  <1>14. Quotient(R * y, R) = y
    BY <1>1, <1>5, QuotientExact
  <1>15. Root(y) = h
    BY RootOfSquare DEF y
  <1> QED BY <1>6, <1>8, <1>13, <1>14, <1>15

(* A line without a train is quiet, for every level the ADC gives, every   *)
(* start of the filter and every length of the buffers, when the samples   *)
(* of the offset are Ample.  The error the integer division of             *)
(* exponential_filter leaves in the offset for ever stays below            *)
(* ALPHA_DEN / ALPHA_NUM, 25 in the code, so that a record can end         *)
(* (add_samples_to_buffer, update_rms).                                    *)
THEOREM LineIsQuiet ==
    ASSUME NEW k, NEW m, Ample(k, m)
    PROVE  SignalSpec => []QuietLine
  <1>1. ASSUME SignalInv, QuietInv(k, m) PROVE QuietLine
    <2> SUFFICES ASSUME NEW v \in Inputs,
                        gathered = OffsetGatherCnt,
                        \A j \in 1 .. OffsetGatherCnt : inputs[j] = v,
                        Len(means) >= RMS_BUFFER_SIZE,
                        \A j \in DOMAIN LastOf(inputs, RMS_BUFFER_SIZE + BUFFER_LENGTH - 1) :
                          LastOf(inputs, RMS_BUFFER_SIZE + BUFFER_LENGTH - 1)[j] = v
                 PROVE  rms_value * ALPHA_NUM < ALPHA_DEN
      BY DEF QuietLine
    <2> DEFINE R == RMS_BUFFER_SIZE
               B == BUFFER_LENGTH
               G == OffsetGatherCnt
               N == R + B - 1
               n == Len(inputs)
               l == Len(means)
               h == Rest(v, offset)
               tail == LastOf(inputs, N)
    <2>1. /\ R \in Nat \ {0} /\ B \in Nat \ {0} /\ G \in Nat /\ l \in Nat
          /\ n = G + l /\ B <= G /\ R <= l
      <3>1. LineInv
        BY <1>1 DEF QuietInv
      <3>2. Len(means) \in Nat
        BY <1>1 DEF SignalInv, SignalType
      <3> QED BY <3>1, <3>2, SignalAssumption, SignalConstants DEF LineInv, Ample
    <2>2. inputs \in Seq(Int) /\ v \in Int /\ offset \in Int
      <3>1. inputs \in Seq(Converted) /\ offset \in Converted
        BY <1>1 DEF SignalInv, SignalType
      <3>2. \A i \in 1 .. Len(inputs) : inputs[i] \in Int
        BY <3>1, Ranges
      <3>3. inputs = [i \in 1 .. Len(inputs) |-> inputs[i]] /\ Len(inputs) \in Nat
        BY <3>1
      <3>4. inputs \in Seq(Int)
        BY <3>2, <3>3
      <3> QED BY <3>1, <3>4, Ranges, InputsAreInts
    <2>3. N \in Nat /\ N <= n
      BY <2>1
    <2>4. \A j \in DOMAIN tail : tail[j] = v
      OBVIOUS
    <2>5. Level(inputs, v, 1, G) /\ gathered = G
      BY DEF Level
    <2>6. ALPHA_NUM * h < ALPHA_DEN
      BY <1>1, <2>5 DEF QuietInv, OffsetInv, Settled
    <2>7. h \in Nat /\ (v - offset) * (v - offset) = h * h
      BY <2>2 DEF Rest
    <2> HIDE DEF R, B, G, N, n, l, h, tail
    <2>8. /\ tail \in Seq(Int) /\ Len(tail) = N
          /\ \A i \in 1 .. N : tail[i] = inputs[n - N + i]
      BY <2>2, <2>3, LastOfLong DEF n, tail
    <2>9. \A i \in 1 .. N : inputs[n - N + i] = v
      BY <2>4, <2>8
    <2>10. ASSUME NEW j \in n - N + 1 .. n PROVE inputs[j] = v
      <3>1. j - (n - N) \in 1 .. N /\ n - N + (j - (n - N)) = j
        BY <2>1, <2>3
      <3> QED BY <2>9, <3>1
    <2>11. ASSUME NEW i \in l - R + 1 .. l PROVE means[i] = v - offset
      <3>1. i \in 1 .. l
        BY <2>1
      <3>2. ASSUME NEW j \in G + i - (B - 1) .. G + i PROVE j \in n - N + 1 .. n
        BY <2>1 DEF N
      <3>3. Level(inputs, v, G + i - (B - 1), G + i)
        BY <2>10, <3>2 DEF Level
      <3> QED BY <1>1, <3>1, <3>3 DEF QuietInv, MeansInv, l, B, G
    <2>12. \A i \in l - R + 1 .. l : means[i] \in Int /\ means[i] * means[i] = h * h
      <3> DEFINE x == v - offset
      <3>1. x \in Int /\ x * x = h * h
        BY <2>2, <2>7
      <3>2. \A i \in l - R + 1 .. l : means[i] = x
        BY <2>11
      <3> HIDE DEF x
      <3> QED BY <3>1, <3>2
    <2>13. rms_value = h
      BY <1>1, <2>1, <2>7, <2>12, EffectiveOfLevel DEF l, R
    <2>14. h * ALPHA_NUM = ALPHA_NUM * h
      BY <2>7, SignalConstants
    <2> QED BY <2>6, <2>13, <2>14
  <1>2. SignalInv /\ QuietInv(k, m) => QuietLine
    BY <1>1
  <1>3. SignalSpec => []QuietInv(k, m)
    BY QuietInvariant
  <1> QED BY <1>2, <1>3, SignalInvariant, PTL

(* The constants of main.h and main.c are such: with alpha 1 / 25, four    *)
(* samples to a mean, a filter that starts at 5200 and 5000 samples for    *)
(* the offset no level the converter can give is left out: the furthest is *)
(* 13392 away, of which 3348 steps leave 100 at most, and 100 more settle  *)
(* that (filtered_value_array, exponential_filter).                        *)
COROLLARY LineOfTheCode ==
    ASSUME ALPHA_NUM = 1, ALPHA_DEN = 25, BUFFER_LENGTH = 4, OffsetGatherCnt = 5000,
           FilterStart = 5200
    PROVE  SignalSpec => []QuietLine
  <1>1. ASSUME NEW v \in Inputs PROVE Rest(v, 0) <= 13392 /\ Rest(v, 5200) <= 13392
    <2>1. v \in Converted
      BY InputsAreInts
    <2>2. v \in Int /\ -8192 <= v /\ v <= 8191
      BY <2>1, Ranges
    <2> QED BY <2>2 DEF Rest
  <1>2. /\ 100 \in Nat /\ 13392 \in Nat /\ 1 * 100 >= 4 * 25
        /\ 4 * 5000 >= 4 * 4 + 13392 + 4 * 100
    OBVIOUS
  <1>3. Ample(100, 13392)
    BY <1>1, <1>2 DEF Ample
  <1> QED BY <1>3, LineIsQuiet

(* Differences are of 15 bits with the sign, as SampleCodec assumes, and   *)
(* the mean of the squares fits the int32_t mean_square of update_rms:     *)
(* 16383 squared is less than 2^31.                                        *)
ValuesFit ==
    /\ means \in Seq(Difference)
    /\ 0 <= sum_squares /\ sum_squares <= RMS_BUFFER_SIZE * (16383 * 16383)

(* The widths of the code are enough: an int32_t holds every difference    *)
(* and mean_square, the int64_t sum_squares never falls below 0, so that   *)
(* update_rms takes the root of no negative number, and each difference    *)
(* fits the int16_t of the circular buffer before it is saturated.         *)
THEOREM WidthsSuffice == SignalSpec => []ValuesFit
  <1>1. SignalInv => ValuesFit
    <2> SUFFICES ASSUME SignalInv PROVE ValuesFit
      OBVIOUS
    <2> DEFINE R == RMS_BUFFER_SIZE
               w == LastOf(means, R)
               h == 16383
    <2>1. R \in Nat /\ h \in Nat /\ h * h \in Nat
      BY SignalConstants
    <2>2. means \in Seq(Int) /\ means \in Seq(Difference) /\ Len(means) \in Nat
      BY DifferencesAreInts DEF SignalInv, SignalType
    <2>3. sum_squares = Squares(w)
      BY DEF SignalInv, SumHolds
    <2>4. Difference = -h .. h
      BY DEF Difference
    <2> HIDE DEF R, h
    <2>5. w \in Seq(Difference) /\ w \in Seq(Int) /\ Len(w) \in Nat /\ Len(w) <= R
      <3>1. CASE Len(means) <= R
        <4>1. w = means
          BY <2>1, <2>2, <3>1, LastOfShort
        <4> QED BY <2>2, <3>1, <4>1
      <3>2. CASE R <= Len(means)
        <4>1. /\ w \in Seq(Int) /\ Len(w) = R
              /\ \A i \in 1 .. R : w[i] = means[Len(means) - R + i]
          BY <2>1, <2>2, <3>2, LastOfLong
        <4> HIDE DEF w
        <4>2. ASSUME NEW i \in 1 .. R PROVE w[i] \in Difference
          <5>1. Len(means) - R + i \in 1 .. Len(means)
            BY <2>1, <2>2, <3>2
          <5>2. means[Len(means) - R + i] \in Difference
            BY <2>2, <5>1
          <5> QED BY <4>1, <5>2
        <4>3. w = [i \in 1 .. R |-> w[i]]
          BY <4>1
        <4>4. w \in Seq(Difference)
          BY <2>1, <4>2, <4>3
        <4> QED BY <2>1, <4>1, <4>4
      <3> QED BY <2>1, <2>2, <3>1, <3>2
    <2> HIDE DEF w
    <2>6. Squares(w) \in Nat
      BY <2>5, SquaresNat
    <2>7. Squares(w) <= Len(w) * (h * h)
      BY <2>1, <2>4, <2>5, SquaresBound
    <2>8. Len(w) * (h * h) <= R * (h * h)
      <3>1. (h * h) * Len(w) <= (h * h) * R
        BY <2>1, <2>5, Monotonic
      <3> HIDE DEF h
      <3> QED BY <2>1, <2>5, <3>1
    <2>9. Len(w) * (h * h) \in Int /\ R * (h * h) \in Int
      BY <2>1, <2>5
    <2>10. 0 <= sum_squares /\ sum_squares <= R * (h * h)
      BY <2>3, <2>6, <2>7, <2>8, <2>9
    <2> QED BY <2>2, <2>10 DEF ValuesFit, R, h
  <1> QED BY <1>1, SignalInvariant, PTL

-----------------------------------------------------------------------------
LEMMA TotalOf16 ==
    ASSUME NEW f
    PROVE  Total(f, 16) =
             0 + f[0] + f[1] + f[2] + f[3] + f[4] + f[5] + f[6] + f[7]
               + f[8] + f[9] + f[10] + f[11] + f[12] + f[13] + f[14] + f[15]
  <1>0. Total(f, 0) = 0 /\ \A n \in Nat : Total(f, n + 1) = Total(f, n) + f[n]
    BY TotalSteps
  <1>1. Total(f, 4) = 0 + f[0] + f[1] + f[2] + f[3]
    <2>1. /\ Total(f, 0 + 1) = Total(f, 0) + f[0] /\ Total(f, 1 + 1) = Total(f, 1) + f[1]
          /\ Total(f, 2 + 1) = Total(f, 2) + f[2] /\ Total(f, 3 + 1) = Total(f, 3) + f[3]
      BY <1>0
    <2> QED BY <1>0, <2>1
  <1>2. Total(f, 8) = Total(f, 4) + f[4] + f[5] + f[6] + f[7]
    <2>1. /\ Total(f, 4 + 1) = Total(f, 4) + f[4] /\ Total(f, 5 + 1) = Total(f, 5) + f[5]
          /\ Total(f, 6 + 1) = Total(f, 6) + f[6] /\ Total(f, 7 + 1) = Total(f, 7) + f[7]
      BY <1>0
    <2> QED BY <2>1
  <1>3. Total(f, 12) = Total(f, 8) + f[8] + f[9] + f[10] + f[11]
    <2>1. /\ Total(f, 8 + 1) = Total(f, 8) + f[8] /\ Total(f, 9 + 1) = Total(f, 9) + f[9]
          /\ Total(f, 10 + 1) = Total(f, 10) + f[10] /\ Total(f, 11 + 1) = Total(f, 11) + f[11]
      BY <1>0
    <2> QED BY <2>1
  <1>4. Total(f, 16) = Total(f, 12) + f[12] + f[13] + f[14] + f[15]
    <2>1. /\ Total(f, 12 + 1) = Total(f, 12) + f[12] /\ Total(f, 13 + 1) = Total(f, 13) + f[13]
          /\ Total(f, 14 + 1) = Total(f, 14) + f[14] /\ Total(f, 15 + 1) = Total(f, 15) + f[15]
      BY <1>0
    <2> QED BY <2>1
  <1> QED BY <1>1, <1>2, <1>3, <1>4

LEMMA Halving ==
    ASSUME NEW x \in Nat
    PROVE  /\ x \div 2 \in Nat /\ x % 2 \in 0 .. 1
           /\ x = 2 * (x \div 2) + (x % 2)
  OBVIOUS

(* Each power of two takes one more bit away.                              *)
LEMMA Powers ==
    ASSUME NEW u \in Nat
    PROVE  /\ u \div 2^0 = u
           /\ u \div 2^1 = (u \div 2^0) \div 2
           /\ u \div 2^2 = (u \div 2^1) \div 2
           /\ u \div 2^3 = (u \div 2^2) \div 2
           /\ u \div 2^4 = (u \div 2^3) \div 2
           /\ u \div 2^5 = (u \div 2^4) \div 2
           /\ u \div 2^6 = (u \div 2^5) \div 2
           /\ u \div 2^7 = (u \div 2^6) \div 2
           /\ u \div 2^8 = (u \div 2^7) \div 2
           /\ u \div 2^9 = (u \div 2^8) \div 2
           /\ u \div 2^10 = (u \div 2^9) \div 2
           /\ u \div 2^11 = (u \div 2^10) \div 2
           /\ u \div 2^12 = (u \div 2^11) \div 2
           /\ u \div 2^13 = (u \div 2^12) \div 2
           /\ u \div 2^14 = (u \div 2^13) \div 2
           /\ u \div 2^15 = (u \div 2^14) \div 2
  OBVIOUS

(* What the bits of a value say is the value: in two's complement, for     *)
(* every number an int16_t can have.                                       *)
LEMMA BitsOfValue ==
    ASSUME NEW v \in Int, -32768 <= v, v <= 32767
    PROVE  Int16(Bit16(v)) = v
  <1> DEFINE u == v % 65536
             x == [j \in 0 .. 15 |-> u \div 2^j]
             b == [p \in 0 .. 15 |-> x[15 - p] % 2]
             f == [p \in 0 .. 15 |-> IF p \in Bit16(v) THEN Weight(p) ELSE 0]
  <1>1. u \in Nat /\ u < 65536 /\ v = IF u < 32768 THEN u ELSE u - 65536
    OBVIOUS
  <1>2. \A p \in 0 .. 15 : p \in Bit16(v) <=> b[p] = 1
    BY DEF Bit16
  <1>3. Int16(Bit16(v)) = Total(f, 16)
    BY DEF Int16
  <1> HIDE DEF u
  <1>4. x[0] = u /\ \A j \in 0 .. 14 : x[j + 1] = x[j] \div 2
    BY <1>1, Powers
  <1>5. \A j \in 0 .. 15 : x[j] \in Nat
    <2> DEFINE T == {j \in Nat : j <= 15 => x[j] \in Nat}
    <2> HIDE DEF x
    <2>1. 0 \in T
      BY <1>1, <1>4
    <2>2. ASSUME NEW j \in Nat, j \in T PROVE j + 1 \in T
      <3> SUFFICES ASSUME j + 1 <= 15 PROVE x[j + 1] \in Nat
        OBVIOUS
      <3>1. j \in 0 .. 14 /\ x[j] \in Nat
        BY <2>2
      <3>2. x[j + 1] = x[j] \div 2
        BY <1>4, <3>1
      <3> QED BY <3>1, <3>2
    <2> HIDE DEF T
    <2>3. \A j \in Nat : j \in T
      BY <2>1, <2>2, AllNumbers
    <2> QED BY <2>3 DEF T
  <1>6. ASSUME NEW p \in 0 .. 15 PROVE b[p] = 0 \/ b[p] = 1
    <2>1. 15 - p \in 0 .. 15 /\ b[p] = x[15 - p] % 2
      OBVIOUS
    <2> HIDE DEF x, b
    <2>2. x[15 - p] \in Nat
      BY <1>5, <2>1
    <2>3. x[15 - p] % 2 = 0 \/ x[15 - p] % 2 = 1
      BY <2>2
    <2> QED BY <2>1, <2>3
  <1>7. ASSUME NEW p \in 1 .. 15 PROVE x[15 - p] = 2 * x[16 - p] + b[p]
    <2>1. x[15 - p] = 2 * (x[15 - p] \div 2) + (x[15 - p] % 2)
      <3> HIDE DEF x
      <3> QED BY <1>5, Halving
    <2>2. x[16 - p] = x[15 - p] \div 2
      <3> HIDE DEF x
      <3>1. 15 - p \in 0 .. 14 /\ (15 - p) + 1 = 16 - p
        OBVIOUS
      <3> QED BY <1>4, <3>1
    <2> QED BY <2>1, <2>2  <1>8. /\ f[0] = -32768 * b[0]
        /\ f[1] = 16384 * b[1]
        /\ f[2] = 8192 * b[2]
        /\ f[3] = 4096 * b[3]
        /\ f[4] = 2048 * b[4]
        /\ f[5] = 1024 * b[5]
        /\ f[6] = 512 * b[6]
        /\ f[7] = 256 * b[7]
        /\ f[8] = 128 * b[8]
        /\ f[9] = 64 * b[9]
        /\ f[10] = 32 * b[10]
        /\ f[11] = 16 * b[11]
        /\ f[12] = 8 * b[12]
        /\ f[13] = 4 * b[13]
        /\ f[14] = 2 * b[14]
        /\ f[15] = 1 * b[15]
    <2>1. ASSUME NEW p \in 0 .. 15 PROVE f[p] = Weight(p) * b[p]
      <3>1. Weight(p) \in Int
        BY DEF Weight
      <3>2. f[p] = IF p \in Bit16(v) THEN Weight(p) ELSE 0
        OBVIOUS
      <3> HIDE DEF b, f, x
      <3>3. b[p] = 0 \/ b[p] = 1
        BY <1>6
      <3> QED BY <1>2, <3>1, <3>2, <3>3
    <2> HIDE DEF f, b, x
    <2>2. f[0] = -32768 * b[0]
      BY <1>6, <2>1 DEF Weight
    <2>3. f[1] = 16384 * b[1]
      BY <2>1 DEF Weight
    <2>4. f[2] = 8192 * b[2]
      BY <2>1 DEF Weight
    <2>5. f[3] = 4096 * b[3]
      BY <2>1 DEF Weight
    <2>6. f[4] = 2048 * b[4]
      BY <2>1 DEF Weight
    <2>7. f[5] = 1024 * b[5]
      BY <2>1 DEF Weight
    <2>8. f[6] = 512 * b[6]
      BY <2>1 DEF Weight
    <2>9. f[7] = 256 * b[7]
      BY <2>1 DEF Weight
    <2>10. f[8] = 128 * b[8]
      BY <2>1 DEF Weight
    <2>11. f[9] = 64 * b[9]
      BY <2>1 DEF Weight
    <2>12. f[10] = 32 * b[10]
      BY <2>1 DEF Weight
    <2>13. f[11] = 16 * b[11]
      BY <2>1 DEF Weight
    <2>14. f[12] = 8 * b[12]
      BY <2>1 DEF Weight
    <2>15. f[13] = 4 * b[13]
      BY <2>1 DEF Weight
    <2>16. f[14] = 2 * b[14]
      BY <2>1 DEF Weight
    <2>17. f[15] = 1 * b[15]
      BY <2>1 DEF Weight
    <2> QED BY <2>2, <2>3, <2>4, <2>5, <2>6, <2>7, <2>8, <2>9,
           <2>10, <2>11, <2>12, <2>13, <2>14, <2>15, <2>16, <2>17
  <1>9. x[15] = b[0]
    <2>1. u \div 2^15 = 0 \/ u \div 2^15 = 1
      BY <1>1
    <2> QED BY <2>1
  <1>10. u < 32768 <=> x[15] = 0
    BY <1>1
  <1> HIDE DEF x, b, f
  <1>11. x[14] = 2 * x[15] + b[1]
    BY <1>7
  <1>12. x[13] = 2 * x[14] + b[2]
    BY <1>7
  <1>13. x[12] = 2 * x[13] + b[3]
    BY <1>7
  <1>14. x[11] = 2 * x[12] + b[4]
    BY <1>7
  <1>15. x[10] = 2 * x[11] + b[5]
    BY <1>7
  <1>16. x[9] = 2 * x[10] + b[6]
    BY <1>7
  <1>17. x[8] = 2 * x[9] + b[7]
    BY <1>7
  <1>18. x[7] = 2 * x[8] + b[8]
    BY <1>7
  <1>19. x[6] = 2 * x[7] + b[9]
    BY <1>7
  <1>20. x[5] = 2 * x[6] + b[10]
    BY <1>7
  <1>21. x[4] = 2 * x[5] + b[11]
    BY <1>7
  <1>22. x[3] = 2 * x[4] + b[12]
    BY <1>7
  <1>23. x[2] = 2 * x[3] + b[13]
    BY <1>7
  <1>24. x[1] = 2 * x[2] + b[14]
    BY <1>7
  <1>25. x[0] = 2 * x[1] + b[15]
    BY <1>7
  <1>26. \A j \in 0 .. 15 : x[j] \in Int
    BY <1>5
  <1>27. \A p \in 0 .. 15 : b[p] \in Int
    BY <1>6
  <1>28. f[12] + f[13] + f[14] + f[15] = x[0] - 16 * x[4]
    BY <1>8, <1>22, <1>23, <1>24, <1>25, <1>26, <1>27
  <1>29. f[8] + f[9] + f[10] + f[11] = 16 * (x[4] - 16 * x[8])
    <2>1. x[4] - 16 * x[8] = 8 * b[8] + 4 * b[9] + 2 * b[10] + b[11]
      BY <1>18, <1>19, <1>20, <1>21, <1>26, <1>27
    <2>2. f[8] + f[9] + f[10] + f[11] = 16 * (8 * b[8] + 4 * b[9] + 2 * b[10] + b[11])
      BY <1>8, <1>27
    <2> QED BY <2>1, <2>2
  <1>30. f[4] + f[5] + f[6] + f[7] = 256 * (x[8] - 16 * x[12])
    <2>1. x[8] - 16 * x[12] = 8 * b[4] + 4 * b[5] + 2 * b[6] + b[7]
      BY <1>14, <1>15, <1>16, <1>17, <1>26, <1>27
    <2>2. f[4] + f[5] + f[6] + f[7] = 256 * (8 * b[4] + 4 * b[5] + 2 * b[6] + b[7])
      BY <1>8, <1>27
    <2> QED BY <2>1, <2>2
  <1>31. f[1] + f[2] + f[3] = 4096 * (x[12] - 8 * x[15])
    BY <1>8, <1>11, <1>12, <1>13, <1>26, <1>27
  <1>32. ASSUME NEW p \in 0 .. 15 PROVE f[p] \in Int
    BY DEF f, Weight
  <1>33. Total(f, 16) = f[0] + (f[1] + f[2] + f[3]) + (f[4] + f[5] + f[6] + f[7])
                        + (f[8] + f[9] + f[10] + f[11]) + (f[12] + f[13] + f[14] + f[15])
    BY <1>32, TotalOf16
  <1>34. Total(f, 16) = u - 65536 * b[0]
    <2>1. f[0] = -32768 * b[0] /\ b[0] \in Int
      BY <1>8, <1>27
    <2>2. x[0] \in Int /\ x[4] \in Int /\ x[8] \in Int /\ x[12] \in Int /\ x[15] \in Int
      BY <1>26
    <2> QED BY <1>4, <1>9, <1>28, <1>29, <1>30, <1>31, <1>33, <2>1, <2>2
  <1>35. b[0] = 0 \/ b[0] = 1
    BY <1>6
  <1> QED BY <1>1, <1>3, <1>9, <1>10, <1>34, <1>35

-----------------------------------------------------------------------------
(* The register of the checksum.                                           *)
Register == SUBSET (0 .. 15)

Stepped(crc, bits, k) == CrcBit(crc, k \in bits)

(* The polynomial comes in where the bit of the data and the highest bit   *)
(* of the register differ.                                                 *)
Feeds(crc, bits, k) == (k \in bits /\ 15 \notin crc) \/ (k \notin bits /\ 15 \in crc)

LEMMA SteppedIs ==
    ASSUME NEW crc \in Register, NEW bits, NEW k
    PROVE  /\ Stepped(crc, bits, k) \in Register
           /\ Feeds(crc, bits, k) => Stepped(crc, bits, k) = Xor(Shifted(crc), Polynomial)
           /\ ~Feeds(crc, bits, k) => Stepped(crc, bits, k) = Shifted(crc)
           /\ Shifted(crc) \in Register
           /\ \A p \in 0 .. 15 : p \in Shifted(crc) <=> p # 0 /\ p - 1 \in crc
  <1>1. Shifted(crc) \in Register
    BY DEF Shifted, Register
  <1>2. \A p \in 0 .. 15 : p \in Shifted(crc) <=> p # 0 /\ p - 1 \in crc
    BY DEF Shifted, Register
  <1>3. Polynomial \in Register
    BY DEF Polynomial, Register
  <1>4. Xor(Shifted(crc), Polynomial) \in Register
    BY <1>1, <1>3 DEF Xor, Register
  <1>5. Feeds(crc, bits, k) => Stepped(crc, bits, k) = Xor(Shifted(crc), Polynomial)
    BY DEF Feeds, Stepped, CrcBit
  <1>6. ~Feeds(crc, bits, k) => Stepped(crc, bits, k) = Shifted(crc)
    BY DEF Feeds, Stepped, CrcBit
  <1> QED BY <1>1, <1>2, <1>4, <1>5, <1>6

(* Bit by bit.                                                             *)
LEMMA SteppedBits ==
    ASSUME NEW crc \in Register, NEW bits, NEW k, NEW p \in 0 .. 15
    PROVE  p \in Stepped(crc, bits, k)
             <=> \/ p # 0 /\ p - 1 \in crc /\ ~(Feeds(crc, bits, k) /\ p \in Polynomial)
                 \/ ~(p # 0 /\ p - 1 \in crc) /\ Feeds(crc, bits, k) /\ p \in Polynomial
  <1>1. CASE Feeds(crc, bits, k)
    BY <1>1, SteppedIs DEF Xor
  <1>2. CASE ~Feeds(crc, bits, k)
    BY <1>2, SteppedIs
  <1> QED BY <1>1, <1>2

(* Two registers differ in what the differences of the data make of their  *)
(* difference.                                                             *)
LEMMA DifferenceSteps ==
    ASSUME NEW a \in Register, NEW c \in Register, NEW x, NEW y, NEW k
    PROVE  Xor(Stepped(a, x, k), Stepped(c, y, k)) = Stepped(Xor(a, c), Xor(x, y), k)
  <1>1. Xor(a, c) \in Register
    BY DEF Xor, Register
  <1>2. /\ Stepped(a, x, k) \subseteq 0 .. 15 /\ Stepped(c, y, k) \subseteq 0 .. 15
        /\ Stepped(Xor(a, c), Xor(x, y), k) \subseteq 0 .. 15
    BY <1>1, SteppedIs DEF Register
  <1>3. Feeds(Xor(a, c), Xor(x, y), k) <=> ~(Feeds(a, x, k) <=> Feeds(c, y, k))
    BY DEF Feeds, Xor
  <1>4. ASSUME NEW p \in 0 .. 15
        PROVE  p \in Stepped(Xor(a, c), Xor(x, y), k)
                 <=> ~(p \in Stepped(a, x, k) <=> p \in Stepped(c, y, k))
    <2>1. p - 1 \in Xor(a, c) <=> ~(p - 1 \in a <=> p - 1 \in c)
      BY DEF Xor
    <2>2. /\ p \in Stepped(a, x, k)
               <=> ~((p # 0 /\ p - 1 \in a) <=> (Feeds(a, x, k) /\ p \in Polynomial))
          /\ p \in Stepped(c, y, k)
               <=> ~((p # 0 /\ p - 1 \in c) <=> (Feeds(c, y, k) /\ p \in Polynomial))
          /\ p \in Stepped(Xor(a, c), Xor(x, y), k)
               <=> ~((p # 0 /\ p - 1 \in Xor(a, c))
                       <=> (Feeds(Xor(a, c), Xor(x, y), k) /\ p \in Polynomial))
      BY <1>1, SteppedBits, Zenon
    <2> QED BY <1>3, <2>1, <2>2, Zenon
  <1>5. \A p : p \in Xor(Stepped(a, x, k), Stepped(c, y, k))
                 <=> p \in Stepped(Xor(a, c), Xor(x, y), k)
    BY <1>2, <1>4, Zenon DEF Xor
  <1> QED BY <1>5

-----------------------------------------------------------------------------
(* The registers from a start on while bits go through.                    *)
Run(start, bits, n) ==
    CHOOSE crc : crc = [k \in 0 .. n |->
                          IF k = 0 THEN start ELSE Stepped(crc[k - 1], bits, k - 1)]

LEMMA ChecksumIsRun ==
    ASSUME NEW bits
    PROVE  crc16_ccitt_jch(bits) = Run(CrcStart, bits, DataBits)[DataBits]
  BY DEF crc16_ccitt_jch, Run, Stepped

LEMMA RunExists ==
    ASSUME NEW start, NEW bits
    PROVE  \A n \in Nat :
             \E r : r = [k \in 0 .. n |->
                           IF k = 0 THEN start ELSE Stepped(r[k - 1], bits, k - 1)]
  <1> DEFINE P(n) == \E r : r = [k \in 0 .. n |->
                          IF k = 0 THEN start ELSE Stepped(r[k - 1], bits, k - 1)]
             T == {n \in Nat : P(n)}
  <1>1. 0 \in T
    <2> DEFINE g == [k \in 0 .. 0 |-> start]
    <2>1. g = [k \in 0 .. 0 |-> IF k = 0 THEN start ELSE Stepped(g[k - 1], bits, k - 1)]
      OBVIOUS
    <2>2. P(0)
      BY <2>1
    <2> QED BY <2>2
  <1>2. ASSUME NEW n \in Nat, n \in T PROVE n + 1 \in T
    <2>1. PICK r : r = [k \in 0 .. n |->
                          IF k = 0 THEN start ELSE Stepped(r[k - 1], bits, k - 1)]
      BY <1>2
    <2> DEFINE g == [k \in 0 .. n + 1 |-> IF k = n + 1 THEN Stepped(r[n], bits, n) ELSE r[k]]
    <2>2. ASSUME NEW k \in 0 .. n + 1
          PROVE  g[k] = IF k = 0 THEN start ELSE Stepped(g[k - 1], bits, k - 1)
      <3>1. CASE k = 0
        BY <2>1, <3>1
      <3>2. CASE k = n + 1
        BY <3>2
      <3>3. CASE k \in 1 .. n
        <4>1. g[k] = r[k] /\ g[k - 1] = r[k - 1]
          BY <3>3
        <4>2. r[k] = Stepped(r[k - 1], bits, k - 1)
          BY <2>1, <3>3
        <4> QED BY <4>1, <4>2, <3>3
      <3> QED BY <3>1, <3>2, <3>3
    <2>3. g = [k \in 0 .. n + 1 |->
                 IF k = 0 THEN start ELSE Stepped(g[k - 1], bits, k - 1)]
      BY <2>2
    <2> HIDE DEF g
    <2>4. P(n + 1)
      BY <2>3
    <2> QED BY <2>4
  <1> HIDE DEF T
  <1>3. \A n \in Nat : n \in T
    BY <1>1, <1>2, AllNumbers
  <1> QED BY <1>3 DEF T

(* The registers of a run.                                                 *)
Trace(r, bits, n) ==
    /\ r \in [0 .. n -> Register]
    /\ \A k \in 0 .. n - 1 : r[k + 1] = Stepped(r[k], bits, k)

LEMMA RunIsTrace ==
    ASSUME NEW start \in Register, NEW bits, NEW n \in Nat
    PROVE  Trace(Run(start, bits, n), bits, n) /\ Run(start, bits, n)[0] = start
  <1> DEFINE r == Run(start, bits, n)
  <1>1. r = [k \in 0 .. n |-> IF k = 0 THEN start ELSE Stepped(r[k - 1], bits, k - 1)]
    BY RunExists DEF Run
  <1> HIDE DEF r
  <1>2. r[0] = start
    BY <1>1
  <1>3. ASSUME NEW k \in 0 .. n - 1 PROVE r[k + 1] = Stepped(r[k], bits, k)
    BY <1>1
  <1> DEFINE T == {k \in Nat : k <= n => r[k] \in Register}
  <1>4. 0 \in T
    BY <1>2
  <1>5. ASSUME NEW k \in Nat, k \in T PROVE k + 1 \in T
    BY <1>3, <1>5, SteppedIs
  <1> HIDE DEF T
  <1>6. \A k \in Nat : k \in T
    BY <1>4, <1>5, AllNumbers
  <1>7. \A k \in 0 .. n : r[k] \in Register
    BY <1>6 DEF T
  <1>8. r = [k \in 0 .. n |-> r[k]]
    BY <1>1
  <1>9. r \in [0 .. n -> Register]
    BY <1>7, <1>8
  <1> QED BY <1>2, <1>3, <1>9 DEF r, Trace

-----------------------------------------------------------------------------
(* A step over a right bit and over a wrong one.                           *)
ZeroStep(crc) == Stepped(crc, {}, 0)
OneStep(crc) == Stepped(crc, {0}, 0)

ZeroTrace(z, n) == \A k \in Nat : k < n => z[k + 1] = ZeroStep(z[k])
OneTrace(z, n) == \A k \in Nat : k < n => z[k + 1] = OneStep(z[k])

LEMMA StepsAre ==
    ASSUME NEW crc, NEW bits, NEW k
    PROVE  /\ k \notin bits => Stepped(crc, bits, k) = ZeroStep(crc)
           /\ k \in bits => Stepped(crc, bits, k) = OneStep(crc)
  <1>1. CASE k \in bits
    BY <1>1 DEF Stepped, CrcBit, ZeroStep, OneStep
  <1>2. CASE k \notin bits
    BY <1>2 DEF Stepped, CrcBit, ZeroStep, OneStep
  <1> QED BY <1>1, <1>2

TwoBits(crc) == \E p, q \in crc : p # q

(* What a single wrong bit leaves in the register, worked out to the end   *)
(* of the data: never nothing and never a single bit, which a second wrong *)
(* bit could take away.                                                    *)
LEMMA TraceOfOneBit ==
    ASSUME NEW z, ZeroTrace(z, 63), z[0] = Polynomial
    PROVE  \A m \in Nat : m <= 63 => TwoBits(z[m])
  <1> DEFINE S0 == {0, 5, 12}
             S1 == {1, 6, 13}
             S2 == {2, 7, 14}
             S3 == {3, 8, 15}
             S4 == {0, 4, 5, 9, 12}
             S5 == {1, 5, 6, 10, 13}
             S6 == {2, 6, 7, 11, 14}
             S7 == {3, 7, 8, 12, 15}
             S8 == {0, 4, 5, 8, 9, 12, 13}
             S9 == {1, 5, 6, 9, 10, 13, 14}
             S10 == {2, 6, 7, 10, 11, 14, 15}
             S11 == {0, 3, 5, 7, 8, 11, 15}
             S12 == {0, 1, 4, 5, 6, 8, 9}
             S13 == {1, 2, 5, 6, 7, 9, 10}
             S14 == {2, 3, 6, 7, 8, 10, 11}
             S15 == {3, 4, 7, 8, 9, 11, 12}
             S16 == {4, 5, 8, 9, 10, 12, 13}
             S17 == {5, 6, 9, 10, 11, 13, 14}
             S18 == {6, 7, 10, 11, 12, 14, 15}
             S19 == {0, 5, 7, 8, 11, 13, 15}
             S20 == {0, 1, 5, 6, 8, 9, 14}
             S21 == {1, 2, 6, 7, 9, 10, 15}
             S22 == {0, 2, 3, 5, 7, 8, 10, 11, 12}
             S23 == {1, 3, 4, 6, 8, 9, 11, 12, 13}
             S24 == {2, 4, 5, 7, 9, 10, 12, 13, 14}
             S25 == {3, 5, 6, 8, 10, 11, 13, 14, 15}
             S26 == {0, 4, 5, 6, 7, 9, 11, 14, 15}
             S27 == {0, 1, 6, 7, 8, 10, 15}
             S28 == {0, 1, 2, 5, 7, 8, 9, 11, 12}
             S29 == {1, 2, 3, 6, 8, 9, 10, 12, 13}
             S30 == {2, 3, 4, 7, 9, 10, 11, 13, 14}
             S31 == {3, 4, 5, 8, 10, 11, 12, 14, 15}
             S32 == {0, 4, 6, 9, 11, 13, 15}
             S33 == {0, 1, 7, 10, 14}
             S34 == {1, 2, 8, 11, 15}
             S35 == {0, 2, 3, 5, 9}
             S36 == {1, 3, 4, 6, 10}
             S37 == {2, 4, 5, 7, 11}
             S38 == {3, 5, 6, 8, 12}
             S39 == {4, 6, 7, 9, 13}
             S40 == {5, 7, 8, 10, 14}
             S41 == {6, 8, 9, 11, 15}
             S42 == {0, 5, 7, 9, 10}
             S43 == {1, 6, 8, 10, 11}
             S44 == {2, 7, 9, 11, 12}
             S45 == {3, 8, 10, 12, 13}
             S46 == {4, 9, 11, 13, 14}
             S47 == {5, 10, 12, 14, 15}
             S48 == {0, 5, 6, 11, 12, 13, 15}
             S49 == {0, 1, 5, 6, 7, 13, 14}
             S50 == {1, 2, 6, 7, 8, 14, 15}
             S51 == {0, 2, 3, 5, 7, 8, 9, 12, 15}
             S52 == {0, 1, 3, 4, 5, 6, 8, 9, 10, 12, 13}
             S53 == {1, 2, 4, 5, 6, 7, 9, 10, 11, 13, 14}
             S54 == {2, 3, 5, 6, 7, 8, 10, 11, 12, 14, 15}
             S55 == {0, 3, 4, 5, 6, 7, 8, 9, 11, 13, 15}
             S56 == {0, 1, 4, 6, 7, 8, 9, 10, 14}
             S57 == {1, 2, 5, 7, 8, 9, 10, 11, 15}
             S58 == {0, 2, 3, 5, 6, 8, 9, 10, 11}
             S59 == {1, 3, 4, 6, 7, 9, 10, 11, 12}
             S60 == {2, 4, 5, 7, 8, 10, 11, 12, 13}
             S61 == {3, 5, 6, 8, 9, 11, 12, 13, 14}
             S62 == {4, 6, 7, 9, 10, 12, 13, 14, 15}
             S63 == {0, 7, 8, 10, 11, 12, 13, 14, 15}
  <1>0. z[0] = S0
    BY DEF Polynomial
  <1>1. \A k \in Nat : k < 63 => z[k + 1] = ZeroStep(z[k])
    BY DEF ZeroTrace
  <1>2. /\ ZeroStep(S0) = S1 /\ ZeroStep(S1) = S2 /\ ZeroStep(S2) = S3
        /\ ZeroStep(S3) = S4 /\ ZeroStep(S4) = S5 /\ ZeroStep(S5) = S6
        /\ ZeroStep(S6) = S7 /\ ZeroStep(S7) = S8
    BY DEF ZeroStep, Stepped, CrcBit, Shifted, Polynomial, Xor
  <1>3. /\ ZeroStep(S8) = S9 /\ ZeroStep(S9) = S10 /\ ZeroStep(S10) = S11
        /\ ZeroStep(S11) = S12 /\ ZeroStep(S12) = S13 /\ ZeroStep(S13) = S14
        /\ ZeroStep(S14) = S15 /\ ZeroStep(S15) = S16
    BY DEF ZeroStep, Stepped, CrcBit, Shifted, Polynomial, Xor
  <1>4. /\ ZeroStep(S16) = S17 /\ ZeroStep(S17) = S18 /\ ZeroStep(S18) = S19
        /\ ZeroStep(S19) = S20 /\ ZeroStep(S20) = S21 /\ ZeroStep(S21) = S22
        /\ ZeroStep(S22) = S23 /\ ZeroStep(S23) = S24
    BY DEF ZeroStep, Stepped, CrcBit, Shifted, Polynomial, Xor
  <1>5. /\ ZeroStep(S24) = S25 /\ ZeroStep(S25) = S26 /\ ZeroStep(S26) = S27
        /\ ZeroStep(S27) = S28 /\ ZeroStep(S28) = S29 /\ ZeroStep(S29) = S30
        /\ ZeroStep(S30) = S31 /\ ZeroStep(S31) = S32
    BY DEF ZeroStep, Stepped, CrcBit, Shifted, Polynomial, Xor
  <1>6. /\ ZeroStep(S32) = S33 /\ ZeroStep(S33) = S34 /\ ZeroStep(S34) = S35
        /\ ZeroStep(S35) = S36 /\ ZeroStep(S36) = S37 /\ ZeroStep(S37) = S38
        /\ ZeroStep(S38) = S39 /\ ZeroStep(S39) = S40
    BY DEF ZeroStep, Stepped, CrcBit, Shifted, Polynomial, Xor
  <1>7. /\ ZeroStep(S40) = S41 /\ ZeroStep(S41) = S42 /\ ZeroStep(S42) = S43
        /\ ZeroStep(S43) = S44 /\ ZeroStep(S44) = S45 /\ ZeroStep(S45) = S46
        /\ ZeroStep(S46) = S47 /\ ZeroStep(S47) = S48
    BY DEF ZeroStep, Stepped, CrcBit, Shifted, Polynomial, Xor
  <1>8. /\ ZeroStep(S48) = S49 /\ ZeroStep(S49) = S50 /\ ZeroStep(S50) = S51
        /\ ZeroStep(S51) = S52 /\ ZeroStep(S52) = S53 /\ ZeroStep(S53) = S54
        /\ ZeroStep(S54) = S55 /\ ZeroStep(S55) = S56
    BY DEF ZeroStep, Stepped, CrcBit, Shifted, Polynomial, Xor
  <1>9. /\ ZeroStep(S56) = S57 /\ ZeroStep(S57) = S58 /\ ZeroStep(S58) = S59
        /\ ZeroStep(S59) = S60 /\ ZeroStep(S60) = S61 /\ ZeroStep(S61) = S62
        /\ ZeroStep(S62) = S63
    BY DEF ZeroStep, Stepped, CrcBit, Shifted, Polynomial, Xor
  <1>10. /\ TwoBits(S0) /\ TwoBits(S1) /\ TwoBits(S2) /\ TwoBits(S3)
        /\ TwoBits(S4) /\ TwoBits(S5) /\ TwoBits(S6) /\ TwoBits(S7)
    <2>1. /\ 0 \in S0 /\ 5 \in S0 /\ 1 \in S1 /\ 6 \in S1
          /\ 2 \in S2 /\ 7 \in S2 /\ 3 \in S3 /\ 8 \in S3
          /\ 0 \in S4 /\ 4 \in S4 /\ 1 \in S5 /\ 5 \in S5
          /\ 2 \in S6 /\ 6 \in S6 /\ 3 \in S7 /\ 7 \in S7
      OBVIOUS
    <2> HIDE DEF S0, S1, S2, S3, S4, S5, S6, S7
    <2> QED BY <2>1 DEF TwoBits
  <1>11. /\ TwoBits(S8) /\ TwoBits(S9) /\ TwoBits(S10) /\ TwoBits(S11)
        /\ TwoBits(S12) /\ TwoBits(S13) /\ TwoBits(S14) /\ TwoBits(S15)
    <2>1. /\ 0 \in S8 /\ 4 \in S8 /\ 1 \in S9 /\ 5 \in S9
          /\ 2 \in S10 /\ 6 \in S10 /\ 0 \in S11 /\ 3 \in S11
          /\ 0 \in S12 /\ 1 \in S12 /\ 1 \in S13 /\ 2 \in S13
          /\ 2 \in S14 /\ 3 \in S14 /\ 3 \in S15 /\ 4 \in S15
      OBVIOUS
    <2> HIDE DEF S8, S9, S10, S11, S12, S13, S14, S15
    <2> QED BY <2>1 DEF TwoBits
  <1>12. /\ TwoBits(S16) /\ TwoBits(S17) /\ TwoBits(S18) /\ TwoBits(S19)
        /\ TwoBits(S20) /\ TwoBits(S21) /\ TwoBits(S22) /\ TwoBits(S23)
    <2>1. /\ 4 \in S16 /\ 5 \in S16 /\ 5 \in S17 /\ 6 \in S17
          /\ 6 \in S18 /\ 7 \in S18 /\ 0 \in S19 /\ 5 \in S19
          /\ 0 \in S20 /\ 1 \in S20 /\ 1 \in S21 /\ 2 \in S21
          /\ 0 \in S22 /\ 2 \in S22 /\ 1 \in S23 /\ 3 \in S23
      OBVIOUS
    <2> HIDE DEF S16, S17, S18, S19, S20, S21, S22, S23
    <2> QED BY <2>1 DEF TwoBits
  <1>13. /\ TwoBits(S24) /\ TwoBits(S25) /\ TwoBits(S26) /\ TwoBits(S27)
        /\ TwoBits(S28) /\ TwoBits(S29) /\ TwoBits(S30) /\ TwoBits(S31)
    <2>1. /\ 2 \in S24 /\ 4 \in S24 /\ 3 \in S25 /\ 5 \in S25
          /\ 0 \in S26 /\ 4 \in S26 /\ 0 \in S27 /\ 1 \in S27
          /\ 0 \in S28 /\ 1 \in S28 /\ 1 \in S29 /\ 2 \in S29
          /\ 2 \in S30 /\ 3 \in S30 /\ 3 \in S31 /\ 4 \in S31
      OBVIOUS
    <2> HIDE DEF S24, S25, S26, S27, S28, S29, S30, S31
    <2> QED BY <2>1 DEF TwoBits
  <1>14. /\ TwoBits(S32) /\ TwoBits(S33) /\ TwoBits(S34) /\ TwoBits(S35)
        /\ TwoBits(S36) /\ TwoBits(S37) /\ TwoBits(S38) /\ TwoBits(S39)
    <2>1. /\ 0 \in S32 /\ 4 \in S32 /\ 0 \in S33 /\ 1 \in S33
          /\ 1 \in S34 /\ 2 \in S34 /\ 0 \in S35 /\ 2 \in S35
          /\ 1 \in S36 /\ 3 \in S36 /\ 2 \in S37 /\ 4 \in S37
          /\ 3 \in S38 /\ 5 \in S38 /\ 4 \in S39 /\ 6 \in S39
      OBVIOUS
    <2> HIDE DEF S32, S33, S34, S35, S36, S37, S38, S39
    <2> QED BY <2>1 DEF TwoBits
  <1>15. /\ TwoBits(S40) /\ TwoBits(S41) /\ TwoBits(S42) /\ TwoBits(S43)
        /\ TwoBits(S44) /\ TwoBits(S45) /\ TwoBits(S46) /\ TwoBits(S47)
    <2>1. /\ 5 \in S40 /\ 7 \in S40 /\ 6 \in S41 /\ 8 \in S41
          /\ 0 \in S42 /\ 5 \in S42 /\ 1 \in S43 /\ 6 \in S43
          /\ 2 \in S44 /\ 7 \in S44 /\ 3 \in S45 /\ 8 \in S45
          /\ 4 \in S46 /\ 9 \in S46 /\ 5 \in S47 /\ 10 \in S47
      OBVIOUS
    <2> HIDE DEF S40, S41, S42, S43, S44, S45, S46, S47
    <2> QED BY <2>1 DEF TwoBits
  <1>16. /\ TwoBits(S48) /\ TwoBits(S49) /\ TwoBits(S50) /\ TwoBits(S51)
        /\ TwoBits(S52) /\ TwoBits(S53) /\ TwoBits(S54) /\ TwoBits(S55)
    <2>1. /\ 0 \in S48 /\ 5 \in S48 /\ 0 \in S49 /\ 1 \in S49
          /\ 1 \in S50 /\ 2 \in S50 /\ 0 \in S51 /\ 2 \in S51
          /\ 0 \in S52 /\ 1 \in S52 /\ 1 \in S53 /\ 2 \in S53
          /\ 2 \in S54 /\ 3 \in S54 /\ 0 \in S55 /\ 3 \in S55
      OBVIOUS
    <2> HIDE DEF S48, S49, S50, S51, S52, S53, S54, S55
    <2> QED BY <2>1 DEF TwoBits
  <1>17. /\ TwoBits(S56) /\ TwoBits(S57) /\ TwoBits(S58) /\ TwoBits(S59)
        /\ TwoBits(S60) /\ TwoBits(S61) /\ TwoBits(S62) /\ TwoBits(S63)
    <2>1. /\ 0 \in S56 /\ 1 \in S56 /\ 1 \in S57 /\ 2 \in S57
          /\ 0 \in S58 /\ 2 \in S58 /\ 1 \in S59 /\ 3 \in S59
          /\ 2 \in S60 /\ 4 \in S60 /\ 3 \in S61 /\ 5 \in S61
          /\ 4 \in S62 /\ 6 \in S62 /\ 0 \in S63 /\ 7 \in S63
      OBVIOUS
    <2> HIDE DEF S56, S57, S58, S59, S60, S61, S62, S63
    <2> QED BY <2>1 DEF TwoBits
  <1> HIDE DEF S0, S1, S2, S3, S4, S5, S6, S7, S8, S9, S10, S11, S12, S13, S14, S15,
              S16, S17, S18, S19, S20, S21, S22, S23, S24, S25, S26, S27, S28, S29, S30, S31,
              S32, S33, S34, S35, S36, S37, S38, S39, S40, S41, S42, S43, S44, S45, S46, S47,
              S48, S49, S50, S51, S52, S53, S54, S55, S56, S57, S58, S59, S60, S61, S62, S63
  <1>18. /\ z[1] = S1 /\ z[2] = S2 /\ z[3] = S3 /\ z[4] = S4
        /\ z[5] = S5 /\ z[6] = S6 /\ z[7] = S7 /\ z[8] = S8
    <2>1. /\ z[1] = ZeroStep(z[0]) /\ z[2] = ZeroStep(z[1]) /\ z[3] = ZeroStep(z[2])
          /\ z[4] = ZeroStep(z[3]) /\ z[5] = ZeroStep(z[4]) /\ z[6] = ZeroStep(z[5])
          /\ z[7] = ZeroStep(z[6]) /\ z[8] = ZeroStep(z[7])
      BY <1>1
    <2> QED BY <1>2, <1>0, <2>1
  <1>19. /\ z[9] = S9 /\ z[10] = S10 /\ z[11] = S11 /\ z[12] = S12
        /\ z[13] = S13 /\ z[14] = S14 /\ z[15] = S15 /\ z[16] = S16
    <2>1. /\ z[9] = ZeroStep(z[8]) /\ z[10] = ZeroStep(z[9]) /\ z[11] = ZeroStep(z[10])
          /\ z[12] = ZeroStep(z[11]) /\ z[13] = ZeroStep(z[12]) /\ z[14] = ZeroStep(z[13])
          /\ z[15] = ZeroStep(z[14]) /\ z[16] = ZeroStep(z[15])
      BY <1>1
    <2> QED BY <1>3, <1>18, <2>1
  <1>20. /\ z[17] = S17 /\ z[18] = S18 /\ z[19] = S19 /\ z[20] = S20
        /\ z[21] = S21 /\ z[22] = S22 /\ z[23] = S23 /\ z[24] = S24
    <2>1. /\ z[17] = ZeroStep(z[16]) /\ z[18] = ZeroStep(z[17]) /\ z[19] = ZeroStep(z[18])
          /\ z[20] = ZeroStep(z[19]) /\ z[21] = ZeroStep(z[20]) /\ z[22] = ZeroStep(z[21])
          /\ z[23] = ZeroStep(z[22]) /\ z[24] = ZeroStep(z[23])
      BY <1>1
    <2> QED BY <1>4, <1>19, <2>1
  <1>21. /\ z[25] = S25 /\ z[26] = S26 /\ z[27] = S27 /\ z[28] = S28
        /\ z[29] = S29 /\ z[30] = S30 /\ z[31] = S31 /\ z[32] = S32
    <2>1. /\ z[25] = ZeroStep(z[24]) /\ z[26] = ZeroStep(z[25]) /\ z[27] = ZeroStep(z[26])
          /\ z[28] = ZeroStep(z[27]) /\ z[29] = ZeroStep(z[28]) /\ z[30] = ZeroStep(z[29])
          /\ z[31] = ZeroStep(z[30]) /\ z[32] = ZeroStep(z[31])
      BY <1>1
    <2> QED BY <1>5, <1>20, <2>1
  <1>22. /\ z[33] = S33 /\ z[34] = S34 /\ z[35] = S35 /\ z[36] = S36
        /\ z[37] = S37 /\ z[38] = S38 /\ z[39] = S39 /\ z[40] = S40
    <2>1. /\ z[33] = ZeroStep(z[32]) /\ z[34] = ZeroStep(z[33]) /\ z[35] = ZeroStep(z[34])
          /\ z[36] = ZeroStep(z[35]) /\ z[37] = ZeroStep(z[36]) /\ z[38] = ZeroStep(z[37])
          /\ z[39] = ZeroStep(z[38]) /\ z[40] = ZeroStep(z[39])
      BY <1>1
    <2> QED BY <1>6, <1>21, <2>1
  <1>23. /\ z[41] = S41 /\ z[42] = S42 /\ z[43] = S43 /\ z[44] = S44
        /\ z[45] = S45 /\ z[46] = S46 /\ z[47] = S47 /\ z[48] = S48
    <2>1. /\ z[41] = ZeroStep(z[40]) /\ z[42] = ZeroStep(z[41]) /\ z[43] = ZeroStep(z[42])
          /\ z[44] = ZeroStep(z[43]) /\ z[45] = ZeroStep(z[44]) /\ z[46] = ZeroStep(z[45])
          /\ z[47] = ZeroStep(z[46]) /\ z[48] = ZeroStep(z[47])
      BY <1>1
    <2> QED BY <1>7, <1>22, <2>1
  <1>24. /\ z[49] = S49 /\ z[50] = S50 /\ z[51] = S51 /\ z[52] = S52
        /\ z[53] = S53 /\ z[54] = S54 /\ z[55] = S55 /\ z[56] = S56
    <2>1. /\ z[49] = ZeroStep(z[48]) /\ z[50] = ZeroStep(z[49]) /\ z[51] = ZeroStep(z[50])
          /\ z[52] = ZeroStep(z[51]) /\ z[53] = ZeroStep(z[52]) /\ z[54] = ZeroStep(z[53])
          /\ z[55] = ZeroStep(z[54]) /\ z[56] = ZeroStep(z[55])
      BY <1>1
    <2> QED BY <1>8, <1>23, <2>1
  <1>25. /\ z[57] = S57 /\ z[58] = S58 /\ z[59] = S59 /\ z[60] = S60
        /\ z[61] = S61 /\ z[62] = S62 /\ z[63] = S63
    <2>1. /\ z[57] = ZeroStep(z[56]) /\ z[58] = ZeroStep(z[57]) /\ z[59] = ZeroStep(z[58])
          /\ z[60] = ZeroStep(z[59]) /\ z[61] = ZeroStep(z[60]) /\ z[62] = ZeroStep(z[61])
          /\ z[63] = ZeroStep(z[62])
      BY <1>1
    <2> QED BY <1>9, <1>24, <2>1
  <1>26. ASSUME NEW m \in Nat, 0 <= m, m <= 7 PROVE TwoBits(z[m])
    <2>1. \/ m = 0 \/ m = 1 \/ m = 2 \/ m = 3 \/ m = 4 \/ m = 5 \/ m = 6 \/ m = 7
      BY <1>26
    <2> QED BY <1>10, <1>0, <1>18, <2>1
  <1>27. ASSUME NEW m \in Nat, 8 <= m, m <= 15 PROVE TwoBits(z[m])
    <2>1. \/ m = 8 \/ m = 9 \/ m = 10 \/ m = 11 \/ m = 12 \/ m = 13 \/ m = 14 \/ m = 15
      BY <1>27
    <2> QED BY <1>11, <1>18, <1>19, <2>1
  <1>28. ASSUME NEW m \in Nat, 16 <= m, m <= 23 PROVE TwoBits(z[m])
    <2>1. \/ m = 16 \/ m = 17 \/ m = 18 \/ m = 19 \/ m = 20 \/ m = 21 \/ m = 22 \/ m = 23
      BY <1>28
    <2> QED BY <1>12, <1>19, <1>20, <2>1
  <1>29. ASSUME NEW m \in Nat, 24 <= m, m <= 31 PROVE TwoBits(z[m])
    <2>1. \/ m = 24 \/ m = 25 \/ m = 26 \/ m = 27 \/ m = 28 \/ m = 29 \/ m = 30 \/ m = 31
      BY <1>29
    <2> QED BY <1>13, <1>20, <1>21, <2>1
  <1>30. ASSUME NEW m \in Nat, 32 <= m, m <= 39 PROVE TwoBits(z[m])
    <2>1. \/ m = 32 \/ m = 33 \/ m = 34 \/ m = 35 \/ m = 36 \/ m = 37 \/ m = 38 \/ m = 39
      BY <1>30
    <2> QED BY <1>14, <1>21, <1>22, <2>1
  <1>31. ASSUME NEW m \in Nat, 40 <= m, m <= 47 PROVE TwoBits(z[m])
    <2>1. \/ m = 40 \/ m = 41 \/ m = 42 \/ m = 43 \/ m = 44 \/ m = 45 \/ m = 46 \/ m = 47
      BY <1>31
    <2> QED BY <1>15, <1>22, <1>23, <2>1
  <1>32. ASSUME NEW m \in Nat, 48 <= m, m <= 55 PROVE TwoBits(z[m])
    <2>1. \/ m = 48 \/ m = 49 \/ m = 50 \/ m = 51 \/ m = 52 \/ m = 53 \/ m = 54 \/ m = 55
      BY <1>32
    <2> QED BY <1>16, <1>23, <1>24, <2>1
  <1>33. ASSUME NEW m \in Nat, 56 <= m, m <= 63 PROVE TwoBits(z[m])
    <2>1. \/ m = 56 \/ m = 57 \/ m = 58 \/ m = 59 \/ m = 60 \/ m = 61 \/ m = 62 \/ m = 63
      BY <1>33
    <2> QED BY <1>17, <1>24, <1>25, <2>1
  <1>34. \A m \in Nat : m <= 63 =>
           \/ 0 <= m /\ m <= 7
           \/ 8 <= m /\ m <= 15
           \/ 16 <= m /\ m <= 23
           \/ 24 <= m /\ m <= 31
           \/ 32 <= m /\ m <= 39
           \/ 40 <= m /\ m <= 47
           \/ 48 <= m /\ m <= 55
           \/ 56 <= m /\ m <= 63
    OBVIOUS
  <1> QED BY <1>26, <1>27, <1>28, <1>29, <1>30, <1>31, <1>32, <1>33, <1>34

(* The checksum of a line that is high all the time is not what the line   *)
(* shows for it.                                                           *)
LEMMA TraceOfOnes ==
    ASSUME NEW r, OneTrace(r, 64), r[0] = 0 .. 15
    PROVE  r[64] # 0 .. 15
  <1> DEFINE S0 == {0, 1, 2, 3, 4, 5, 6, 7, 8, 9, 10, 11, 12, 13, 14, 15}
             S1 == {1, 2, 3, 4, 5, 6, 7, 8, 9, 10, 11, 12, 13, 14, 15}
             S2 == {2, 3, 4, 5, 6, 7, 8, 9, 10, 11, 12, 13, 14, 15}
             S3 == {3, 4, 5, 6, 7, 8, 9, 10, 11, 12, 13, 14, 15}
             S4 == {4, 5, 6, 7, 8, 9, 10, 11, 12, 13, 14, 15}
             S5 == {5, 6, 7, 8, 9, 10, 11, 12, 13, 14, 15}
             S6 == {6, 7, 8, 9, 10, 11, 12, 13, 14, 15}
             S7 == {7, 8, 9, 10, 11, 12, 13, 14, 15}
             S8 == {8, 9, 10, 11, 12, 13, 14, 15}
             S9 == {9, 10, 11, 12, 13, 14, 15}
             S10 == {10, 11, 12, 13, 14, 15}
             S11 == {11, 12, 13, 14, 15}
             S12 == {12, 13, 14, 15}
             S13 == {13, 14, 15}
             S14 == {14, 15}
             S15 == {15}
             S16 == {}
             S17 == {0, 5, 12}
             S18 == {0, 1, 5, 6, 12, 13}
             S19 == {0, 1, 2, 5, 6, 7, 12, 13, 14}
             S20 == {0, 1, 2, 3, 5, 6, 7, 8, 12, 13, 14, 15}
             S21 == {1, 2, 3, 4, 6, 7, 8, 9, 13, 14, 15}
             S22 == {2, 3, 4, 5, 7, 8, 9, 10, 14, 15}
             S23 == {3, 4, 5, 6, 8, 9, 10, 11, 15}
             S24 == {4, 5, 6, 7, 9, 10, 11, 12}
             S25 == {0, 6, 7, 8, 10, 11, 13}
             S26 == {0, 1, 5, 7, 8, 9, 11, 14}
             S27 == {0, 1, 2, 5, 6, 8, 9, 10, 15}
             S28 == {1, 2, 3, 6, 7, 9, 10, 11}
             S29 == {0, 2, 3, 4, 5, 7, 8, 10, 11}
             S30 == {0, 1, 3, 4, 6, 8, 9, 11}
             S31 == {0, 1, 2, 4, 7, 9, 10}
             S32 == {0, 1, 2, 3, 8, 10, 11, 12}
             S33 == {0, 1, 2, 3, 4, 5, 9, 11, 13}
             S34 == {0, 1, 2, 3, 4, 6, 10, 14}
             S35 == {0, 1, 2, 3, 4, 7, 11, 12, 15}
             S36 == {1, 2, 3, 4, 5, 8, 12, 13}
             S37 == {0, 2, 3, 4, 6, 9, 12, 13, 14}
             S38 == {0, 1, 3, 4, 7, 10, 12, 13, 14, 15}
             S39 == {1, 2, 4, 5, 8, 11, 13, 14, 15}
             S40 == {2, 3, 5, 6, 9, 12, 14, 15}
             S41 == {3, 4, 6, 7, 10, 13, 15}
             S42 == {4, 5, 7, 8, 11, 14}
             S43 == {0, 6, 8, 9, 15}
             S44 == {1, 7, 9, 10}
             S45 == {0, 2, 5, 8, 10, 11, 12}
             S46 == {0, 1, 3, 5, 6, 9, 11, 13}
             S47 == {0, 1, 2, 4, 5, 6, 7, 10, 14}
             S48 == {0, 1, 2, 3, 6, 7, 8, 11, 12, 15}
             S49 == {1, 2, 3, 4, 7, 8, 9, 12, 13}
             S50 == {0, 2, 3, 4, 8, 9, 10, 12, 13, 14}
             S51 == {0, 1, 3, 4, 9, 10, 11, 12, 13, 14, 15}
             S52 == {1, 2, 4, 5, 10, 11, 12, 13, 14, 15}
             S53 == {2, 3, 5, 6, 11, 12, 13, 14, 15}
             S54 == {3, 4, 6, 7, 12, 13, 14, 15}
             S55 == {4, 5, 7, 8, 13, 14, 15}
             S56 == {5, 6, 8, 9, 14, 15}
             S57 == {6, 7, 9, 10, 15}
             S58 == {7, 8, 10, 11}
             S59 == {0, 5, 8, 9, 11}
             S60 == {0, 1, 5, 6, 9, 10}
             S61 == {0, 1, 2, 5, 6, 7, 10, 11, 12}
             S62 == {0, 1, 2, 3, 5, 6, 7, 8, 11, 13}
             S63 == {0, 1, 2, 3, 4, 5, 6, 7, 8, 9, 14}
             S64 == {0, 1, 2, 3, 4, 6, 7, 8, 9, 10, 12, 15}
  <1>0. r[0] = S0
    OBVIOUS
  <1>1. \A k \in Nat : k < 64 => r[k + 1] = OneStep(r[k])
    BY DEF OneTrace
  <1>2. /\ OneStep(S0) = S1 /\ OneStep(S1) = S2 /\ OneStep(S2) = S3
        /\ OneStep(S3) = S4 /\ OneStep(S4) = S5 /\ OneStep(S5) = S6
        /\ OneStep(S6) = S7 /\ OneStep(S7) = S8
    BY DEF OneStep, Stepped, CrcBit, Shifted, Polynomial, Xor
  <1>3. /\ OneStep(S8) = S9 /\ OneStep(S9) = S10 /\ OneStep(S10) = S11
        /\ OneStep(S11) = S12 /\ OneStep(S12) = S13 /\ OneStep(S13) = S14
        /\ OneStep(S14) = S15 /\ OneStep(S15) = S16
    BY DEF OneStep, Stepped, CrcBit, Shifted, Polynomial, Xor
  <1>4. /\ OneStep(S16) = S17 /\ OneStep(S17) = S18 /\ OneStep(S18) = S19
        /\ OneStep(S19) = S20 /\ OneStep(S20) = S21 /\ OneStep(S21) = S22
        /\ OneStep(S22) = S23 /\ OneStep(S23) = S24
    BY DEF OneStep, Stepped, CrcBit, Shifted, Polynomial, Xor
  <1>5. /\ OneStep(S24) = S25 /\ OneStep(S25) = S26 /\ OneStep(S26) = S27
        /\ OneStep(S27) = S28 /\ OneStep(S28) = S29 /\ OneStep(S29) = S30
        /\ OneStep(S30) = S31 /\ OneStep(S31) = S32
    BY DEF OneStep, Stepped, CrcBit, Shifted, Polynomial, Xor
  <1>6. /\ OneStep(S32) = S33 /\ OneStep(S33) = S34 /\ OneStep(S34) = S35
        /\ OneStep(S35) = S36 /\ OneStep(S36) = S37 /\ OneStep(S37) = S38
        /\ OneStep(S38) = S39 /\ OneStep(S39) = S40
    BY DEF OneStep, Stepped, CrcBit, Shifted, Polynomial, Xor
  <1>7. /\ OneStep(S40) = S41 /\ OneStep(S41) = S42 /\ OneStep(S42) = S43
        /\ OneStep(S43) = S44 /\ OneStep(S44) = S45 /\ OneStep(S45) = S46
        /\ OneStep(S46) = S47 /\ OneStep(S47) = S48
    BY DEF OneStep, Stepped, CrcBit, Shifted, Polynomial, Xor
  <1>8. /\ OneStep(S48) = S49 /\ OneStep(S49) = S50 /\ OneStep(S50) = S51
        /\ OneStep(S51) = S52 /\ OneStep(S52) = S53 /\ OneStep(S53) = S54
        /\ OneStep(S54) = S55 /\ OneStep(S55) = S56
    BY DEF OneStep, Stepped, CrcBit, Shifted, Polynomial, Xor
  <1>9. /\ OneStep(S56) = S57 /\ OneStep(S57) = S58 /\ OneStep(S58) = S59
        /\ OneStep(S59) = S60 /\ OneStep(S60) = S61 /\ OneStep(S61) = S62
        /\ OneStep(S62) = S63 /\ OneStep(S63) = S64
    BY DEF OneStep, Stepped, CrcBit, Shifted, Polynomial, Xor
  <1>10. S64 # 0 .. 15
    OBVIOUS
  <1> HIDE DEF S0, S1, S2, S3, S4, S5, S6, S7, S8, S9, S10, S11, S12, S13, S14, S15,
              S16, S17, S18, S19, S20, S21, S22, S23, S24, S25, S26, S27, S28, S29, S30, S31,
              S32, S33, S34, S35, S36, S37, S38, S39, S40, S41, S42, S43, S44, S45, S46, S47,
              S48, S49, S50, S51, S52, S53, S54, S55, S56, S57, S58, S59, S60, S61, S62, S63,
              S64
  <1>11. /\ r[1] = S1 /\ r[2] = S2 /\ r[3] = S3 /\ r[4] = S4
        /\ r[5] = S5 /\ r[6] = S6 /\ r[7] = S7 /\ r[8] = S8
    <2>1. /\ r[1] = OneStep(r[0]) /\ r[2] = OneStep(r[1]) /\ r[3] = OneStep(r[2])
          /\ r[4] = OneStep(r[3]) /\ r[5] = OneStep(r[4]) /\ r[6] = OneStep(r[5])
          /\ r[7] = OneStep(r[6]) /\ r[8] = OneStep(r[7])
      BY <1>1
    <2> QED BY <1>2, <1>0, <2>1
  <1>12. /\ r[9] = S9 /\ r[10] = S10 /\ r[11] = S11 /\ r[12] = S12
        /\ r[13] = S13 /\ r[14] = S14 /\ r[15] = S15 /\ r[16] = S16
    <2>1. /\ r[9] = OneStep(r[8]) /\ r[10] = OneStep(r[9]) /\ r[11] = OneStep(r[10])
          /\ r[12] = OneStep(r[11]) /\ r[13] = OneStep(r[12]) /\ r[14] = OneStep(r[13])
          /\ r[15] = OneStep(r[14]) /\ r[16] = OneStep(r[15])
      BY <1>1
    <2> QED BY <1>3, <1>11, <2>1
  <1>13. /\ r[17] = S17 /\ r[18] = S18 /\ r[19] = S19 /\ r[20] = S20
        /\ r[21] = S21 /\ r[22] = S22 /\ r[23] = S23 /\ r[24] = S24
    <2>1. /\ r[17] = OneStep(r[16]) /\ r[18] = OneStep(r[17]) /\ r[19] = OneStep(r[18])
          /\ r[20] = OneStep(r[19]) /\ r[21] = OneStep(r[20]) /\ r[22] = OneStep(r[21])
          /\ r[23] = OneStep(r[22]) /\ r[24] = OneStep(r[23])
      BY <1>1
    <2> QED BY <1>4, <1>12, <2>1
  <1>14. /\ r[25] = S25 /\ r[26] = S26 /\ r[27] = S27 /\ r[28] = S28
        /\ r[29] = S29 /\ r[30] = S30 /\ r[31] = S31 /\ r[32] = S32
    <2>1. /\ r[25] = OneStep(r[24]) /\ r[26] = OneStep(r[25]) /\ r[27] = OneStep(r[26])
          /\ r[28] = OneStep(r[27]) /\ r[29] = OneStep(r[28]) /\ r[30] = OneStep(r[29])
          /\ r[31] = OneStep(r[30]) /\ r[32] = OneStep(r[31])
      BY <1>1
    <2> QED BY <1>5, <1>13, <2>1
  <1>15. /\ r[33] = S33 /\ r[34] = S34 /\ r[35] = S35 /\ r[36] = S36
        /\ r[37] = S37 /\ r[38] = S38 /\ r[39] = S39 /\ r[40] = S40
    <2>1. /\ r[33] = OneStep(r[32]) /\ r[34] = OneStep(r[33]) /\ r[35] = OneStep(r[34])
          /\ r[36] = OneStep(r[35]) /\ r[37] = OneStep(r[36]) /\ r[38] = OneStep(r[37])
          /\ r[39] = OneStep(r[38]) /\ r[40] = OneStep(r[39])
      BY <1>1
    <2> QED BY <1>6, <1>14, <2>1
  <1>16. /\ r[41] = S41 /\ r[42] = S42 /\ r[43] = S43 /\ r[44] = S44
        /\ r[45] = S45 /\ r[46] = S46 /\ r[47] = S47 /\ r[48] = S48
    <2>1. /\ r[41] = OneStep(r[40]) /\ r[42] = OneStep(r[41]) /\ r[43] = OneStep(r[42])
          /\ r[44] = OneStep(r[43]) /\ r[45] = OneStep(r[44]) /\ r[46] = OneStep(r[45])
          /\ r[47] = OneStep(r[46]) /\ r[48] = OneStep(r[47])
      BY <1>1
    <2> QED BY <1>7, <1>15, <2>1
  <1>17. /\ r[49] = S49 /\ r[50] = S50 /\ r[51] = S51 /\ r[52] = S52
        /\ r[53] = S53 /\ r[54] = S54 /\ r[55] = S55 /\ r[56] = S56
    <2>1. /\ r[49] = OneStep(r[48]) /\ r[50] = OneStep(r[49]) /\ r[51] = OneStep(r[50])
          /\ r[52] = OneStep(r[51]) /\ r[53] = OneStep(r[52]) /\ r[54] = OneStep(r[53])
          /\ r[55] = OneStep(r[54]) /\ r[56] = OneStep(r[55])
      BY <1>1
    <2> QED BY <1>8, <1>16, <2>1
  <1>18. /\ r[57] = S57 /\ r[58] = S58 /\ r[59] = S59 /\ r[60] = S60
        /\ r[61] = S61 /\ r[62] = S62 /\ r[63] = S63 /\ r[64] = S64
    <2>1. /\ r[57] = OneStep(r[56]) /\ r[58] = OneStep(r[57]) /\ r[59] = OneStep(r[58])
          /\ r[60] = OneStep(r[59]) /\ r[61] = OneStep(r[60]) /\ r[62] = OneStep(r[61])
          /\ r[63] = OneStep(r[62]) /\ r[64] = OneStep(r[63])
      BY <1>1
    <2> QED BY <1>9, <1>17, <2>1
  <1> QED BY <1>10, <1>18

-----------------------------------------------------------------------------
(* A register that is not empty stays so while the bits are right, and a   *)
(* wrong bit alone cannot empty one that holds more than its highest bit.  *)
LEMMA StaysOn ==
    ASSUME NEW crc \in Register, NEW bits, NEW k,
           \/ k \notin bits /\ crc # {}
           \/ \E q \in crc : q # 15
    PROVE  Stepped(crc, bits, k) # {}
  <1>1. CASE Feeds(crc, bits, k)
    <2>1. 0 \in Stepped(crc, bits, k)
      BY <1>1, SteppedBits DEF Polynomial
    <2> QED BY <2>1
  <1>2. CASE ~Feeds(crc, bits, k)
    <2>1. PICK q \in crc : q # 15
      BY <1>2 DEF Feeds
    <2>2. q + 1 \in 0 .. 15 /\ q + 1 # 0 /\ (q + 1) - 1 \in crc
      BY <2>1 DEF Register
    <2>3. q + 1 \in Stepped(crc, bits, k)
      BY <1>2, <2>2, SteppedBits
    <2> QED BY <2>3
  <1> QED BY <1>1, <1>2

(* The way from a register that is not empty to the end of the data.       *)
LEMMA NotEmptied ==
    ASSUME NEW e, NEW d, Trace(d, e, 64), NEW a \in Nat, a <= 64, d[a] # {},
           \A k \in Nat : a <= k /\ k < 64 => k \notin e
    PROVE  d[64] # {}
  <1> DEFINE T == {m \in Nat : a + m <= 64 => d[a + m] # {}}
  <1>1. 0 \in T
    OBVIOUS
  <1>2. ASSUME NEW m \in Nat, m \in T PROVE m + 1 \in T
    <2> SUFFICES ASSUME a + (m + 1) <= 64 PROVE d[a + (m + 1)] # {}
      OBVIOUS
    <2>1. d[a + m] # {} /\ a + m \notin e /\ a + m \in 0 .. 63
      BY <1>2
    <2>2. d[a + m] \in Register /\ d[(a + m) + 1] = Stepped(d[a + m], e, a + m)
      BY <2>1 DEF Trace
    <2>3. d[(a + m) + 1] # {}
      BY <2>1, <2>2, StaysOn
    <2> QED BY <2>3
  <1> HIDE DEF T
  <1>3. \A m \in Nat : m \in T
    BY <1>1, <1>2, AllNumbers
  <1>4. 64 - a \in T
    BY <1>3
  <1> QED BY <1>4 DEF T

(* Nothing shows before the first wrong bit, and that one lets the         *)
(* polynomial in.                                                          *)
LEMMA FirstWrong ==
    ASSUME NEW e, NEW d, Trace(d, e, 64), d[0] = {}, NEW b \in Nat,
           \A k \in Nat : k < b => k \notin e
    PROVE  /\ b >= 64 => d[64] = {}
           /\ b < 64 /\ b \in e => d[b + 1] = Polynomial
  <1> DEFINE T == {m \in Nat : m <= b /\ m <= 64 => d[m] = {}}
  <1>1. 0 \in T
    OBVIOUS
  <1>2. ASSUME NEW m \in Nat, m \in T PROVE m + 1 \in T
    <2> SUFFICES ASSUME m + 1 <= b, m + 1 <= 64 PROVE d[m + 1] = {}
      OBVIOUS
    <2>1. d[m] = {} /\ m \notin e /\ d[m + 1] = Stepped(d[m], e, m)
      BY <1>2 DEF Trace
    <2> QED BY <2>1 DEF Stepped, CrcBit, Shifted
  <1> HIDE DEF T
  <1>3. \A m \in Nat : m \in T
    BY <1>1, <1>2, AllNumbers
  <1>4. b >= 64 => d[64] = {}
    BY <1>3 DEF T
  <1>5. ASSUME b < 64, b \in e PROVE d[b + 1] = Polynomial
    <2>1. d[b] = {}
      BY <1>3, <1>5 DEF T
    <2>2. d[b + 1] = Stepped(d[b], e, b)
      BY <1>5 DEF Trace
    <2> QED BY <1>5, <2>1, <2>2 DEF Stepped, CrcBit, Shifted, Xor, Polynomial
  <1> QED BY <1>4, <1>5

(* Wrong bits within two bytes of each other do not cancel: their lowest   *)
(* trace has not left the register when the last of them has come in.      *)
LEMMA BurstSeen ==
    ASSUME NEW e, NEW d, Trace(d, e, 64), d[0] = {}, NEW b \in Nat, b <= 79, b \in e,
           \A k \in e : k \in Nat /\ b <= k /\ k <= b + 15
    PROVE  d[64] # StoredCrc(e)
  <1>1. \A k \in Nat : k < b => k \notin e
    OBVIOUS
  <1>2. CASE b >= 64
    <2>1. d[64] = {}
      BY <1>1, <1>2, FirstWrong
    <2>2. 79 - b \in 0 .. 15 /\ 64 + (15 - (79 - b)) = b
      BY <1>2
    <2>3. 79 - b \in StoredCrc(e)
      BY <2>2 DEF StoredCrc
    <2> QED BY <2>1, <2>3
  <1>3. CASE b < 64
    <2>1. d[b + 1] = Polynomial
      BY <1>1, <1>3, FirstWrong
    <2> DEFINE T == {j \in Nat : j <= 15 /\ b + 1 + j <= 64
                                    => \E p \in d[b + 1 + j] : p <= j}
    <2>2. 0 \in T
      BY <2>1 DEF Polynomial
    <2>3. ASSUME NEW j \in Nat, j \in T PROVE j + 1 \in T
      <3> SUFFICES ASSUME j + 1 <= 15, b + 1 + (j + 1) <= 64
                   PROVE  \E p \in d[b + 1 + (j + 1)] : p <= j + 1
        OBVIOUS
      <3> DEFINE n == b + 1 + j
      <3>1. n \in 0 .. 63 /\ b + 1 + (j + 1) = n + 1
        OBVIOUS
      <3>2. d[n] \in Register /\ d[n + 1] = Stepped(d[n], e, n)
        BY <3>1 DEF Trace
      <3>3. PICK p \in d[n] : p <= j
        BY <2>3
      <3>4. p \in 0 .. 14
        BY <3>2, <3>3 DEF Register
      <3> HIDE DEF n
      <3>5. CASE Feeds(d[n], e, n)
        <4>1. 0 \in d[n + 1]
          BY <3>2, <3>5, SteppedBits DEF Polynomial
        <4> QED BY <3>1, <4>1
      <3>6. CASE ~Feeds(d[n], e, n)
        <4>1. p + 1 \in 0 .. 15 /\ p + 1 # 0 /\ (p + 1) - 1 \in d[n]
          BY <3>3, <3>4
        <4>2. p + 1 \in d[n + 1]
          BY <3>2, <3>6, <4>1, SteppedBits
        <4> QED BY <3>1, <3>3, <3>4, <4>2
      <3> QED BY <3>5, <3>6
    <2> HIDE DEF T
    <2>4. \A j \in Nat : j \in T
      BY <2>2, <2>3, AllNumbers
    <2>5. CASE b <= 48
      <3>1. PICK p \in d[b + 1 + 15] : p <= 15
        BY <2>4, <2>5 DEF T
      <3>2. d[b + 16] # {} /\ b + 16 \in Nat /\ b + 16 <= 64
        BY <2>5, <3>1
      <3>3. \A k \in Nat : b + 16 <= k /\ k < 64 => k \notin e
        OBVIOUS
      <3>4. d[64] # {}
        BY <3>2, <3>3, NotEmptied
      <3>5. ASSUME NEW p1 \in StoredCrc(e) PROVE FALSE
        BY <2>5 DEF StoredCrc
      <3> QED BY <3>4, <3>5
    <2>6. CASE b > 48
      <3> DEFINE j == 63 - b
      <3>1. j \in Nat /\ j <= 15 /\ b + 1 + j = 64
        BY <1>3, <2>6
      <3>2. PICK p \in d[64] : p <= j
        BY <2>4, <3>1 DEF T
      <3>3. d[64] \in Register
        BY DEF Trace
      <3>4. p \in 0 .. 15 /\ 64 + (15 - p) > b + 15
        BY <3>2, <3>3 DEF Register
      <3>5. p \notin StoredCrc(e)
        BY <3>4 DEF StoredCrc
      <3> QED BY <3>2, <3>5
    <2> QED BY <2>5, <2>6
  <1> QED BY <1>2, <1>3

(* Two wrong bits further apart: the trace of the first, where the second  *)
(* comes in, has two bits, and one bit of data or checksum takes only one  *)
(* of them away.                                                           *)
LEMMA PairSeen ==
    ASSUME NEW i \in Nat, NEW j \in Nat, i < j, j <= 79,
           NEW d, Trace(d, {i, j}, 64), d[0] = {}
    PROVE  d[64] # StoredCrc({i, j})
  <1> DEFINE e == {i, j}
  <1>1. CASE j <= i + 15
    <2>1. \A k \in e : k \in Nat /\ i <= k /\ k <= i + 15
      BY <1>1
    <2> QED BY <2>1, BurstSeen
  <1>2. CASE j > i + 15
    <2>0. i < 64
      BY <1>2
    <2>1. d[i + 1] = Polynomial
      BY <2>0, FirstWrong
    <2> DEFINE z == Run(Polynomial, {}, 63)
    <2>2. Trace(z, {}, 63) /\ z[0] = Polynomial
      <3>1. Polynomial \in Register /\ 63 \in Nat
        BY DEF Polynomial, Register
      <3> QED BY <3>1, RunIsTrace
    <2> HIDE DEF z
    <2>3. ZeroTrace(z, 63)
      BY <2>2, StepsAre DEF Trace, ZeroTrace
    <2>4. \A m \in Nat : m <= 63 => TwoBits(z[m])
      BY <2>2, <2>3, TraceOfOneBit
    <2> DEFINE T == {m \in Nat : i + 1 + m <= j /\ i + 1 + m <= 64 => d[i + 1 + m] = z[m]}
    <2>5. 0 \in T
      BY <2>1, <2>2
    <2>6. ASSUME NEW m \in Nat, m \in T PROVE m + 1 \in T
      <3> SUFFICES ASSUME i + 1 + (m + 1) <= j, i + 1 + (m + 1) <= 64
                   PROVE  d[i + 1 + (m + 1)] = z[m + 1]
        OBVIOUS
      <3>1. d[i + 1 + m] = z[m] /\ i + 1 + m \notin e /\ i + 1 + m \in 0 .. 63 /\ m < 63
        BY <2>6
      <3>2. d[(i + 1 + m) + 1] = Stepped(d[i + 1 + m], e, i + 1 + m)
        BY <3>1 DEF Trace
      <3>3. d[(i + 1 + m) + 1] = ZeroStep(z[m])
        BY <3>1, <3>2, StepsAre
      <3>4. z[m + 1] = ZeroStep(z[m])
        BY <2>3, <3>1 DEF ZeroTrace
      <3> QED BY <3>3, <3>4
    <2> HIDE DEF T
    <2>7. \A m \in Nat : m \in T
      BY <2>5, <2>6, AllNumbers
    <2>8. CASE j >= 64
      <3>1. 63 - i \in Nat /\ 63 - i <= 63 /\ i + 1 + (63 - i) = 64
        BY <2>0
      <3>2. d[64] = z[63 - i]
        BY <2>7, <2>8, <3>1 DEF T
      <3>3. TwoBits(d[64])
        BY <2>4, <3>1, <3>2
      <3>4. \A p \in StoredCrc(e) : p = 79 - j
        BY <2>0 DEF StoredCrc
      <3> QED BY <3>3, <3>4 DEF TwoBits
    <2>9. CASE j < 64
      <3> DEFINE m == j - (i + 1)
      <3>1. m \in Nat /\ m <= 63 /\ i + 1 + m = j
        BY <2>9
      <3> HIDE DEF m
      <3>2. d[j] = z[m]
        BY <2>7, <2>9, <3>1 DEF T
      <3>3. TwoBits(d[j])
        BY <2>4, <3>1, <3>2
      <3>4. d[j] \in Register /\ d[j + 1] = Stepped(d[j], e, j)
        BY <2>9 DEF Trace
      <3>5. \E q \in d[j] : q # 15
        BY <3>3 DEF TwoBits
      <3>6. d[j + 1] # {}
        BY <3>4, <3>5, StaysOn
      <3>7. d[64] # {}
        <4>1. j + 1 \in Nat /\ j + 1 <= 64
          BY <2>9
        <4>2. \A k \in Nat : j + 1 <= k /\ k < 64 => k \notin e
          OBVIOUS
        <4> QED BY <3>6, <4>1, <4>2, NotEmptied
      <3>8. ASSUME NEW p \in StoredCrc(e) PROVE FALSE
        BY <2>0, <2>9 DEF StoredCrc
      <3> QED BY <3>7, <3>8
    <2> QED BY <2>8, <2>9
  <1> QED BY <1>1, <1>2

-----------------------------------------------------------------------------
(* What the checksum leaves in the cell, and what the wrong bits e change. *)
LEMMA CellOf ==
    ASSUME NEW x \in SUBSET (0 .. 63)
    PROVE  /\ crc16_ccitt_jch(x) \in Register
           /\ DataOf(WithCrc(x)) = x
           /\ StoredCrc(WithCrc(x)) = crc16_ccitt_jch(x)
           /\ WithCrc(x) \subseteq CellBits
  <1> DEFINE c == crc16_ccitt_jch(x)
  <1>1. c \in Register
    <2>1. CrcStart \in Register /\ 64 \in Nat
      BY DEF CrcStart, Register
    <2>2. Trace(Run(CrcStart, x, 64), x, 64)
      BY <2>1, RunIsTrace
    <2> QED BY <2>2, ChecksumIsRun DEF Trace, DataBits
  <1>2. WithCrc(x) = x \cup {64 + (15 - p) : p \in c}
    BY DEF WithCrc
  <1> HIDE DEF c
  <1>3. \A p \in c : p \in Nat /\ p <= 15
    BY <1>1 DEF Register
  <1>4. \A b : b \in WithCrc(x) <=> b \in x \/ \E p \in c : b = 64 + (15 - p)
    BY <1>2
  <1>5. WithCrc(x) \subseteq CellBits
    <2> SUFFICES ASSUME NEW b \in WithCrc(x) PROVE b \in CellBits
      OBVIOUS
    <2>1. CASE b \in x
      BY <2>1 DEF CellBits
    <2>2. CASE b \notin x
      <3>1. PICK p \in c : b = 64 + (15 - p)
        BY <1>4, <2>2
      <3>2. b \in Nat /\ b <= 79
        BY <1>3, <3>1
      <3> QED BY <3>2 DEF CellBits
    <2> QED BY <2>1, <2>2
  <1>6. DataOf(WithCrc(x)) = x
    <2>1. ASSUME NEW b \in WithCrc(x), b \in 0 .. 63 PROVE b \in x
      <3>1. \A p \in c : 64 + (15 - p) > 63
        BY <1>3
      <3> QED BY <1>4, <2>1, <3>1
    <2>2. \A b \in x : b \in WithCrc(x) /\ b \in 0 .. 63
      BY <1>4
    <2>3. \A b : b \in DataOf(WithCrc(x)) <=> b \in WithCrc(x) /\ b \in 0 .. 63
      BY DEF DataOf, DataBits
    <2> QED BY <2>1, <2>2, <2>3, Zenon
  <1>7. StoredCrc(WithCrc(x)) = c
    <2>1. ASSUME NEW p \in 0 .. 15 PROVE 64 + (15 - p) \in WithCrc(x) <=> p \in c
      <3>1. 64 + (15 - p) \notin x
        OBVIOUS
      <3>2. ASSUME NEW q \in c, 64 + (15 - p) = 64 + (15 - q) PROVE q = p
        BY <1>3, <3>2
      <3> QED BY <1>4, <3>1, <3>2
    <2>2. \A p : p \in StoredCrc(WithCrc(x)) <=> p \in c
      BY <1>3, <2>1 DEF StoredCrc
    <2> QED BY <2>2
  <1> QED BY <1>1, <1>5, <1>6, <1>7 DEF c

(* The cell is believed only where the wrong bits of the data change the   *)
(* checksum just as the wrong bits of the checksum do.                     *)
LEMMA BelievedIs ==
    ASSUME NEW x \in SUBSET (0 .. 63), NEW e \in SUBSET CellBits, Believed(Xor(WithCrc(x), e))
    PROVE  \E d : Trace(d, e, 64) /\ d[0] = {} /\ d[64] = StoredCrc(e)
  <1> DEFINE y == DataOf(Xor(WithCrc(x), e))
             r == Run(CrcStart, x, 64)
             s == Run(CrcStart, y, 64)
             d == [k \in 0 .. 64 |-> Xor(r[k], s[k])]
  <1>1. \A k \in 0 .. 63 : k \in Xor(x, y) <=> k \in e
    <2>1. DataOf(WithCrc(x)) = x
      BY CellOf
    <2>2. \A k \in 0 .. 63 : k \in WithCrc(x) <=> k \in x
      BY <2>1 DEF DataOf, DataBits
    <2>3. \A k \in 0 .. 63 : k \in y <=> k \in Xor(WithCrc(x), e)
      BY DEF DataOf, DataBits
    <2> HIDE DEF y
    <2> QED BY <2>2, <2>3 DEF Xor
  <1>2. /\ Trace(r, x, 64) /\ r[0] = CrcStart
        /\ Trace(s, y, 64) /\ s[0] = CrcStart
    <2>1. CrcStart \in Register /\ 64 \in Nat
      BY DEF CrcStart, Register
    <2> HIDE DEF y
    <2> QED BY <2>1, RunIsTrace
  <1>3. crc16_ccitt_jch(x) = r[64] /\ crc16_ccitt_jch(y) = s[64]
    BY ChecksumIsRun DEF DataBits
  <1>4. s[64] = StoredCrc(Xor(WithCrc(x), e))
    BY <1>3 DEF Believed
  <1>5. StoredCrc(Xor(WithCrc(x), e)) = Xor(StoredCrc(WithCrc(x)), StoredCrc(e))
    BY DEF StoredCrc, Xor
  <1>6. StoredCrc(WithCrc(x)) = r[64]
    BY <1>3, CellOf
  <1> HIDE DEF y, r, s
  <1>7. d[64] = StoredCrc(e)
    <2>1. s[64] = Xor(r[64], StoredCrc(e))
      BY <1>4, <1>5, <1>6
    <2> HIDE DEF d
    <2>2. Xor(r[64], Xor(r[64], StoredCrc(e))) = StoredCrc(e)
      BY DEF Xor
    <2> QED BY <2>1, <2>2 DEF d
  <1>8. d[0] = {}
    BY <1>2 DEF Xor
  <1>9. Trace(d, e, 64)
    <2>1. \A k \in 0 .. 64 : r[k] \in Register /\ s[k] \in Register
      BY <1>2 DEF Trace
    <2>2. \A k \in 0 .. 64 : Xor(r[k], s[k]) \in Register
      BY <2>1 DEF Xor, Register
    <2>3. d \in [0 .. 64 -> Register]
      BY <2>2
    <2>4. ASSUME NEW k \in 0 .. 63 PROVE d[k + 1] = Stepped(d[k], e, k)
      <3>1. r[k + 1] = Stepped(r[k], x, k) /\ s[k + 1] = Stepped(s[k], y, k)
        BY <1>2 DEF Trace
      <3>2. k \in 0 .. 64 /\ k + 1 \in 0 .. 64
        OBVIOUS
      <3>3. d[k + 1] = Xor(Stepped(r[k], x, k), Stepped(s[k], y, k))
        BY <3>1, <3>2
      <3>4. Xor(Stepped(r[k], x, k), Stepped(s[k], y, k)) = Stepped(Xor(r[k], s[k]), Xor(x, y), k)
        <4>1. r[k] \in Register /\ s[k] \in Register
          BY <2>1, <3>2
        <4>2. ASSUME NEW a \in Register, NEW b \in Register
              PROVE  Xor(Stepped(a, x, k), Stepped(b, y, k)) = Stepped(Xor(a, b), Xor(x, y), k)
          BY DifferenceSteps
        <4> QED BY <4>1, <4>2
      <3>5. d[k] = Xor(r[k], s[k])
        BY <3>2
      <3>6. Stepped(d[k], Xor(x, y), k) = Stepped(d[k], e, k)
        BY <1>1 DEF Stepped
      <3> QED BY <3>3, <3>4, <3>5, <3>6
    <2> HIDE DEF d
    <2> QED BY <2>3, <2>4 DEF Trace
  <1> HIDE DEF d
  <1> QED BY <1>7, <1>8, <1>9

-----------------------------------------------------------------------------
(* What a measured sample becomes and what comes back.                     *)
LEMMA EncodedAndBack ==
    ASSUME NEW s \in Samples
    PROVE  /\ Encoded(s) \in SUBSET (0 .. 63)
           /\ Decoded(WithCrc(Encoded(s))) = s
           /\ \A c \in Channels : s[c] # Mark[c]
  <1>1. s \in [Channels -> Difference]
    BY CodecAssumption
  <1>2. \A c \in Channels : s[c] \in Int /\ -16383 <= s[c] /\ s[c] <= 16383
    BY <1>1, Ranges
  <1>3. Encoded(s) \in SUBSET (0 .. 63)
    BY DEF Encoded
  <1>4. ASSUME NEW c \in Channels
        PROVE  Int16({p \in 0 .. 15 : 16 * c + p \in WithCrc(Encoded(s))}) = s[c]
    <2> DEFINE v == s[c]
    <2>1. Saturated(v) = v
      BY <1>2 DEF Saturated
    <2>2. {p \in 0 .. 15 : 16 * c + p \in WithCrc(Encoded(s))} = Bit16(v)
      <3>1. ASSUME NEW p \in 0 .. 15
            PROVE  16 * c + p \in WithCrc(Encoded(s)) <=> p \in Bit16(v)
        <4>1. /\ 16 * c + p \in 0 .. 63
              /\ (16 * c + p) % 16 = p
              /\ (16 * c + p) \div 16 = c
          BY DEF Channels
        <4>2. 16 * c + p \in Encoded(s) <=> p \in Bit16(v)
          <5> DEFINE b == 16 * c + p
          <5>1. b \in 0 .. 63 /\ b % 16 = p /\ b \div 16 = c
            BY <4>1
          <5> HIDE DEF b
          <5>2. b \in Encoded(s) <=> p \in Bit16(Saturated(s[c]))
            BY <5>1 DEF Encoded
          <5> QED BY <2>1, <5>2 DEF b
        <4>3. 16 * c + p \in WithCrc(Encoded(s)) <=> 16 * c + p \in DataOf(WithCrc(Encoded(s)))
          BY <4>1 DEF DataOf, DataBits
        <4> QED BY <1>3, <4>2, <4>3, CellOf
      <3>2. Bit16(v) \subseteq 0 .. 15
        BY DEF Bit16
      <3> QED BY <3>1, <3>2
    <2>3. Int16(Bit16(v)) = v
      BY <1>2, BitsOfValue
    <2> QED BY <2>2, <2>3
  <1>5. Decoded(WithCrc(Encoded(s))) = s
    BY <1>1, <1>4 DEF Decoded
  <1>6. \A c \in Channels : s[c] # Mark[c]
    BY <1>2 DEF Mark
  <1> QED BY <1>3, <1>5, <1>6

(* The cell as it was stored, until something changes it; then what the    *)
(* upload makes of it.                                                     *)
CodecInv ==
    /\ stage # "record" => sample \in Samples
    /\ stage # "record" /\ damage = {} => cell = WithCrc(Encoded(sample))
    /\ stage = "read" => got = IF Believed(cell) THEN Decoded(cell) ELSE Mark

LEMMA CodecInvariant == CodecSpec => []CodecInv
  <1>1. CodecInit => CodecInv
    BY DEF CodecInit, CodecInv
  <1>2. CodecInv /\ [CodecNext]_codecVars => CodecInv'
    <2> SUFFICES ASSUME CodecInv, [CodecNext]_codecVars PROVE CodecInv'
      OBVIOUS
    <2>1. ASSUME NEW s \in Samples, Store(s) PROVE CodecInv'
      BY <2>1 DEF CodecInv, Store
    <2>2. ASSUME NEW e \in Damages, Damage(e) PROVE CodecInv'
      BY <2>2 DEF CodecInv, Damage, Xor
    <2>3. ASSUME NEW level \in {0, 1}, LineStuck(level) PROVE CodecInv'
      <3>1. Xor(cell, cell') = {} => cell' = cell
        BY DEF Xor
      <3> QED BY <2>3, <3>1 DEF CodecInv, LineStuck
    <2>4. CASE Read
      BY <2>4 DEF CodecInv, Read
    <2>5. CASE UNCHANGED codecVars
      BY <2>5 DEF CodecInv, codecVars
    <2> QED BY <2>1, <2>2, <2>3, <2>4, <2>5 DEF CodecNext
  <1> QED BY <1>1, <1>2, PTL DEF CodecSpec

(* A cell nothing has changed gives the upload the sample the record loop  *)
(* put in: crc16_ccitt_jch fits the bytes it was made of, and the bytes of *)
(* the four int16_t are put together again in the order they were taken    *)
(* apart, for every sample of 14-bit differences.                          *)
THEOREM SamplesReturn == CodecSpec => []RoundTrip
  <1>1. CodecInv => RoundTrip
    <2> SUFFICES ASSUME CodecInv, stage = "read", damage = {} PROVE got = sample
      BY DEF RoundTrip
    <2>1. sample \in Samples /\ cell = WithCrc(Encoded(sample))
      BY DEF CodecInv
    <2>2. Encoded(sample) \in SUBSET (0 .. 63) /\ Decoded(cell) = sample
      BY <2>1, EncodedAndBack
    <2>3. Believed(cell)
      BY <2>1, <2>2, CellOf DEF Believed
    <2> QED BY <2>2, <2>3 DEF CodecInv
  <1> QED BY <1>1, CodecInvariant, PTL

(* Wrong bits that lie within two bytes of each other, and any two bits.   *)
Burst(e) == \E b \in e : \A k \in e : b <= k /\ k <= b + 15
Pair(e) == \E i, j \in e : e = {i, j}

LEMMA WrongBitsSeen ==
    ASSUME NEW x \in SUBSET (0 .. 63), NEW e \in SUBSET CellBits, Burst(e) \/ Pair(e)
    PROVE  ~Believed(Xor(WithCrc(x), e))
  <1> SUFFICES ASSUME Believed(Xor(WithCrc(x), e)) PROVE FALSE
    OBVIOUS
  <1>1. PICK d : Trace(d, e, 64) /\ d[0] = {} /\ d[64] = StoredCrc(e)
    BY BelievedIs
  <1>2. \A k \in e : k \in Nat /\ k <= 79
    BY DEF CellBits
  <1>3. ASSUME Burst(e) PROVE FALSE
    <2>1. PICK b \in e : \A k \in e : b <= k /\ k <= b + 15
      BY <1>3 DEF Burst
    <2>2. b \in Nat /\ b <= 79 /\ \A k \in e : k \in Nat /\ b <= k /\ k <= b + 15
      BY <1>2, <2>1
    <2>3. d[64] # StoredCrc(e)
      BY <1>1, <2>2, BurstSeen
    <2> QED BY <1>1, <2>3
  <1>4. ASSUME Pair(e) PROVE FALSE
    <2>1. PICK i, j \in e : e = {i, j}
      BY <1>4 DEF Pair
    <2>2. i \in Nat /\ i <= 79 /\ j \in Nat /\ j <= 79
      BY <1>2
    <2>3. CASE i = j
      <3>1. Burst(e)
        BY <2>1, <2>2, <2>3 DEF Burst
      <3> QED BY <1>3, <3>1
    <2>4. CASE i < j
      BY <1>1, <2>1, <2>2, <2>4, PairSeen
    <2>5. CASE j < i
      <3>1. e = {j, i}
        BY <2>1
      <3> QED BY <1>1, <3>1, <2>2, <2>5, PairSeen
    <2> QED BY <2>2, <2>3, <2>4, <2>5
  <1> QED BY <1>3, <1>4

(* Neither does a line that is low, or high, for the whole cell carry the  *)
(* checksum of what it shows.                                              *)
LEMMA DeadLineSeen == ~Believed({}) /\ ~Believed(CellBits)
  <1>1. CrcStart \in Register /\ 64 \in Nat /\ CrcStart = 0 .. 15
    BY DEF CrcStart, Register
  <1>2. ~Believed({})
    <2> DEFINE r == Run(CrcStart, {}, 64)
    <2>1. Trace(r, {}, 64) /\ r[0] = CrcStart
      BY <1>1, RunIsTrace
    <2>2. crc16_ccitt_jch({}) = r[64]
      BY ChecksumIsRun DEF DataBits
    <2> HIDE DEF r
    <2>3. r[0] # {}
      BY <1>1, <2>1
    <2>4. r[64] # {}
      BY <2>1, <2>3, NotEmptied
    <2>5. StoredCrc({}) = {} /\ DataOf({}) = {}
      BY DEF StoredCrc, DataOf
    <2> QED BY <2>2, <2>4, <2>5 DEF Believed
  <1>3. ~Believed(CellBits)
    <2> DEFINE x == DataOf(CellBits)
               r == Run(CrcStart, x, 64)
    <2>1. Trace(r, x, 64) /\ r[0] = CrcStart
      BY <1>1, RunIsTrace
    <2>2. crc16_ccitt_jch(x) = r[64]
      BY ChecksumIsRun DEF DataBits
    <2>3. \A k \in Nat : k < 64 => k \in x
      BY DEF DataOf, DataBits, CellBits
    <2> HIDE DEF r, x
    <2>4. OneTrace(r, 64)
      BY <2>1, <2>3, StepsAre DEF OneTrace, Trace
    <2>5. r[64] # 0 .. 15
      BY <1>1, <2>1, <2>4, TraceOfOnes
    <2>6. StoredCrc(CellBits) = 0 .. 15
      BY DEF StoredCrc, CellBits
    <2> QED BY <2>2, <2>5, <2>6 DEF Believed, x
  <1> QED BY <1>2, <1>3

DamageInv == stage # "record" /\ damage # {} => ~Believed(cell)

(* Whatever burst of at most 16 bits, whatever pair of bits in data or     *)
(* checksum, and a line that is stuck, change a cell: the upload marks it  *)
(* with -32760, and no channel of a measured sample has that value.  The   *)
(* polynomial 0x1021, the start 0xFFFF and the saturation at 32750 are     *)
(* what this stands on.                                                    *)
THEOREM DamagesSeen ==
    ASSUME \A e \in Damages : e = {} \/ Burst(e) \/ Pair(e)
    PROVE  CodecSpec => []DamageNoticed
  <1>1. CodecInit => DamageInv
    BY DEF CodecInit, DamageInv
  <1>2. CodecInv /\ DamageInv /\ [CodecNext]_codecVars => DamageInv'
    <2> SUFFICES ASSUME CodecInv, DamageInv, [CodecNext]_codecVars PROVE DamageInv'
      OBVIOUS
    <2>1. ASSUME NEW s \in Samples, Store(s) PROVE DamageInv'
      BY <2>1 DEF DamageInv, Store
    <2>2. ASSUME NEW e \in Damages, Damage(e) PROVE DamageInv'
      <3> SUFFICES ASSUME e # {} PROVE ~Believed(cell')
        BY <2>2 DEF DamageInv, Damage
      <3>1. sample \in Samples /\ cell = WithCrc(Encoded(sample))
        BY <2>2 DEF CodecInv, Damage
      <3>2. Encoded(sample) \in SUBSET (0 .. 63)
        BY <3>1, EncodedAndBack
      <3>3. e \in SUBSET CellBits
        BY CodecAssumption
      <3>4. cell' = Xor(WithCrc(Encoded(sample)), e)
        BY <2>2, <3>1 DEF Damage
      <3> QED BY <3>2, <3>3, <3>4, WrongBitsSeen
    <2>3. ASSUME NEW level \in {0, 1}, LineStuck(level) PROVE DamageInv'
      BY <2>3, DeadLineSeen DEF DamageInv, LineStuck
    <2>4. CASE Read
      BY <2>4 DEF DamageInv, Read
    <2>5. CASE UNCHANGED codecVars
      BY <2>5 DEF DamageInv, codecVars
    <2> QED BY <2>1, <2>2, <2>3, <2>4, <2>5 DEF CodecNext
  <1>3. CodecInv /\ DamageInv => DamageNoticed
    <2> SUFFICES ASSUME CodecInv, DamageInv, stage = "read", damage # {}
                 PROVE  got = Mark /\ \A c \in Channels : sample[c] # Mark[c]
      BY DEF DamageNoticed
    <2>1. sample \in Samples /\ got = Mark
      BY DEF CodecInv, DamageInv
    <2> QED BY <2>1, EncodedAndBack
  <1> QED BY <1>1, <1>2, <1>3, CodecInvariant, PTL DEF CodecSpec
==============================================================================

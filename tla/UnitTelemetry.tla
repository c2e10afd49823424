---------------------------- MODULE UnitTelemetry ----------------------------
(***************************************************************************)
(* What the unit knows besides the vibration: its clock (rtcc_* in         *)
(* mqtt_working/src/main.c) and the BME280 (drivers/bme280.c), from boot   *)
(* to the telemetry packet.  The functions of the driver report errors of  *)
(* the SPI that their callers drop, so every transfer may fail here.       *)
(* Time runs in ticks of half a second, of which the clock keeps seconds.  *)
(***************************************************************************)
EXTENDS Naturals

CONSTANTS
    Epochs,      \* what unix time, in ticks, may be when the unit boots
    MaxTicks,    \* bound: ticks after a boot
    MaxBoots     \* bound: reboots

ASSUME TimeAssumption == Epochs \subseteq Nat \ {0, 1} /\ {MaxTicks, MaxBoots} \subseteq Nat

Second == 2
Unsent == [stamp |-> 0, values |-> "none"]

(* The sensor answers; or it is missing and MISO stays low or high; or the *)
(* SPI master itself refuses every transfer.                               *)
Lines == {"sensor", "low", "high", "broken"}

VARIABLES
    at,          \* where main is
    enabled,     \* bme280_enabled
    line,
    measuring,   \* the sensor is in normal mode, which a reboot leaves alone
    sens_data,   \* [trim, comp]: dig_* read from the sensor, comp_*
    buf,         \* where the bytes on the stack of the last fetch came from
    fetches,     \* fetches behind the record
    unit_values, \* unit_temperature, unit_humidity, unit_pressure_hpa
    faults,      \* history: where transfers have failed since the boot
    epoch, now,  \* unix time at boot, and ticks since
    rtcc,        \* [valid, base, uptime, record]: rtcc_*, record_unix_time_s
    begin,       \* [stamp, true]: record_begin_unix_time_s; history: unix time
    telemetry,   \* the packet published
    reboots

driverVars == <<measuring, sens_data, buf, fetches, unit_values, faults>>
timeVars == <<epoch, now, rtcc, begin>>
telemetryVars == <<at, enabled, line, driverVars, timeVars, telemetry, reboots>>

(* What a boot finds: RAM is new, the configuration and the sensor are not.*)
Boot ==
    /\ at' = "session" /\ sens_data' = [trim |-> "zero", comp |-> "none"]
    /\ buf' = "garbage" /\ fetches' = 0 /\ unit_values' = "unset" /\ faults' = {}
    /\ rtcc' = [valid |-> FALSE, base |-> 0, uptime |-> 0, record |-> 0]
    /\ begin' = [stamp |-> 0, true |-> 0] /\ telemetry' = Unsent

TelemetryInit ==
    /\ at = "session" /\ sens_data = [trim |-> "zero", comp |-> "none"]
    /\ buf = "garbage" /\ fetches = 0 /\ unit_values = "unset" /\ faults = {}
    /\ rtcc = [valid |-> FALSE, base |-> 0, uptime |-> 0, record |-> 0]
    /\ begin = [stamp |-> 0, true |-> 0] /\ telemetry = Unsent
    /\ enabled \in BOOLEAN /\ line \in Lines /\ measuring = FALSE
    /\ epoch \in Epochs /\ now = 0 /\ reboots = 0

-----------------------------------------------------------------------------
(* The clock.                                                              *)

Tick ==
    /\ now < MaxTicks
    /\ now' = now + 1
    /\ UNCHANGED <<at, enabled, line, driverVars, epoch, rtcc, begin, telemetry, reboots>>

UnixTime == (epoch + now) \div Second

(* Mutant: the seconds are counted from the boot.                          *)
UpdateWithoutUptime(seconds) ==
    [rtcc EXCEPT !.valid = TRUE, !.base = seconds, !.record = seconds]

rtcc_update_unix_time(seconds) ==
    [valid |-> TRUE, base |-> seconds, uptime |-> now, record |-> seconds]

rtcc_get_unix_time(c) ==
    IF c.valid THEN c.base + (now - c.uptime) \div Second ELSE c.record

(* The library knows the time, or does not; the log line behind it asks    *)
(* the clock, which remembers the answer.                                  *)
modem_get_time_procedure(known) ==
    LET c == IF known THEN rtcc_update_unix_time(UnixTime) ELSE rtcc
    IN  rtcc' = [c EXCEPT !.record = rtcc_get_unix_time(c)]

FirstSession ==
    /\ at = "session"
    /\ \E known \in BOOLEAN : modem_get_time_procedure(known)
    /\ at' = IF enabled THEN "reset" ELSE "train"
    /\ UNCHANGED <<enabled, line, driverVars, epoch, now, begin, telemetry, reboots>>

Trigger ==
    /\ at = "train"
    /\ begin' = [stamp |-> rtcc_get_unix_time(rtcc), true |-> UnixTime]
    /\ rtcc' = [rtcc EXCEPT !.record = rtcc_get_unix_time(rtcc)]
    /\ at' = "recording"
    /\ UNCHANGED <<enabled, line, driverVars, epoch, now, telemetry, reboots>>

RecordEnds ==
    /\ at = "recording"
    /\ at' = IF enabled THEN "wait" ELSE "upload"
    /\ UNCHANGED <<enabled, line, driverVars, timeVars, telemetry, reboots>>

-----------------------------------------------------------------------------
(* The driver.                                                             *)

(* A transfer: what is on the line, or an error.                           *)
bme280_reg_read(answer) == answer \in {"error"} \cup ({line} \ {"broken"})
bme280_reg_write(answer) == bme280_reg_read(answer)

Note(place, answer) == faults' = faults \cup (IF answer = "error" THEN {place} ELSE {})

DriverStep == UNCHANGED <<enabled, line, timeVars, telemetry, reboots>>

bme280_reset(answer) ==
    /\ at = "reset" /\ bme280_reg_write(answer)
    /\ measuring' = (measuring /\ answer # "sensor")
    /\ Note("reset", answer)
    /\ at' = "id"
    /\ UNCHANGED <<sens_data, buf, fetches, unit_values>> /\ DriverStep

(* Without the right chip id nothing is set up, and main goes on.          *)
ReadId(answer) ==
    /\ at = "id" /\ bme280_reg_read(answer)
    /\ Note("id", answer)
    /\ at' = IF answer = "sensor" THEN "init" ELSE "train"
    /\ UNCHANGED <<measuring, sens_data, buf, fetches, unit_values>> /\ DriverStep

(* Mutant: an error of the status register is one more reason to wait.     *)
WaitOverErrors(answer, busy, ready, failed) ==
    IF (answer = "sensor" /\ ~busy) \/ answer = "low" THEN ready ELSE at

(* bme280_wait_until_ready reads the status until neither bit is set; a    *)
(* high line sets both.  An error ends it.                                 *)
Waited(answer, busy, ready, failed) ==
    CASE answer = "error" -> failed
      [] answer = "low" -> ready
      [] answer = "sensor" /\ ~busy -> ready
      [] OTHER -> at

(* Three reads of trim values and two writes; the first error ends it.     *)
custom_bme280_init(answer, trimmed) ==
    /\ at = "trim" /\ bme280_reg_write(answer)
    /\ Note("trim", answer)
    /\ sens_data' = [sens_data EXCEPT !.trim = IF answer = "sensor" \/ trimmed THEN "read" ELSE "partial"]
    /\ measuring' = (measuring \/ answer = "sensor")
    /\ at' = "train"
    /\ UNCHANGED <<buf, fetches, unit_values>> /\ DriverStep

bme280_wait_until_ready(answer, busy) ==
    /\ bme280_reg_read(answer)
    /\ \/ /\ at = "init"
          /\ at' = Waited(answer, busy, "trim", "train")
       \/ /\ at = "wait"
          /\ at' = Waited(answer, busy, "read", "failed")
    /\ Note(IF at = "init" THEN "init" ELSE IF fetches = 0 THEN "first" ELSE "second", answer)
    /\ UNCHANGED <<measuring, sens_data, buf, fetches, unit_values>> /\ DriverStep

ReadData(answer) ==
    /\ at = "read" /\ bme280_reg_read(answer)
    /\ buf' = CASE answer = "error" -> buf
                [] answer = "sensor" /\ measuring -> "sample"
                [] OTHER -> "constant"
    /\ Note(IF fetches = 0 THEN "first" ELSE "second", answer)
    /\ at' = IF answer = "error" THEN "failed" ELSE "compensate"
    /\ UNCHANGED <<measuring, sens_data, fetches, unit_values>> /\ DriverStep

(* bme280_compensate_*: the datasheet's formulas give the climate from a   *)
(* sample and all the trim values, and a number from anything else.        *)
Compensated(bytes) ==
    IF bytes = "sample" /\ sens_data.trim = "read" THEN "measured" ELSE "nonsense"

(* Mutant: the values of the first fetch are published.                    *)
Enough(n) == n = 1

Complete(n) == n = 2

(* custom_bme280_sample_fetch goes on whatever the transfers did: buf is a *)
(* local that still holds the bytes of the fetch before, or is overwritten.*)
(* main fetches a second time, and takes the values over.                  *)
custom_bme280_sample_fetch(bytes) ==
    /\ at \in {"compensate", "failed"}
    /\ bytes \in {buf} \cup (IF at = "failed" THEN {"garbage"} ELSE {})
    /\ sens_data' = [sens_data EXCEPT !.comp = Compensated(bytes)]
    /\ fetches' = fetches + 1
    /\ at' = IF Complete(fetches + 1) THEN "upload" ELSE "wait"
    /\ unit_values' = IF Complete(fetches + 1) THEN Compensated(bytes) ELSE unit_values
    /\ buf' = bytes
    /\ UNCHANGED <<measuring, faults>> /\ DriverStep

-----------------------------------------------------------------------------
(* The upload session asks for the time again and publishes.               *)
prepare_and_send_telemetry_data ==
    /\ at = "upload"
    /\ \E known \in BOOLEAN :
          /\ modem_get_time_procedure(known)
          /\ telemetry' = [stamp |-> begin.stamp, values |-> unit_values]
    /\ at' = "sent"
    /\ UNCHANGED <<enabled, line, driverVars, epoch, now, begin, reboots>>

sys_reboot ==
    /\ at = "sent" /\ reboots < MaxBoots
    /\ reboots' = reboots + 1
    /\ Boot
    /\ epoch' = epoch + now /\ now' = 0
    /\ UNCHANGED <<enabled, line, measuring>>

Ready == bme280_wait_until_ready("sensor", FALSE)

Driver ==
    \E answer \in {"error", "sensor", "low", "high"} :
        \/ bme280_reset(answer) \/ ReadId(answer) \/ ReadData(answer)
        \/ \E busy \in BOOLEAN : bme280_wait_until_ready(answer, busy)
        \/ \E trimmed \in BOOLEAN : custom_bme280_init(answer, trimmed)

MainStep ==
    \/ FirstSession \/ Trigger \/ RecordEnds \/ Driver
    \/ \E bytes \in {"garbage", buf} : custom_bme280_sample_fetch(bytes)
    \/ prepare_and_send_telemetry_data \/ sys_reboot

TelemetryNext == Tick \/ MainStep

(* main runs, and a sensor that measures again and again is found between  *)
(* two measurements at last.                                               *)
TelemetryFairness == WF_telemetryVars(MainStep) /\ SF_telemetryVars(Ready)

TelemetrySpec == TelemetryInit /\ [][TelemetryNext]_telemetryVars /\ TelemetryFairness

-----------------------------------------------------------------------------

(* The time stamp of a record is 0, or the moment of its trigger less than *)
(* two seconds off and never in the future: the clock is set with          *)
(* truncated seconds, read with truncated seconds, and set again before    *)
(* the packet leaves (rtcc_*, record_begin_unix_time_s).                   *)
RecordTimeTrue ==
    at = "sent" /\ telemetry.stamp # 0 =>
        begin.true - telemetry.stamp \in 0 .. 1 /\ telemetry.stamp <= begin.true

(* The published climate is the sensor's, although no error is ever        *)
(* reported to main: a failed reset and a failed first fetch are repaired  *)
(* by what follows; nothing but a failure elsewhere or a missing sensor    *)
(* makes the unit publish nonsense (custom_bme280_sample_fetch).           *)
FirstFetchRepaired ==
    at = "sent" /\ enabled /\ line = "sensor" /\ faults \subseteq {"reset", "first"}
        => telemetry.values = "measured"

(* A record is not held back by the sensor: whatever transfers fail, and   *)
(* however rarely the sensor is found idle, the unit goes on to the upload.*)
(* It does not when the sensor is missing and the line is high: then       *)
(* bme280_wait_until_ready never returns.                                  *)
RecordNotHeldBack == at = "wait" ~> at = "upload" \/ line = "high"
=============================================================================

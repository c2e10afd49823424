------------------------------- MODULE LisUnit -------------------------------
(***************************************************************************)
(* The life of the LIS unit between two reboots (mqtt_working/src: main.c, *)
(* mqtt_connection.c, eeprom_emul.c): a first MQTT session in which an     *)
(* operator may send commands, the measurement of one train, a second      *)
(* session that uploads the record, and a reboot.                          *)
(*                                                                         *)
(* One pass of mqtt_pooling_procedure is a sequence of steps, one per      *)
(* section of the function, so that power can fail between any two.  The   *)
(* MQTT callback runs inside the pass (mqtt_input); the LTE callback and   *)
(* the network run beside it.  The measurement is one step here and is     *)
(* described by TrainRecorder, the upload by TrainUpload.                  *)
(***************************************************************************)
EXTENDS Integers

CONSTANTS
  MaxMessages,  \* bound: messages the operator sends
  MaxCycles     \* bound: power failures

ASSUME UnitAssumption == MaxMessages \in Nat /\ MaxCycles \in Nat

VARIABLES
  stage,                     \* the section main is in
  session,                   \* "config" or "upload"
  modem_on, registered,      \* the modem library and the network
  lte_connected,             \* the semaphore of lte_handler
  keepalive,                 \* client.keepalive is not 0: poll has a time limit
  link,                      \* the MQTT connection
  payload_buf,               \* the command in the receive buffer
  cfg_buff,                  \* the parameters of the CFG messages copied from it
  first_alive_flag, config_request_flag, dump_log_flag,
  mqtt_trigger_reset, mqtt_skip_init_procedure,
  initial_stage_timeout_counter,
  auto_reset_counter,
  data_ready_to_send,
  ram, nvs,                  \* the configuration in use, and in the EEPROM emulation
  next_key,                  \* next parameter of a CFG to be set
  messages, cycles,          \* messages and power failures so far
  passes,                    \* history: passes begun in this session
  broken,                    \* history: the first session ended by an error
  cut                        \* history: a CFG was cut short, by its sender or by power

course   == <<session, keepalive>>
network  == <<modem_on, registered, lte_connected, link>>
buffers  == <<payload_buf, cfg_buff>>
requests == <<config_request_flag, dump_log_flag, mqtt_trigger_reset,
              mqtt_skip_init_procedure>>
counters == <<initial_stage_timeout_counter, auto_reset_counter>>
config   == <<ram, nvs, next_key, cut>>
bounds   == <<messages, cycles>>

unitVars == <<stage, course, network, buffers, first_alive_flag, requests, counters,
              data_ready_to_send, config, bounds, passes, broken>>

(* The parameters in the order a CFG sets them: rms_trig_start,            *)
(* rms_trig_end, rms_trig_end_duration, bme280_enabled.  A value is the    *)
(* number of the CFG message it came with, 0 for the default.              *)
Keys == 1 .. 4

(* Mutant: the last parameter is forgotten.                                *)
LastKeyForgotten == 3

(* The parameter whose storing completes a CFG.                            *)
LastKey == 4

PassCap == 7  \* bound on the passes counted, beyond the longest session

Absent == -1   \* no value in the EEPROM emulation, no digits in cfg_buff

Commands == {"RST", "LDM", "SKP", "CFG", "other"}

-----------------------------------------------------------------------------
(* Reset: static variables get their initial values and the configuration  *)
(* is loaded; a parameter the EEPROM emulation does not hold is set to its *)
(* default and stored.                                                     *)
Load(stored) == [k \in Keys |-> IF stored[k] = Absent THEN 0 ELSE stored[k]]

Boot ==
  /\ stage = "boot"
  /\ stage' = "modem"
  /\ session' = "config"
  /\ modem_on' = FALSE /\ registered' = FALSE /\ lte_connected' = 0 /\ link' = "down"
  /\ keepalive' = FALSE
  /\ payload_buf' = "other" /\ cfg_buff' = [k \in Keys |-> Absent]
  /\ first_alive_flag' = 1
  /\ config_request_flag' = 0 /\ dump_log_flag' = 0
  /\ mqtt_trigger_reset' = 0 /\ mqtt_skip_init_procedure' = 0
  /\ initial_stage_timeout_counter' = 0 /\ auto_reset_counter' = 0
  /\ data_ready_to_send' = 0
  /\ ram' = Load(nvs) /\ nvs' = Load(nvs) /\ next_key' = 1
  /\ passes' = 0 /\ broken' = FALSE
  /\ UNCHANGED <<cut, bounds>>

(* Power fails anywhere: only the EEPROM emulation survives.               *)
PowerCycle ==
  /\ cycles < MaxCycles
  /\ stage # "boot"
  /\ cycles' = cycles + 1
  /\ stage' = "boot"
  /\ cut' = (cut \/ (stage = "cfg" /\ next_key > 1))
  /\ UNCHANGED <<course, network, buffers, first_alive_flag, requests, counters,
                 data_ready_to_send, ram, nvs, next_key, messages, passes, broken>>

-----------------------------------------------------------------------------
(* The network registers the modem, again whenever it changes cell; the    *)
(* handler gives the semaphore, whose limit is 1.                          *)
lte_handler ==
  /\ modem_on
  /\ registered' = TRUE
  /\ lte_connected' = 1
  /\ UNCHANGED <<stage, course, modem_on, link, buffers, first_alive_flag, requests,
                 counters, data_ready_to_send, config, bounds, passes, broken>>

(* Coverage, or the broker, is lost.                                       *)
NetworkLost ==
  /\ registered' = FALSE
  /\ link' = "down"
  /\ UNCHANGED <<stage, course, modem_on, lte_connected, buffers, first_alive_flag,
                 requests, counters, data_ready_to_send, config, bounds, passes, broken>>

(* The polling loop is entered whether init_modem_and_mqtt succeeded or    *)
(* not: its result is ignored.                                             *)
EnterLoop ==
  /\ stage' = "poll"
  /\ passes' = 0
  /\ auto_reset_counter' = IF session = "upload" THEN 6 ELSE auto_reset_counter
  /\ UNCHANGED <<course, buffers, first_alive_flag, requests,
                 initial_stage_timeout_counter, data_ready_to_send, config, bounds, broken>>

(* nrf_modem_lib_init and lte_lc_connect_async.                            *)
ModemStarts ==
  /\ stage = "modem"
  /\ stage' = "lte"
  /\ modem_on' = TRUE
  /\ UNCHANGED <<course, registered, lte_connected, link, buffers, first_alive_flag,
                 requests, counters, data_ready_to_send, config, bounds, passes, broken>>

ModemFails ==
  /\ stage = "modem"
  /\ modem_on' \in {modem_on, TRUE}
  /\ EnterLoop
  /\ UNCHANGED <<registered, lte_connected, link>>

(* k_sem_take: a token left by a registration during the first session is  *)
(* taken like any other.  With the modem configured the client gets its    *)
(* keep-alive time.                                                        *)
TakeSemaphore ==
  /\ stage = "lte"
  /\ lte_connected = 1
  /\ lte_connected' = 0
  /\ keepalive' = TRUE
  /\ stage' = "client"
  /\ UNCHANGED <<session, modem_on, registered, link, buffers, first_alive_flag, requests,
                 counters, data_ready_to_send, config, bounds, passes, broken>>

(* client_init resolves the host name of the broker.                       *)
ClientInit ==
  /\ stage = "client"
  /\ registered
  /\ stage' = "connect"
  /\ UNCHANGED <<course, network, buffers, first_alive_flag, requests, counters,
                 data_ready_to_send, config, bounds, passes, broken>>

ClientFails ==
  /\ stage = "client"
  /\ EnterLoop
  /\ UNCHANGED network

(* mqtt_connect is tried until it succeeds; CONNACK is not waited for.     *)
MqttConnect ==
  /\ stage = "connect"
  /\ registered
  /\ link' = "connecting"
  /\ EnterLoop
  /\ UNCHANGED <<modem_on, registered, lte_connected>>

-----------------------------------------------------------------------------
(* MQTT_EVT_PUBLISH: the command in the buffer sets its flag.              *)
Obey(command) ==
  /\ mqtt_trigger_reset' = IF command = "RST" THEN 1 ELSE mqtt_trigger_reset
  /\ first_alive_flag' = IF command = "RST" THEN 0 ELSE first_alive_flag
  /\ dump_log_flag' = IF command = "LDM" THEN 1 ELSE dump_log_flag
  /\ mqtt_skip_init_procedure' = IF command = "SKP" THEN 1 ELSE mqtt_skip_init_procedure
  /\ config_request_flag' = IF command = "CFG" THEN 1 ELSE config_request_flag

(* The bytes of a CFG are laid over those of the last one: parameters it   *)
(* leaves out at the end keep what they had.                               *)
CopyConfig(given) == [k \in Keys |-> IF k <= given THEN messages + 1 ELSE cfg_buff[k]]

(* A CFG with the first given of its parameters, or another command.       *)
Receive(command, given) ==
  /\ payload_buf' = command
  /\ cfg_buff' = IF command = "CFG" THEN CopyConfig(given) ELSE cfg_buff
  /\ cut' = (cut \/ (command = "CFG" /\ given < 4))
  /\ Obey(command)

(* The buffer is compared whatever the length of the payload, so an empty  *)
(* message repeats the command before it.                                  *)
ReceiveEmpty ==
  /\ Obey(payload_buf)
  /\ UNCHANGED <<buffers, cut>>

(* mqtt_input with a message of the operator.                              *)
Message ==
  /\ link = "connected"
  /\ messages < MaxMessages
  /\ messages' = messages + 1
  /\ ReceiveEmpty \/ \E command \in Commands, given \in {2, 4} : Receive(command, given)
  /\ UNCHANGED link

(* mqtt_input with CONNACK, with nothing complete yet, with a payload that *)
(* cannot be read, for which the client disconnects, or a poll that timed  *)
(* out.                                                                    *)
NoMessage ==
  /\ \/ link' = link
     \/ link = "connecting" /\ link' = "connected"
     \/ link = "connected" /\ link' = "down"
  /\ UNCHANGED <<messages, buffers, first_alive_flag, requests, cut>>

(* The session is over: main goes on to the measurement, or reboots.       *)
LeaveLoop(error) ==
  /\ stage' = IF session = "config" THEN "measure" ELSE "boot"
  /\ broken' = (broken \/ error)

(* poll, mqtt_live and mqtt_input.  An error ends the session whatever was *)
(* received before it.                                                     *)
Poll(error) ==
  /\ stage = "poll"
  /\ passes' = IF passes < PassCap THEN passes + 1 ELSE PassCap
  /\ Message \/ NoMessage
  /\ IF error THEN LeaveLoop(TRUE) ELSE stage' = "cfg" /\ UNCHANGED broken
  /\ UNCHANGED <<course, modem_on, registered, lte_connected, counters,
                 data_ready_to_send, ram, nvs, next_key, cycles>>

(* The rest of a pass touches nothing of what follows.                     *)
QuietPass == UNCHANGED <<course, registered, lte_connected, buffers, cycles, messages, passes>>

ConfigAccepted == \A k \in Keys : cfg_buff[k] # Absent

(* Mutant: the parameters are set but not stored.                          *)
SetParameterInRam ==
  /\ stage = "cfg"
  /\ config_request_flag = 1
  /\ ConfigAccepted
  /\ ram' = [ram EXCEPT ![next_key] = cfg_buff[next_key]]
  /\ IF next_key < LastKey
     THEN next_key' = next_key + 1 /\ UNCHANGED <<stage, config_request_flag>>
     ELSE next_key' = 1 /\ stage' = "dump" /\ config_request_flag' = 0
  /\ QuietPass
  /\ UNCHANGED <<modem_on, link, first_alive_flag, dump_log_flag, mqtt_trigger_reset,
                 mqtt_skip_init_procedure, counters, data_ready_to_send, nvs, cut, broken>>

(* CFG: the parameters are set and stored one after the other.             *)
SetParameter ==
  /\ stage = "cfg"
  /\ config_request_flag = 1
  /\ ConfigAccepted
  /\ ram' = [ram EXCEPT ![next_key] = cfg_buff[next_key]]
  /\ nvs' = [nvs EXCEPT ![next_key] = cfg_buff[next_key]]
  /\ IF next_key < LastKey
     THEN next_key' = next_key + 1 /\ UNCHANGED <<stage, config_request_flag>>
     ELSE next_key' = 1 /\ stage' = "dump" /\ config_request_flag' = 0
  /\ QuietPass
  /\ UNCHANGED <<modem_on, link, first_alive_flag, dump_log_flag, mqtt_trigger_reset,
                 mqtt_skip_init_procedure, counters, data_ready_to_send, cut, broken>>

NoConfig ==
  /\ stage = "cfg"
  /\ config_request_flag = 0 \/ ~ConfigAccepted
  /\ config_request_flag' = 0
  /\ stage' = "dump"
  /\ QuietPass
  /\ UNCHANGED <<modem_on, link, first_alive_flag, dump_log_flag, mqtt_trigger_reset,
                 mqtt_skip_init_procedure, counters, data_ready_to_send, config, broken>>

(* LDM: the retained log is sent until it is empty.                        *)
DumpLog ==
  /\ stage = "dump"
  /\ dump_log_flag' = 0
  /\ stage' = "reset"
  /\ QuietPass
  /\ UNCHANGED <<modem_on, link, first_alive_flag, config_request_flag, mqtt_trigger_reset,
                 mqtt_skip_init_procedure, counters, data_ready_to_send, config, broken>>

(* RST: disconnect, switch the modem off, reboot.                          *)
TriggerReset ==
  /\ stage = "reset"
  /\ mqtt_trigger_reset' = 0
  /\ stage' = IF mqtt_trigger_reset = 1 THEN "boot" ELSE "skip"
  /\ QuietPass
  /\ UNCHANGED <<modem_on, link, first_alive_flag, config_request_flag, dump_log_flag,
                 mqtt_skip_init_procedure, counters, data_ready_to_send, config, broken>>

Shutdown == modem_on' = FALSE /\ link' = "down"

(* Mutant: the request is not cleared.                                     *)
SkipProcedureKept ==
  /\ stage = "skip"
  /\ mqtt_skip_init_procedure = 1
  /\ Shutdown
  /\ LeaveLoop(FALSE)
  /\ QuietPass
  /\ UNCHANGED <<first_alive_flag, requests, counters, data_ready_to_send, config>>

(* SKP: disconnect, switch the modem off, leave the loop.                  *)
SkipProcedure ==
  /\ stage = "skip"
  /\ mqtt_skip_init_procedure = 1
  /\ mqtt_skip_init_procedure' = 0
  /\ Shutdown
  /\ LeaveLoop(FALSE)
  /\ QuietPass
  /\ UNCHANGED <<first_alive_flag, config_request_flag, dump_log_flag, mqtt_trigger_reset,
                 counters, data_ready_to_send, config>>

NoSkip ==
  /\ stage = "skip"
  /\ mqtt_skip_init_procedure = 0
  /\ stage' = "alive"
  /\ QuietPass
  /\ UNCHANGED <<modem_on, link, first_alive_flag, requests, counters, data_ready_to_send,
                 config, broken>>

(* Mutant: the session ends one pass late.                                 *)
InitialTimeoutLate == initial_stage_timeout_counter + 1 > 2

(* The session in which the operator was told of the unit ends after the   *)
(* second pass from there.                                                 *)
InitialTimeout == initial_stage_timeout_counter + 1 = 2

AliveWait ==
  /\ stage = "alive"
  /\ first_alive_flag = 2
  /\ initial_stage_timeout_counter' = initial_stage_timeout_counter + 1
  /\ IF InitialTimeout
     THEN Shutdown /\ LeaveLoop(FALSE)
     ELSE stage' = "data" /\ UNCHANGED <<modem_on, link, broken>>
  /\ QuietPass
  /\ UNCHANGED <<first_alive_flag, requests, auto_reset_counter, data_ready_to_send, config>>

(* Mutant: the unit does not remember that it has sent UNIT ALIVE.         *)
SendAliveForgotten ==
  /\ stage = "alive"
  /\ first_alive_flag # 2
  /\ stage' = "data"
  /\ QuietPass
  /\ UNCHANGED <<modem_on, link, first_alive_flag, requests, counters, data_ready_to_send,
                 config, broken>>

(* UNIT ALIVE is sent once; no flag is left of a failure to send it.       *)
SendAlive ==
  /\ stage = "alive"
  /\ first_alive_flag # 2
  /\ first_alive_flag' = IF first_alive_flag = 1 THEN 2 ELSE first_alive_flag
  /\ stage' = "data"
  /\ QuietPass
  /\ UNCHANGED <<modem_on, link, requests, counters, data_ready_to_send, config, broken>>

(* The record is offered to the client, once.                              *)
SendRecord ==
  /\ stage = "data"
  /\ data_ready_to_send' = 0
  /\ stage' = "autoreset"
  /\ QuietPass
  /\ UNCHANGED <<modem_on, link, first_alive_flag, requests, counters, config, broken>>

(* The sixth pass of the upload session ends in a reboot.                  *)
AutoReset ==
  /\ stage = "autoreset"
  /\ auto_reset_counter' = IF auto_reset_counter > 0 THEN auto_reset_counter - 1 ELSE 0
  /\ stage' = IF auto_reset_counter = 1 THEN "boot" ELSE "poll"
  /\ QuietPass
  /\ UNCHANGED <<modem_on, link, first_alive_flag, requests, initial_stage_timeout_counter,
                 data_ready_to_send, config, broken>>

-----------------------------------------------------------------------------
(* Mutant: the state of the first session is kept in the second.           *)
TrainRecordedStillAlive ==
  /\ stage = "measure"
  /\ data_ready_to_send' = 1
  /\ session' = "upload"
  /\ stage' = "modem"
  /\ UNCHANGED <<network, keepalive, buffers, first_alive_flag, requests, counters, config, bounds,
                 passes, broken>>

(* A train came and its record is ready; the second session begins.        *)
TrainRecorded ==
  /\ stage = "measure"
  /\ data_ready_to_send' = 1
  /\ first_alive_flag' = 0
  /\ session' = "upload"
  /\ stage' = "modem"
  /\ UNCHANGED <<network, keepalive, buffers, requests, counters, config, bounds, passes, broken>>

UnitInit ==
  /\ stage = "boot"
  /\ session = "config"
  /\ modem_on = FALSE /\ registered = FALSE /\ lte_connected = 0 /\ link = "down"
  /\ keepalive = FALSE
  /\ payload_buf = "other" /\ cfg_buff = [k \in Keys |-> Absent]
  /\ first_alive_flag = 1
  /\ config_request_flag = 0 /\ dump_log_flag = 0
  /\ mqtt_trigger_reset = 0 /\ mqtt_skip_init_procedure = 0
  /\ initial_stage_timeout_counter = 0 /\ auto_reset_counter = 0
  /\ data_ready_to_send = 0
  /\ ram = [k \in Keys |-> 0]
  /\ nvs = [k \in Keys |-> Absent]
  /\ next_key = 1
  /\ messages = 0 /\ cycles = 0
  /\ passes = 0 /\ broken = FALSE /\ cut = FALSE

StartSession == ModemStarts \/ ModemFails \/ TakeSemaphore \/ ClientInit \/ ClientFails \/ MqttConnect

PassStep ==
  \/ \E error \in BOOLEAN : Poll(error)
  \/ SetParameter \/ NoConfig
  \/ DumpLog
  \/ TriggerReset
  \/ SkipProcedure \/ NoSkip
  \/ AliveWait \/ SendAlive
  \/ SendRecord
  \/ AutoReset

UnitNext ==
  \/ Boot \/ PowerCycle
  \/ lte_handler \/ NetworkLost
  \/ StartSession
  \/ PassStep
  \/ TrainRecorded

(* Main goes on inside a pass, and poll returns when what is left of the   *)
(* keep-alive is over.  While the modem was never configured the client    *)
(* has no keep-alive, and poll may wait without end.  Nothing is assumed   *)
(* of the network, of the operator, or of trains.                          *)
TimedPassStep == PassStep /\ (stage = "poll" => keepalive)

UnitSpec ==
  /\ UnitInit
  /\ [][UnitNext]_unitVars
  /\ WF_unitVars(TimedPassStep)

-----------------------------------------------------------------------------

(* Whatever is received, a first session has at most three passes and an   *)
(* upload session at most six: no command keeps the unit from measuring or *)
(* from rebooting, and the time-out of the first session never counts in   *)
(* the second.                                                             *)
SessionLength == passes <= IF session = "config" THEN 3 ELSE 6

(* A train is measured with the configuration that a reboot would load,    *)
(* also when power failed while a CFG was being stored.                    *)
MeasuresWithStored == stage = "measure" => ram = nvs

(* The parameters measured with come from one message, or are the          *)
(* defaults, unless some CFG was cut short.                                *)
ConfigOfOneMessage ==
  stage = "measure" /\ ~cut => \A j, k \in Keys : ram[j] = ram[k]

(* Measuring begins with no command left unanswered, unless the session    *)
(* was ended by an error.                                                  *)
CommandsAnswered ==
  stage = "measure" /\ ~broken =>
    /\ config_request_flag = 0 /\ dump_log_flag = 0
    /\ mqtt_trigger_reset = 0 /\ mqtt_skip_init_procedure = 0

(* A record that was never offered to the client is lost only to power, to *)
(* an error of the connection, to RST or to SKP: neither the time-out of   *)
(* the first session nor the automatic reset comes before the data.        *)
RecordOffered ==
  [][data_ready_to_send = 1 /\ stage # "boot" /\ stage' = "boot"
       => \/ cycles' > cycles
          \/ stage \in {"poll", "reset", "skip"}]_unitVars

(* Every session whose client has a keep-alive time ends, in the           *)
(* measurement or in a reboot, whatever the broker and the operator do.    *)
SessionEnds == (stage = "poll" /\ keepalive) ~> (stage \in {"measure", "boot"})

(* The comment at RST in mqtt_evt_handler says that first_alive_flag is    *)
(* cleared so that the unit does not go on to its normal state.            *)
ResetAvoidsMeasuring == stage = "measure" => mqtt_trigger_reset = 0

=============================================================================

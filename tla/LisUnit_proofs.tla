--------------------------- MODULE LisUnit_proofs ---------------------------
(***************************************************************************)
(* The life of the unit for any number of messages, power failures and     *)
(* reboots.                                                                *)
(***************************************************************************)
EXTENDS LisUnit, TLAPS

Setup == {"modem", "lte", "client", "connect"}
Sections == {"cfg", "dump", "reset", "skip", "alive"}
AfterAlive == {"data", "autoreset"}
Stages == {"boot", "poll", "measure"} \cup Setup \cup Sections \cup AfterAlive

TypesInv ==
  /\ stage \in Stages
  /\ session \in {"config", "upload"}
  /\ passes \in 0 .. 6
  /\ first_alive_flag \in {0, 1, 2}
  /\ initial_stage_timeout_counter \in Nat /\ auto_reset_counter \in Nat

(* How far the first session is: before "UNIT ALIVE", or as many passes    *)
(* behind it as initial_stage_timeout_counter says.  An RST ends the pass  *)
(* it came in.                                                             *)
FirstSessionInv ==
  session = "config" =>
    /\ stage \in Setup =>
         first_alive_flag = 1 /\ initial_stage_timeout_counter = 0 /\ passes = 0
    /\ stage = "poll" =>
         \/ first_alive_flag = 1 /\ initial_stage_timeout_counter = 0 /\ passes = 0
         \/ first_alive_flag = 2 /\ initial_stage_timeout_counter \in {0, 1}
              /\ passes = 1 + initial_stage_timeout_counter
    /\ stage \in Sections =>
         \/ first_alive_flag = 0 /\ passes \in 1 .. 3
              /\ mqtt_trigger_reset = 1 /\ stage \in {"cfg", "dump", "reset"}
         \/ first_alive_flag = 1 /\ initial_stage_timeout_counter = 0 /\ passes = 1
         \/ first_alive_flag = 2 /\ initial_stage_timeout_counter \in {0, 1}
              /\ passes = 2 + initial_stage_timeout_counter
    /\ stage \in AfterAlive =>
         /\ first_alive_flag = 2 /\ initial_stage_timeout_counter \in {0, 1}
         /\ passes = 1 + initial_stage_timeout_counter
    /\ stage \in Setup \cup {"poll"} \cup Sections \cup AfterAlive => auto_reset_counter = 0
    /\ stage \in {"measure", "boot"} => passes <= 3

(* The upload session counts its passes backwards in auto_reset_counter,   *)
(* and never comes near the time-out of the first.                         *)
UploadSessionInv ==
  session = "upload" =>
    /\ stage \in Setup => first_alive_flag = 0
    /\ stage = "poll" =>
         first_alive_flag = 0 /\ passes <= 5 /\ auto_reset_counter = 6 - passes
    /\ stage \in Sections \cup AfterAlive =>
         first_alive_flag = 0 /\ passes >= 1 /\ auto_reset_counter = 7 - passes
    /\ stage # "measure"

LengthInv == TypesInv /\ FirstSessionInv /\ UploadSessionInv

LEMMA SetupSteps ==
  ASSUME LengthInv, StartSession
  PROVE  LengthInv'
<1> USE DEF LengthInv, TypesInv, FirstSessionInv, UploadSessionInv, Stages, Setup, Sections,
            AfterAlive, course, requests, counters
<1>1. CASE ModemStarts
  BY <1>1 DEF ModemStarts
<1>2. CASE ModemFails
  BY <1>2 DEF ModemFails, EnterLoop
<1>3. CASE TakeSemaphore
  BY <1>3 DEF TakeSemaphore
<1>4. CASE ClientInit
  BY <1>4 DEF ClientInit
<1>5. CASE ClientFails
  BY <1>5 DEF ClientFails, EnterLoop
<1>6. CASE MqttConnect
  BY <1>6 DEF MqttConnect, EnterLoop
<1>7. QED
  BY <1>1, <1>2, <1>3, <1>4, <1>5, <1>6 DEF StartSession

(* What a pass may find in a message, as far as its length is concerned.   *)
LEMMA Received ==
  ASSUME Message \/ NoMessage
  PROVE  \/ first_alive_flag' = first_alive_flag /\ mqtt_trigger_reset' = mqtt_trigger_reset
         \/ first_alive_flag' = 0 /\ mqtt_trigger_reset' = 1
         \/ first_alive_flag' = first_alive_flag /\ mqtt_trigger_reset' = 1
<1>1. CASE NoMessage
  BY <1>1 DEF NoMessage, requests
<1>2. CASE Message
  BY <1>2 DEF Message, ReceiveEmpty, Receive, Obey
<1>3. QED
  BY <1>1, <1>2

LEMMA PollStep ==
  ASSUME LengthInv, NEW error \in BOOLEAN, Poll(error)
  PROVE  LengthInv'
<1>1. /\ stage = "poll" /\ passes' = passes + 1 /\ session' = session
      /\ UNCHANGED <<initial_stage_timeout_counter, auto_reset_counter>>
  BY DEF Poll, LengthInv, TypesInv, FirstSessionInv, UploadSessionInv, PassCap, course, counters
<1>2. stage' = IF error THEN IF session = "config" THEN "measure" ELSE "boot" ELSE "cfg"
  BY DEF Poll, LeaveLoop
<1>3. \/ first_alive_flag' = first_alive_flag
      \/ first_alive_flag' = 0 /\ mqtt_trigger_reset' = 1
  BY Received DEF Poll
<1>4. CASE session = "config"
  BY <1>1, <1>2, <1>3, <1>4 DEF LengthInv, TypesInv, FirstSessionInv, UploadSessionInv, Stages,
     Setup, Sections, AfterAlive
<1>5. CASE session = "upload"
  BY <1>1, <1>2, <1>3, <1>5 DEF LengthInv, TypesInv, FirstSessionInv, UploadSessionInv, Stages,
     Setup, Sections, AfterAlive
<1>6. QED
  BY <1>4, <1>5 DEF LengthInv, TypesInv

LEMMA PassSteps ==
  ASSUME LengthInv, PassStep
  PROVE  LengthInv'
<1> USE DEF LengthInv, TypesInv, FirstSessionInv, UploadSessionInv, Stages, Setup, Sections,
            AfterAlive, QuietPass, course, requests, counters
<1>1. CASE \E error \in BOOLEAN : Poll(error)
  BY <1>1, PollStep
<1>2. CASE SetParameter \/ NoConfig
  BY <1>2 DEF SetParameter, NoConfig
<1>3. CASE DumpLog
  BY <1>3 DEF DumpLog
<1>4. CASE TriggerReset
  BY <1>4 DEF TriggerReset
<1>5. CASE SkipProcedure \/ NoSkip
  BY <1>5 DEF SkipProcedure, NoSkip, Shutdown, LeaveLoop
<1>6. CASE AliveWait
  BY <1>6 DEF AliveWait, InitialTimeout, Shutdown, LeaveLoop
<1>7. CASE SendAlive
  BY <1>7 DEF SendAlive
<1>8. CASE SendRecord
  BY <1>8 DEF SendRecord
<1>9. CASE AutoReset
  BY <1>9 DEF AutoReset
<1>10. QED
  BY <1>1, <1>2, <1>3, <1>4, <1>5, <1>6, <1>7, <1>8, <1>9 DEF PassStep

THEOREM LengthInvariant == UnitSpec => []LengthInv
<1>1. UnitInit => LengthInv
  BY DEF UnitInit, LengthInv, TypesInv, FirstSessionInv, UploadSessionInv, Stages, Setup,
     Sections, AfterAlive
<1>2. LengthInv /\ [UnitNext]_unitVars => LengthInv'
  <2> SUFFICES ASSUME LengthInv, [UnitNext]_unitVars PROVE LengthInv'
    OBVIOUS
  <2> USE DEF LengthInv, TypesInv, FirstSessionInv, UploadSessionInv, Stages, Setup, Sections,
              AfterAlive, course, requests, counters
  <2>1. CASE Boot
    BY <2>1 DEF Boot
  <2>2. CASE PowerCycle
    BY <2>2 DEF PowerCycle
  <2>3. CASE lte_handler \/ NetworkLost
    BY <2>3 DEF lte_handler, NetworkLost
  <2>4. CASE StartSession
    BY <2>4, SetupSteps
  <2>5. CASE PassStep
    BY <2>5, PassSteps
  <2>6. CASE TrainRecorded
    BY <2>6 DEF TrainRecorded
  <2>7. CASE UNCHANGED unitVars
    BY <2>7 DEF unitVars
  <2>8. QED
    BY <2>1, <2>2, <2>3, <2>4, <2>5, <2>6, <2>7 DEF UnitNext
<1>3. QED
  BY <1>1, <1>2, PTL DEF UnitSpec

(* A first session has at most three passes and an upload session six,     *)
(* whatever is received and however the connection fails                   *)
(* (mqtt_pooling_procedure).                                               *)
THEOREM SessionsAreShort == UnitSpec => []SessionLength
<1>1. LengthInv => SessionLength
  BY DEF LengthInv, TypesInv, FirstSessionInv, UploadSessionInv, SessionLength, Stages, Setup,
     Sections, AfterAlive
<1>2. QED
  BY <1>1, LengthInvariant, PTL

-----------------------------------------------------------------------------
(* A flag that a message sets is cleared in the section it belongs to, in  *)
(* the same pass, as long as no error has cut a pass short.                *)
RequestsInv ==
  /\ session \in {"config", "upload"}
  /\ ~broken =>
    /\ stage \in {"dump", "reset", "skip", "alive"} \cup Setup \cup AfterAlive \cup {"poll", "measure"}
         => config_request_flag = 0
    /\ stage \in {"reset", "skip", "alive"} \cup Setup \cup AfterAlive \cup {"poll", "measure"}
         => dump_log_flag = 0
    /\ stage \in {"skip", "alive"} \cup Setup \cup AfterAlive \cup {"poll", "measure"}
         => mqtt_trigger_reset = 0
    /\ stage \in {"alive"} \cup Setup \cup AfterAlive \cup {"poll", "measure"}
         => mqtt_skip_init_procedure = 0
    /\ mqtt_skip_init_procedure \in {0, 1}

LEMMA RequestsKept ==
  ASSUME RequestsInv, [UnitNext]_unitVars
  PROVE  RequestsInv'
<1> USE DEF RequestsInv, Setup, AfterAlive, QuietPass, course, requests
<1>1. CASE Boot
  BY <1>1 DEF Boot
<1>2. CASE PowerCycle \/ lte_handler \/ NetworkLost \/ TrainRecorded
  BY <1>2 DEF PowerCycle, lte_handler, NetworkLost, TrainRecorded
<1>3. CASE ModemStarts \/ TakeSemaphore \/ ClientInit
  BY <1>3 DEF ModemStarts, TakeSemaphore, ClientInit
<1>4. CASE ModemFails \/ ClientFails \/ MqttConnect
  BY <1>4 DEF ModemFails, ClientFails, MqttConnect, EnterLoop
<1>5. CASE \E error \in BOOLEAN : Poll(error)
  <2>1. PICK error \in BOOLEAN : Poll(error)
    BY <1>5
  <2>2. CASE error
    BY <2>1, <2>2 DEF Poll, LeaveLoop
  <2>3. CASE ~error
    <3>1. stage' = "cfg" /\ broken' = broken /\ session' = session
      BY <2>1, <2>3 DEF Poll
    <3>2. ~broken => mqtt_skip_init_procedure' \in {0, 1}
      BY <2>1 DEF Poll, Message, NoMessage, Receive, ReceiveEmpty, Obey
    <3>3. QED
      BY <3>1, <3>2
  <2>4. QED
    BY <2>2, <2>3
<1>6. CASE SetParameter \/ NoConfig
  BY <1>6 DEF SetParameter, NoConfig
<1>7. CASE DumpLog
  BY <1>7 DEF DumpLog
<1>8. CASE TriggerReset
  BY <1>8 DEF TriggerReset
<1>9. CASE SkipProcedure \/ NoSkip
  BY <1>9 DEF SkipProcedure, NoSkip, LeaveLoop
<1>10. CASE AliveWait
  BY <1>10 DEF AliveWait, LeaveLoop
<1>11. CASE SendAlive \/ SendRecord \/ AutoReset
  BY <1>11 DEF SendAlive, SendRecord, AutoReset
<1>12. CASE UNCHANGED unitVars
  BY <1>12 DEF unitVars
<1>13. QED
  BY <1>1, <1>2, <1>3, <1>4, <1>5, <1>6, <1>7, <1>8, <1>9, <1>10, <1>11, <1>12
  DEF UnitNext, StartSession, PassStep

(* Measuring begins with no command left unanswered, unless the session    *)
(* was ended by an error (mqtt_evt_handler, mqtt_pooling_procedure).       *)
THEOREM CommandsObeyed == UnitSpec => []CommandsAnswered
<1>1. UnitInit => RequestsInv
  BY DEF UnitInit, RequestsInv, Setup, AfterAlive
<1>2. RequestsInv /\ [UnitNext]_unitVars => RequestsInv'
  BY RequestsKept
<1>3. RequestsInv => CommandsAnswered
  BY DEF RequestsInv, CommandsAnswered
<1>4. QED
  BY <1>1, <1>2, <1>3, PTL DEF UnitSpec

-----------------------------------------------------------------------------
(* Outside the reset the configuration in RAM and the stored one change    *)
(* together.                                                               *)
ConfigInv == stage # "boot" => ram = nvs

(* A train is measured with the configuration that a reboot would load,    *)
(* wherever power failed before (main, mqtt_pooling_procedure, CFG).       *)
THEOREM StoredConfiguration == UnitSpec => []MeasuresWithStored
<1>1. UnitInit => ConfigInv
  BY DEF UnitInit, ConfigInv
<1>2. ConfigInv /\ [UnitNext]_unitVars => ConfigInv'
  <2> SUFFICES ASSUME ConfigInv, [UnitNext]_unitVars PROVE ConfigInv'
    OBVIOUS
  <2> USE DEF ConfigInv, config
  <2>1. CASE Boot \/ PowerCycle
    BY <2>1 DEF Boot, PowerCycle
  <2>2. CASE lte_handler \/ NetworkLost \/ TrainRecorded
    BY <2>2 DEF lte_handler, NetworkLost, TrainRecorded
  <2>3. CASE StartSession
    BY <2>3 DEF StartSession, ModemStarts, ModemFails, TakeSemaphore, ClientInit, ClientFails,
       MqttConnect, EnterLoop
  <2>4. CASE PassStep
    <3>1. CASE \E error \in BOOLEAN : Poll(error)
      BY <3>1 DEF Poll
    <3>2. CASE SetParameter \/ NoConfig
      BY <3>2 DEF SetParameter, NoConfig
    <3>3. CASE DumpLog \/ TriggerReset \/ SkipProcedure \/ NoSkip
      BY <3>3 DEF DumpLog, TriggerReset, SkipProcedure, NoSkip
    <3>4. CASE AliveWait \/ SendAlive \/ SendRecord \/ AutoReset
      BY <3>4 DEF AliveWait, SendAlive, SendRecord, AutoReset
    <3>5. QED
      BY <2>4, <3>1, <3>2, <3>3, <3>4 DEF PassStep
  <2>5. CASE UNCHANGED unitVars
    BY <2>5 DEF unitVars
  <2>6. QED
    BY <2>1, <2>2, <2>3, <2>4, <2>5 DEF UnitNext
<1>3. ConfigInv => MeasuresWithStored
  BY DEF ConfigInv, MeasuresWithStored
<1>4. QED
  BY <1>1, <1>2, <1>3, PTL DEF UnitSpec

-----------------------------------------------------------------------------
(* A CFG is being stored from its first parameter on; the stored values    *)
(* from next_key on are still those before.  Before a reset nothing is     *)
(* half stored, unless power has cut the CFG short.                        *)
Stored == IF stage = "cfg" THEN next_key - 1 ELSE 0

Alike(f, S) == \A j, k \in S : f[j] = f[k]

ConfigTypes ==
  /\ stage \in Stages /\ next_key \in Keys /\ cut \in BOOLEAN /\ messages \in Nat
  /\ cfg_buff \in [Keys -> Int] /\ ram \in [Keys -> Int] /\ nvs \in [Keys -> Int]
  /\ stage \notin {"cfg", "boot"} => next_key = 1
  /\ stage = "cfg" /\ next_key > 1 => config_request_flag = 1 /\ ConfigAccepted

OneMessageInv ==
  ~cut =>
    /\ Alike(cfg_buff, Keys)
    /\ \A k \in 1 .. Stored : nvs[k] = cfg_buff[k]
    /\ Alike(nvs, Keys \ (1 .. Stored))

MessageInv == ConfigTypes /\ ConfigInv /\ OneMessageInv

(* Steps that do not touch the configuration, outside the CFG section or   *)
(* into and out of it.                                                     *)
LEMMA ConfigUntouched ==
  ASSUME MessageInv, UNCHANGED <<cfg_buff, ram, nvs, next_key, cut>>,
         messages' \in Nat, stage' \in Stages, stage # "boot",
         stage = "cfg" => next_key = 1
  PROVE  MessageInv'
<1>1. Stored = 0 /\ next_key = 1 /\ Stored' = 0
  BY DEF MessageInv, ConfigTypes, Stored
<1>2. QED
  BY <1>1 DEF MessageInv, ConfigTypes, ConfigInv, OneMessageInv, Alike

LEMMA ConfigBeside ==
  ASSUME MessageInv, UNCHANGED <<stage, messages, cfg_buff, config_request_flag, ram, nvs, next_key, cut>>
  PROVE  MessageInv'
  BY DEF MessageInv, ConfigTypes, ConfigInv, ConfigAccepted, OneMessageInv, Alike, Stored

LEMMA BootStep == MessageInv /\ Boot => MessageInv'
<1> SUFFICES ASSUME MessageInv, Boot PROVE MessageInv'
  OBVIOUS
<1>1. /\ stage = "boot" /\ stage' = "modem" /\ next_key' = 1 /\ cut' = cut /\ messages' = messages
      /\ cfg_buff' = [k \in Keys |-> Absent] /\ ram' = Load(nvs) /\ nvs' = Load(nvs)
  BY DEF Boot, bounds
<1>2. Stored = 0 /\ Stored' = 0 /\ 1 .. 0 = {}
  BY <1>1 DEF Stored
<1>3. Load(nvs) \in [Keys -> Int] /\ Absent \in Int /\ 1 \in Keys
  BY DEF Load, MessageInv, ConfigTypes, Absent, Keys
<1>4. ConfigTypes' /\ ConfigInv'
  BY <1>1, <1>3 DEF MessageInv, ConfigTypes, ConfigInv, Stages, Setup
<1>5. ~cut => Alike(Load(nvs), Keys)
  BY <1>2 DEF MessageInv, OneMessageInv, ConfigTypes, Alike, Load
<1>6. OneMessageInv'
  BY <1>1, <1>2, <1>5 DEF OneMessageInv, Alike
<1>7. QED
  BY <1>4, <1>6 DEF MessageInv

(* One parameter of a CFG is stored.                                       *)
LEMMA SetParameterStep == MessageInv /\ SetParameter => MessageInv'
<1> SUFFICES ASSUME MessageInv, SetParameter PROVE MessageInv'
  OBVIOUS
<1>1. /\ stage = "cfg" /\ config_request_flag = 1 /\ ConfigAccepted
      /\ UNCHANGED <<cfg_buff, cut, messages>>
      /\ ram' = [ram EXCEPT ![next_key] = cfg_buff[next_key]]
      /\ nvs' = [nvs EXCEPT ![next_key] = cfg_buff[next_key]]
      /\ IF next_key < 4 THEN next_key' = next_key + 1 /\ stage' = "cfg" /\ config_request_flag' = 1
                         ELSE next_key' = 1 /\ stage' = "dump"
  BY DEF SetParameter, QuietPass, buffers, LastKey
<1>2. next_key \in 1 .. 4 /\ cfg_buff[next_key] \in Int
  BY DEF MessageInv, ConfigTypes, Keys
<1>3. ConfigTypes' /\ ConfigInv'
  BY <1>1, <1>2 DEF MessageInv, ConfigTypes, ConfigInv, ConfigAccepted, Keys, Stages, Sections
<1>4. ASSUME ~cut
      PROVE  /\ Alike(cfg_buff, Keys)
             /\ \A k \in 1 .. next_key : nvs'[k] = cfg_buff[k]
             /\ \A k \in Keys : k > next_key => nvs'[k] = nvs[k]
             /\ \A j, k \in Keys : j > next_key /\ k > next_key => nvs[j] = nvs[k]
  <2>1. Stored = next_key - 1
    BY <1>1 DEF Stored
  <2>2. /\ Alike(cfg_buff, Keys)
        /\ \A k \in 1 .. next_key - 1 : nvs[k] = cfg_buff[k]
        /\ Alike(nvs, Keys \ (1 .. next_key - 1))
    BY <1>4, <2>1 DEF MessageInv, OneMessageInv
  <2>3. \A k \in Keys : nvs'[k] = IF k = next_key THEN cfg_buff[k] ELSE nvs[k]
    BY <1>1 DEF MessageInv, ConfigTypes
  <2>4. \A k \in 1 .. next_key : k = next_key \/ k \in 1 .. next_key - 1
    BY <1>2
  <2>5. \A k \in Keys : k > next_key => k \in Keys \ (1 .. next_key - 1)
    BY <1>2 DEF Keys
  <2>6. 1 .. next_key \subseteq Keys
    BY <1>2 DEF Keys
  <2>7. QED
    BY <1>2, <2>2, <2>3, <2>4, <2>5, <2>6 DEF Alike
<1>5. CASE next_key < 4
  <2>1. next_key' = next_key + 1 /\ stage' = "cfg"
    BY <1>1, <1>5
  <2>2. Stored' = next_key
    BY <1>2, <2>1 DEF Stored
  <2>3. \A k \in Keys \ (1 .. next_key) : k > next_key
    BY <1>2 DEF Keys
  <2>4. QED
    BY <1>1, <1>3, <1>4, <2>2, <2>3 DEF MessageInv, OneMessageInv, Alike
<1>6. CASE next_key = 4
  <2>1. Stored' = 0 /\ 1 .. 0 = {} /\ Keys = 1 .. next_key
    BY <1>1, <1>6 DEF Stored, Keys
  <2>2. QED
    BY <1>1, <1>3, <1>4, <2>1 DEF MessageInv, OneMessageInv, Alike
<1>7. QED
  BY <1>2, <1>5, <1>6

(* A message lays its parameters over the buffer; one that has them all    *)
(* leaves no value of an older one.                                        *)
LEMMA PollConfig ==
  ASSUME MessageInv, NEW error \in BOOLEAN, Poll(error)
  PROVE  MessageInv'
<1>1. /\ stage = "poll" /\ stage' \in {"cfg", "measure", "boot"}
      /\ UNCHANGED <<ram, nvs, next_key>>
  BY DEF Poll, LeaveLoop
<1>2. next_key = 1 /\ Stored = 0 /\ Stored' = 0 /\ 1 .. 0 = {}
  BY <1>1 DEF MessageInv, ConfigTypes, Stored
<1>3. /\ cfg_buff' \in [Keys -> Int] /\ cut' \in BOOLEAN /\ messages' \in Nat
      /\ ~cut' => ~cut /\ Alike(cfg_buff', Keys)
  <2>1. CASE NoMessage
    BY <2>1, <1>2 DEF NoMessage, buffers, MessageInv, ConfigTypes, OneMessageInv
  <2>2. CASE Message
    <3>1. messages' \in Nat /\ messages + 1 \in Int
      BY <2>2 DEF Message, MessageInv, ConfigTypes
    <3>2. CASE ReceiveEmpty
      BY <3>1, <3>2 DEF ReceiveEmpty, buffers, MessageInv, ConfigTypes, OneMessageInv
    <3>3. CASE \E command \in Commands, given \in {2, 4} : Receive(command, given)
      <4>1. PICK command \in Commands, given \in {2, 4} : Receive(command, given)
        BY <3>3
      <4>2. /\ cfg_buff' = IF command = "CFG" THEN CopyConfig(given) ELSE cfg_buff
            /\ cut' = (cut \/ (command = "CFG" /\ given < 4))
        BY <4>1 DEF Receive
      <4>3. CopyConfig(given) \in [Keys -> Int]
        BY <3>1 DEF CopyConfig, MessageInv, ConfigTypes
      <4>4. given = 4 => Alike(CopyConfig(given), Keys)
        BY DEF CopyConfig, Alike, Keys
      <4>5. given = 4 \/ given < 4
        OBVIOUS
      <4>6. QED
        BY <3>1, <4>2, <4>3, <4>4, <4>5 DEF MessageInv, ConfigTypes, OneMessageInv
    <3>4. QED
      BY <2>2, <3>2, <3>3 DEF Message
  <2>3. QED
    BY <2>1, <2>2 DEF Poll
<1>4. ConfigTypes' /\ ConfigInv'
  BY <1>1, <1>2, <1>3 DEF MessageInv, ConfigTypes, ConfigInv, Stages, Sections
<1>5. OneMessageInv'
  BY <1>1, <1>2, <1>3 DEF MessageInv, OneMessageInv
<1>6. QED
  BY <1>4, <1>5 DEF MessageInv

LEMMA PowerStep == MessageInv /\ PowerCycle => MessageInv'
<1> SUFFICES ASSUME MessageInv, PowerCycle PROVE MessageInv'
  OBVIOUS
<1>1. /\ stage # "boot" /\ stage' = "boot" /\ cut' = (cut \/ (stage = "cfg" /\ next_key > 1))
      /\ UNCHANGED <<cfg_buff, ram, nvs, next_key, messages>>
  BY DEF PowerCycle, buffers
<1>2. next_key \in 1 .. 4 /\ cut \in BOOLEAN
  BY DEF MessageInv, ConfigTypes, Keys
<1>3. Stored' = 0 /\ (~cut' => ~cut /\ Stored = 0)
  <2>1. next_key > 1 \/ next_key - 1 = 0
    BY <1>2
  <2>2. QED
    BY <1>1, <1>2, <2>1 DEF Stored
<1>4. QED
  BY <1>1, <1>2, <1>3 DEF MessageInv, ConfigTypes, ConfigInv, OneMessageInv, Stages

(* The other steps of a pass.                                              *)
LEMMA QuietSteps ==
  ASSUME MessageInv,
         \/ NoConfig \/ DumpLog \/ TriggerReset \/ SkipProcedure \/ NoSkip
         \/ AliveWait \/ SendAlive \/ SendRecord \/ AutoReset
  PROVE  MessageInv'
<1> USE DEF Stages, Setup, Sections, AfterAlive, config, buffers, QuietPass
<1>1. messages \in Nat
  BY DEF MessageInv, ConfigTypes
<1>2. CASE NoConfig
  <2>1. next_key = 1
    BY <1>2 DEF NoConfig, MessageInv, ConfigTypes, Keys
  <2>2. QED
    BY <1>1, <1>2, <2>1, ConfigUntouched DEF NoConfig
<1>3. CASE DumpLog \/ TriggerReset \/ SkipProcedure \/ NoSkip
  BY <1>1, <1>3, ConfigUntouched DEF DumpLog, TriggerReset, SkipProcedure, NoSkip, LeaveLoop
<1>4. CASE AliveWait \/ SendAlive \/ SendRecord \/ AutoReset
  BY <1>1, <1>4, ConfigUntouched DEF AliveWait, SendAlive, SendRecord, AutoReset, LeaveLoop
<1>5. QED
  BY <1>2, <1>3, <1>4

(* What the unit uses and what it stores come from one message or are the  *)
(* defaults, up to the parameter a CFG has come to.                        *)
THEOREM MessageInvariant == UnitSpec => []MessageInv
<1>1. UnitInit => MessageInv
  <2> SUFFICES ASSUME UnitInit PROVE MessageInv
    OBVIOUS
  <2>1. Stored = 0 /\ 1 .. 0 = {} /\ 1 \in Keys /\ Absent \in Int
    BY DEF UnitInit, Stored, Keys, Absent
  <2>2. ConfigTypes /\ ConfigInv
    <3>1. /\ cfg_buff = [k \in Keys |-> Absent] /\ ram = [k \in Keys |-> 0]
          /\ nvs = [k \in Keys |-> Absent] /\ stage = "boot" /\ next_key = 1
          /\ cut = FALSE /\ messages = 0
      BY DEF UnitInit
    <3>2. cfg_buff \in [Keys -> Int] /\ ram \in [Keys -> Int] /\ nvs \in [Keys -> Int]
      BY <2>1, <3>1
    <3>3. QED
      BY <2>1, <3>1, <3>2 DEF ConfigTypes, ConfigInv, Stages
  <2>3. OneMessageInv
    BY <2>1 DEF UnitInit, OneMessageInv, Alike
  <2>4. QED
    BY <2>2, <2>3 DEF MessageInv
<1>2. MessageInv /\ [UnitNext]_unitVars => MessageInv'
  <2> SUFFICES ASSUME MessageInv, [UnitNext]_unitVars PROVE MessageInv'
    OBVIOUS
  <2>1. CASE Boot \/ PowerCycle \/ SetParameter
    BY <2>1, BootStep, PowerStep, SetParameterStep
  <2>2. CASE lte_handler \/ NetworkLost \/ UNCHANGED unitVars
    BY <2>2, ConfigBeside DEF lte_handler, NetworkLost, unitVars, buffers, requests, config, bounds
  <2>3. CASE StartSession \/ TrainRecorded
    <3>1. messages \in Nat
      BY DEF MessageInv, ConfigTypes
    <3>2. /\ stage \in Setup \cup {"measure"} /\ stage' \in Stages
          /\ UNCHANGED <<cfg_buff, ram, nvs, next_key, cut, messages>>
      BY <2>3 DEF StartSession, ModemStarts, ModemFails, TakeSemaphore, ClientInit, ClientFails,
         MqttConnect, TrainRecorded, EnterLoop, Stages, Setup, buffers, config, bounds
    <3>3. QED
      BY <3>1, <3>2, ConfigUntouched DEF Setup
  <2>4. CASE \E error \in BOOLEAN : Poll(error)
    BY <2>4, PollConfig
  <2>5. CASE PassStep /\ ~SetParameter /\ ~\E error \in BOOLEAN : Poll(error)
    BY <2>5, QuietSteps DEF PassStep
  <2>6. QED
    BY <2>1, <2>2, <2>3, <2>4, <2>5 DEF UnitNext
<1>3. QED
  BY <1>1, <1>2, PTL DEF UnitSpec

(* A train is measured with the parameters of one message, or with the     *)
(* defaults, unless a CFG was cut short by its sender or by power          *)
(* (mqtt_evt_handler, the CFG section of mqtt_pooling_procedure).          *)
THEOREM OneMessageMeasures == UnitSpec => []ConfigOfOneMessage
<1>1. MessageInv => ConfigOfOneMessage
  <2> SUFFICES ASSUME MessageInv, stage = "measure", ~cut PROVE Alike(ram, Keys)
    BY DEF ConfigOfOneMessage, Alike
  <2>1. ram = nvs /\ Stored = 0 /\ 1 .. 0 = {}
    BY DEF MessageInv, ConfigInv, Stored
  <2>2. QED
    BY <2>1 DEF MessageInv, OneMessageInv
<1>2. QED
  BY <1>1, MessageInvariant, PTL

-----------------------------------------------------------------------------
(* In an upload session the record is offered before the automatic reset   *)
(* is looked at, and the time-out of the first session is out of reach.    *)
OfferInv == cycles \in Nat /\ (stage = "autoreset" => data_ready_to_send = 0)

(* A record that was never offered to the client is lost only to power, to *)
(* an error of the connection, to RST or to SKP (mqtt_pooling_procedure).  *)
THEOREM RecordsOffered == UnitSpec => RecordOffered
<1>1. UnitInit => OfferInv
  BY DEF UnitInit, OfferInv
<1>2. OfferInv /\ [UnitNext]_unitVars => OfferInv'
  <2> SUFFICES ASSUME OfferInv, [UnitNext]_unitVars PROVE OfferInv'
    OBVIOUS
  <2> USE DEF OfferInv
  <2>1. CASE Boot \/ PowerCycle \/ TrainRecorded \/ StartSession
    <3>1. stage' # "autoreset"
      BY <2>1 DEF Boot, PowerCycle, TrainRecorded, StartSession, ModemStarts, ModemFails,
         TakeSemaphore, ClientInit, ClientFails, MqttConnect, EnterLoop
    <3>2. cycles' = cycles \/ cycles' = cycles + 1
      BY <2>1 DEF Boot, PowerCycle, TrainRecorded, StartSession, ModemStarts, ModemFails,
         TakeSemaphore, ClientInit, ClientFails, MqttConnect, EnterLoop, bounds
    <3>3. QED
      BY <3>1, <3>2
  <2>2. CASE lte_handler \/ NetworkLost \/ UNCHANGED unitVars
    BY <2>2 DEF lte_handler, NetworkLost, unitVars, bounds
  <2>3. CASE PassStep
    BY <2>3 DEF PassStep, Poll, LeaveLoop, SetParameter, NoConfig, DumpLog, TriggerReset,
       SkipProcedure, NoSkip, AliveWait, SendAlive, SendRecord, AutoReset, QuietPass
  <2>4. QED
    BY <2>1, <2>2, <2>3 DEF UnitNext
<1>3. LengthInv /\ OfferInv /\ [UnitNext]_unitVars =>
        [data_ready_to_send = 1 /\ stage # "boot" /\ stage' = "boot"
           => cycles' > cycles \/ stage \in {"poll", "reset", "skip"}]_unitVars
  <2>. (PowerCycle /\ cycles \in Nat) => cycles' > cycles
    BY DEF PowerCycle
  <2> SUFFICES ASSUME LengthInv, OfferInv, UnitNext, data_ready_to_send = 1, stage # "boot", stage' = "boot",
                      stage \notin {"poll", "reset", "skip"}
               PROVE  PowerCycle
    BY DEF OfferInv
  <2>1. ~Boot /\ ~lte_handler /\ ~NetworkLost /\ ~TrainRecorded
    BY DEF Boot, lte_handler, NetworkLost, TrainRecorded
  <2>2. ~StartSession
    BY DEF StartSession, ModemStarts, ModemFails, TakeSemaphore, ClientInit, ClientFails,
       MqttConnect, EnterLoop
  <2>3. ~PassStep
    <3>1. ~\E error \in BOOLEAN : Poll(error)
      BY DEF Poll
    <3>2. ~SetParameter /\ ~NoConfig /\ ~DumpLog /\ ~TriggerReset
      BY DEF SetParameter, NoConfig, DumpLog, TriggerReset
    <3>3. ~SkipProcedure /\ ~NoSkip /\ ~SendAlive /\ ~SendRecord
      BY DEF SkipProcedure, NoSkip, SendAlive, SendRecord
    <3>4. ~AliveWait
      BY DEF AliveWait, LeaveLoop, LengthInv, TypesInv, UploadSessionInv, Sections
    <3>5. ~AutoReset
      BY DEF AutoReset, OfferInv
    <3>6. QED
      BY <3>1, <3>2, <3>3, <3>4, <3>5 DEF PassStep
  <2>4. QED
    BY <2>1, <2>2, <2>3 DEF UnitNext
<1>4. QED
  BY <1>1, <1>2, <1>3, LengthInvariant, PTL DEF UnitSpec, RecordOffered
=============================================================================

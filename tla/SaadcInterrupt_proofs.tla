----------------------- MODULE SaadcInterrupt_proofs -----------------------
(***************************************************************************)
(* Proofs about the SAADC driver, for every number of iterations of the    *)
(* examples, of calls of an application and of buffers.                    *)
(***************************************************************************)
EXTENDS SaadcInterrupt, FiniteSetTheorems, TLAPS

IdleStates == {Idle, SimpleMode, AdvMode}
SamplingStates == {SimpleModeSample, AdvModeSample, AdvModeSampleStarted}
States == IdleStates \cup SamplingStates \cup {"UNINITIALIZED", Calibration}

Interrupts == Conversions \cup Limits \cup {"CALIBRATEDONE"}

Errors == {"SUCCESS", "ALREADY", "BUSY", "INVALID_PARAM", "NOT_SUPPORTED",
           "INVALID_LENGTH", "INVALID_STATE", "NO_MEM", "FORBIDDEN"}

Buffers == [name : {"none", "calib", "first", "second"}, len : Nat]

(* The control block and the peripheral keep their types.                  *)
Adc == [state : States, prev : States, handler : BOOLEAN, calibHandler : BOOLEAN,
        primary : Buffers, secondary : Buffers, converted : Nat,
        configured : SUBSET Channels, activated : SUBSET Channels, limits : SUBSET Limits,
        startOnEnd : BOOLEAN, timer : BOOLEAN, err : Errors,
        ptr : Buffers, writing : Buffers, amount : Nat, sampling : BOOLEAN,
        calibrating : BOOLEAN, ints : SUBSET Interrupts, events : SUBSET Interrupts,
        full : Seq(Buffers)]

App == [pc : {"init", "single", "multiple", "trigger"}, after : {"single", "multiple"},
        count : Nat, ready : BOOLEAN, failed : BOOLEAN, late : BOOLEAN,
        index : Channels, requests : Nat, supply : BOOLEAN,
        startOnEnd : BOOLEAN, done : Seq(Buffers)]

(* An idle converter is quiet.                                             *)
Quiet(r) == r.state \in IdleStates \cup {"UNINITIALIZED"} => r.writing = NoBuffer

(* A calibration runs in its own state, and nothing else is written or     *)
(* reported until it ends.                                                 *)
Calibrates(r) ==
  /\ r.calibrating \/ "CALIBRATEDONE" \in r.ints => r.state = Calibration
  /\ "CALIBRATEDONE" \in r.events => r.state \in {Calibration, "UNINITIALIZED"}
  /\ r.calibrating => /\ r.writing = NoBuffer
                      /\ r.events \cap {"STOPPED", "END", "CALIBRATEDONE"} = {}
  /\ r.state = Calibration => r.calibHandler /\ r.prev \in IdleStates

(* The interrupts of a conversion are enabled wherever one can end.        *)
Listens(r) ==
  /\ r.state = "UNINITIALIZED" => r.ints = {}
  /\ r.handler /\ r.state # "UNINITIALIZED" => Conversions \subseteq r.ints
  /\ r.state \in SamplingStates => r.handler
  /\ r.state = Calibration => Conversions \subseteq r.ints
  /\ r.state # "UNINITIALIZED" /\ r.events \cap {"STOPPED", "END"} # {} =>
       Conversions \subseteq r.ints

Sound(r) == r \in Adc /\ Quiet(r) /\ Calibrates(r) /\ Listens(r)

(* No end of a conversion waits: what main finds when it calls the driver. *)
Served(r) == r.state # "UNINITIALIZED" => r.events \cap {"STOPPED", "END"} = {}

-----------------------------------------------------------------------------
LEMMA BufferTypes ==
  /\ NoBuffer \in Buffers /\ CalibSamples \in Buffers
  /\ \A i \in Channels, n \in Nat : [Buffer(i) EXCEPT !.len = n] \in Buffers
  /\ \A i \in Channels : Buffer(i) \in Buffers
  /\ \A b \in Buffers, n \in Nat : [b EXCEPT !.len = n] \in Buffers
  BY DEF NoBuffer, CalibSamples, Buffer, Buffers, Channels

LEMMA ReturnSound ==
  ASSUME NEW r, Sound(r), NEW e \in Errors
  PROVE  /\ Sound(Return(r, e))
         /\ Return(r, e).state = r.state /\ Return(r, e).events = r.events
         /\ Return(r, e).calibrating = r.calibrating
  BY DEF Sound, Adc, Quiet, Calibrates, Listens, Return

(* Soundness says nothing of the buffers, lengths and counters.            *)
Alike(r, y) ==
  /\ y.state = r.state /\ y.prev = r.prev /\ y.handler = r.handler
  /\ y.calibHandler = r.calibHandler /\ y.writing = r.writing
  /\ y.calibrating = r.calibrating /\ y.ints = r.ints /\ y.events = r.events

LEMMA AlikeSound ==
  ASSUME NEW r, Sound(r), NEW y \in Adc, Alike(r, y)
  PROVE  Sound(y) /\ (Served(r) => Served(y))
  BY DEF Alike, Sound, Quiet, Calibrates, Listens, Served

LEMMA StopSound ==
  ASSUME NEW r, Sound(r), NEW n \in Nat, r.state # "UNINITIALIZED",
         Conversions \subseteq r.ints
  PROVE  Sound(TaskStop(r, n)) /\ ~TaskStop(r, n).calibrating
<1>1. [r.writing EXCEPT !.len = n] \in Buffers /\ NoBuffer \in Buffers
  BY BufferTypes DEF Sound, Adc
<1> DEFINE more == IF r.writing \in {NoBuffer, CalibSamples} THEN r.full
                   ELSE Append(r.full, [r.writing EXCEPT !.len = n])
           ended == IF r.writing = NoBuffer THEN {} ELSE {"END"}
           filled == IF r.writing = NoBuffer THEN r.amount ELSE n
<1>2. more \in Seq(Buffers) /\ filled \in Nat
  BY <1>1 DEF Sound, Adc
<1>3. ended \subseteq {"END"}
  OBVIOUS
<1>4. TaskStop(r, n) = [r EXCEPT !.events = @ \cup {"STOPPED"} \cup ended, !.amount = filled,
                                 !.full = more, !.writing = NoBuffer,
                                 !.sampling = FALSE, !.calibrating = FALSE]
  BY DEF TaskStop
<1> HIDE DEF more, ended, filled
<1>5. TaskStop(r, n) \in Adc
  <2> DEFINE events == r.events \cup {"STOPPED"} \cup ended
  <2>1. r \in Adc /\ events \in SUBSET Interrupts
    BY <1>3 DEF Sound, Adc, Interrupts, Conversions
  <2> HIDE DEF events
  <2>2. [r EXCEPT !.events = events, !.amount = filled, !.full = more,
                  !.writing = NoBuffer, !.sampling = FALSE, !.calibrating = FALSE] \in Adc
    BY <1>1, <1>2, <2>1 DEF Adc
  <2>3. QED
    BY <1>4, <2>2 DEF events
<1>6. QED
  BY <1>3, <1>4, <1>5 DEF Sound, Adc, Quiet, Calibrates, Listens

LEMMA LatchSound ==
  ASSUME NEW r, Sound(r), NEW b \in Buffers, r.state \notin IdleStates,
         r.state # "UNINITIALIZED", ~r.calibrating
  PROVE  Sound(Latch(r, b)) /\ Sound(TaskStart(r))
  BY DEF Sound, Adc, Quiet, Calibrates, Listens, Latch, TaskStart, Interrupts, Conversions

-----------------------------------------------------------------------------
(* The calls of the driver.                                                *)
LEMMA InitSound ==
  ASSUME NEW r, Sound(r), Served(r)
  PROVE  Sound(nrfx_saadc_init(r)) /\ Served(nrfx_saadc_init(r))
<1>1. CASE r.state # "UNINITIALIZED"
  BY <1>1, ReturnSound DEF nrfx_saadc_init, Served, Errors
<1>2. CASE r.state = "UNINITIALIZED"
  <2> DEFINE y == [saadc_channels_deconfig(r, r.configured)
                     EXCEPT !.state = Idle, !.handler = FALSE, !.ints = {},
                            !.events = {}, !.err = "SUCCESS"]
  <2>1. r \in Adc /\ "SUCCESS" \in Errors /\ Idle \in States
    BY DEF Sound, Errors, States, IdleStates
  <2>2. y \in Adc
    BY <2>1 DEF saadc_channels_deconfig, Adc
  <2>3. /\ y.state = Idle /\ y.writing = r.writing /\ y.calibrating = r.calibrating
        /\ ~y.handler /\ y.ints = {} /\ y.events = {}
    BY <2>1 DEF saadc_channels_deconfig, Adc
  <2>4. nrfx_saadc_init(r) = y
    BY <1>2 DEF nrfx_saadc_init
  <2>5. r.writing = NoBuffer /\ ~r.calibrating
    BY <1>2 DEF Sound, Quiet, Calibrates, Calibration
  <2> HIDE DEF y
  <2>6. Sound(y) /\ Served(y)
    BY <2>2, <2>3, <2>5 DEF Sound, Quiet, Calibrates, Listens, Served, SamplingStates, Idle,
       SimpleModeSample, AdvModeSample, AdvModeSampleStarted, Calibration
  <2>7. QED
    BY <2>4, <2>6
<1>3. QED
  BY <1>1, <1>2

LEMMA ChannelSound ==
  ASSUME NEW r, Sound(r), Served(r), NEW chs \in SUBSET Channels
  PROVE  /\ Sound(nrfx_saadc_channel_config(r, 0)) /\ Served(nrfx_saadc_channel_config(r, 0))
         /\ Sound(nrfx_saadc_channels_config(r, chs)) /\ Served(nrfx_saadc_channels_config(r, chs))
<1>1. Sound(saadc_channel_config(r, 0)) /\ Served(saadc_channel_config(r, 0))
  BY DEF saadc_channel_config, Served, Sound, Adc, Quiet, Calibrates, Listens, Channels
<1> DEFINE set == [saadc_channels_deconfig(r, r.configured) EXCEPT !.configured = chs]
<1>2. Sound(set) /\ Served(set)
  BY DEF saadc_channels_deconfig, Served, Sound, Adc, Quiet, Calibrates, Listens
<1> HIDE DEF set
<1>3. \A x : \A e \in Errors : Sound(x) /\ Served(x) => Sound(Return(x, e)) /\ Served(Return(x, e))
  BY ReturnSound DEF Served
<1>4. "BUSY" \in Errors /\ "SUCCESS" \in Errors
  BY DEF Errors
<1>5. /\ \/ nrfx_saadc_channel_config(r, 0) = Return(r, "BUSY")
         \/ nrfx_saadc_channel_config(r, 0) = Return(saadc_channel_config(r, 0), "SUCCESS")
      /\ \/ nrfx_saadc_channels_config(r, chs) = Return(r, "BUSY")
         \/ nrfx_saadc_channels_config(r, chs) = Return(set, "SUCCESS")
  BY DEF nrfx_saadc_channel_config, nrfx_saadc_channels_config, set
<1>6. Sound(Return(r, "BUSY")) /\ Served(Return(r, "BUSY"))
  BY <1>3, <1>4
<1>7. /\ Sound(Return(saadc_channel_config(r, 0), "SUCCESS"))
      /\ Served(Return(saadc_channel_config(r, 0), "SUCCESS"))
  BY <1>1, <1>3, <1>4
<1>8. Sound(Return(set, "SUCCESS")) /\ Served(Return(set, "SUCCESS"))
  BY <1>2, <1>3, <1>4
<1>9. QED
  BY <1>5, <1>6, <1>7, <1>8

(* A mode is set on a converter that is idle and has been served.          *)
LEMMA ModeSound ==
  ASSUME NEW r, Sound(r), Served(r), ~saadc_busy_check(r),
         NEW chs \in SUBSET Channels, NEW handler \in BOOLEAN
  PROVE  LET m == saadc_generic_mode_set(r, chs, handler)
         IN  /\ m \in Adc /\ m.writing = NoBuffer /\ ~m.calibrating
             /\ m.events \cap {"STOPPED", "END", "CALIBRATEDONE"} = {}
             /\ m.handler = handler /\ m.ints = (IF handler THEN Conversions ELSE {})
<1>1. NoBuffer \in Buffers /\ Conversions \subseteq Interrupts
  BY BufferTypes DEF Interrupts
<1>2. r.state \notin {"UNINITIALIZED", Calibration} /\ r \in Adc
  BY DEF saadc_busy_check, Sound, Idle, SimpleMode, AdvMode, Calibration
<1>3. ~r.calibrating /\ r.events \cap {"STOPPED", "END", "CALIBRATEDONE"} = {}
  BY <1>2 DEF Sound, Calibrates, Served
<1> DEFINE ints == IF handler THEN Conversions ELSE {}
           a == [r EXCEPT !.limits = {}, !.primary = NoBuffer, !.secondary = NoBuffer,
                          !.handler = handler, !.activated = chs]
           m == [a EXCEPT !.converted = 0, !.writing = NoBuffer, !.sampling = FALSE,
                          !.events = @ \ {"STOPPED"}, !.ints = ints]
<1>4. a \in Adc
  BY <1>1, <1>2 DEF Adc
<1>5. a.handler = handler /\ a.events = r.events /\ a.calibrating = r.calibrating
  BY <1>2 DEF Adc
<1>6. saadc_generic_mode_set(r, chs, handler) = m
  BY DEF saadc_generic_mode_set
<1>7. ints \subseteq Interrupts
  BY <1>1
<1> HIDE DEF a, ints
<1>8. m \in Adc
  BY <1>1, <1>4, <1>7 DEF Adc
<1>9. /\ m.handler = a.handler /\ m.events \subseteq a.events /\ m.writing = NoBuffer
      /\ m.calibrating = a.calibrating /\ m.ints = ints
  BY <1>4 DEF Adc
<1> HIDE DEF m
<1>10. QED
  BY <1>3, <1>5, <1>6, <1>8, <1>9 DEF ints

LEMMA SimpleModeSound ==
  ASSUME NEW r, Sound(r), Served(r), NEW chs \in SUBSET Channels, NEW handler \in BOOLEAN
  PROVE  LET m == nrfx_saadc_simple_mode_set(r, chs, handler) IN Sound(m) /\ Served(m)
<1> DEFINE m == saadc_generic_mode_set(r, chs, handler)
           set == [m EXCEPT !.state = SimpleMode, !.err = "SUCCESS"]
<1>1. CASE saadc_busy_check(r) \/ ~(chs \subseteq r.configured)
  BY <1>1, ReturnSound DEF nrfx_saadc_simple_mode_set, Served, Errors
<1>2. CASE ~saadc_busy_check(r) /\ chs \subseteq r.configured
  <2>1. nrfx_saadc_simple_mode_set(r, chs, handler) = set
    BY <1>2 DEF nrfx_saadc_simple_mode_set
  <2>2. /\ m \in Adc /\ m.writing = NoBuffer /\ ~m.calibrating
        /\ m.events \cap {"STOPPED", "END", "CALIBRATEDONE"} = {}
        /\ m.handler = handler /\ m.ints = (IF handler THEN Conversions ELSE {})
    BY <1>2, ModeSound
  <2> HIDE DEF m
  <2>3. set \in Adc
    BY <2>2 DEF Adc, States, IdleStates, Errors
  <2>4. /\ set.state = SimpleMode /\ set.writing = NoBuffer /\ ~set.calibrating
        /\ set.events = m.events /\ set.ints = m.ints /\ set.handler = handler
    BY <2>2 DEF Adc
  <2> HIDE DEF set
  <2>5. Sound(set) /\ Served(set)
    BY <2>2, <2>3, <2>4 DEF Sound, Served, Quiet, Calibrates, Listens, SimpleMode,
                            SimpleModeSample, SamplingStates, AdvModeSample,
                            AdvModeSampleStarted, Calibration, Conversions
  <2>6. QED
    BY <2>1, <2>5
<1>3. QED
  BY <1>1, <1>2

LEMMA AdvancedModeSound ==
  ASSUME NEW r, Sound(r), Served(r), NEW chs \in SUBSET Channels, NEW handler \in BOOLEAN,
         NEW config \in [timer : BOOLEAN, startOnEnd : BOOLEAN]
  PROVE  LET m == nrfx_saadc_advanced_mode_set(r, chs, config, handler)
         IN  Sound(m) /\ Served(m)
<1> DEFINE m == saadc_generic_mode_set(r, chs, handler)
           set == [m EXCEPT !.state = AdvMode, !.timer = config.timer,
                            !.startOnEnd = config.startOnEnd, !.err = "SUCCESS"]
           refused == config.timer /\ (Cardinality(chs) > 1 \/ ~handler)
<1>1. CASE saadc_busy_check(r) \/ ~(chs \subseteq r.configured) \/ refused
  BY <1>1, ReturnSound DEF nrfx_saadc_advanced_mode_set, Served, Errors
<1>2. CASE ~saadc_busy_check(r) /\ chs \subseteq r.configured /\ ~refused
  <2>1. nrfx_saadc_advanced_mode_set(r, chs, config, handler) = set
    BY <1>2 DEF nrfx_saadc_advanced_mode_set
  <2>2. /\ m \in Adc /\ m.writing = NoBuffer /\ ~m.calibrating
        /\ m.events \cap {"STOPPED", "END", "CALIBRATEDONE"} = {}
        /\ m.handler = handler /\ m.ints = (IF handler THEN Conversions ELSE {})
    BY <1>2, ModeSound
  <2> HIDE DEF m
  <2>3. set \in Adc
    BY <2>2 DEF Adc, States, IdleStates, Errors
  <2>4. /\ set.state = AdvMode /\ set.writing = NoBuffer /\ ~set.calibrating
        /\ set.events = m.events /\ set.ints = m.ints /\ set.handler = handler
    BY <2>2 DEF Adc
  <2> HIDE DEF set
  <2>5. Sound(set) /\ Served(set)
    BY <2>2, <2>3, <2>4 DEF Sound, Served, Quiet, Calibrates, Listens, AdvMode,
                            SimpleModeSample, SamplingStates, AdvModeSample,
                            AdvModeSampleStarted, Calibration, Conversions
  <2>6. QED
    BY <2>1, <2>5
<1>3. QED
  BY <1>1, <1>2

(* A buffer is taken in any state; nothing but the buffers changes.        *)
LEMMA BufferSetSound ==
  ASSUME NEW r, Sound(r), NEW b \in Buffers
  PROVE  LET x == nrfx_saadc_buffer_set(r, b)
         IN  /\ Sound(x) /\ x.state = r.state /\ x.events = r.events
             /\ x.calibrating = r.calibrating
<1> DEFINE w == IF r.state = AdvModeSampleStarted THEN [r EXCEPT !.ptr = b] ELSE r
           taken == {Return(r, "ALREADY"), Return(r, "INVALID_LENGTH"),
                     Return(r, "INVALID_STATE"),
                     [r EXCEPT !.primary = b, !.err = "SUCCESS"],
                     [w EXCEPT !.secondary = b, !.err = "SUCCESS"],
                     [w EXCEPT !.primary = b, !.err = "SUCCESS"]}
           Keeps(x) == /\ Sound(x) /\ x.state = r.state /\ x.events = r.events
                       /\ x.calibrating = r.calibrating
<1>1. "SUCCESS" \in Errors /\ {"ALREADY", "INVALID_LENGTH", "INVALID_STATE"} \subseteq Errors
  BY DEF Errors
<1>2. \A e \in {"ALREADY", "INVALID_LENGTH", "INVALID_STATE"} : Keeps(Return(r, e))
  BY <1>1, ReturnSound
<1>3. Keeps([r EXCEPT !.primary = b, !.err = "SUCCESS"])
  BY <1>1 DEF Sound, Adc, Quiet, Calibrates, Listens
<1>4. Keeps(w)
  BY DEF Sound, Adc, Quiet, Calibrates, Listens
<1> HIDE DEF w
<1>5. Keeps([w EXCEPT !.primary = b, !.err = "SUCCESS"])
  <2> DEFINE y == [w EXCEPT !.primary = b, !.err = "SUCCESS"]
  <2>1. y \in Adc /\ Alike(w, y)
    BY <1>1, <1>4 DEF Sound, Adc, Alike
  <2> HIDE DEF y
  <2>2. Keeps(y)
    BY <1>4, <2>1, AlikeSound DEF Alike
  <2>3. QED
    BY <2>2 DEF y
<1>6. Keeps([w EXCEPT !.secondary = b, !.err = "SUCCESS"])
  <2> DEFINE y == [w EXCEPT !.secondary = b, !.err = "SUCCESS"]
  <2>1. y \in Adc /\ Alike(w, y)
    BY <1>1, <1>4 DEF Sound, Adc, Alike
  <2> HIDE DEF y
  <2>2. Keeps(y)
    BY <1>4, <2>1, AlikeSound DEF Alike
  <2>3. QED
    BY <2>2 DEF y
<1>7. nrfx_saadc_buffer_set(r, b) \in taken
  BY DEF nrfx_saadc_buffer_set, w
<1> HIDE DEF Keeps
<1>8. \A x \in taken : Keeps(x)
  BY <1>2, <1>3, <1>5, <1>6
<1>9. QED
  BY <1>7, <1>8 DEF Keeps

(* A conversion is started from an idle mode only, with its interrupts     *)
(* enabled; a blocking one is over when the call returns.                  *)
LEMMA TriggerSound ==
  ASSUME NEW r, Sound(r)
  PROVE  LET x == nrfx_saadc_mode_trigger(r)
         IN  Sound(x) /\ x.calibrating = r.calibrating /\ (Served(r) => Served(x))
<1> DEFINE Keeps(x) == Sound(x) /\ x.calibrating = r.calibrating /\ (Served(r) => Served(x))
<1>1. {"NO_MEM", "INVALID_STATE", "SUCCESS", "BUSY"} \subseteq Errors
  BY DEF Errors
<1>2. \A e \in {"NO_MEM", "INVALID_STATE"} : Keeps(Return(r, e))
  BY <1>1, ReturnSound DEF Served
<1>3. r.primary \in Buffers /\ r.secondary \in Buffers /\ NoBuffer \in Buffers
  BY BufferTypes DEF Sound, Adc
<1>4. ASSUME NEW from \in {SimpleMode, AdvMode}, NEW to \in SamplingStates,
             r.state = from, r.handler
      PROVE  Keeps(Latch([r EXCEPT !.state = to, !.err = "SUCCESS"], r.primary))
  <2> DEFINE x == [r EXCEPT !.state = to, !.err = "SUCCESS"]
  <2>1. /\ from \in IdleStates /\ from \notin {"UNINITIALIZED", Calibration}
        /\ to \in States /\ to \notin IdleStates \cup {"UNINITIALIZED", Calibration}
    BY DEF IdleStates, SamplingStates, States, Idle, SimpleMode, AdvMode, Calibration,
           SimpleModeSample, AdvModeSample, AdvModeSampleStarted
  <2>2. /\ x \in Adc /\ x.state = to /\ x.events = r.events /\ x.ints = r.ints
        /\ x.writing = r.writing /\ x.calibrating = r.calibrating /\ x.handler = r.handler
    BY <1>1, <2>1 DEF Sound, Adc
  <2> HIDE DEF x
  <2>3. Sound(x) /\ ~x.calibrating
    BY <1>4, <2>1, <2>2 DEF Sound, Quiet, Calibrates, Listens
  <2>4. Sound(Latch(x, r.primary))
    BY <1>3, <2>1, <2>2, <2>3, LatchSound
  <2>5. /\ Latch(x, r.primary).state = to /\ Latch(x, r.primary).calibrating = r.calibrating
        /\ Latch(x, r.primary).events = r.events \cup {"STARTED"}
    BY <2>2, <2>3 DEF Latch, TaskStart, Adc
  <2>6. Served(r) => Served(Latch(x, r.primary))
    BY <1>4, <2>1, <2>5 DEF Served
  <2> HIDE DEF Keeps
  <2>7. Keeps(Latch(x, r.primary))
    BY <2>4, <2>5, <2>6, Zenon DEF Keeps
  <2>8. QED
    BY <2>7 DEF x
<1>5. Append(r.full, r.primary) \in Seq(Buffers) /\ r.primary.len \in Nat
  BY <1>3 DEF Sound, Adc, Buffers
<1>6. Keeps(Convert(r, r.primary))
  BY <1>5 DEF Convert, Sound, Adc, Quiet, Calibrates, Listens, Served
<1>7. Keeps(Return(Convert(r, r.primary), "SUCCESS"))
  BY <1>1, <1>6, ReturnSound DEF Served
<1>8. Keeps(BlockingPass(r))
  <2> DEFINE n == r.converted + Cardinality(r.activated)
             y == Convert(r, r.primary)
  <2>1. n \in Nat
    <3>1. Channels = 0 .. 1 /\ r.activated \subseteq Channels /\ r.converted \in Nat
      BY DEF Sound, Adc, Channels
    <3>2. IsFiniteSet(Channels)
      <4>1. 0 \in Int /\ 1 \in Int
        OBVIOUS
      <4>2. QED
        BY <3>1, <4>1, FS_Interval, Zenon
    <3>3. QED
      BY <3>1, <3>2, FS_Subset, FS_CardinalityType
  <2> HIDE DEF n
  <2>2. Keeps([r EXCEPT !.converted = n, !.err = "BUSY"])
    BY <1>1, <2>1 DEF Sound, Adc, Quiet, Calibrates, Listens, Served
  <2> HIDE DEF y
  <2>3. Keeps([y EXCEPT !.converted = 0, !.primary = r.secondary,
                        !.secondary = NoBuffer, !.err = "SUCCESS"])
    <3>1. Keeps(y)
      BY <1>6 DEF y
    <3> DEFINE z == [y EXCEPT !.converted = 0, !.primary = r.secondary,
                              !.secondary = NoBuffer, !.err = "SUCCESS"]
    <3>2. z \in Adc /\ Alike(y, z)
      BY <1>1, <1>3, <3>1 DEF Sound, Adc, Alike
    <3> HIDE DEF z
    <3>3. Keeps(z)
      BY <3>1, <3>2, AlikeSound DEF Alike
    <3>4. QED
      BY <3>3 DEF z
  <2>4. QED
    BY <2>2, <2>3 DEF BlockingPass, n, y
<1> HIDE DEF Keeps
<1>9. Keeps(nrfx_saadc_mode_trigger(r))
  <2>1. SimpleModeSample \in SamplingStates /\ AdvModeSample \in SamplingStates
    BY DEF SamplingStates
  <2>2. r.state = SimpleMode /\ r.handler =>
          Keeps(Latch([r EXCEPT !.state = SimpleModeSample, !.err = "SUCCESS"], r.primary))
    BY <1>4, <2>1
  <2>3. r.state = AdvMode /\ r.handler =>
          Keeps(Latch([r EXCEPT !.state = AdvModeSample, !.err = "SUCCESS"], r.primary))
    BY <1>4, <2>1
  <2>4. QED
    BY <1>2, <1>7, <1>8, <2>2, <2>3 DEF nrfx_saadc_mode_trigger
<1>10. QED
  BY <1>9 DEF Keeps

(* A calibration starts where nothing is written and no end waits.         *)
LEMMA CalibrateSound ==
  ASSUME NEW r, Sound(r), Served(r), NEW handler \in BOOLEAN
  PROVE  LET x == nrfx_saadc_offset_calibrate(r, handler) IN Sound(x) /\ Served(x)
<1> DEFINE reported == [r EXCEPT !.prev = r.state, !.state = Calibration, !.calibHandler = TRUE,
                                 !.calibrating = TRUE, !.err = "SUCCESS",
                                 !.ints = Conversions \cup {"CALIBRATEDONE"}]
           awaited == [r EXCEPT !.prev = r.state, !.calibHandler = FALSE, !.ptr = CalibSamples,
                                !.amount = 0, !.events = @ \ {"END", "LOW", "HIGH"},
                                !.err = "SUCCESS"]
<1>1. CASE saadc_busy_check(r)
  BY <1>1, ReturnSound DEF nrfx_saadc_offset_calibrate, Served, Errors
<1>2. CASE ~saadc_busy_check(r)
  <2>1. r.state \in IdleStates /\ r.state \notin {"UNINITIALIZED", Calibration} /\ r \in Adc
    BY <1>2 DEF saadc_busy_check, IdleStates, Sound, Idle, SimpleMode, AdvMode, Calibration
  <2>2. /\ "SUCCESS" \in Errors /\ Calibration \in States /\ CalibSamples \in Buffers
        /\ Calibration \notin IdleStates \cup SamplingStates \cup {"UNINITIALIZED"}
        /\ Conversions \cup {"CALIBRATEDONE"} \subseteq Interrupts
    BY BufferTypes DEF Errors, States, IdleStates, SamplingStates, Idle, SimpleMode, AdvMode,
       SimpleModeSample, AdvModeSample, AdvModeSampleStarted, Calibration, Interrupts
  <2>3. Sound(reported) /\ Served(reported)
    <3>1. reported \in Adc
      BY <2>1, <2>2 DEF Adc
    <3>2. /\ reported.state = Calibration /\ reported.writing = r.writing
          /\ reported.calibHandler /\ reported.prev = r.state /\ reported.handler = r.handler
          /\ reported.ints = Conversions \cup {"CALIBRATEDONE"} /\ reported.events = r.events
      BY <2>1 DEF Adc
    <3> HIDE DEF reported
    <3>3. QED
      BY <2>1, <2>2, <3>1, <3>2 DEF Sound, Quiet, Calibrates, Listens, Served
  <2>4. Sound(awaited) /\ Served(awaited)
    <3>1. awaited \in Adc
      BY <2>1, <2>2 DEF Adc
    <3>2. /\ awaited.state = r.state /\ awaited.writing = r.writing
          /\ awaited.calibrating = r.calibrating /\ awaited.handler = r.handler
          /\ awaited.ints = r.ints /\ awaited.events \subseteq r.events
      BY <2>1 DEF Adc
    <3> HIDE DEF awaited
    <3>3. QED
      BY <2>1, <3>1, <3>2 DEF Sound, Quiet, Calibrates, Listens, Served
  <2>5. nrfx_saadc_offset_calibrate(r, handler) = IF handler THEN reported ELSE awaited
    BY <1>2 DEF nrfx_saadc_offset_calibrate
  <2> HIDE DEF reported, awaited
  <2>6. QED
    BY <2>3, <2>4, <2>5
<1>3. QED
  BY <1>1, <1>2

(* An abort stops the converter when an interrupt will tell of it.         *)
LEMMA AbortSound ==
  ASSUME NEW r, Sound(r), r.state # "UNINITIALIZED", NEW n \in Nat
  PROVE  Sound(nrfx_saadc_abort(r, n)) /\ ~nrfx_saadc_abort(r, n).calibrating
<1> DEFINE stopped == IF r.state = Calibration THEN r.calibHandler ELSE r.handler
           dropped == [r EXCEPT !.primary = NoBuffer, !.secondary = NoBuffer, !.converted = 0]
<1>1. CASE stopped
  <2>1. Conversions \subseteq r.ints
    BY <1>1 DEF Sound, Listens
  <2>2. Sound(TaskStop(r, n)) /\ ~TaskStop(r, n).calibrating
    BY <2>1, StopSound
  <2>3. QED
    BY <1>1, <2>2 DEF nrfx_saadc_abort
<1>2. CASE ~stopped
  <2>1. NoBuffer \in Buffers /\ ~r.calibrating
    BY <1>2, BufferTypes DEF Sound, Calibrates
  <2>2. Sound(dropped) /\ ~dropped.calibrating
    BY <2>1 DEF Sound, Adc, Quiet, Calibrates, Listens
  <2>3. QED
    BY <1>2, <2>2 DEF nrfx_saadc_abort
<1>3. QED
  BY <1>1, <1>2

LEMMA UninitSound ==
  ASSUME NEW r, Sound(r), r.state # "UNINITIALIZED", NEW n \in Nat
  PROVE  Sound(nrfx_saadc_uninit(r, n))
<1> DEFINE x == nrfx_saadc_abort(r, n)
<1>1. Sound(x) /\ ~x.calibrating /\ NoBuffer \in Buffers
  BY AbortSound, BufferTypes
<1>2. /\ "UNINITIALIZED" \in States
      /\ "UNINITIALIZED" \notin IdleStates \cup SamplingStates \cup {Calibration}
  BY DEF States, IdleStates, SamplingStates, Idle, SimpleMode, AdvMode, SimpleModeSample,
         AdvModeSample, AdvModeSampleStarted, Calibration
<1> HIDE DEF x
<1>3. Sound([Disable(x) EXCEPT !.ints = {}, !.state = "UNINITIALIZED", !.full = r.full])
  BY <1>1, <1>2 DEF Disable, Sound, Adc, Quiet, Calibrates, Listens
<1>4. QED
  BY <1>3 DEF nrfx_saadc_uninit, x

LEMMA LimitsSound ==
  ASSUME NEW r, Sound(r), r.state # "UNINITIALIZED", NEW on \in SUBSET Limits
  PROVE  Sound(nrfx_saadc_limits_set(r, on))
<1> DEFINE set == [r EXCEPT !.limits = on, !.err = "SUCCESS",
                            !.ints = (@ \ {"LOW", "HIGH"}) \cup on]
<1>1. {"FORBIDDEN", "INVALID_STATE", "SUCCESS"} \subseteq Errors
  BY DEF Errors
<1>2. set \in Adc /\ on \subseteq {"LOW", "HIGH"}
  BY <1>1 DEF Sound, Adc, Interrupts, Limits
<1>3. Sound(set)
  BY <1>2 DEF Sound, Adc, Quiet, Calibrates, Listens, Conversions
<1>4. Sound(Return(r, "FORBIDDEN")) /\ Sound(Return(r, "INVALID_STATE"))
  BY <1>1, ReturnSound
<1> HIDE DEF set
<1>5. nrfx_saadc_limits_set(r, on) \in {Return(r, "FORBIDDEN"), Return(r, "INVALID_STATE"), set}
  BY DEF nrfx_saadc_limits_set, set
<1>6. QED
  BY <1>3, <1>4, <1>5

-----------------------------------------------------------------------------
(* The event handlers of the examples.                                     *)
Work == [adc : Adc, app : App]

LEMMA AssertedSound ==
  ASSUME NEW x \in Work, NEW r \in Adc
  PROVE  Asserted(x, r) \in Work /\ Asserted(x, r).adc = r
  BY DEF Asserted, Work, App

LEMMA HandedSound ==
  ASSUME NEW x \in Work
  PROVE  Handed(x) \in Work /\ Handed(x).adc = x.adc
<1>1. Append(x.app.done, x.adc.primary) \in Seq(Buffers)
  BY DEF Work, App, Adc
<1>2. QED
  BY <1>1 DEF Handed, Work, App

LEMMA BufReqSound ==
  ASSUME NEW x \in Work, Sound(x.adc)
  PROVE  LET y == BufReq(x)
         IN  /\ y \in Work /\ Sound(y.adc) /\ y.adc.state = x.adc.state
             /\ y.adc.calibrating = x.adc.calibrating
<1> DEFINE n == x.app.requests + 1
           y == [x EXCEPT !.app.requests = n]
           r == nrfx_saadc_buffer_set(y.adc, Buffer(y.app.index))
           z == Asserted(y, r)
<1>1. y \in Work /\ y.adc = x.adc /\ y.app.index \in Channels
  BY DEF Work, App
<1> HIDE DEF y
<1>2. /\ Sound(r) /\ r.state = x.adc.state /\ r.calibrating = x.adc.calibrating
  BY <1>1, BufferTypes, BufferSetSound
<1>3. z \in Work /\ z.adc = r
  <2>1. r \in Adc
    BY <1>2 DEF Sound
  <2> HIDE DEF r
  <2>2. QED
    BY <1>1, <2>1, AssertedSound
<1> HIDE DEF z
<1>4. [z EXCEPT !.app.index = (@ + 1) % 2] \in Work
  <2>1. \A i \in Channels : (i + 1) % 2 \in Channels
    BY DEF Channels
  <2>2. QED
    BY <1>3, <2>1 DEF Work, App
<1>5. [z EXCEPT !.app.index = (@ + 1) % 2].adc = z.adc
  BY <1>3 DEF Work, App
<1>6. BufReq(x) = IF n < Iterations THEN [z EXCEPT !.app.index = (@ + 1) % 2] ELSE y
  BY DEF BufReq, y, z
<1>7. QED
  BY <1>1, <1>2, <1>3, <1>4, <1>5, <1>6

(* What a handler may do inside the interrupt: it takes the buffer handed  *)
(* over, gives the next one or starts a conversion.                        *)
Handles(x, y) ==
  y \in Work /\ Sound(y.adc) /\ y.adc.calibrating = x.adc.calibrating

LEMMA TriggerHandled ==
  ASSUME NEW x \in Work, Sound(x.adc)
  PROVE  Handles(x, Asserted(x, nrfx_saadc_mode_trigger(x.adc)))
<1> DEFINE r == nrfx_saadc_mode_trigger(x.adc)
<1>1. Sound(r) /\ r.calibrating = x.adc.calibrating
  BY TriggerSound
<1> HIDE DEF r
<1>2. r \in Adc
  BY <1>1 DEF Sound
<1>3. Asserted(x, r) \in Work /\ Asserted(x, r).adc = r
  BY <1>2, AssertedSound
<1>4. Handles(x, Asserted(x, r))
  BY <1>1, <1>3 DEF Handles
<1>5. QED
  BY <1>4 DEF r

LEMMA SimpleHandled ==
  ASSUME NEW x \in Work, Sound(x.adc), NEW evt
  PROVE  LET y == SimpleHandler(x, evt)
         IN  /\ Handles(x, y)
             /\ evt # "CALIBRATEDONE" => y.adc = x.adc
<1>1. CASE evt = "DONE"
  <2>1. SimpleHandler(x, evt) = [Handed(x) EXCEPT !.app.ready = TRUE]
    BY <1>1 DEF SimpleHandler
  <2>2. Handed(x) \in Work /\ Handed(x).adc = x.adc
    BY HandedSound
  <2>3. /\ [Handed(x) EXCEPT !.app.ready = TRUE] \in Work
        /\ [Handed(x) EXCEPT !.app.ready = TRUE].adc = x.adc
    BY <2>2 DEF Work, App
  <2>4. QED
    BY <1>1, <2>1, <2>3 DEF Handles
<1>2. CASE evt = "CALIBRATEDONE"
  BY <1>2, TriggerHandled DEF SimpleHandler
<1>3. CASE evt \notin {"DONE", "CALIBRATEDONE"}
  BY <1>3 DEF SimpleHandler, Handles
<1>4. QED
  BY <1>1, <1>2, <1>3

LEMMA InternalTimerHandled ==
  ASSUME NEW x \in Work, Sound(x.adc), NEW evt
  PROVE  LET y == InternalTimerHandler(x, evt)
         IN  /\ Handles(x, y)
             /\ evt \notin {"CALIBRATEDONE", "BUF_REQ"} => y.adc = x.adc
<1>1. CASE evt = "DONE"
  BY <1>1, HandedSound DEF InternalTimerHandler, Handles
<1>2. CASE evt = "CALIBRATEDONE"
  BY <1>2, TriggerHandled DEF InternalTimerHandler
<1>3. CASE evt = "BUF_REQ"
  BY <1>3, BufReqSound DEF InternalTimerHandler, Handles
<1>4. CASE evt \notin {"DONE", "CALIBRATEDONE", "BUF_REQ"}
  BY <1>4 DEF InternalTimerHandler, Handles
<1>5. QED
  BY <1>1, <1>2, <1>3, <1>4

LEMMA MaximumPerformanceHandled ==
  ASSUME NEW x \in Work, Sound(x.adc), NEW evt
  PROVE  LET y == MaximumPerformanceHandler(x, evt)
         IN  /\ Handles(x, y)
             /\ evt = "DONE" => y.adc = x.adc
             /\ evt = "READY" => y.adc.state = x.adc.state
<1> DEFINE y == InternalTimerHandler(x, evt)
<1>1. /\ y \in Work /\ Sound(y.adc) /\ y.adc.calibrating = x.adc.calibrating
      /\ evt \notin {"CALIBRATEDONE", "BUF_REQ"} => y.adc = x.adc
  BY InternalTimerHandled DEF Handles
<1> HIDE DEF y
<1>2. ASSUME NEW on \in BOOLEAN
      PROVE  /\ [y EXCEPT !.adc.sampling = on] \in Work
             /\ Sound([y EXCEPT !.adc.sampling = on].adc)
             /\ [y EXCEPT !.adc.sampling = on].adc.calibrating = y.adc.calibrating
             /\ [y EXCEPT !.adc.sampling = on].adc.state = y.adc.state
  <2> DEFINE r == [y.adc EXCEPT !.sampling = on]
  <2>1. r \in Adc /\ Alike(y.adc, r)
    BY <1>1 DEF Sound, Adc, Alike
  <2>2. [y EXCEPT !.adc.sampling = on] = [y EXCEPT !.adc = r]
    BY <1>1 DEF Work
  <2> HIDE DEF r
  <2>3. [y EXCEPT !.adc = r] \in Work /\ [y EXCEPT !.adc = r].adc = r
    BY <1>1, <2>1 DEF Work
  <2>4. Sound(r)
    BY <1>1, <2>1, AlikeSound
  <2>5. QED
    BY <2>1, <2>2, <2>3, <2>4 DEF Alike
<1>3. /\ [y EXCEPT !.app.startOnEnd = FALSE] \in Work
      /\ [y EXCEPT !.app.startOnEnd = FALSE].adc = y.adc
  BY <1>1 DEF Work, App
<1>4. MaximumPerformanceHandler(x, evt) =
        CASE evt = "READY" -> [y EXCEPT !.adc.sampling = TRUE]
          [] evt = "FINISHED" -> [y EXCEPT !.adc.sampling = FALSE]
          [] evt = "BUF_REQ" /\ y.app.requests >= Iterations -> [y EXCEPT !.app.startOnEnd = FALSE]
          [] OTHER -> y
  BY DEF MaximumPerformanceHandler, y
<1>5. CASE evt = "READY"
  BY <1>1, <1>2, <1>4, <1>5 DEF Handles
<1>6. CASE evt = "FINISHED"
  BY <1>1, <1>2, <1>4, <1>6 DEF Handles
<1>7. CASE evt = "BUF_REQ" /\ y.app.requests >= Iterations
  BY <1>1, <1>3, <1>4, <1>7 DEF Handles
<1>8. CASE evt \notin {"READY", "FINISHED"} /\ ~(evt = "BUF_REQ" /\ y.app.requests >= Iterations)
  BY <1>1, <1>4, <1>8 DEF Handles
<1>9. QED
  BY <1>5, <1>6, <1>7, <1>8

LEMMA AnyHandled ==
  ASSUME NEW x \in Work, Sound(x.adc), NEW evt
  PROVE  LET y == AnyHandler(x, evt)
         IN  /\ Handles(x, y)
             /\ evt # "BUF_REQ" => y.adc = x.adc
<1> DEFINE r == nrfx_saadc_buffer_set(x.adc, Buffer(x.app.index))
           set == [x EXCEPT !.adc = r, !.app.index = (@ + 1) % 2]
<1>1. CASE evt = "DONE"
  BY <1>1, HandedSound DEF AnyHandler, Handles
<1>2. CASE evt = "BUF_REQ" /\ x.app.supply
  <2>1. x.app.index \in Channels /\ \A i \in Channels : (i + 1) % 2 \in Channels
    BY DEF Work, App, Channels
  <2>2. Sound(r) /\ r.calibrating = x.adc.calibrating
    BY <2>1, BufferTypes, BufferSetSound
  <2>3. AnyHandler(x, evt) = set
    BY <1>2 DEF AnyHandler
  <2> HIDE DEF r
  <2>4. set \in Work /\ set.adc = r
    BY <2>1, <2>2 DEF Work, App, Sound
  <2> HIDE DEF set
  <2>5. QED
    BY <1>2, <2>2, <2>3, <2>4 DEF Handles
<1>3. CASE evt # "DONE" /\ ~(evt = "BUF_REQ" /\ x.app.supply)
  BY <1>3 DEF AnyHandler, Handles
<1>4. QED
  BY <1>1, <1>2, <1>3

LEMMA HandlerSound ==
  ASSUME NEW x \in Work, Sound(x.adc), NEW evt
  PROVE  LET y == saadc_handler(x, evt)
         IN  /\ Handles(x, y)
             /\ evt = "DONE" => y.adc = x.adc
             /\ evt = "READY" => y.adc.state = x.adc.state
<1> DEFINE Good(y) == /\ Handles(x, y)
                      /\ evt = "DONE" => y.adc = x.adc
                      /\ evt = "READY" => y.adc.state = x.adc.state
<1>1. Good(SimpleHandler(x, evt))
  BY SimpleHandled
<1>2. Good(InternalTimerHandler(x, evt))
  BY InternalTimerHandled
<1>3. Good(MaximumPerformanceHandler(x, evt))
  BY MaximumPerformanceHandled
<1>4. Good(AnyHandler(x, evt))
  BY AnyHandled
<1>5. Good(x)
  BY DEF Handles
<1> HIDE DEF Good
<1>6. Good(saadc_handler(x, evt))
  BY <1>1, <1>2, <1>3, <1>4, <1>5 DEF saadc_handler
<1>7. QED
  BY <1>6 DEF Good

-----------------------------------------------------------------------------
(* The interrupt, step by step.  Its first steps find the events it has    *)
(* taken cleared, and no calibration under way.                            *)
Taken(r) == ~r.calibrating /\ r.events \subseteq Limits \cup {"STARTED"}

LEMMA StatesDiffer ==
  /\ IdleStates \subseteq States /\ SamplingStates \subseteq States
  /\ {"UNINITIALIZED", Calibration} \subseteq States
  /\ SimpleMode \in IdleStates /\ AdvMode \in IdleStates
  /\ SimpleModeSample \in SamplingStates /\ AdvModeSample \in SamplingStates
  /\ AdvModeSampleStarted \in SamplingStates
  /\ IdleStates \cap SamplingStates = {}
  /\ {"UNINITIALIZED", Calibration} \cap (IdleStates \cup SamplingStates) = {}
  /\ Calibration # "UNINITIALIZED"
  /\ Limits \cap Conversions = {} /\ "CALIBRATEDONE" \notin Limits \cup Conversions
  /\ Conversions = {"STARTED", "STOPPED", "END"}
  BY DEF States, IdleStates, SamplingStates, Idle, SimpleMode, AdvMode, SimpleModeSample,
         AdvModeSample, AdvModeSampleStarted, Calibration, Limits, Conversions

LEMMA WorkOf ==
  ASSUME NEW x \in Work, NEW r \in Adc
  PROVE  [x EXCEPT !.adc = r] \in Work /\ [x EXCEPT !.adc = r].adc = r
  BY DEF Work

(* The driver goes back to the mode in which the calibration was started.  *)
LEMMA RestoreSound ==
  ASSUME NEW r, Sound(r), Taken(r), r.state = Calibration
  PROVE  LET y == saadc_pre_calibration_state_restore(r) IN Sound(y) /\ Taken(y)
<1> DEFINE ints == r.limits \cup (IF r.handler THEN Conversions ELSE {})
           y == [Disable(r) EXCEPT !.state = r.prev, !.events = @ \ {"LOW", "HIGH"},
                                   !.ints = ints]
<1>1. /\ r \in Adc /\ NoBuffer \in Buffers /\ r.prev \in IdleStates /\ r.prev \in States
      /\ r.handler \in BOOLEAN
  BY BufferTypes, StatesDiffer DEF Sound, Calibrates, Adc
<1>2. /\ ints \subseteq Interrupts /\ "CALIBRATEDONE" \notin ints
      /\ r.handler => Conversions \subseteq ints
  BY <1>1, StatesDiffer DEF Adc, Interrupts
<1> HIDE DEF ints
<1>3. y \in Adc
  BY <1>1, <1>2 DEF Adc, Disable
<1>4. /\ y.state = r.prev /\ y.writing = NoBuffer /\ y.handler = r.handler /\ y.ints = ints
      /\ y.calibrating = r.calibrating /\ y.events \subseteq r.events
  BY <1>1 DEF Adc, Disable
<1> HIDE DEF y
<1>5. Sound(y) /\ Taken(y)
  BY <1>1, <1>2, <1>3, <1>4, StatesDiffer DEF Sound, Taken, Quiet, Calibrates, Listens
<1>6. QED
  BY <1>5 DEF saadc_pre_calibration_state_restore, y, ints

LEMMA CalibrationDoneSound ==
  ASSUME NEW x \in Work, Sound(x.adc), Taken(x.adc), x.adc.state = Calibration
  PROVE  LET y == CalibrationDone(x)
         IN  y \in Work /\ Sound(y.adc) /\ Taken(y.adc)
<1> DEFINE r == [x.adc EXCEPT !.ints = @ \ {"CALIBRATEDONE"}]
           l == Latch(r, CalibSamples)
<1>1. /\ Sound(r) /\ Taken(r) /\ r.state = Calibration
  BY StatesDiffer DEF Sound, Adc, Taken, Quiet, Calibrates, Listens
<1> HIDE DEF r
<1>2. Sound(l)
  BY <1>1, StatesDiffer, BufferTypes, LatchSound DEF Taken
<1>3. Taken(l)
  BY <1>1 DEF Latch, TaskStart, Taken, Sound, Adc
<1> HIDE DEF l
<1>4. CalibrationDone(x) = [x EXCEPT !.adc = l]
  BY DEF CalibrationDone, l, r
<1>5. QED
  BY <1>2, <1>3, <1>4, WorkOf DEF Sound

LEMMA StoppedSound ==
  ASSUME NEW x \in Work, Sound(x.adc), Taken(x.adc)
  PROVE  LET y == Stopped(x)
         IN  y \in Work /\ Sound(y.adc) /\ Taken(y.adc)
<1> DEFINE cut == IF x.adc.primary = NoBuffer THEN x.adc.primary
                  ELSE [x.adc.primary EXCEPT !.len = x.adc.amount]
           short == [x.adc EXCEPT !.primary = cut, !.secondary = NoBuffer]
           r == IF x.adc.state = Calibration THEN x.adc ELSE short
           l == IF "CALIBRATEDONE" \in r.ints
                THEN saadc_pre_calibration_state_restore(r) ELSE r
<1>1. cut \in Buffers /\ NoBuffer \in Buffers
  BY BufferTypes DEF Sound, Adc
<1> HIDE DEF cut
<1>2. Sound(short) /\ Taken(short)
  BY <1>1 DEF Sound, Adc, Taken, Quiet, Calibrates, Listens
<1> HIDE DEF short
<1>3. Sound(r) /\ Taken(r)
  BY <1>2
<1> HIDE DEF r
<1>4. "CALIBRATEDONE" \in r.ints => r.state = Calibration
  BY <1>3 DEF Sound, Calibrates
<1>5. Sound(l) /\ Taken(l)
  BY <1>3, <1>4, RestoreSound
<1> HIDE DEF l
<1>6. Stopped(x) = [x EXCEPT !.adc = l]
  BY DEF Stopped, l, r, short, cut
<1>7. QED
  BY <1>5, <1>6, WorkOf DEF Sound

(* A conversion that ends leaves the driver in its mode.                   *)
LEMMA EndedSound ==
  ASSUME NEW r, Sound(r), r.state \in SamplingStates, "CALIBRATEDONE" \notin r.events,
         NEW mode \in {SimpleMode, AdvMode}
  PROVE  Sound([Disable(r) EXCEPT !.state = mode])
<1> DEFINE y == [Disable(r) EXCEPT !.state = mode]
<1>1. /\ mode \in IdleStates /\ mode \in States /\ NoBuffer \in Buffers /\ r \in Adc
      /\ r.handler /\ Conversions \subseteq r.ints /\ ~r.calibrating
      /\ "CALIBRATEDONE" \notin r.ints
  BY StatesDiffer, BufferTypes DEF Sound, Calibrates, Listens
<1>2. y \in Adc
  BY <1>1 DEF Disable, Adc
<1>3. /\ y.state = mode /\ y.writing = NoBuffer /\ y.handler = r.handler /\ y.ints = r.ints
      /\ y.calibrating = r.calibrating /\ y.events = r.events
  BY <1>1 DEF Disable, Adc
<1> HIDE DEF y
<1>4. Sound(y)
  BY <1>1, <1>2, <1>3, StatesDiffer DEF Sound, Quiet, Calibrates, Listens
<1>5. QED
  BY <1>4 DEF y

LEMMA SampleEndSound ==
  ASSUME NEW x \in Work, Sound(x.adc), Taken(x.adc), x.adc.state = AdvModeSampleStarted
  PROVE  SampleEnd(x) \in Work /\ Sound(SampleEnd(x).adc)
<1> DEFINE started == [x EXCEPT !.adc = TaskStart(x.adc)]
           y == IF x.adc.startOnEnd /\ x.adc.secondary # NoBuffer THEN started ELSE x
           Mid(z) == z \in Work /\ Sound(z.adc) /\ z.adc.state = AdvModeSampleStarted
                     /\ Taken(z.adc)
<1>1. Mid(started)
  <2>1. Sound(TaskStart(x.adc))
    BY StatesDiffer, BufferTypes, LatchSound DEF Taken
  <2>2. /\ TaskStart(x.adc).state = x.adc.state
        /\ TaskStart(x.adc).calibrating = x.adc.calibrating
        /\ TaskStart(x.adc).events = x.adc.events \cup {"STARTED"}
    BY DEF TaskStart, Sound, Adc
  <2>3. Taken(TaskStart(x.adc))
    BY <2>2 DEF Taken
  <2>4. started \in Work /\ started.adc = TaskStart(x.adc)
    BY <2>1, WorkOf DEF Sound
  <2> HIDE DEF started
  <2>5. QED
    BY <2>1, <2>2, <2>3, <2>4
<1> HIDE DEF started
<1>2. Mid(y)
  BY <1>1
<1> DEFINE z == saadc_handler(y, "DONE")
           w == [z EXCEPT !.adc.primary = z.adc.secondary, !.adc.secondary = NoBuffer]
<1> HIDE DEF y
<1>3. Mid(z)
  BY <1>2, HandlerSound DEF Handles
<1> HIDE DEF z
<1>4. Mid(w)
  <2> DEFINE r == [z.adc EXCEPT !.primary = z.adc.secondary, !.secondary = NoBuffer]
  <2>1. Sound(r) /\ Taken(r) /\ r.state = AdvModeSampleStarted
    BY <1>3, BufferTypes DEF Sound, Adc, Taken, Quiet, Calibrates, Listens
  <2>2. w = [z EXCEPT !.adc = r]
    BY <1>3 DEF Work
  <2> HIDE DEF r
  <2>3. w \in Work /\ w.adc = r
    BY <1>3, <2>1, <2>2, WorkOf DEF Sound
  <2>4. QED
    BY <2>1, <2>3
<1> HIDE DEF w
<1> DEFINE e == [Disable(w.adc) EXCEPT !.state = AdvMode]
           f == [w EXCEPT !.adc = e]
<1>5. Sound(e)
  BY <1>4, StatesDiffer, EndedSound DEF Taken
<1> HIDE DEF e
<1>6. f \in Work /\ Sound(f.adc)
  BY <1>4, <1>5, WorkOf DEF Sound
<1> HIDE DEF f
<1>7. saadc_handler(f, "FINISHED") \in Work /\ Sound(saadc_handler(f, "FINISHED").adc)
  BY <1>6, HandlerSound DEF Handles
<1>8. SampleEnd(x) = IF w.adc.primary # NoBuffer THEN w ELSE saadc_handler(f, "FINISHED")
  BY DEF SampleEnd, NextBuffer, started, y, z, w, e, f
<1>9. QED
  BY <1>4, <1>7, <1>8

LEMMA EndSound ==
  ASSUME NEW x \in Work, Sound(x.adc), Taken(x.adc)
  PROVE  LET y == saadc_event_end_handle(x) IN y \in Work /\ Sound(y.adc)
<1>1. CASE x.adc.state = SimpleModeSample
  <2> DEFINE e == [Disable(x.adc) EXCEPT !.state = SimpleMode]
             y == [x EXCEPT !.adc = e]
  <2>1. Sound(e)
    BY <1>1, StatesDiffer, EndedSound DEF Taken
  <2> HIDE DEF e
  <2>2. y \in Work /\ Sound(y.adc)
    BY <2>1, WorkOf DEF Sound
  <2> HIDE DEF y
  <2>3. saadc_handler(y, "DONE") \in Work /\ Sound(saadc_handler(y, "DONE").adc)
    BY <2>2, HandlerSound DEF Handles
  <2>4. saadc_event_end_handle(x) = saadc_handler(y, "DONE")
    BY <1>1 DEF saadc_event_end_handle, y, e, SimpleModeSample, AdvModeSample,
       AdvModeSampleStarted, Calibration
  <2>5. QED
    BY <2>3, <2>4
<1>2. CASE x.adc.state = AdvModeSampleStarted
  <2>1. saadc_event_end_handle(x) = SampleEnd(x)
    BY <1>2 DEF saadc_event_end_handle, SimpleModeSample, AdvModeSample,
       AdvModeSampleStarted, Calibration
  <2>2. QED
    BY <1>2, <2>1, SampleEndSound
<1>3. CASE x.adc.state = Calibration
  <2> DEFINE e == saadc_pre_calibration_state_restore(x.adc)
             y == [x EXCEPT !.adc = e]
  <2>1. Sound(e)
    BY <1>3, RestoreSound
  <2> HIDE DEF e
  <2>2. y \in Work /\ Sound(y.adc)
    BY <2>1, WorkOf DEF Sound
  <2> HIDE DEF y
  <2>3. /\ saadc_handler(y, "CALIBRATEDONE") \in Work
        /\ Sound(saadc_handler(y, "CALIBRATEDONE").adc)
    BY <2>2, HandlerSound DEF Handles
  <2>4. saadc_event_end_handle(x) = saadc_handler(y, "CALIBRATEDONE")
    BY <1>3 DEF saadc_event_end_handle, y, e, SimpleModeSample, AdvModeSampleStarted, Calibration
  <2>5. QED
    BY <2>3, <2>4
<1>4. CASE x.adc.state \notin {SimpleModeSample, AdvModeSampleStarted, Calibration}
  BY <1>4 DEF saadc_event_end_handle
<1>5. QED
  BY <1>1, <1>2, <1>3, <1>4

LEMMA StartedSound ==
  ASSUME NEW x \in Work, Sound(x.adc)
  PROVE  LET y == saadc_event_started_handle(x) IN y \in Work /\ Sound(y.adc)
<1>1. ASSUME NEW y \in Work, Sound(y.adc)
      PROVE  Request(y) \in Work /\ Sound(Request(y).adc)
  <2>1. saadc_handler(y, "BUF_REQ") \in Work /\ Sound(saadc_handler(y, "BUF_REQ").adc)
    BY <1>1, HandlerSound DEF Handles
  <2>2. QED
    BY <1>1, <2>1 DEF Request
<1>2. CASE x.adc.state = AdvModeSample
  <2> DEFINE y == saadc_handler(x, "READY")
             on == y.adc.sampling \/ y.adc.timer
             next == IF y.adc.secondary # NoBuffer THEN y.adc.secondary ELSE y.adc.ptr
             r == [y.adc EXCEPT !.sampling = on, !.state = AdvModeSampleStarted, !.ptr = next]
             z == [y EXCEPT !.adc = r]
  <2>1. y \in Work /\ Sound(y.adc) /\ y.adc.state = AdvModeSample
    BY <1>2, HandlerSound DEF Handles
  <2> HIDE DEF y
  <2>2. on \in BOOLEAN /\ next \in Buffers
    BY <2>1 DEF Sound, Adc
  <2> HIDE DEF on, next
  <2>3. r \in Adc
    BY <2>1, <2>2, StatesDiffer DEF Sound, Adc
  <2>4. /\ r.state = AdvModeSampleStarted /\ r.writing = y.adc.writing
        /\ r.calibrating = y.adc.calibrating /\ r.ints = y.adc.ints
        /\ r.events = y.adc.events /\ r.handler = y.adc.handler
    BY <2>1 DEF Sound, Adc
  <2> HIDE DEF r
  <2>5. Sound(r)
    BY <2>1, <2>3, <2>4, StatesDiffer DEF Sound, Quiet, Calibrates, Listens
  <2>6. z \in Work /\ Sound(z.adc)
    BY <2>1, <2>5, WorkOf DEF Sound
  <2> HIDE DEF z
  <2>7. saadc_event_started_handle(x) = Request(z)
    BY <1>2 DEF saadc_event_started_handle, z, r, on, next, y, SimpleModeSample, AdvModeSample,
       AdvModeSampleStarted, Calibration
  <2>8. QED
    BY <1>1, <2>6, <2>7
<1>3. CASE x.adc.state = AdvModeSampleStarted
  <2>1. saadc_event_started_handle(x) = Request(x)
    BY <1>3 DEF saadc_event_started_handle, SimpleModeSample, AdvModeSample,
       AdvModeSampleStarted, Calibration
  <2>2. QED
    BY <1>1, <2>1
<1>4. CASE x.adc.state = SimpleModeSample
  <2> DEFINE r == [x.adc EXCEPT !.sampling = TRUE]
  <2>1. Sound(r)
    BY DEF Sound, Adc, Quiet, Calibrates, Listens
  <2>2. [x EXCEPT !.adc.sampling = TRUE] = [x EXCEPT !.adc = r]
    BY DEF Work
  <2> HIDE DEF r
  <2>3. saadc_event_started_handle(x) = [x EXCEPT !.adc = r]
    BY <1>4, <2>2 DEF saadc_event_started_handle, SimpleModeSample, AdvModeSample,
       AdvModeSampleStarted, Calibration
  <2>4. QED
    BY <2>1, <2>3, WorkOf DEF Sound
<1>5. CASE x.adc.state = Calibration
  <2> DEFINE r == TaskStop(x.adc, 0)
             e == Ended(x.app, r)
  <2>1. Sound(r) /\ ~r.calibrating
    BY <1>5, StatesDiffer, StopSound DEF Sound, Listens
  <2>2. r.state = Calibration
    BY <1>5 DEF TaskStop, Sound, Adc
  <2> HIDE DEF r
  <2>3. Sound(e)
    BY <2>1, <2>2, StatesDiffer, BufferTypes, LatchSound DEF Ended
  <2>4. saadc_event_started_handle(x) = [x EXCEPT !.adc = e]
    BY <1>5 DEF saadc_event_started_handle, r, AdvModeSample, AdvModeSampleStarted,
       SimpleModeSample, Calibration
  <2> HIDE DEF e
  <2>5. QED
    BY <2>3, <2>4, WorkOf DEF Sound
<1>6. CASE x.adc.state \notin {AdvModeSample, AdvModeSampleStarted, SimpleModeSample, Calibration}
  BY <1>6 DEF saadc_event_started_handle
<1>7. QED
  BY <1>2, <1>3, <1>4, <1>5, <1>6

SaadcInv == Whole \in Work /\ Sound(adc)

LEMMA InterruptSound ==
  ASSUME SaadcInv, nrfx_saadc_irq_handler
  PROVE  SaadcInv'
<1> DEFINE evts == adc.events
           r0 == [adc EXCEPT !.events = evts \cap Limits]
           x0 == [Whole EXCEPT !.adc = r0]
           x1 == IF "CALIBRATEDONE" \in evts THEN CalibrationDone(x0) ELSE x0
           x2 == IF "STOPPED" \in evts THEN Stopped(x1) ELSE x1
           x3 == IF "END" \in evts THEN saadc_event_end_handle(x2) ELSE x2
           x4 == IF "STARTED" \in evts THEN saadc_event_started_handle(x3) ELSE x3
           Fit(x) == x \in Work /\ Sound(x.adc)
<1>1. Sound(adc) /\ Whole \in Work /\ Whole.adc = adc /\ adc.state # "UNINITIALIZED"
  BY DEF SaadcInv, nrfx_saadc_irq_handler, Pending, Sound, Listens, Whole
<1>2. Sound(r0) /\ r0.state = adc.state /\ r0.calibrating = adc.calibrating
      /\ r0.events = evts \cap Limits
  BY <1>1, StatesDiffer DEF Sound, Adc, Quiet, Calibrates, Listens
<1>3. [Whole EXCEPT !.adc.events = evts \cap Limits] = x0
  BY <1>1 DEF Work
<1>4. "CALIBRATEDONE" \in evts => r0.state = Calibration
  BY <1>1, <1>2 DEF Sound, Calibrates
<1>5. evts \cap {"STOPPED", "END", "CALIBRATEDONE"} # {} => Taken(r0)
  BY <1>1, <1>2 DEF Sound, Calibrates, Taken
<1> HIDE DEF r0
<1>6. Fit(x0) /\ x0.adc = r0
  BY <1>1, <1>2, WorkOf DEF Sound
<1> HIDE DEF x0
<1>7. Fit(x1) /\ (evts \cap {"STOPPED", "END", "CALIBRATEDONE"} # {} => Taken(x1.adc))
  <2>1. "CALIBRATEDONE" \in evts => /\ Fit(CalibrationDone(x0))
                                    /\ Taken(CalibrationDone(x0).adc)
    BY <1>4, <1>5, <1>6, CalibrationDoneSound
  <2>2. QED
    BY <1>5, <1>6, <2>1
<1> HIDE DEF x1
<1>8. Fit(x2) /\ ("END" \in evts => Taken(x2.adc))
  <2>1. "STOPPED" \in evts => Fit(Stopped(x1)) /\ Taken(Stopped(x1).adc)
    BY <1>7, StoppedSound
  <2>2. QED
    BY <1>7, <2>1
<1> HIDE DEF x2
<1>9. Fit(x3)
  <2>1. "END" \in evts => Fit(saadc_event_end_handle(x2))
    BY <1>8, EndSound
  <2>2. QED
    BY <1>8, <2>1
<1> HIDE DEF x3
<1>10. Fit(x4)
  <2>1. Fit(saadc_event_started_handle(x3))
    BY <1>9, StartedSound
  <2>2. QED
    BY <1>9, <2>1
<1> HIDE DEF x4
<1>11. ASSUME NEW r, Sound(r) PROVE Sound(saadc_event_limits_handle(r))
  <2> DEFINE y == [r EXCEPT !.events = @ \ (r.ints \cap Limits)]
  <2>1. Sound(y)
    BY <1>11, StatesDiffer DEF Sound, Adc, Quiet, Calibrates, Listens
  <2> HIDE DEF y
  <2>2. saadc_event_limits_handle(r) = IF r.state = Calibration THEN r ELSE y
    BY DEF saadc_event_limits_handle, y
  <2>3. QED
    BY <1>11, <2>1, <2>2
<1>12. adc' = saadc_event_limits_handle(x4.adc) /\ app' = x4.app
  BY <1>3 DEF nrfx_saadc_irq_handler, x4, x3, x2, x1, x0
<1>13. Sound(adc') /\ app' \in App
  BY <1>10, <1>11, <1>12 DEF Work
<1>14. QED
  BY <1>13 DEF SaadcInv, Whole, Work, Sound

-----------------------------------------------------------------------------
(* The peripheral.                                                         *)
LEMMA PeripheralSound ==
  ASSUME SaadcInv, Peripheral
  PROVE  SaadcInv'
<1>1. Sound(adc) /\ adc \in Adc /\ app \in App
  BY DEF SaadcInv, Whole, Work, Sound
<1>2. CASE BufferFull
  <2> DEFINE more == Append(adc.full, adc.writing)
             on == adc.sampling /\ adc.state # SimpleModeSample
             r == [adc EXCEPT !.events = @ \cup {"END"}, !.amount = adc.writing.len,
                              !.full = more, !.writing = NoBuffer, !.sampling = on]
  <2>1. /\ more \in Seq(Buffers) /\ adc.writing.len \in Nat /\ NoBuffer \in Buffers
        /\ on \in BOOLEAN /\ adc.events \cup {"END"} \subseteq Interrupts
    BY <1>1, BufferTypes, StatesDiffer DEF Adc, Buffers, Interrupts
  <2>2. /\ adc.state \notin IdleStates /\ adc.state # "UNINITIALIZED" /\ ~adc.calibrating
        /\ Conversions \subseteq adc.ints
    BY <1>1, <1>2 DEF BufferFull, Sound, Quiet, Calibrates, Listens, Adc, States
  <2> HIDE DEF more, on
  <2>3. r \in Adc
    BY <1>1, <2>1 DEF Adc
  <2>4. /\ r.state = adc.state /\ r.writing = NoBuffer /\ r.handler = adc.handler
        /\ r.ints = adc.ints /\ r.calibrating = adc.calibrating /\ r.prev = adc.prev
        /\ r.calibHandler = adc.calibHandler /\ r.events = adc.events \cup {"END"}
    BY <1>1 DEF Adc
  <2>5. adc' = Ended(app, r)
    BY <1>2 DEF BufferFull, more, on
  <2> HIDE DEF r
  <2>6. Sound(r)
    BY <1>1, <2>2, <2>3, <2>4 DEF Sound, Quiet, Calibrates, Listens
  <2>7. Sound(Ended(app, r))
    BY <2>2, <2>4, <2>6, BufferTypes, LatchSound DEF Ended
  <2>8. app' \in App
    BY <1>1, <1>2 DEF BufferFull, App
  <2>9. QED
    BY <2>5, <2>7, <2>8 DEF SaadcInv, Whole, Work, Sound
<1>3. CASE OffsetCalibrated
  <2>1. adc.state = Calibration /\ adc.calibrating /\ "CALIBRATEDONE" \in Interrupts
    BY <1>1, <1>3 DEF OffsetCalibrated, Sound, Calibrates, Interrupts
  <2>2. Sound([adc EXCEPT !.calibrating = FALSE, !.events = @ \cup {"CALIBRATEDONE"}])
    BY <1>1, <2>1, StatesDiffer DEF Sound, Adc, Quiet, Calibrates, Listens
  <2>3. QED
    BY <1>1, <1>3, <2>2 DEF OffsetCalibrated, SaadcInv, Whole, Work, Sound
<1>4. CASE LimitExceeded
  <2>1. PICK l \in adc.limits : adc' = [adc EXCEPT !.events = @ \cup {l}]
    BY <1>4 DEF LimitExceeded
  <2>2. l \in Limits /\ l \in Interrupts
    BY <1>1 DEF Adc, Interrupts
  <2>3. Sound([adc EXCEPT !.events = @ \cup {l}])
    BY <1>1, <2>2, StatesDiffer DEF Sound, Adc, Quiet, Calibrates, Listens
  <2>4. QED
    BY <1>1, <1>4, <2>1, <2>3 DEF LimitExceeded, SaadcInv, Whole, Work, Sound
<1>5. QED
  BY <1>2, <1>3, <1>4 DEF Peripheral

-----------------------------------------------------------------------------
(* The programs.                                                           *)
LEMMA ServedWhenQuiet ==
  ASSUME Sound(adc), ~Pending
  PROVE  Served(adc)
  BY StatesDiffer DEF Sound, Listens, Served, Pending

LEMMA ConfigureSound ==
  ASSUME NEW x \in Work, Sound(x.adc), Served(x.adc), NEW chs \in SUBSET Channels,
         NEW b \in Buffers
  PROVE  Configure(x, chs, b) \in Work /\ Sound(Configure(x, chs, b).adc)
<1> DEFINE c == IF Cardinality(chs) = 1 THEN nrfx_saadc_channel_config(x.adc, 0)
                ELSE nrfx_saadc_channels_config(x.adc, chs)
           y == Asserted(x, c)
           m == ModeSet(y.adc, y.adc.configured)
           z == Asserted(y, m)
           s == nrfx_saadc_buffer_set(z.adc, b)
<1>1. Sound(c) /\ Served(c)
  BY ChannelSound
<1> HIDE DEF c
<1>2. y \in Work /\ y.adc = c
  BY <1>1, AssertedSound DEF Sound
<1> HIDE DEF y
<1>3. Sound(m) /\ Served(m)
  <2>1. y.adc.configured \in SUBSET Channels
    BY <1>1, <1>2 DEF Sound, Adc
  <2>2. AdvConfig \in [timer : BOOLEAN, startOnEnd : BOOLEAN]
    BY DEF AdvConfig
  <2>3. (program \notin Blocking) \in BOOLEAN
    OBVIOUS
  <2>4. \A on \in BOOLEAN :
          LET v == nrfx_saadc_simple_mode_set(y.adc, y.adc.configured, on)
              w == nrfx_saadc_advanced_mode_set(y.adc, y.adc.configured, AdvConfig, on)
          IN  Sound(v) /\ Served(v) /\ Sound(w) /\ Served(w)
    BY <1>1, <1>2, <2>1, <2>2, SimpleModeSound, AdvancedModeSound
  <2>5. QED
    BY <2>3, <2>4 DEF ModeSet
<1> HIDE DEF m
<1>4. z \in Work /\ z.adc = m
  BY <1>2, <1>3, AssertedSound DEF Sound
<1> HIDE DEF z
<1>5. Sound(s)
  BY <1>3, <1>4, BufferSetSound
<1> HIDE DEF s
<1>6. Asserted(z, s) \in Work /\ Asserted(z, s).adc = s
  BY <1>4, <1>5, AssertedSound DEF Sound
<1>7. Configure(x, chs, b) = Asserted(z, s)
  BY DEF Configure, s, z, m, y, c
<1>8. QED
  BY <1>5, <1>6, <1>7

(* A step of main that changes only its own variables besides.             *)
LEMMA StepSound ==
  ASSUME NEW x \in Work, Sound(x.adc), Step(x)
  PROVE  SaadcInv'
  BY DEF Step, SaadcInv, Whole, Work

LEMMA StartSound ==
  ASSUME SaadcInv, Served(adc), StartProgram
  PROVE  SaadcInv'
<1> DEFINE r == nrfx_saadc_init(adc)
           x == Asserted(Whole, r)
           b == [Buffer(0) EXCEPT !.len = IF program \in Simple THEN 1 ELSE 2]
           y == Configure(x, {0}, b)
           z == [y EXCEPT !.app.pc = "single"]
<1>1. Sound(r) /\ Served(r)
  BY InitSound DEF SaadcInv
<1> HIDE DEF r
<1>2. x \in Work /\ x.adc = r
  BY <1>1, AssertedSound DEF SaadcInv, Sound
<1>3. b \in Buffers /\ {0} \in SUBSET Channels
  BY BufferTypes DEF Channels
<1> HIDE DEF x, b
<1>4. y \in Work /\ Sound(y.adc)
  BY <1>1, <1>2, <1>3, ConfigureSound
<1> HIDE DEF y
<1>5. z \in Work /\ z.adc = y.adc
  BY <1>4 DEF Work, App
<1> HIDE DEF z
<1>6. Step(z)
  BY DEF StartProgram, z, y, b, x, r
<1>7. QED
  BY <1>4, <1>5, <1>6, StepSound

LEMMA SampleSound ==
  ASSUME SaadcInv, Served(adc), SampleOnce
  PROVE  SaadcInv'
<1> DEFINE r == nrfx_saadc_offset_calibrate(adc, program \notin Blocking)
           x == Asserted(Whole, r)
           y == [x EXCEPT !.app.pc = "trigger", !.app.after = app.pc]
           z == [x EXCEPT !.app.ready = FALSE, !.app.count = @ + 1]
<1>1. Sound(r)
  <2>1. (program \notin Blocking) \in BOOLEAN
    OBVIOUS
  <2>2. \A on \in BOOLEAN : Sound(nrfx_saadc_offset_calibrate(adc, on))
    BY CalibrateSound DEF SaadcInv
  <2>3. QED
    BY <2>1, <2>2
<1> HIDE DEF r
<1>2. x \in Work /\ x.adc = r
  BY <1>1, AssertedSound DEF SaadcInv, Sound
<1> HIDE DEF x
<1>3. app.pc \in {"single", "multiple"}
  BY DEF SampleOnce
<1>4. y \in Work /\ y.adc = r
  BY <1>2, <1>3 DEF Work, App
<1>5. z \in Work /\ z.adc = r
  <2> DEFINE n == x.app.count + 1
             a == [x.app EXCEPT !.ready = FALSE, !.count = n]
  <2>1. a \in App
    <3>1. x.app \in App /\ n \in Nat
      BY <1>2 DEF Work, App
    <3> HIDE DEF n
    <3>2. QED
      BY <3>1 DEF App
  <2>2. z = [x EXCEPT !.app = a]
    BY <1>2 DEF Work, App
  <2> HIDE DEF a, z
  <2>3. QED
    BY <1>2, <2>1, <2>2 DEF Work
<1> HIDE DEF y, z
<1>6. Step(y) \/ Step(z)
  BY DEF SampleOnce, y, z, x, r
<1>7. QED
  BY <1>1, <1>4, <1>5, <1>6, StepSound

LEMMA TriggerBlockingSound ==
  ASSUME SaadcInv, TriggerBlocking
  PROVE  SaadcInv'
<1> DEFINE r == nrfx_saadc_mode_trigger(adc)
           x == Asserted(Whole, r)
           busy == [Whole EXCEPT !.adc = r]
           done == [x EXCEPT !.app.count = @ + 1, !.app.pc = app.after]
           s == nrfx_saadc_buffer_set(done.adc, Buffer(0))
           handed == [done EXCEPT !.app.done = Append(@, Buffer(0))]
           advanced == Asserted(handed, s)
           simple == [done EXCEPT !.app.done = Append(@, adc.primary)]
<1>1. Sound(r) /\ Whole \in Work /\ Whole.adc = adc /\ Whole.app = app
  BY TriggerSound DEF SaadcInv, Whole
<1> HIDE DEF r
<1>2. x \in Work /\ x.adc = r
  BY <1>1, AssertedSound DEF Sound
<1>3. busy \in Work /\ busy.adc = r
  BY <1>1, WorkOf DEF Sound
<1> HIDE DEF x, busy
<1>4. app.after \in {"single", "multiple"} /\ adc.primary \in Buffers /\ Buffer(0) \in Buffers
  BY <1>1, BufferTypes DEF Work, App, Adc, Channels
<1>5. done \in Work /\ done.adc = r
  <2> DEFINE n == x.app.count + 1
             a == [x.app EXCEPT !.count = n, !.pc = app.after]
  <2>1. a \in App
    <3>1. x.app \in App /\ n \in Nat
      BY <1>2 DEF Work, App
    <3> HIDE DEF n
    <3>2. QED
      BY <1>2, <1>4, <3>1 DEF App
  <2>2. done = [x EXCEPT !.app = a]
    BY <1>2 DEF Work, App
  <2> HIDE DEF a, done
  <2>3. QED
    BY <1>2, <2>1, <2>2 DEF Work
<1> HIDE DEF done
<1>6. Sound(s)
  BY <1>1, <1>4, <1>5, BufferSetSound
<1> HIDE DEF s
<1>7. \A b \in Buffers : /\ [done EXCEPT !.app.done = Append(@, b)] \in Work
                          /\ [done EXCEPT !.app.done = Append(@, b)].adc = r
  <2> SUFFICES ASSUME NEW b \in Buffers
               PROVE  /\ [done EXCEPT !.app.done = Append(@, b)] \in Work
                      /\ [done EXCEPT !.app.done = Append(@, b)].adc = r
    OBVIOUS
  <2> DEFINE a == [done.app EXCEPT !.done = Append(@, b)]
  <2>1. Append(done.app.done, b) \in Seq(Buffers)
    BY <1>5 DEF Work, App
  <2>2. a \in App
    BY <1>5, <2>1 DEF Work, App
  <2>3. [done EXCEPT !.app.done = Append(@, b)] = [done EXCEPT !.app = a]
    BY <1>5 DEF Work, App
  <2> HIDE DEF a
  <2>4. QED
    BY <1>5, <2>2, <2>3 DEF Work
<1>8. handed \in Work /\ simple \in Work /\ simple.adc = r
  BY <1>4, <1>7
<1> HIDE DEF handed
<1>9. advanced \in Work /\ advanced.adc = s
  BY <1>6, <1>8, AssertedSound DEF Sound
<1> HIDE DEF advanced, simple
<1>10. Step(busy) \/ Step(advanced) \/ Step(simple)
  <2>1. Trigger(Whole) = IF r.err = "BUSY" THEN busy
                         ELSE IF program = "advanced_blocking" THEN advanced ELSE simple
    BY <1>1 DEF Trigger, busy, advanced, simple, handed, s, done, x, r
  <2>2. QED
    BY <2>1 DEF TriggerBlocking
<1>11. QED
  BY <1>1, <1>3, <1>6, <1>8, <1>9, <1>10, StepSound

LEMMA MultipleSound ==
  ASSUME SaadcInv, Served(adc), MultipleConfig
  PROVE  SaadcInv'
<1> DEFINE x == [Whole EXCEPT !.app.count = 0]
           y == Configure(x, Channels, Buffer(0))
           z == [y EXCEPT !.app.pc = "multiple"]
<1>1. Whole \in Work /\ Whole.adc = adc /\ Sound(adc)
  BY DEF SaadcInv, Whole
<1>2. x \in Work /\ x.adc = adc
  BY <1>1 DEF Work, App
<1>3. Buffer(0) \in Buffers /\ Channels \in SUBSET Channels
  BY BufferTypes DEF Channels
<1> HIDE DEF x
<1>4. y \in Work /\ Sound(y.adc)
  BY <1>1, <1>2, <1>3, ConfigureSound
<1> HIDE DEF y
<1>5. z \in Work /\ z.adc = y.adc
  BY <1>4 DEF Work, App
<1> HIDE DEF z
<1>6. Step(z)
  BY DEF MultipleConfig, z, y, x
<1>7. QED
  BY <1>4, <1>5, <1>6, StepSound

LEMMA CallSound ==
  ASSUME SaadcInv, NEW r, Sound(r), Call(r)
  PROVE  SaadcInv'
  BY DEF Call, SaadcInv, Whole, Work, App, Sound

LEMMA AnyCallSound ==
  ASSUME SaadcInv, AnyCall
  PROVE  SaadcInv'
<1>1. Sound(adc) /\ Served(adc)
  <2>1. ~Pending
    BY DEF AnyCall, Call
  <2>2. QED
    BY <2>1, ServedWhenQuiet DEF SaadcInv
<1>2. CASE Call(nrfx_saadc_init(adc))
  BY <1>1, <1>2, InitSound, CallSound
<1>3. CASE Call(nrfx_saadc_channel_config(adc, 0))
  BY <1>1, <1>3, ChannelSound, CallSound
<1>4. CASE Call(nrfx_saadc_simple_mode_set(adc, {0}, TRUE))
  <2>1. {0} \in SUBSET Channels /\ TRUE \in BOOLEAN
    BY DEF Channels
  <2>2. QED
    BY <1>1, <1>4, <2>1, SimpleModeSound, CallSound
<1>5. CASE Call(nrfx_saadc_advanced_mode_set(adc, {0}, [timer |-> TRUE, startOnEnd |-> TRUE],
                                             TRUE))
  <2>1. /\ {0} \in SUBSET Channels /\ TRUE \in BOOLEAN
        /\ [timer |-> TRUE, startOnEnd |-> TRUE] \in [timer : BOOLEAN, startOnEnd : BOOLEAN]
    BY DEF Channels
  <2>2. QED
    BY <1>1, <1>5, <2>1, AdvancedModeSound, CallSound
<1>6. CASE Call(nrfx_saadc_buffer_set(adc, [Buffer(0) EXCEPT !.len = 1]))
  <2>1. [Buffer(0) EXCEPT !.len = 1] \in Buffers
    BY BufferTypes DEF Channels
  <2>2. QED
    BY <1>1, <1>6, <2>1, BufferSetSound, CallSound
<1>7. CASE Call(nrfx_saadc_mode_trigger(adc))
  BY <1>1, <1>7, TriggerSound, CallSound
<1>8. CASE Call(nrfx_saadc_offset_calibrate(adc, TRUE))
  <2>1. TRUE \in BOOLEAN
    OBVIOUS
  <2>2. QED
    BY <1>1, <1>8, <2>1, CalibrateSound, CallSound
<1>9. CASE /\ adc.state # "UNINITIALIZED"
           /\ \E on \in {{}, {"LOW"}} : Call(nrfx_saadc_limits_set(adc, on))
  <2>1. {{}, {"LOW"}} \subseteq SUBSET Limits
    BY DEF Limits
  <2>2. QED
    BY <1>1, <1>9, <2>1, LimitsSound, CallSound
<1>10. CASE /\ adc.state # "UNINITIALIZED"
            /\ \E n \in 0 .. 1 : Call(nrfx_saadc_abort(adc, n)) \/ Call(nrfx_saadc_uninit(adc, n))
  BY <1>1, <1>10, AbortSound, UninitSound, CallSound
<1>11. QED
  BY <1>2, <1>3, <1>4, <1>5, <1>6, <1>7, <1>8, <1>9, <1>10 DEF AnyCall

-----------------------------------------------------------------------------
LEMMA SaadcInitSound ==
  ASSUME SaadcInit
  PROVE  SaadcInv
<1>1. /\ adc = PowerOn /\ NoBuffer \in Buffers /\ "UNINITIALIZED" \in States
      /\ "UNINITIALIZED" \notin SamplingStates /\ <<>> \in Seq(Buffers)
      /\ "SUCCESS" \in Errors
  BY BufferTypes, StatesDiffer DEF SaadcInit, Errors
<1>2. Sound(adc)
  BY <1>1, StatesDiffer DEF PowerOn, Sound, Adc, Quiet, Calibrates, Listens
<1>3. app \in App
  BY <1>1 DEF SaadcInit, App, Channels
<1>4. QED
  BY <1>2, <1>3 DEF SaadcInv, Whole, Work, Sound

(* The control block stays sound under every program, call and interrupt   *)
(* of the driver, with the state of the programs around it (nrfx_saadc.c). *)
THEOREM DriverSound == SaadcSpec => []SaadcInv
<1>1. SaadcInv /\ [SaadcNext]_saadcVars => SaadcInv'
  <2> SUFFICES ASSUME SaadcInv, [SaadcNext]_saadcVars PROVE SaadcInv'
    OBVIOUS
  <2>1. CASE Main
    <3>1. Served(adc)
      BY <2>1, ServedWhenQuiet DEF SaadcInv, Main
    <3>2. QED
      BY <2>1, <3>1, StartSound, SampleSound, TriggerBlockingSound, MultipleSound DEF Main
  <2>2. CASE AnyCall
    BY <2>2, AnyCallSound
  <2>3. CASE Supplies
    BY <2>3 DEF Supplies, SaadcInv, Whole, Work, App
  <2>4. CASE nrfx_saadc_irq_handler
    BY <2>4, InterruptSound
  <2>5. CASE Peripheral
    BY <2>5, PeripheralSound
  <2>6. CASE UNCHANGED saadcVars
    BY <2>6 DEF saadcVars, SaadcInv, Whole
  <2>7. QED
    BY <2>1, <2>2, <2>3, <2>4, <2>5, <2>6 DEF SaadcNext
<1>2. QED
  BY SaadcInitSound, <1>1, PTL DEF SaadcSpec

(* Outside a conversion and a calibration the converter writes to no       *)
(* buffer, whatever program runs, in whatever order it calls the driver    *)
(* and its interrupts arrive (saadc_busy_check, nrfx_saadc_irq_handler).   *)
THEOREM IdleIsQuiet == SaadcSpec => []QuietWhenIdle
<1>1. SaadcInv => QuietWhenIdle
  BY DEF SaadcInv, Sound, Quiet, QuietWhenIdle, saadc_busy_check, IdleStates
<1>2. QED
  BY <1>1, DriverSound, PTL

-----------------------------------------------------------------------------
(* The buffers, from the application to the converter and back.  E are the *)
(* events that have not been served: those of the peripheral, and inside   *)
(* an interrupt those it has taken and not come to yet.                    *)
Given == [name : {"first", "second"}, len : Nat]

(* The states in which END means that a buffer of the application is full. *)
Filling == {SimpleModeSample, AdvModeSampleStarted}

Fits(r) ==
  /\ r.primary \in Given \cup {NoBuffer} /\ r.secondary \in Given \cup {NoBuffer}
  /\ r.primary = NoBuffer => r.secondary = NoBuffer
  /\ r.state \in SamplingStates => r.primary # NoBuffer
  /\ r.state = AdvModeSampleStarted /\ r.secondary # NoBuffer => r.ptr = r.secondary

(* What the converter writes to while a conversion runs: the first buffer, *)
(* and once that is full nothing, or what RESULT.PTR held at its end.      *)
Writes(r, a, E) ==
  /\ r.state \notin Filling => ~r.sampling
  /\ r.state \in SamplingStates /\ "END" \notin E => r.writing = r.primary /\ "STOPPED" \notin E
  /\ r.state = AdvModeSample => "STARTED" \in E /\ "END" \notin E
  /\ r.state \in Filling /\ "END" \in E =>
       r.writing = IF a.startOnEnd /\ "STOPPED" \notin E THEN r.ptr ELSE NoBuffer
  /\ r.state = Calibration => r.writing \in {NoBuffer, CalibSamples}
  /\ r.state = Calibration /\ a.startOnEnd /\ "STARTED" \in E => r.ptr = CalibSamples

(* The application has had every full buffer but the one whose END is      *)
(* still to be served; that one is the first buffer, cut by an abort.      *)
Owed(r, E) == r.state \in Filling /\ "END" \in E
Due(r, E) == IF "STOPPED" \in E THEN [r.primary EXCEPT !.len = r.amount] ELSE r.primary

Ordered(r, a, E) ==
  /\ Len(r.full) = Len(a.done) + (IF Owed(r, E) THEN 1 ELSE 0)
  /\ \A i \in 1 .. Len(a.done) : a.done[i] = r.full[i]
  /\ Owed(r, E) => r.full[Len(r.full)] = Due(r, E)

(* START follows END by the driver, or by the application's own circuit    *)
(* for as long as it has buffers to give.                                  *)
Advanced(r) ==
  \/ r.state \in {AdvMode, AdvModeSample, AdvModeSampleStarted}
  \/ r.state = Calibration /\ r.prev = AdvMode

(* Calls in any order give every mode its handler.                         *)
Reports(r) ==
  \/ r.state \in {SimpleMode, AdvMode}
  \/ r.state = Calibration /\ r.prev \in {SimpleMode, AdvMode}
  => r.handler

Chained(r, a) ==
  /\ Advanced(r) => r.startOnEnd = (program \in {"any", "internal_timer"})
  /\ a.startOnEnd => program = "maximum_performance"
  /\ program = "maximum_performance" /\ ~a.startOnEnd =>
       a.requests >= Iterations /\ r.secondary = NoBuffer
  /\ program = "any" => Reports(r)
  /\ a.pc = "trigger" => program \in Blocking

(* An example that has set its mode, and where its conversions may be.     *)
Mode == IF program \in Simple THEN SimpleMode ELSE AdvMode

Running(r, a, E) ==
  /\ r.handler = (program \notin Blocking)
  /\ r.configured = r.activated
  /\ r.activated = {0} \/ (program \in Simple /\ r.activated = Channels)
  /\ r.limits = {}
  /\ r.state \in {Mode, Calibration} \cup
                  (IF program \in Simple THEN {SimpleModeSample}
                   ELSE {AdvModeSample, AdvModeSampleStarted})
  /\ r.state = Calibration => r.prev = Mode /\ r.primary # NoBuffer
  /\ "STOPPED" \in E => r.state = Calibration
  /\ program \in Simple => r.primary # NoBuffer
  /\ program = "simple_non_blocking" /\ a.ready => r.state = SimpleMode
  /\ program \in Streaming /\ a.count = 0 => r.state = AdvMode /\ r.primary # NoBuffer
  /\ program \in Streaming => a.pc = "single"
  /\ program \in Blocking =>
       /\ r.state = Mode /\ r.ints = {}
       /\ r.primary # NoBuffer /\ r.secondary = NoBuffer
       /\ program = "advanced_blocking" => r.primary = Buffer(0)

Example(r, a, E) ==
  program # "any" => IF a.pc = "init" THEN r = PowerOn ELSE Running(r, a, E)

Chain(r, a, E) ==
  /\ Fits(r) /\ Writes(r, a, E) /\ Ordered(r, a, E) /\ Chained(r, a) /\ Example(r, a, E)
  /\ ~a.failed

Linked == Chain(adc, app, adc.events)
ChainInv == SaadcInv /\ program \in Programs /\ Linked

LEMMA LinkedWhen ==
  ASSUME UNCHANGED program, Chain(adc', app', adc'.events)
  PROVE  Linked'
  BY DEF Linked, Chain, Writes, Ordered, Chained, Example, Running, Mode

LEMMA GivenBuffers ==
  /\ NoBuffer \notin Given /\ CalibSamples \notin Given \cup {NoBuffer}
  /\ \A i \in Channels : Buffer(i) \in Given
  /\ \A i \in Channels, n \in Nat : [Buffer(i) EXCEPT !.len = n] \in Given
  /\ \A b \in Given, n \in Nat : [b EXCEPT !.len = n] \in Given
  BY DEF Given, NoBuffer, CalibSamples, Buffer, Channels

(* The chain says nothing of the other fields.                             *)
Like(r, y) ==
  /\ y.state = r.state /\ y.prev = r.prev
  /\ y.primary = r.primary /\ y.secondary = r.secondary /\ y.ptr = r.ptr
  /\ y.writing = r.writing /\ y.sampling = r.sampling /\ y.amount = r.amount
  /\ y.startOnEnd = r.startOnEnd /\ y.full = r.full /\ y.handler = r.handler

SetAlike(r, y) ==
  /\ y.configured = r.configured /\ y.activated = r.activated
  /\ y.limits = r.limits /\ y.ints = r.ints

LEMMA LikeChain ==
  ASSUME NEW r, NEW a, NEW E, NEW y, NEW F, Chain(r, a, E), Like(r, y),
         F \cap Conversions = E \cap Conversions,
         program # "any" => SetAlike(r, y) /\ a.pc # "init"
  PROVE  Chain(y, a, F)
<1>1. "END" \in F <=> "END" \in E
  BY DEF Conversions
<1>2. "STOPPED" \in F <=> "STOPPED" \in E
  BY DEF Conversions
<1>3. "STARTED" \in F <=> "STARTED" \in E
  BY DEF Conversions
<1>4. Fits(y)
  BY DEF Chain, Fits, Like
<1>5. Writes(y, a, F)
  BY <1>1, <1>2, <1>3 DEF Chain, Writes, Like
<1>6. Ordered(y, a, F)
  BY <1>1, <1>2 DEF Chain, Ordered, Owed, Due, Like
<1>7. Chained(y, a)
  BY DEF Chain, Chained, Advanced, Reports, Like
<1>8. Example(y, a, F)
  <2>1. ASSUME program # "any" PROVE Running(y, a, F)
    <3>1. Running(r, a, E) /\ a.pc # "init" /\ SetAlike(r, y)
      BY <2>1 DEF Chain, Example
    <3>2. QED
      BY <1>2, <3>1 DEF Running, Like, SetAlike
  <2>2. QED
    BY <2>1 DEF Example
<1>9. QED
  BY <1>4, <1>5, <1>6, <1>7, <1>8 DEF Chain

(* What main finds when it calls the driver: all its events are served.    *)
Calm(r) ==
  /\ r.state \in SamplingStates \cup {Calibration} => r.events \cap Conversions = {}
  /\ Served(r)

LEMMA CalmWhenQuiet ==
  ASSUME Sound(adc), ~Pending
  PROVE  Calm(adc)
  BY StatesDiffer, ServedWhenQuiet DEF Sound, Listens, Calm, Pending

-----------------------------------------------------------------------------
(* The calls of an application in any order.                               *)
LEMMA AnyChain ==
  ASSUME program = "any", NEW r, NEW a, NEW E,
         Fits(r), Writes(r, a, E), Ordered(r, a, E), Advanced(r) => r.startOnEnd,
         ~a.startOnEnd, ~a.failed, Reports(r), a.pc # "trigger"
  PROVE  Chain(r, a, E)
  BY DEF Chain, Chained, Example, Blocking

LEMMA AnyFacts ==
  ASSUME program = "any", NEW r, NEW a, NEW E, Chain(r, a, E), r \in Adc
  PROVE  /\ ~a.startOnEnd /\ ~a.failed /\ (Advanced(r) => r.startOnEnd)
         /\ a.pc # "trigger" /\ Reports(r) /\ Fits(r) /\ Writes(r, a, E) /\ Ordered(r, a, E)
  BY DEF Chain, Chained, Adc, Blocking

LEMMA ReturnChain ==
  ASSUME NEW r, NEW a, r \in Adc, Chain(r, a, r.events), program = "any", NEW e
  PROVE  Chain(Return(r, e), a, Return(r, e).events)
<1>1. Like(r, Return(r, e)) /\ Return(r, e).events = r.events
  BY DEF Return, Like, Adc
<1>2. QED
  BY <1>1, LikeChain

(* A driver that is idle writes nothing and owes nothing.                  *)
LEMMA IdleChain ==
  ASSUME program = "any", NEW r, NEW a, NEW E, Chain(r, a, E), r \in Adc, ~Owed(r, E),
         NEW y, NEW F, y \in Adc, y.state \in IdleStates \cup {"UNINITIALIZED"}, ~y.sampling,
         y.primary \in Given \cup {NoBuffer}, y.secondary \in Given \cup {NoBuffer},
         y.primary = NoBuffer => y.secondary = NoBuffer,
         y.full = r.full, y.state = AdvMode => y.startOnEnd,
         y.state \in {SimpleMode, AdvMode} => y.handler
  PROVE  Chain(y, a, F)
<1>1. /\ y.state \notin SamplingStates \cup Filling /\ y.state # AdvModeSample
      /\ y.state # AdvModeSampleStarted /\ y.state # Calibration
  BY StatesDiffer DEF Filling
<1>2. Fits(y) /\ Writes(y, a, F)
  BY <1>1 DEF Fits, Writes
<1>3. Ordered(y, a, F)
  <2>1. ~Owed(y, F) /\ Ordered(r, a, E)
    BY <1>1, AnyFacts DEF Owed
  <2>2. QED
    BY <2>1 DEF Ordered
<1>4. (Advanced(y) => y.startOnEnd) /\ Reports(y)
  BY <1>1 DEF Advanced, Reports
<1>5. QED
  BY <1>2, <1>3, <1>4, AnyFacts, AnyChain

LEMMA InitChain ==
  ASSUME program = "any", NEW r, NEW a, Sound(r), Chain(r, a, r.events)
  PROVE  Chain(nrfx_saadc_init(r), a, nrfx_saadc_init(r).events)
<1>1. CASE r.state # "UNINITIALIZED"
  BY <1>1, ReturnChain DEF nrfx_saadc_init, Sound
<1>2. CASE r.state = "UNINITIALIZED"
  <2> DEFINE y == [saadc_channels_deconfig(r, r.configured)
                     EXCEPT !.state = Idle, !.handler = FALSE, !.ints = {},
                            !.events = {}, !.err = "SUCCESS"]
  <2>1. r \in Adc /\ "SUCCESS" \in Errors /\ Idle \in States
    BY DEF Sound, Errors, States, IdleStates
  <2>2. y \in Adc
    BY <2>1 DEF saadc_channels_deconfig, Adc
  <2>3. /\ y.state = Idle /\ y.sampling = r.sampling /\ y.primary = r.primary
        /\ y.secondary = r.secondary /\ y.full = r.full
    BY <2>1 DEF saadc_channels_deconfig, Adc
  <2>4. nrfx_saadc_init(r) = y
    BY <1>2 DEF nrfx_saadc_init
  <2>5. r.state \notin Filling /\ ~r.sampling /\ Fits(r) /\ ~Owed(r, r.events)
    BY <1>2, <2>1, StatesDiffer, AnyFacts DEF Writes, Filling, Owed
  <2> HIDE DEF y
  <2>6. Chain(y, a, y.events)
    BY <2>1, <2>2, <2>3, <2>5, IdleChain DEF Fits, IdleStates, Idle, AdvMode, SimpleMode
  <2>7. QED
    BY <2>4, <2>6
<1>3. QED
  BY <1>1, <1>2

LEMMA ChannelChain ==
  ASSUME program = "any", NEW r, NEW a, Sound(r), Chain(r, a, r.events)
  PROVE  Chain(nrfx_saadc_channel_config(r, 0), a, nrfx_saadc_channel_config(r, 0).events)
<1> DEFINE y == Return(saadc_channel_config(r, 0), "SUCCESS")
<1>1. Like(r, y) /\ y.events = r.events
  BY DEF Return, saadc_channel_config, Like, Sound, Adc
<1>2. nrfx_saadc_channel_config(r, 0) \in {Return(r, "BUSY"), y}
  BY DEF nrfx_saadc_channel_config
<1> HIDE DEF y
<1>3. Chain(y, a, y.events)
  BY <1>1, LikeChain
<1>4. Chain(Return(r, "BUSY"), a, Return(r, "BUSY").events)
  BY ReturnChain DEF Sound
<1>5. QED
  BY <1>2, <1>3, <1>4

LEMMA ModeChain ==
  ASSUME program = "any", NEW r, NEW a, Sound(r), Served(r), Chain(r, a, r.events)
  PROVE  LET s == nrfx_saadc_simple_mode_set(r, {0}, TRUE)
             m == nrfx_saadc_advanced_mode_set(r, {0}, [timer |-> TRUE, startOnEnd |-> TRUE], TRUE)
         IN  Chain(s, a, s.events) /\ Chain(m, a, m.events)
<1> DEFINE config == [timer |-> TRUE, startOnEnd |-> TRUE]
           g == saadc_generic_mode_set(r, {0}, TRUE)
           s == [g EXCEPT !.state = SimpleMode, !.err = "SUCCESS"]
           m == [g EXCEPT !.state = AdvMode, !.timer = TRUE, !.startOnEnd = TRUE, !.err = "SUCCESS"]
<1>1. r \in Adc /\ {0} \in SUBSET Channels /\ TRUE \in BOOLEAN
  BY DEF Sound, Channels
<1>2. \A e : Chain(Return(r, e), a, Return(r, e).events)
  BY <1>1, ReturnChain
<1>3. ASSUME ~saadc_busy_check(r)
      PROVE  Chain(s, a, s.events) /\ Chain(m, a, m.events)
  <2>1. g \in Adc
    BY <1>1, <1>3, ModeSound
  <2>2. /\ g.primary = NoBuffer /\ g.secondary = NoBuffer /\ ~g.sampling /\ g.full = r.full
        /\ g.handler
    BY <1>1 DEF saadc_generic_mode_set, Adc
  <2> HIDE DEF g
  <2>3. s \in Adc /\ m \in Adc
    BY <2>1 DEF Adc, States, IdleStates, Errors
  <2>4. /\ s.state = SimpleMode /\ m.state = AdvMode /\ m.startOnEnd
        /\ \A y \in {s, m} : /\ y.primary = NoBuffer /\ y.secondary = NoBuffer
                             /\ ~y.sampling /\ y.full = r.full /\ y.handler
    BY <2>1, <2>2 DEF Adc
  <2>5. ~Owed(r, r.events)
    BY <1>3, StatesDiffer DEF saadc_busy_check, Owed, Filling, SamplingStates, Idle, SimpleMode,
       AdvMode, SimpleModeSample, AdvModeSampleStarted
  <2> HIDE DEF s, m
  <2>6. SimpleMode # AdvMode
    BY DEF SimpleMode, AdvMode
  <2>7. QED
    BY <1>1, <2>3, <2>4, <2>5, <2>6, IdleChain, StatesDiffer
<1> HIDE DEF g
<1>4. nrfx_saadc_simple_mode_set(r, {0}, TRUE) \in
        {Return(r, "BUSY"), Return(r, "INVALID_PARAM"), s}
  BY DEF nrfx_saadc_simple_mode_set, g
<1>5. nrfx_saadc_advanced_mode_set(r, {0}, config, TRUE) \in
        {Return(r, "BUSY"), Return(r, "INVALID_PARAM"), Return(r, "NOT_SUPPORTED"), m}
  BY DEF nrfx_saadc_advanced_mode_set, g
<1>6. saadc_busy_check(r) =>
        /\ nrfx_saadc_simple_mode_set(r, {0}, TRUE) = Return(r, "BUSY")
        /\ nrfx_saadc_advanced_mode_set(r, {0}, config, TRUE) = Return(r, "BUSY")
  BY DEF nrfx_saadc_simple_mode_set, nrfx_saadc_advanced_mode_set
<1> HIDE DEF s, m
<1>7. QED
  BY <1>2, <1>3, <1>4, <1>5, <1>6

(* A buffer takes the first free place, and its address goes to the        *)
(* converter while a conversion runs.                                      *)
BufferTaken(r, y, b) ==
  \/ /\ Like(r, y) /\ y.err # "SUCCESS"
  \/ /\ y.err = "SUCCESS" /\ r.secondary = NoBuffer /\ r.state \in {SimpleMode, AdvMode}
     /\ r.state = SimpleMode \/ r.primary = NoBuffer
     /\ y.primary = b /\ y.secondary = NoBuffer /\ y.ptr = r.ptr
  \/ /\ y.err = "SUCCESS" /\ r.secondary = NoBuffer /\ r.primary # NoBuffer
     /\ r.state \in {AdvMode, AdvModeSample, AdvModeSampleStarted}
     /\ y.primary = r.primary /\ y.secondary = b
     /\ y.ptr = IF r.state = AdvModeSampleStarted THEN b ELSE r.ptr

LEMMA BufferSetTaken ==
  ASSUME NEW r \in Adc, Fits(r), NEW b \in Given
  PROVE  LET y == nrfx_saadc_buffer_set(r, b)
         IN  /\ BufferTaken(r, y, b)
             /\ y.state = r.state /\ y.prev = r.prev /\ y.writing = r.writing
             /\ y.sampling = r.sampling /\ y.amount = r.amount /\ y.startOnEnd = r.startOnEnd
             /\ y.handler = r.handler /\ y.full = r.full /\ y.events = r.events /\ SetAlike(r, y)
             /\ y.converted = r.converted
<1> DEFINE Rest(y) == /\ y.state = r.state /\ y.prev = r.prev /\ y.writing = r.writing
                      /\ y.sampling = r.sampling /\ y.amount = r.amount
                      /\ y.startOnEnd = r.startOnEnd /\ y.handler = r.handler
                      /\ y.full = r.full /\ y.events = r.events /\ SetAlike(r, y)
                      /\ y.converted = r.converted
           w == IF r.state = AdvModeSampleStarted THEN [r EXCEPT !.ptr = b] ELSE r
           p == [r EXCEPT !.primary = b, !.err = "SUCCESS"]
           wp == [w EXCEPT !.primary = b, !.err = "SUCCESS"]
           ws == [w EXCEPT !.secondary = b, !.err = "SUCCESS"]
<1>1. ASSUME NEW e \in {"ALREADY", "INVALID_LENGTH", "INVALID_STATE"}
      PROVE  BufferTaken(r, Return(r, e), b) /\ Rest(Return(r, e))
  BY DEF Return, BufferTaken, Like, SetAlike, Adc
<1>2. Rest(p) /\ p.primary = b /\ p.secondary = r.secondary /\ p.ptr = r.ptr /\ p.err = "SUCCESS"
  BY DEF SetAlike, Adc
<1>3. /\ Rest(w) /\ w.primary = r.primary /\ w.secondary = r.secondary /\ w \in Adc
      /\ w.ptr = IF r.state = AdvModeSampleStarted THEN b ELSE r.ptr
  <2>1. b \in Buffers
    BY DEF Given, Buffers
  <2>2. CASE r.state = AdvModeSampleStarted
    BY <2>1, <2>2 DEF SetAlike, Adc
  <2>3. CASE r.state # AdvModeSampleStarted
    BY <2>3 DEF SetAlike
  <2>4. QED
    BY <2>2, <2>3
<1> HIDE DEF w
<1>4. /\ Rest(wp) /\ wp.primary = b /\ wp.secondary = r.secondary /\ wp.ptr = w.ptr
      /\ wp.err = "SUCCESS"
  BY <1>3 DEF SetAlike, Adc
<1>5. /\ Rest(ws) /\ ws.primary = r.primary /\ ws.secondary = b /\ ws.ptr = w.ptr
      /\ ws.err = "SUCCESS"
  BY <1>3 DEF SetAlike, Adc
<1>6. /\ r.state = AdvModeSampleStarted => r.primary # NoBuffer
      /\ r.state = AdvModeSample => r.primary # NoBuffer
  BY StatesDiffer DEF Fits
<1>7. SimpleMode \notin {AdvModeSampleStarted, AdvModeSample, AdvMode}
  BY DEF SimpleMode, AdvModeSampleStarted, AdvModeSample, AdvMode
<1> DEFINE y == nrfx_saadc_buffer_set(r, b)
<1>8. \/ \E e \in {"ALREADY", "INVALID_LENGTH", "INVALID_STATE"} : y = Return(r, e)
      \/ r.secondary = NoBuffer /\ r.state = SimpleMode /\ y = p
      \/ /\ r.secondary = NoBuffer /\ r.state \in {AdvMode, AdvModeSample, AdvModeSampleStarted}
         /\ y = IF r.primary # NoBuffer THEN ws ELSE wp
  <2>1. y = IF r.secondary # NoBuffer THEN Return(r, "ALREADY")
            ELSE IF InvalidLength(r, b) THEN Return(r, "INVALID_LENGTH")
            ELSE IF r.state = SimpleMode THEN p
            ELSE IF r.state \notin {AdvMode, AdvModeSample, AdvModeSampleStarted}
            THEN Return(r, "INVALID_STATE")
            ELSE IF r.primary # NoBuffer THEN ws ELSE wp
    BY DEF nrfx_saadc_buffer_set, w
  <2> HIDE DEF y, p, ws, wp
  <2>2. QED
    BY <2>1
<1> HIDE DEF y, p, ws, wp, Rest
<1>9. Rest(y)
  BY <1>1, <1>2, <1>4, <1>5, <1>8
<1>10. BufferTaken(r, y, b)
  <2>1. CASE \E e \in {"ALREADY", "INVALID_LENGTH", "INVALID_STATE"} : y = Return(r, e)
    BY <2>1, <1>1
  <2>2. CASE r.secondary = NoBuffer /\ r.state = SimpleMode /\ y = p
    BY <2>2, <1>2 DEF BufferTaken
  <2>3. CASE /\ r.secondary = NoBuffer
             /\ r.state \in {AdvMode, AdvModeSample, AdvModeSampleStarted}
             /\ y = IF r.primary # NoBuffer THEN ws ELSE wp
    BY <2>3, <1>3, <1>4, <1>5, <1>6 DEF BufferTaken
  <2>4. QED
    BY <1>8, <2>1, <2>2, <2>3
<1>11. QED
  BY <1>9, <1>10 DEF y, Rest

(* A buffer behind a running conversion keeps the chain.                   *)
LEMMA BufferSetChain ==
  ASSUME program = "any", NEW r \in Adc, NEW a, NEW E, Chain(r, a, E), NEW b \in Given,
         "END" \notin E
  PROVE  Chain(nrfx_saadc_buffer_set(r, b), a, E)
<1> DEFINE y == nrfx_saadc_buffer_set(r, b)
<1>1. /\ ~a.startOnEnd /\ ~a.failed /\ (Advanced(r) => r.startOnEnd)
      /\ Fits(r) /\ Writes(r, a, E) /\ Ordered(r, a, E) /\ Reports(r) /\ a.pc # "trigger"
  BY AnyFacts
<1>2. /\ BufferTaken(r, y, b) /\ y.state = r.state /\ y.prev = r.prev /\ y.writing = r.writing
      /\ y.sampling = r.sampling /\ y.startOnEnd = r.startOnEnd /\ y.full = r.full
      /\ y.handler = r.handler
  BY <1>1, BufferSetTaken
<1> HIDE DEF y
<1>3. CASE Like(r, y)
  <2>1. Chain(y, a, E)
    BY <1>3, LikeChain
  <2>2. QED
    BY <2>1 DEF y
<1>4. CASE ~Like(r, y)
  <2>1. SimpleMode \notin SamplingStates /\ AdvMode \notin SamplingStates /\ b # NoBuffer
    BY StatesDiffer, GivenBuffers
  <2>2. Fits(y)
    BY <1>1, <1>2, <1>4, <2>1, StatesDiffer DEF BufferTaken, Fits
  <2>3. Writes(y, a, E)
    <3>1. r.state \in SamplingStates => y.primary = r.primary
      BY <1>2, <1>4, <2>1 DEF BufferTaken
    <3>2. r.state = Calibration => Like(r, y)
      BY <1>2, StatesDiffer DEF BufferTaken
    <3>3. QED
      BY <1>1, <1>2, <1>4, <3>1, <3>2 DEF Writes
  <2>4. Ordered(y, a, E)
    BY <1>1, <1>2 DEF Ordered, Owed
  <2>5. (Advanced(y) => y.startOnEnd) /\ Reports(y)
    BY <1>1, <1>2, <1>4, StatesDiffer DEF Advanced, Reports, BufferTaken
  <2>6. Chain(y, a, E)
    BY <1>1, <2>2, <2>3, <2>4, <2>5, AnyChain
  <2>7. QED
    BY <2>6 DEF y
<1>5. QED
  BY <1>3, <1>4

(* What the chain reads of the application.                                *)
AppAlike(a, b) ==
  /\ b.done = a.done /\ b.startOnEnd = a.startOnEnd /\ b.failed = a.failed
  /\ b.requests = a.requests /\ b.pc = a.pc
  /\ program # "any" => b.ready = a.ready /\ b.count = a.count

LEMMA AppChain ==
  ASSUME NEW r, NEW a, NEW E, Chain(r, a, E), NEW b, AppAlike(a, b)
  PROVE  Chain(r, b, E)
  BY DEF Chain, AppAlike, Writes, Ordered, Chained, Example, Running

(* A calibration, whatever it has come to: nothing of the application's is *)
(* written or owed.                                                        *)
LEMMA CalibrationChain ==
  ASSUME NEW r, NEW a, NEW E, Chain(r, a, E), ~Owed(r, E),
         NEW y, NEW F, y.state = Calibration, ~y.sampling,
         y.writing \in {NoBuffer, CalibSamples},
         a.startOnEnd /\ "STARTED" \in F => y.ptr = CalibSamples,
         y.primary = r.primary, y.secondary = r.secondary, y.full = r.full,
         y.startOnEnd = r.startOnEnd, y.handler = r.handler,
         IF r.state = Calibration THEN y.prev = r.prev
         ELSE y.prev = r.state /\ r.state \in {Idle, SimpleMode, AdvMode},
         program # "any" =>
           /\ y.configured = r.configured /\ y.activated = r.activated /\ y.limits = r.limits
           /\ a.pc # "init" /\ program \notin Blocking /\ r.primary # NoBuffer
           /\ program = "simple_non_blocking" => ~a.ready
           /\ program \in Streaming => a.count # 0
  PROVE  Chain(y, a, F)
<1>1. Calibration \notin SamplingStates \cup Filling \cup {AdvMode, AdvModeSample, SimpleMode, Idle}
  BY StatesDiffer DEF Filling, Calibration, Idle
<1>2. Fits(y) /\ Writes(y, a, F)
  BY <1>1, StatesDiffer DEF Chain, Fits, Writes
<1>3. Ordered(y, a, F)
  BY <1>1 DEF Chain, Ordered, Owed
<1>4. Chained(y, a)
  BY <1>1, StatesDiffer DEF Chain, Chained, Advanced, Reports
<1>5. ASSUME program # "any" PROVE Running(y, a, F)
  <2>1. Running(r, a, E) /\ r.state \in {Mode, Calibration, Idle, SimpleMode, AdvMode} =>
          r.state \in {Mode, Calibration}
    BY DEF Running, Mode, Calibration, Idle, SimpleMode, AdvMode, SimpleModeSample, AdvModeSample,
           AdvModeSampleStarted
  <2>2. Running(r, a, E)
    BY <1>5 DEF Chain, Example
  <2>3. y.prev = Mode
    BY <2>1, <2>2 DEF Running
  <2>4. QED
    BY <1>5, <2>2, <2>3 DEF Running, Mode
<1>6. QED
  BY <1>2, <1>3, <1>4, <1>5 DEF Chain, Example

LEMMA LimitsChain ==
  ASSUME program = "any", NEW r, NEW a, Sound(r), Chain(r, a, r.events), NEW on
  PROVE  Chain(nrfx_saadc_limits_set(r, on), a, nrfx_saadc_limits_set(r, on).events)
<1> DEFINE y == nrfx_saadc_limits_set(r, on)
<1>1. Like(r, y) /\ y.events = r.events
  BY DEF nrfx_saadc_limits_set, Return, Like, Sound, Adc
<1> HIDE DEF y
<1>2. Chain(y, a, y.events)
  BY <1>1, LikeChain
<1>3. QED
  BY <1>2 DEF y

(* A trigger latches the first buffer, and STARTED is on its way.          *)
LEMMA LatchedChain ==
  ASSUME NEW r \in Adc, NEW a, NEW E, Fits(r), Writes(r, a, E), Ordered(r, a, E), Chained(r, a),
         "END" \notin E, "STOPPED" \notin E, r.primary # NoBuffer,
         r.state \in {SimpleMode, AdvMode}, r.handler
  PROVE  LET y == nrfx_saadc_mode_trigger(r)
         IN  /\ Fits(y) /\ Writes(y, a, E \cup {"STARTED"}) /\ Ordered(y, a, E \cup {"STARTED"})
             /\ Chained(y, a) /\ y.err = "SUCCESS" /\ y.events = r.events \cup {"STARTED"}
             /\ y.state = IF r.state = SimpleMode THEN SimpleModeSample ELSE AdvModeSample
             /\ SetAlike(r, y) /\ y.handler /\ y.primary = r.primary
<1> DEFINE y == nrfx_saadc_mode_trigger(r)
           state == IF r.state = SimpleMode THEN SimpleModeSample ELSE AdvModeSample
<1>1. SimpleMode # AdvMode
  BY DEF SimpleMode, AdvMode
<1>2. y = Latch([r EXCEPT !.state = state, !.err = "SUCCESS"], r.primary)
  <2>1. CASE r.state = SimpleMode
    BY <1>1, <2>1 DEF nrfx_saadc_mode_trigger
  <2>2. CASE r.state = AdvMode
    BY <1>1, <2>2 DEF nrfx_saadc_mode_trigger
  <2>3. QED
    BY <2>1, <2>2
<1> HIDE DEF state
<1>3. /\ y.state = state /\ y.err = "SUCCESS" /\ y.events = r.events \cup {"STARTED"}
      /\ y.ptr = r.primary /\ y.writing = r.primary /\ y.primary = r.primary
      /\ y.secondary = r.secondary /\ y.sampling = r.sampling /\ y.full = r.full
      /\ y.startOnEnd = r.startOnEnd /\ y.handler = r.handler /\ y.prev = r.prev
      /\ SetAlike(r, y)
  BY <1>2 DEF Latch, TaskStart, Adc, SetAlike
<1> HIDE DEF y
<1>4. /\ state \in {SimpleModeSample, AdvModeSample}
      /\ state = SimpleModeSample <=> r.state = SimpleMode
      /\ state \in SamplingStates /\ state # AdvModeSampleStarted /\ state # Calibration
      /\ state # SimpleMode /\ state # AdvMode
      /\ SimpleModeSample \notin {AdvMode, AdvModeSample, AdvModeSampleStarted}
      /\ r.state \notin Filling
  BY StatesDiffer DEF state, SimpleModeSample, AdvModeSample, AdvModeSampleStarted, Filling
<1>5. Fits(y)
  BY <1>3, <1>4 DEF Fits
<1>6. Writes(y, a, E \cup {"STARTED"})
  BY <1>3, <1>4 DEF Writes
<1>7. Ordered(y, a, E \cup {"STARTED"})
  BY <1>3, <1>4 DEF Ordered, Owed
<1>8. Advanced(y) => Advanced(r)
  BY <1>1, <1>3, <1>4 DEF Advanced
<1>9. Chained(y, a)
  BY <1>3, <1>4, <1>8 DEF Chained, Reports
<1>10. QED
  BY <1>3, <1>5, <1>6, <1>7, <1>9 DEF y, state

LEMMA TriggerChain ==
  ASSUME program = "any", NEW r, NEW a, Sound(r), Calm(r), Chain(r, a, r.events),
         r.state \notin {"UNINITIALIZED", Idle}
  PROVE  Chain(nrfx_saadc_mode_trigger(r), a, nrfx_saadc_mode_trigger(r).events)
<1> DEFINE y == nrfx_saadc_mode_trigger(r)
<1>1. r \in Adc /\ Chained(r, a) /\ ~a.failed
      /\ Fits(r) /\ Writes(r, a, r.events) /\ Ordered(r, a, r.events)
  BY DEF Sound, Chain
<1>2. CASE r.primary # NoBuffer /\ r.state \in {SimpleMode, AdvMode}
  <2>1. r.handler
    BY <1>1, <1>2 DEF Chained, Reports
  <2>2. "END" \notin r.events /\ "STOPPED" \notin r.events
    BY <1>2, StatesDiffer DEF Calm, Served
  <2>3. /\ y.events = r.events \cup {"STARTED"} /\ Fits(y) /\ Chained(y, a)
        /\ Writes(y, a, r.events \cup {"STARTED"}) /\ Ordered(y, a, r.events \cup {"STARTED"})
    BY <1>1, <1>2, <2>1, <2>2, LatchedChain
  <2> HIDE DEF y
  <2>4. Chain(y, a, y.events)
    BY <1>1, <2>3 DEF Chain, Example
  <2>5. QED
    BY <2>4 DEF y
<1>3. CASE ~(r.primary # NoBuffer /\ r.state \in {SimpleMode, AdvMode})
  <2>1. y \in {Return(r, "NO_MEM"), Return(r, "INVALID_STATE")}
    BY <1>3 DEF nrfx_saadc_mode_trigger
  <2>2. QED
    BY <1>1, <2>1, ReturnChain
<1>4. QED
  BY <1>2, <1>3

LEMMA CalibrateChain ==
  ASSUME program = "any", NEW r, NEW a, Sound(r), Calm(r), Chain(r, a, r.events)
  PROVE  LET y == nrfx_saadc_offset_calibrate(r, TRUE) IN Chain(y, a, y.events)
<1> DEFINE c == [r EXCEPT !.prev = r.state, !.state = Calibration, !.calibHandler = TRUE,
                          !.calibrating = TRUE, !.err = "SUCCESS",
                          !.ints = Conversions \cup {"CALIBRATEDONE"}]
<1>1. r \in Adc
  BY DEF Sound
<1>2. CASE saadc_busy_check(r)
  BY <1>1, <1>2, ReturnChain DEF nrfx_saadc_offset_calibrate
<1>3. CASE ~saadc_busy_check(r)
  <2>1. r.state \in {Idle, SimpleMode, AdvMode} /\ r.state \notin Filling \cup {Calibration}
    BY <1>3, StatesDiffer DEF saadc_busy_check, Filling, IdleStates
  <2>2. /\ c.state = Calibration /\ c.prev = r.state /\ c.writing = r.writing
        /\ c.sampling = r.sampling /\ c.primary = r.primary /\ c.secondary = r.secondary
        /\ c.full = r.full /\ c.startOnEnd = r.startOnEnd /\ c.handler = r.handler
    BY <1>1 DEF Adc
  <2>3. r.writing = NoBuffer /\ ~r.sampling /\ ~Owed(r, r.events) /\ ~a.startOnEnd
    BY <1>1, <2>1, AnyFacts DEF Sound, Quiet, Writes, Owed, IdleStates
  <2>4. nrfx_saadc_offset_calibrate(r, TRUE) = c
    BY <1>3 DEF nrfx_saadc_offset_calibrate
  <2> HIDE DEF c
  <2>5. Chain(c, a, c.events)
    BY <2>1, <2>2, <2>3, CalibrationChain
  <2>6. QED
    BY <2>4, <2>5
<1>4. QED
  BY <1>2, <1>3

(* An abort cuts the buffer that is being written, and reports it.         *)
LEMMA AbortChain ==
  ASSUME program = "any", NEW r, NEW a, Sound(r), Calm(r), Chain(r, a, r.events),
         r.state # "UNINITIALIZED", NEW n \in Nat
  PROVE  LET y == nrfx_saadc_abort(r, n) IN Chain(y, a, y.events)
<1> DEFINE y == TaskStop(r, n)
           dropped == [r EXCEPT !.primary = NoBuffer, !.secondary = NoBuffer, !.converted = 0]
           cut == [r.writing EXCEPT !.len = n]
           more == IF r.writing \in {NoBuffer, CalibSamples} THEN r.full ELSE Append(r.full, cut)
           ended == IF r.writing = NoBuffer THEN {} ELSE {"END"}
           filled == IF r.writing = NoBuffer THEN r.amount ELSE n
<1>1. /\ r \in Adc /\ Fits(r) /\ Writes(r, a, r.events) /\ Ordered(r, a, r.events)
      /\ ~a.startOnEnd /\ ~a.failed /\ (Advanced(r) => r.startOnEnd) /\ Reports(r)
      /\ a.pc # "trigger"
  BY AnyFacts DEF Sound
<1>2. /\ y.state = r.state /\ y.prev = r.prev /\ y.primary = r.primary
      /\ y.secondary = r.secondary /\ y.ptr = r.ptr /\ y.startOnEnd = r.startOnEnd
      /\ y.handler = r.handler /\ ~y.sampling /\ y.writing = NoBuffer
      /\ y.full = more /\ y.amount = filled /\ y.events = r.events \cup {"STOPPED"} \cup ended
  BY <1>1 DEF TaskStop, Adc
<1>3. "END" \notin r.events /\ "STOPPED" \notin r.events
  BY DEF Calm, Served
<1>4. NoBuffer \notin Given /\ CalibSamples \notin Given
  BY GivenBuffers
<1> HIDE DEF y
<1>5. ASSUME r.state \in Filling PROVE Chain(y, a, y.events)
  <2>1. /\ r.state \in SamplingStates /\ r.state # Calibration
        /\ r.state # AdvModeSample
    BY <1>5, StatesDiffer DEF Filling, SimpleModeSample, AdvModeSample, AdvModeSampleStarted
  <2>2. r.writing = r.primary /\ r.primary \in Given
    BY <1>1, <1>3, <2>1 DEF Writes, Fits
  <2>3. more = Append(r.full, cut) /\ ended = {"END"} /\ filled = n
    BY <1>4, <2>2
  <2>4. Fits(y)
    BY <1>1, <1>2 DEF Fits
  <2>5. "END" \in y.events /\ "STOPPED" \in y.events
    BY <1>2, <2>3
  <2>6. Writes(y, a, y.events)
    BY <1>2, <2>1, <2>5 DEF Writes
  <2>7. Ordered(y, a, y.events)
    <3>1. Owed(y, y.events) /\ ~Owed(r, r.events)
      BY <1>2, <1>3, <1>5, <2>5 DEF Owed
    <3>2. Due(y, y.events) = cut
      BY <1>2, <2>2, <2>3, <2>5 DEF Due
    <3>3. /\ r.full \in Seq(Buffers) /\ y.full = Append(r.full, cut)
          /\ Len(r.full) = Len(a.done)
          /\ \A i \in 1 .. Len(a.done) : a.done[i] = r.full[i]
      BY <1>1, <1>2, <2>3, <3>1 DEF Ordered, Adc
    <3> HIDE DEF cut
    <3>4. /\ Len(y.full) = Len(a.done) + 1
          /\ \A i \in 1 .. Len(a.done) : a.done[i] = y.full[i]
          /\ y.full[Len(y.full)] = cut
      BY <3>3
    <3>5. QED
      BY <3>1, <3>2, <3>4 DEF Ordered
  <2>8. (Advanced(y) => y.startOnEnd) /\ Reports(y)
    BY <1>1, <1>2 DEF Advanced, Reports
  <2>9. QED
    BY <1>1, <2>4, <2>6, <2>7, <2>8, AnyChain
<1>6. ASSUME r.state \notin Filling PROVE Chain(y, a, y.events)
  <2>1. r.state # AdvModeSample
    BY <1>1, <1>3, StatesDiffer DEF Calm, Writes
  <2>2. r.state \notin SamplingStates
    BY <1>6, <2>1 DEF SamplingStates, Filling
  <2>3. r.writing \in {NoBuffer, CalibSamples}
    BY <1>1, <2>2 DEF Sound, Quiet, Writes, Adc, States
  <2>4. y.full = r.full
    BY <1>2, <2>3
  <2>5. Fits(y) /\ Writes(y, a, y.events)
    BY <1>1, <1>2, <1>6, <2>1, <2>2 DEF Fits, Writes
  <2>6. Ordered(y, a, y.events)
    BY <1>1, <1>2, <1>6, <2>4 DEF Ordered, Owed
  <2>7. (Advanced(y) => y.startOnEnd) /\ Reports(y)
    BY <1>1, <1>2 DEF Advanced, Reports
  <2>8. QED
    BY <1>1, <2>5, <2>6, <2>7, AnyChain
<1>7. CASE ~(IF r.state = Calibration THEN r.calibHandler ELSE r.handler)
  <2>1. r.state = Idle /\ ~r.sampling /\ ~Owed(r, r.events)
    BY <1>1, <1>7, StatesDiffer DEF Sound, Calibrates, Listens, Reports, Adc, States, IdleStates,
       Writes, Owed, Filling, Idle, SimpleModeSample, AdvModeSampleStarted
  <2>2. dropped \in Adc
    BY <1>1, BufferTypes DEF Adc
  <2>3. /\ dropped.state = Idle /\ ~dropped.sampling /\ dropped.full = r.full
        /\ dropped.primary = NoBuffer /\ dropped.secondary = NoBuffer
    BY <1>1, <2>1 DEF Adc
  <2>4. nrfx_saadc_abort(r, n) = dropped
    BY <1>7 DEF nrfx_saadc_abort
  <2> HIDE DEF dropped
  <2>5. Idle \in IdleStates /\ Idle \notin {SimpleMode, AdvMode}
    BY DEF Idle, IdleStates, SimpleMode, AdvMode
  <2>6. Chain(dropped, a, dropped.events)
    BY <1>1, <2>1, <2>2, <2>3, <2>5, IdleChain
  <2>7. QED
    BY <2>4, <2>6
<1>8. (IF r.state = Calibration THEN r.calibHandler ELSE r.handler) => nrfx_saadc_abort(r, n) = y
  BY DEF nrfx_saadc_abort, y
<1>9. QED
  BY <1>5, <1>6, <1>7, <1>8

LEMMA UninitChain ==
  ASSUME program = "any", NEW r, NEW a, Sound(r), Calm(r), Chain(r, a, r.events),
         r.state # "UNINITIALIZED", NEW n \in Nat
  PROVE  LET y == nrfx_saadc_uninit(r, n) IN Chain(y, a, y.events)
<1> DEFINE x == nrfx_saadc_abort(r, n)
           y == [Disable(x) EXCEPT !.ints = {}, !.state = "UNINITIALIZED", !.full = r.full]
<1>1. Sound(x) /\ x \in Adc
  BY AbortSound DEF Sound
<1>2. Chain(x, a, x.events)
  BY AbortChain
<1> HIDE DEF x
<1>3. /\ y.state = "UNINITIALIZED" /\ ~y.sampling /\ y.full = r.full
      /\ y.primary = x.primary /\ y.secondary = x.secondary
  BY <1>1 DEF Disable, Adc
<1>4. /\ r.full \in Seq(Buffers) /\ "UNINITIALIZED" \in States /\ NoBuffer \in Buffers
  BY BufferTypes, StatesDiffer DEF Sound, Adc
<1>5. y \in Adc
  BY <1>1, <1>4 DEF Disable, Adc
<1>6. Fits(x) /\ r \in Adc /\ ~Owed(r, r.events)
  BY <1>1, <1>2, StatesDiffer DEF Chain, Sound, Calm, Owed, Served
<1>7. nrfx_saadc_uninit(r, n) = y
  BY DEF nrfx_saadc_uninit, x
<1> HIDE DEF y
<1>8. "UNINITIALIZED" \notin {SimpleMode, AdvMode}
  BY DEF SimpleMode, AdvMode
<1>9. Chain(y, a, y.events)
  BY <1>3, <1>5, <1>6, <1>8, IdleChain DEF Fits
<1>10. QED
  BY <1>7, <1>9

LEMMA CallChain ==
  ASSUME ChainInv, NEW r, Chain(r, app, r.events), Call(r)
  PROVE  Linked'
<1>1. AppAlike(app, [app EXCEPT !.count = @ + 1]) /\ program = "any"
  BY DEF ChainInv, SaadcInv, Whole, Work, App, Call, AppAlike
<1>2. Chain(r, [app EXCEPT !.count = @ + 1], r.events)
  BY <1>1, AppChain
<1>3. Chain(adc', app', adc'.events)
  BY <1>2 DEF Call
<1>4. QED
  BY <1>3, LinkedWhen DEF Call

LEMMA AnyCallChain ==
  ASSUME ChainInv, AnyCall
  PROVE  Linked'
<1>1. Sound(adc) /\ Served(adc) /\ Calm(adc) /\ Chain(adc, app, adc.events) /\ program = "any"
      /\ adc \in Adc
  <2>1. ~Pending /\ program = "any"
    BY DEF AnyCall, Call
  <2>2. QED
    BY <2>1, ServedWhenQuiet, CalmWhenQuiet DEF ChainInv, SaadcInv, Linked, Sound
<1>2. CASE Call(nrfx_saadc_init(adc))
  BY <1>1, <1>2, InitChain, CallChain
<1>3. CASE Call(nrfx_saadc_channel_config(adc, 0))
  BY <1>1, <1>3, ChannelChain, CallChain
<1>4. CASE Call(nrfx_saadc_simple_mode_set(adc, {0}, TRUE))
  BY <1>1, <1>4, ModeChain, CallChain
<1>5. CASE Call(nrfx_saadc_advanced_mode_set(adc, {0}, [timer |-> TRUE, startOnEnd |-> TRUE],
                                             TRUE))
  BY <1>1, <1>5, ModeChain, CallChain
<1>6. CASE /\ adc.state # "UNINITIALIZED"
           /\ Call(nrfx_saadc_buffer_set(adc, [Buffer(0) EXCEPT !.len = 1]))
  <2>1. [Buffer(0) EXCEPT !.len = 1] \in Given
    BY GivenBuffers DEF Channels
  <2>2. "END" \notin adc.events
    BY <1>1, <1>6 DEF Served
  <2>3. nrfx_saadc_buffer_set(adc, [Buffer(0) EXCEPT !.len = 1]).events = adc.events
    BY <1>1, <2>1, BufferSetTaken DEF Chain
  <2>4. QED
    BY <1>1, <1>6, <2>1, <2>2, <2>3, BufferSetChain, CallChain
<1>7. CASE adc.state \notin {"UNINITIALIZED", Idle} /\ Call(nrfx_saadc_mode_trigger(adc))
  BY <1>1, <1>7, TriggerChain, CallChain
<1>8. CASE Call(nrfx_saadc_offset_calibrate(adc, TRUE))
  BY <1>1, <1>8, CalibrateChain, CallChain
<1>9. CASE \E on \in {{}, {"LOW"}} : Call(nrfx_saadc_limits_set(adc, on))
  BY <1>1, <1>9, LimitsChain, CallChain
<1>10. CASE /\ adc.state # "UNINITIALIZED"
            /\ \E n \in 0 .. 1 : Call(nrfx_saadc_abort(adc, n)) \/ Call(nrfx_saadc_uninit(adc, n))
  BY <1>1, <1>10, AbortChain, UninitChain, CallChain
<1>11. QED
  BY <1>2, <1>3, <1>4, <1>5, <1>6, <1>7, <1>8, <1>9, <1>10 DEF AnyCall

-----------------------------------------------------------------------------
(* The examples, between interrupts.                                       *)
LEMMA AssertedKept ==
  ASSUME NEW x \in Work, NEW r \in Adc, r.err = "SUCCESS"
  PROVE  Asserted(x, r) \in Work /\ Asserted(x, r).adc = r /\ Asserted(x, r).app = x.app
<1>1. x.app \in App /\ x.app.failed \in BOOLEAN
  BY DEF Work, App
<1>2. Asserted(x, r).app = [x.app EXCEPT !.failed = @ \/ FALSE]
  BY DEF Asserted, Work
<1>3. [x.app EXCEPT !.failed = @ \/ FALSE] = x.app
  BY <1>1 DEF App
<1>4. QED
  BY <1>2, <1>3, AssertedSound

LEMMA TwoChannels ==
  Cardinality({0}) = 1 /\ Cardinality(Channels) = 2
<1>1. IsFiniteSet({0}) /\ Cardinality({0}) = 1
  BY FS_Singleton
<1>2. Cardinality({0} \cup {1}) = Cardinality({0}) + 1
  BY <1>1, FS_AddElement
<1>3. Channels = {0} \cup {1}
  BY DEF Channels
<1>4. QED
  BY <1>1, <1>2, <1>3

(* Configuring an idle driver succeeds at every call, and readies a mode.  *)
Ready(r, chs, b, y) ==
  /\ y \in Adc /\ y.err = "SUCCESS" /\ y.state = Mode /\ y.handler = (program \notin Blocking)
  /\ y.ints = (IF program \in Blocking THEN {} ELSE Conversions)
  /\ y.configured = chs /\ y.activated = chs /\ y.limits = {}
  /\ ~y.sampling /\ y.full = r.full /\ y.events = r.events \ {"STOPPED"}
  /\ program \notin Simple => y.startOnEnd = (program = "internal_timer")

LEMMA ModeSetReady ==
  ASSUME NEW r \in Adc, ~saadc_busy_check(r), program \in Programs, program # "any",
         NEW chs, chs = {0} \/ (chs = Channels /\ program \in Simple), r.configured = chs
  PROVE  /\ Ready(r, chs, NoBuffer, ModeSet(r, r.configured))
         /\ ModeSet(r, r.configured).primary = NoBuffer
         /\ ModeSet(r, r.configured).secondary = NoBuffer
<1> DEFINE handler == program \notin Blocking
           ints == IF handler THEN Conversions ELSE {}
           g == saadc_generic_mode_set(r, chs, handler)
           s == [g EXCEPT !.state = SimpleMode, !.err = "SUCCESS"]
           on == program = "internal_timer"
           m == [g EXCEPT !.state = AdvMode, !.timer = on, !.startOnEnd = on, !.err = "SUCCESS"]
<1>1. chs \subseteq Channels /\ NoBuffer \in Buffers
  BY BufferTypes DEF Channels
<1>2. /\ g \in Adc /\ g.primary = NoBuffer /\ g.secondary = NoBuffer /\ ~g.sampling
      /\ g.full = r.full /\ g.handler = handler /\ g.configured = chs /\ g.activated = chs
      /\ g.limits = {} /\ g.events = r.events \ {"STOPPED"}
      /\ g.ints = ints
  <2>1. ints \in SUBSET Interrupts /\ handler \in BOOLEAN
    BY DEF Interrupts
  <2>2. g = [r EXCEPT !.limits = {}, !.primary = NoBuffer, !.secondary = NoBuffer,
                      !.handler = handler, !.activated = chs, !.converted = 0,
                      !.writing = NoBuffer, !.sampling = FALSE, !.events = @ \ {"STOPPED"},
                      !.ints = ints]
    BY DEF saadc_generic_mode_set
  <2> HIDE DEF g, ints, handler
  <2>3. r.events \ {"STOPPED"} \in SUBSET Interrupts
    BY DEF Adc
  <2>4. QED
    BY <1>1, <2>1, <2>2, <2>3 DEF Adc
<1> HIDE DEF g
<1> {SimpleMode, AdvMode} \subseteq States /\ "SUCCESS" \in Errors
  BY StatesDiffer DEF Errors
<1>3. ASSUME program \in Simple
      PROVE  /\ Ready(r, chs, NoBuffer, ModeSet(r, r.configured))
             /\ ModeSet(r, r.configured).primary = NoBuffer
             /\ ModeSet(r, r.configured).secondary = NoBuffer
  <2>1. ModeSet(r, r.configured) = s
    BY <1>3 DEF ModeSet, nrfx_saadc_simple_mode_set, g
  <2>2. /\ s \in Adc /\ s.primary = NoBuffer /\ s.secondary = NoBuffer /\ ~s.sampling
        /\ s.full = r.full /\ s.handler = handler /\ s.configured = chs /\ s.activated = chs
        /\ s.limits = {} /\ s.events = r.events \ {"STOPPED"} /\ s.ints = g.ints
        /\ s.state = SimpleMode /\ s.err = "SUCCESS"
    <3> HIDE DEF handler, ints
    <3>1. QED
      BY <1>2 DEF Adc
  <2> HIDE DEF s
  <2>3. QED
    BY <1>2, <1>3, <2>1, <2>2 DEF Ready, Mode
<1>4. ASSUME program \notin Simple
      PROVE  /\ Ready(r, chs, NoBuffer, ModeSet(r, r.configured))
             /\ ModeSet(r, r.configured).primary = NoBuffer
             /\ ModeSet(r, r.configured).secondary = NoBuffer
  <2>1. /\ AdvConfig = [timer |-> on, startOnEnd |-> on]
        /\ AdvConfig.timer = on /\ AdvConfig.startOnEnd = on
    BY DEF AdvConfig
  <2>2. ~(AdvConfig.timer /\ (Cardinality(chs) > 1 \/ ~handler))
    <3>1. on => handler
      BY DEF Blocking
    <3>2. chs = {0} /\ ~(Cardinality(chs) > 1)
      BY <1>4, TwoChannels
    <3>3. QED
      BY <2>1, <3>1, <3>2
  <2>3. ModeSet(r, r.configured) = m
    BY <1>4, <2>1, <2>2 DEF ModeSet, nrfx_saadc_advanced_mode_set, g
  <2> on \in BOOLEAN
    OBVIOUS
  <2> HIDE DEF on
  <2>4. /\ m \in Adc /\ m.primary = NoBuffer /\ m.secondary = NoBuffer /\ ~m.sampling
        /\ m.full = r.full /\ m.handler = handler /\ m.configured = chs /\ m.activated = chs
        /\ m.limits = {} /\ m.events = r.events \ {"STOPPED"} /\ m.ints = g.ints
        /\ m.state = AdvMode /\ m.err = "SUCCESS" /\ m.startOnEnd = on
    <3> HIDE DEF handler, ints
    <3>1. QED
      BY <1>2 DEF Adc
  <2> HIDE DEF m
  <2>5. QED
    BY <1>2, <1>4, <2>3, <2>4 DEF Ready, Mode, on
<1>5. QED
  BY <1>3, <1>4

LEMMA ChannelsReady ==
  ASSUME NEW r \in Adc, ~saadc_busy_check(r), NEW chs, chs \in {{0}, Channels},
         chs = {0} => r.configured \subseteq {0}
  PROVE  LET c == IF Cardinality(chs) = 1 THEN nrfx_saadc_channel_config(r, 0)
                  ELSE nrfx_saadc_channels_config(r, chs)
         IN  /\ c \in Adc /\ c.err = "SUCCESS" /\ c.configured = chs /\ c.state = r.state
             /\ c.full = r.full /\ c.events = r.events
<1> DEFINE one == Return(saadc_channel_config(r, 0), "SUCCESS")
           all == Return([saadc_channels_deconfig(r, r.configured) EXCEPT !.configured = chs],
                         "SUCCESS")
<1>1. chs \in SUBSET Channels /\ "SUCCESS" \in Errors /\ 0 \in Channels
  BY DEF Channels, Errors
<1>2. /\ one \in Adc /\ one.err = "SUCCESS" /\ one.configured = r.configured \cup {0}
      /\ one.state = r.state /\ one.full = r.full /\ one.events = r.events
  BY <1>1 DEF Adc, Return, saadc_channel_config
<1>3. /\ all \in Adc /\ all.err = "SUCCESS" /\ all.configured = chs
      /\ all.state = r.state /\ all.full = r.full /\ all.events = r.events
  BY <1>1 DEF Adc, Return, saadc_channels_deconfig
<1>4. nrfx_saadc_channel_config(r, 0) = one /\ nrfx_saadc_channels_config(r, chs) = all
  BY DEF nrfx_saadc_channel_config, nrfx_saadc_channels_config
<1>5. Cardinality(chs) = 1 <=> chs = {0}
  <2>1. Channels # {0}
    BY DEF Channels
  <2>2. QED
    BY <2>1, TwoChannels
<1> HIDE DEF one, all
<1>6. QED
  BY <1>2, <1>3, <1>4, <1>5

LEMMA ConfigureReady ==
  ASSUME NEW x \in Work, ~saadc_busy_check(x.adc), program \in Programs, program # "any",
         NEW chs, chs = {0} \/ (chs = Channels /\ program \in Simple),
         chs = {0} => x.adc.configured \subseteq {0},
         NEW b \in Given, b.len \in {1, 2},
         program \in Simple => b.len = Cardinality(chs)
  PROVE  LET y == Configure(x, chs, b)
         IN  /\ y \in Work /\ y.app = x.app /\ Ready(x.adc, chs, b, y.adc)
             /\ y.adc.primary = b /\ y.adc.secondary = NoBuffer
<1> DEFINE c == IF Cardinality(chs) = 1 THEN nrfx_saadc_channel_config(x.adc, 0)
                ELSE nrfx_saadc_channels_config(x.adc, chs)
           y == Asserted(x, c)
           m == ModeSet(y.adc, y.adc.configured)
           z == Asserted(y, m)
           s == nrfx_saadc_buffer_set(z.adc, b)
           w == Asserted(z, s)
<1>1. /\ c \in Adc /\ c.err = "SUCCESS" /\ c.configured = chs /\ c.state = x.adc.state
      /\ c.full = x.adc.full /\ c.events = x.adc.events
  BY ChannelsReady DEF Work
<1> HIDE DEF c
<1>2. y \in Work /\ y.adc = c /\ y.app = x.app
  BY <1>1, AssertedKept
<1> HIDE DEF y
<1>3. ~saadc_busy_check(y.adc)
  BY <1>1, <1>2 DEF saadc_busy_check
<1>4. Ready(y.adc, chs, NoBuffer, m) /\ m.primary = NoBuffer /\ m.secondary = NoBuffer
  BY <1>1, <1>2, <1>3, ModeSetReady
<1> HIDE DEF m
<1>5. z \in Work /\ z.adc = m /\ z.app = x.app
  BY <1>2, <1>4, AssertedKept DEF Ready
<1> HIDE DEF z
<1>6. Cardinality(chs) \in {1, 2} /\ (Cardinality(chs) = 1 \/ b.len = Cardinality(chs))
  BY TwoChannels
<1>7. ~InvalidLength(m, b)
  <2>1. m.activated = chs /\ m.state = Mode
    BY <1>4 DEF Ready
  <2>2. m.state = SimpleMode => program \in Simple
    BY <2>1 DEF Mode, SimpleMode, AdvMode
  <2> DEFINE k == Cardinality(chs)
  <2>3. k \in {1, 2} /\ (k = 1 \/ b.len = k)
    BY <1>6
  <2> HIDE DEF k
  <2>4. b.len # 0 /\ b.len % k = 0
    BY <2>3
  <2>5. QED
    BY <2>1, <2>2, <2>4 DEF InvalidLength, k
<1>8. s = [m EXCEPT !.primary = b, !.err = "SUCCESS"]
  <2>1. m.state \in {SimpleMode, AdvMode} /\ AdvMode # AdvModeSampleStarted
    BY <1>4 DEF Ready, Mode, AdvMode, AdvModeSampleStarted
  <2>2. QED
    BY <1>4, <1>5, <1>7, <2>1 DEF nrfx_saadc_buffer_set
<1>9. /\ Ready(x.adc, chs, b, s) /\ s.primary = b /\ s.secondary = NoBuffer
  <2>1. b \in Buffers /\ "SUCCESS" \in Errors
    BY DEF Given, Buffers, Errors
  <2>2. m \in Adc
    BY <1>4 DEF Ready
  <2>3. /\ s \in Adc /\ s.primary = b /\ s.secondary = m.secondary /\ s.err = "SUCCESS"
        /\ s.state = m.state /\ s.handler = m.handler /\ s.ints = m.ints
        /\ s.configured = m.configured /\ s.activated = m.activated /\ s.limits = m.limits
        /\ s.sampling = m.sampling /\ s.full = m.full /\ s.events = m.events
        /\ s.startOnEnd = m.startOnEnd
    BY <1>8, <2>1, <2>2 DEF Adc
  <2> HIDE DEF s
  <2>4. QED
    BY <1>1, <1>2, <1>4, <2>3 DEF Ready
<1> HIDE DEF s
<1>10. w \in Work /\ w.adc = s /\ w.app = x.app
  BY <1>5, <1>9, AssertedKept DEF Ready
<1>11. Configure(x, chs, b) = w
  BY DEF Configure, w, s, z, m, y, c
<1>12. QED
  BY <1>9, <1>10, <1>11

LEMMA Modes ==
  /\ Mode \in {SimpleMode, AdvMode} /\ Mode \in IdleStates /\ Mode \notin Filling
  /\ Mode \notin SamplingStates \cup {Calibration, AdvModeSample, AdvModeSampleStarted}
  /\ Mode = AdvMode <=> program \notin Simple
  /\ Simple \cap Streaming = {} /\ Blocking \cap Streaming = {}
  /\ "any" \notin Simple \cup Streaming \cup Blocking
  /\ Programs \ {"any"} = Blocking \cup Streaming \cup {"simple_non_blocking"}
  /\ Simple = {"simple_blocking", "simple_non_blocking"}
  BY StatesDiffer DEF Mode, SimpleMode, AdvMode, IdleStates, Filling, Simple, Streaming, Blocking,
     Programs, Calibration, AdvModeSample, AdvModeSampleStarted

Resumed(a, c) ==
  /\ c.pc \in {"single", "multiple"} /\ (program \in Streaming => c.pc = "single")
  /\ c.done = a.done /\ c.startOnEnd = a.startOnEnd /\ c.failed = a.failed
  /\ c.requests = a.requests

LEMMA ReadyChain ==
  ASSUME program \in Programs, program # "any", NEW r, NEW a, NEW E, Chain(r, a, E), ~Owed(r, E),
         NEW chs, NEW b \in Given, NEW q, q.full = r.full, NEW y, Ready(q, chs, b, y),
         y.primary = b, y.secondary = NoBuffer,
         chs = {0} \/ (chs = Channels /\ program \in Simple),
         program = "advanced_blocking" => b = Buffer(0),
         NEW c, Resumed(a, c)
  PROVE  Chain(y, c, y.events)
<1>1. /\ y.state = Mode /\ y.handler = (program \notin Blocking) /\ ~y.sampling /\ y.full = r.full
      /\ y.ints = (IF program \in Blocking THEN {} ELSE Conversions)
      /\ y.configured = chs /\ y.activated = chs /\ y.limits = {} /\ "STOPPED" \notin y.events
      /\ program \notin Simple => y.startOnEnd = (program = "internal_timer")
  BY DEF Ready
<1>2. NoBuffer \notin Given
  BY GivenBuffers
<1>3. Fits(y) /\ Writes(y, c, y.events)
  BY <1>1, <1>2, Modes DEF Fits, Writes
<1>4. Ordered(y, c, y.events)
  BY <1>1, Modes DEF Chain, Ordered, Owed, Resumed
<1>5. Chained(y, c)
  BY <1>1, Modes DEF Chain, Chained, Advanced, Resumed
<1>6. Running(y, c, y.events)
  BY <1>1, <1>2, Modes DEF Running, Resumed
<1>7. QED
  BY <1>3, <1>4, <1>5, <1>6 DEF Chain, Example, Resumed

LEMMA StepLinked ==
  ASSUME NEW x \in Work, Step(x), Chain(x.adc, x.app, x.adc.events)
  PROVE  Linked'
  BY LinkedWhen DEF Step

(* What the state says of an example between interrupts.                   *)
LEMMA ExampleFacts ==
  ASSUME ChainInv, program # "any", app.pc # "init"
  PROVE  /\ Whole \in Work /\ Whole.adc = adc /\ Whole.app = app /\ adc \in Adc /\ app \in App
         /\ Running(adc, app, adc.events) /\ Chain(adc, app, adc.events)
  BY DEF ChainInv, SaadcInv, Linked, Chain, Example, Whole, Work

LEMMA StartChain ==
  ASSUME ChainInv, StartProgram
  PROVE  Linked'
<1> program \in Programs
  BY DEF ChainInv
<1> DEFINE r == nrfx_saadc_init(adc)
           i == [saadc_channels_deconfig(adc, adc.configured)
                   EXCEPT !.state = Idle, !.handler = FALSE, !.ints = {},
                          !.events = {}, !.err = "SUCCESS"]
           x == Asserted(Whole, r)
           b == [Buffer(0) EXCEPT !.len = IF program \in Simple THEN 1 ELSE 2]
           y == Configure(x, {0}, b)
           z == [y EXCEPT !.app.pc = "single"]
<1>1. /\ app.pc = "init" /\ program # "any" /\ adc = PowerOn /\ Chain(adc, app, adc.events)
      /\ Whole \in Work /\ Whole.adc = adc /\ Whole.app = app /\ adc \in Adc
  BY DEF StartProgram, ChainInv, SaadcInv, Linked, Chain, Example, Whole, Work
<1>2. /\ r \in Adc /\ r.err = "SUCCESS" /\ r.state = Idle /\ r.configured = {}
      /\ r.full = adc.full /\ r.events = {}
  <2>1. PowerOn.state = "UNINITIALIZED" /\ PowerOn.configured = {}
    BY DEF PowerOn
  <2>2. r = i
    BY <1>1, <2>1 DEF nrfx_saadc_init
  <2>3. Idle \in States /\ "SUCCESS" \in Errors
    BY DEF States, IdleStates, Errors
  <2>4. /\ i \in Adc /\ i.err = "SUCCESS" /\ i.state = Idle /\ i.full = adc.full /\ i.events = {}
        /\ i.configured = adc.configured \ adc.configured
    BY <1>1, <2>3 DEF saadc_channels_deconfig, Adc
  <2> HIDE DEF i, r
  <2>5. QED
    BY <1>1, <2>1, <2>2, <2>4
<1> HIDE DEF r
<1>3. x \in Work /\ x.adc = r /\ x.app = app
  BY <1>1, <1>2, AssertedKept
<1> HIDE DEF x
<1>4. /\ b \in Given /\ b.len = (IF program \in Simple THEN 1 ELSE 2)
      /\ program = "advanced_blocking" => b = Buffer(0)
  <2>1. \A n \in {1, 2} : [Buffer(0) EXCEPT !.len = n] = [name |-> "first", len |-> n]
    BY DEF Buffer
  <2>2. Buffer(0) = [name |-> "first", len |-> 2]
    BY DEF Buffer
  <2>3. b = [name |-> "first", len |-> IF program \in Simple THEN 1 ELSE 2]
    BY <2>1
  <2> HIDE DEF b
  <2>4. "advanced_blocking" \notin Simple
    BY DEF Simple
  <2>5. QED
    BY <2>2, <2>3, <2>4 DEF Given
<1> HIDE DEF b
<1>5. ~saadc_busy_check(x.adc)
  BY <1>2, <1>3 DEF saadc_busy_check
<1>6. /\ y \in Work /\ y.app = app /\ Ready(r, {0}, b, y.adc)
      /\ y.adc.primary = b /\ y.adc.secondary = NoBuffer
  <2>1. b.len \in {1, 2} /\ (program \in Simple => b.len = Cardinality({0}))
    BY <1>4, TwoChannels
  <2>2. QED
    BY <1>1, <1>2, <1>3, <1>4, <1>5, <2>1, ConfigureReady
<1> HIDE DEF y
<1>7. /\ z \in Work /\ z.adc = y.adc /\ z.app = [app EXCEPT !.pc = "single"]
      /\ z.app.pc = "single" /\ z.app.done = app.done /\ z.app.startOnEnd = app.startOnEnd
      /\ z.app.failed = app.failed /\ z.app.requests = app.requests
  BY <1>6 DEF Work, App
<1> HIDE DEF z
<1>8. Chain(z.adc, z.app, z.adc.events)
  <2>1. ~Owed(adc, adc.events)
    BY <1>1 DEF PowerOn, Owed
  <2>2. /\ Ready(r, {0}, b, z.adc) /\ z.adc.primary = b /\ z.adc.secondary = NoBuffer
        /\ r.full = adc.full
    BY <1>2, <1>6, <1>7
  <2>3. Resumed(app, z.app)
    BY <1>7 DEF Resumed
  <2>4. QED
    BY <1>1, <1>4, <1>7, <2>1, <2>2, <2>3, ReadyChain
<1>9. QED
  BY <1>7, <1>8, StepLinked DEF StartProgram, z, y, x, r, b

LEMMA MultipleChain ==
  ASSUME ChainInv, MultipleConfig
  PROVE  Linked'
<1> program \in Programs
  BY DEF ChainInv
<1> DEFINE x == [Whole EXCEPT !.app.count = 0]
           y == Configure(x, Channels, Buffer(0))
           z == [y EXCEPT !.app.pc = "multiple"]
<1>1. app.pc = "single" /\ program \in Simple /\ app.ready /\ program # "any" /\ app.pc # "init"
  BY DEF MultipleConfig, Simple
<1>2. /\ Whole \in Work /\ Whole.adc = adc /\ Whole.app = app /\ adc \in Adc
      /\ Running(adc, app, adc.events) /\ Chain(adc, app, adc.events)
  BY <1>1, ExampleFacts
<1>3. adc.state = Mode /\ ~saadc_busy_check(adc) /\ ~Owed(adc, adc.events)
  <2>1. adc.state = Mode
    BY <1>1, <1>2, Modes DEF Running, Mode
  <2>2. QED
    BY <2>1, Modes DEF Owed, saadc_busy_check
<1>4. x \in Work /\ x.adc = adc /\ x.app = [app EXCEPT !.count = 0]
  BY <1>2 DEF Work, App
<1> HIDE DEF x
<1>5. /\ Buffer(0) \in Given /\ Buffer(0).len = 2 /\ Channels # {0}
      /\ Cardinality(Channels) = 2
  BY GivenBuffers, TwoChannels DEF Buffer, Channels
<1>6. /\ y \in Work /\ y.app = x.app /\ Ready(adc, Channels, Buffer(0), y.adc)
      /\ y.adc.primary = Buffer(0) /\ y.adc.secondary = NoBuffer
  <2>1. Buffer(0).len \in {1, 2} /\ Buffer(0).len = Cardinality(Channels)
    BY <1>5
  <2>2. QED
    BY <1>1, <1>3, <1>4, <1>5, <2>1, ConfigureReady
<1> HIDE DEF y
<1>7. /\ z \in Work /\ z.adc = y.adc /\ Resumed(app, z.app)
  <2>1. z \in Work /\ z.adc = y.adc /\ z.app = [y.app EXCEPT !.pc = "multiple"]
    BY <1>6 DEF Work, App
  <2>2. Resumed(app, [[app EXCEPT !.count = 0] EXCEPT !.pc = "multiple"])
    BY <1>1, <1>2, Modes DEF Resumed, Work, App
  <2>3. QED
    BY <1>4, <1>6, <2>1, <2>2
<1> HIDE DEF z
<1>8. Chain(z.adc, z.app, z.adc.events)
  <2>1. /\ Ready(adc, Channels, Buffer(0), z.adc) /\ z.adc.primary = Buffer(0)
        /\ z.adc.secondary = NoBuffer
    BY <1>6, <1>7
  <2>2. QED
    BY <1>1, <1>2, <1>3, <1>5, <1>7, <2>1, ReadyChain
<1>9. QED
  BY <1>7, <1>8, StepLinked DEF MultipleConfig, z, y, x

(* A sample starts with a calibration: reported by an interrupt, or over   *)
(* when the call returns.                                                  *)
LEMMA SampleChain ==
  ASSUME ChainInv, ~Pending, SampleOnce
  PROVE  Linked'
<1> program \in Programs
  BY DEF ChainInv
<1> DEFINE r == nrfx_saadc_offset_calibrate(adc, program \notin Blocking)
           x == Asserted(Whole, r)
           y == [x EXCEPT !.app.pc = "trigger", !.app.after = app.pc]
           z == [x EXCEPT !.app.ready = FALSE, !.app.count = @ + 1]
           told == [adc EXCEPT !.prev = adc.state, !.state = Calibration, !.calibHandler = TRUE,
                               !.calibrating = TRUE, !.err = "SUCCESS",
                               !.ints = Conversions \cup {"CALIBRATEDONE"}]
           awaited == [adc EXCEPT !.prev = adc.state, !.calibHandler = FALSE,
                                  !.ptr = CalibSamples, !.amount = 0,
                                  !.events = @ \ {"END", "LOW", "HIGH"}, !.err = "SUCCESS"]
<1>1. /\ app.pc \in {"single", "multiple"} /\ program # "any" /\ app.ready /\ app.pc # "init"
      /\ program \in Streaming => app.count < 1
  BY DEF SampleOnce
<1>2. /\ Whole \in Work /\ Whole.adc = adc /\ Whole.app = app /\ adc \in Adc /\ app \in App
      /\ Running(adc, app, adc.events) /\ Chain(adc, app, adc.events) /\ Sound(adc)
  BY <1>1, ExampleFacts DEF ChainInv, SaadcInv
<1>3. adc.state = Mode /\ ~saadc_busy_check(adc) /\ ~Owed(adc, adc.events) /\ adc.primary # NoBuffer
  <2>1. adc.state = Mode
    <3>1. program \in Streaming => app.count = 0
      BY <1>1, <1>2 DEF App
    <3>2. QED
      BY <1>1, <1>2, <3>1, Modes DEF Running, Mode
  <2>2. ~saadc_busy_check(adc) /\ ~Owed(adc, adc.events)
    BY <2>1, Modes DEF Owed, saadc_busy_check
  <2>3. adc.primary # NoBuffer
    <3>1. program \in Streaming => app.count = 0
      BY <1>1, <1>2 DEF App
    <3>2. program \in Simple \cup Blocking \cup Streaming
      BY <1>1, Modes
    <3>3. QED
      BY <1>2, <3>1, <3>2 DEF Running
  <2>4. QED
    BY <2>1, <2>2, <2>3
<1>4. CASE program \in Blocking
  <2>1. r = awaited
    BY <1>3, <1>4 DEF nrfx_saadc_offset_calibrate
  <2>2. /\ awaited \in Adc /\ awaited.err = "SUCCESS" /\ awaited.state = adc.state
        /\ awaited.primary = adc.primary /\ awaited.secondary = adc.secondary
        /\ awaited.sampling = adc.sampling /\ awaited.full = adc.full
        /\ awaited.startOnEnd = adc.startOnEnd /\ awaited.handler = adc.handler
        /\ SetAlike(adc, awaited) /\ awaited.events \subseteq adc.events
    <3>1. /\ "SUCCESS" \in Errors /\ CalibSamples \in Buffers /\ adc.state \in States
          /\ adc.events \ {"END", "LOW", "HIGH"} \in SUBSET Interrupts
      BY <1>2, BufferTypes DEF Errors, Adc
    <3>2. QED
      BY <1>2, <3>1 DEF Adc, SetAlike
  <2> HIDE DEF awaited, r
  <2>3. x \in Work /\ x.adc = r /\ x.app = app
    BY <1>2, <2>1, <2>2, AssertedKept
  <2> HIDE DEF x
  <2>4. /\ y \in Work /\ y.adc = r
        /\ y.app = [app EXCEPT !.pc = "trigger", !.after = app.pc]
    BY <1>1, <1>2, <2>3 DEF Work, App
  <2> DEFINE c == [app EXCEPT !.pc = "trigger", !.after = app.pc]
  <2>5. /\ c.pc = "trigger" /\ c.done = app.done /\ c.startOnEnd = app.startOnEnd
        /\ c.failed = app.failed /\ c.requests = app.requests
        /\ c.ready = app.ready /\ c.count = app.count
    BY <1>2 DEF App
  <2> HIDE DEF c
  <2>6. Fits(r) /\ Writes(r, c, r.events)
    BY <1>2, <1>3, <2>1, <2>2, Modes DEF Chain, Fits, Writes
  <2>7. Ordered(r, c, r.events)
    BY <1>2, <1>3, <2>1, <2>2, <2>5 DEF Chain, Ordered, Owed
  <2>8. Chained(r, c)
    BY <1>2, <1>3, <1>4, <2>1, <2>2, <2>5, Modes DEF Chain, Chained, Advanced
  <2>9. Running(r, c, r.events)
    BY <1>2, <1>3, <1>4, <2>1, <2>2, <2>5, Modes DEF Running, SetAlike
  <2>10. Chain(r, c, r.events)
    BY <1>2, <2>5, <2>6, <2>7, <2>8, <2>9 DEF Chain, Example
  <2>11. Step(y)
    BY <1>4 DEF SampleOnce, y, x, r
  <2> HIDE DEF y
  <2>12. QED
    BY <2>4, <2>10, <2>11, StepLinked DEF c
<1>5. CASE program \notin Blocking
  <2> DEFINE ints == Conversions \cup {"CALIBRATEDONE"}
             set == [adc EXCEPT !.prev = adc.state, !.state = Calibration, !.calibHandler = TRUE,
                                !.calibrating = TRUE, !.err = "SUCCESS", !.ints = ints]
  <2>1. r = told
    BY <1>3, <1>5 DEF nrfx_saadc_offset_calibrate
  <2>2. /\ told \in Adc /\ told.err = "SUCCESS" /\ told.state = Calibration
        /\ told.prev = adc.state /\ told.writing = adc.writing
        /\ told.primary = adc.primary /\ told.secondary = adc.secondary
        /\ told.sampling = adc.sampling /\ told.full = adc.full
        /\ told.startOnEnd = adc.startOnEnd /\ told.handler = adc.handler
        /\ told.configured = adc.configured /\ told.activated = adc.activated
        /\ told.limits = adc.limits /\ told.events = adc.events
    <3>1. /\ ints \in SUBSET Interrupts /\ "SUCCESS" \in Errors /\ Calibration \in States
          /\ adc.state \in States
      BY <1>2, StatesDiffer DEF Interrupts, Errors, Adc
    <3>2. told = set
      OBVIOUS
    <3> HIDE DEF told, ints
    <3>3. QED
      BY <1>2, <3>1, <3>2 DEF Adc
  <2> HIDE DEF told, r
  <2>3. x \in Work /\ x.adc = r /\ x.app = app
    BY <1>2, <2>1, <2>2, AssertedKept
  <2> HIDE DEF x
  <2> DEFINE c == [app EXCEPT !.ready = FALSE, !.count = @ + 1]
  <2>4. z \in Work /\ z.adc = r /\ z.app = c
    <3> DEFINE n == x.app.count + 1
               d == [x.app EXCEPT !.ready = FALSE, !.count = n]
    <3>1. z = [x EXCEPT !.app = d]
      BY <2>3 DEF Work, App
    <3>2. d = c
      BY <2>3
    <3>3. c \in App
      <4>1. app \in App /\ app.count + 1 \in Nat
        BY <1>2 DEF App
      <4>2. QED
        BY <4>1 DEF App
    <3> HIDE DEF d, c, z
    <3>4. QED
      BY <2>3, <3>1, <3>2, <3>3 DEF Work
  <2>5. /\ c.pc = app.pc /\ c.done = app.done /\ c.startOnEnd = app.startOnEnd
        /\ c.failed = app.failed /\ c.requests = app.requests
        /\ ~c.ready /\ c.count # 0
    BY <1>2 DEF App
  <2> HIDE DEF c
  <2>6. Chain(adc, c, adc.events)
    <3>1. Writes(adc, c, adc.events) /\ Ordered(adc, c, adc.events) /\ Chained(adc, c)
      BY <1>2, <2>5 DEF Chain, Writes, Ordered, Chained
    <3>2. Running(adc, c, adc.events)
      BY <1>2, <2>5 DEF Running
    <3>3. QED
      BY <1>2, <2>5, <3>1, <3>2 DEF Chain, Example
  <2>7. "STARTED" \notin r.events /\ r.writing = NoBuffer /\ ~r.sampling
    <3>1. adc.state # "UNINITIALIZED" /\ adc.state \in IdleStates
      BY <1>3, Modes, StatesDiffer
    <3>2. Conversions \subseteq adc.ints
      BY <1>2, <1>5, <3>1 DEF Sound, Listens, Running
    <3>3. QED
      BY <1>2, <1>3, <2>1, <2>2, <3>1, <3>2, Modes DEF Pending, Conversions, Sound, Quiet,
         Chain, Writes
  <2>8. Chain(r, c, r.events)
    <3>1. /\ r.state = Calibration /\ r.prev = adc.state
          /\ adc.state \in {Idle, SimpleMode, AdvMode}
          /\ adc.state # Calibration
      BY <1>3, <2>1, <2>2, Modes DEF IdleStates
    <3>2. /\ r.primary = adc.primary /\ r.secondary = adc.secondary /\ r.full = adc.full
          /\ r.startOnEnd = adc.startOnEnd /\ r.handler = adc.handler
          /\ r.configured = adc.configured /\ r.activated = adc.activated /\ r.limits = adc.limits
      BY <2>1, <2>2
    <3>3. c.pc # "init" /\ (program = "simple_non_blocking" => ~c.ready)
          /\ (program \in Streaming => c.count # 0)
      BY <1>1, <2>5
    <3>4. QED
      BY <1>3, <1>5, <2>6, <2>7, <3>1, <3>2, <3>3, CalibrationChain
  <2>9. Step(z)
    BY <1>5 DEF SampleOnce, z, x, r
  <2> HIDE DEF z
  <2>10. QED
    BY <2>4, <2>8, <2>9, StepLinked
<1>6. QED
  BY <1>4, <1>5

(* A blocking example triggers until its buffer is full, and takes it.     *)
LEMMA ConvertOrdered ==
  ASSUME NEW r \in Adc, NEW a \in App, NEW E, Ordered(r, a, E), ~Owed(r, E),
         NEW y, y.full = Append(r.full, r.primary), NEW F, ~Owed(y, F),
         NEW c, c.done = Append(a.done, r.primary)
  PROVE  Ordered(y, c, F)
<1>1. /\ r.full \in Seq(Buffers) /\ a.done \in Seq(Buffers) /\ r.primary \in Buffers
      /\ Len(r.full) = Len(a.done)
      /\ \A i \in 1 .. Len(a.done) : a.done[i] = r.full[i]
  BY DEF Adc, App, Ordered
<1>2. /\ Len(y.full) = Len(c.done)
      /\ \A i \in 1 .. Len(c.done) : c.done[i] = y.full[i]
  BY <1>1
<1>3. QED
  BY <1>1, <1>2 DEF Ordered

LEMMA BlockingChain ==
  ASSUME program \in Blocking, NEW r, NEW a \in App, NEW E, Chain(r, a, E), a.pc # "init",
         NEW y, NEW c, NEW F, Ordered(y, c, F),
         y.state = r.state, y.primary = r.primary, y.secondary = r.secondary,
         y.sampling = r.sampling, y.startOnEnd = r.startOnEnd, y.handler = r.handler,
         SetAlike(r, y), F = E,
         c.startOnEnd = a.startOnEnd, c.failed = a.failed, c.requests = a.requests,
         c.pc # "init"
  PROVE  Chain(y, c, F)
<1>1. /\ program # "any" /\ program \notin Streaming /\ program # "simple_non_blocking"
      /\ program # "maximum_performance"
  BY DEF Blocking, Streaming
<1>2. Running(r, a, E)
  BY <1>1 DEF Chain, Example
<1>3. r.state = Mode
  BY <1>2 DEF Running
<1>4. Fits(y) /\ Writes(y, c, F)
  BY <1>3, Modes DEF Chain, Fits, Writes
<1>5. Chained(y, c)
  BY <1>1, <1>3, Modes DEF Chain, Chained, Advanced
<1>6. Running(y, c, F)
  BY <1>1, <1>2, <1>3, Modes DEF Running, SetAlike
<1>7. QED
  BY <1>4, <1>5, <1>6 DEF Chain, Example

LEMMA TriggerBlockingChain ==
  ASSUME ChainInv, TriggerBlocking
  PROVE  Linked'
<1> program \in Programs
  BY DEF ChainInv
<1> DEFINE r == nrfx_saadc_mode_trigger(adc)
           x == Asserted(Whole, r)
           busy == [Whole EXCEPT !.adc = r]
           done == [x EXCEPT !.app.count = @ + 1, !.app.pc = app.after]
           s == nrfx_saadc_buffer_set(done.adc, Buffer(0))
           handed == [done EXCEPT !.app.done = Append(@, Buffer(0))]
           taken == [done EXCEPT !.app.done = Append(@, adc.primary)]
<1>1. program \in Blocking /\ program # "any" /\ app.pc = "trigger" /\ app.pc # "init"
  BY DEF TriggerBlocking, ChainInv, Linked, Chain, Chained, Blocking
<1>2. /\ Whole \in Work /\ Whole.adc = adc /\ Whole.app = app /\ adc \in Adc /\ app \in App
      /\ Running(adc, app, adc.events) /\ Chain(adc, app, adc.events)
  BY <1>1, ExampleFacts
<1>3. /\ adc.state = Mode /\ ~adc.handler /\ adc.primary # NoBuffer /\ adc.secondary = NoBuffer
      /\ program = "advanced_blocking" => adc.primary = Buffer(0)
  BY <1>1, <1>2 DEF Running
<1>4. ~Owed(adc, adc.events) /\ Ordered(adc, app, adc.events)
  BY <1>2, <1>3, Modes DEF Owed, Chain
<1>5. /\ program = "simple_blocking" => Mode = SimpleMode
      /\ program = "advanced_blocking" => Mode = AdvMode
      /\ SimpleMode # AdvMode
  BY DEF Mode, Simple, SimpleMode, AdvMode
<1>6. /\ adc.primary \in Buffers /\ adc.full \in Seq(Buffers)
      /\ Append(adc.full, adc.primary) \in Seq(Buffers)
      /\ adc.primary.len \in Nat /\ NoBuffer \in Buffers /\ "SUCCESS" \in Errors
      /\ "BUSY" \in Errors
  <2>1. adc.primary \in Buffers /\ adc.full \in Seq(Buffers)
    BY <1>2 DEF Adc
  <2>2. adc.primary.len \in Nat
    BY <2>1 DEF Buffers
  <2>3. QED
    BY <2>1, <2>2, BufferTypes DEF Errors
<1> DEFINE n == app.count + 1
           c == [app EXCEPT !.count = n, !.pc = app.after, !.done = Append(@, adc.primary)]
<1>7. /\ c.done = Append(app.done, adc.primary) /\ c.startOnEnd = app.startOnEnd
      /\ c.failed = app.failed /\ c.requests = app.requests /\ c.pc # "init" /\ c \in App
  <2>1. /\ n \in Nat /\ app.after \in {"single", "multiple"}
        /\ Append(app.done, adc.primary) \in Seq(Buffers)
    BY <1>2, <1>6 DEF App
  <2> HIDE DEF n
  <2>2. QED
    BY <1>2, <2>1 DEF App
<1>8. ASSUME r \in Adc, r.err = "SUCCESS"
      PROVE  /\ done \in Work /\ done.adc = r
             /\ done.app = [app EXCEPT !.count = n, !.pc = app.after]
  <2> HIDE DEF r
  <2>1. x \in Work /\ x.adc = r /\ x.app = app
    BY <1>2, <1>8, AssertedKept
  <2> HIDE DEF x
  <2> DEFINE m == x.app.count + 1
             d == [x.app EXCEPT !.count = m, !.pc = app.after]
  <2>2. done = [x EXCEPT !.app = d]
    BY <2>1 DEF Work, App
  <2>3. d \in App
    <3>1. x.app \in App /\ m \in Nat /\ app.after \in {"single", "multiple"}
      BY <1>2, <2>1 DEF App
    <3> HIDE DEF m
    <3>2. QED
      BY <3>1 DEF App
  <2>4. d = [app EXCEPT !.count = n, !.pc = app.after]
    BY <2>1
  <2> HIDE DEF d, done
  <2>5. QED
    BY <2>1, <2>2, <2>3, <2>4 DEF Work
<1>9. CASE program = "simple_blocking"
  <2>1. r = Return(Convert(adc, adc.primary), "SUCCESS")
    BY <1>3, <1>5, <1>9 DEF nrfx_saadc_mode_trigger
  <2>2. /\ r \in Adc /\ r.err = "SUCCESS" /\ r.full = Append(adc.full, adc.primary)
        /\ r.state = adc.state /\ r.primary = adc.primary /\ r.secondary = adc.secondary
        /\ r.sampling = adc.sampling /\ r.startOnEnd = adc.startOnEnd
        /\ r.handler = adc.handler /\ SetAlike(adc, r) /\ r.events = adc.events
    <3> DEFINE full == Append(adc.full, adc.primary)
               len == adc.primary.len
    <3>1. Return(Convert(adc, adc.primary), "SUCCESS") =
            [adc EXCEPT !.full = full, !.amount = len, !.err = "SUCCESS"]
      BY <1>2 DEF Return, Convert, Adc
    <3>2. full \in Seq(Buffers) /\ len \in Nat /\ "SUCCESS" \in Errors
      BY <1>6
    <3> HIDE DEF full, len, r
    <3>3. r = [adc EXCEPT !.full = full, !.amount = len, !.err = "SUCCESS"]
      BY <2>1, <3>1
    <3>4. adc \in Adc
      BY <1>2
    <3>5. r \in Adc
      BY <3>2, <3>3, <3>4 DEF Adc
    <3>6. /\ r.err = "SUCCESS" /\ r.full = full
          /\ r.state = adc.state /\ r.primary = adc.primary /\ r.secondary = adc.secondary
          /\ r.sampling = adc.sampling /\ r.startOnEnd = adc.startOnEnd
          /\ r.handler = adc.handler /\ SetAlike(adc, r) /\ r.events = adc.events
      BY <3>3, <3>4 DEF Adc, SetAlike
    <3>7. QED
      BY <3>5, <3>6 DEF full
  <2>3. taken \in Work /\ taken.adc = r /\ taken.app = c
    <3>1. /\ done \in Work /\ done.adc = r
          /\ done.app = [app EXCEPT !.count = n, !.pc = app.after]
      BY <1>8, <2>2
    <3> HIDE DEF done, r, n
    <3>2. taken = [done EXCEPT !.app = [done.app EXCEPT !.done = Append(@, adc.primary)]]
      BY <3>1 DEF Work, App
    <3>3. [done.app EXCEPT !.done = Append(@, adc.primary)] = c
      BY <1>2, <3>1 DEF App
    <3> HIDE DEF taken, c
    <3>4. QED
      BY <1>7, <3>1, <3>2, <3>3 DEF Work
  <2>4. Step(taken)
    <3>1. Trigger(Whole) = taken
      BY <1>2, <1>9, <2>2 DEF Trigger
    <3>2. QED
      BY <3>1 DEF TriggerBlocking
  <2> HIDE DEF r, taken, c
  <2>5. Ordered(r, c, r.events) /\ ~Owed(r, r.events)
    <3>1. ~Owed(r, r.events)
      BY <1>4, <2>2 DEF Owed
    <3>2. QED
      BY <1>2, <1>4, <1>7, <2>2, <3>1, ConvertOrdered
  <2>6. Chain(r, c, r.events)
    BY <1>1, <1>2, <1>7, <2>2, <2>5, BlockingChain
  <2>7. QED
    BY <2>3, <2>4, <2>6, StepLinked
<1> DEFINE k == adc.converted + Cardinality(adc.activated)
           part == [adc EXCEPT !.converted = k, !.err = "BUSY"]
           full == Append(adc.full, adc.primary)
           all == [adc EXCEPT !.full = full, !.amount = adc.primary.len, !.converted = 0,
                              !.primary = NoBuffer, !.err = "SUCCESS"]
<1>10. CASE program = "advanced_blocking" /\ k < adc.primary.len
  <2>1. r = part
    BY <1>3, <1>5, <1>10 DEF nrfx_saadc_mode_trigger, BlockingPass
  <2>2. adc.activated = {0}
    BY <1>2, <1>10 DEF Running, Simple
  <2>3. k \in Nat
    BY <1>2, <2>2, TwoChannels DEF Adc
  <2> HIDE DEF k
  <2>4. /\ part \in Adc /\ part.err = "BUSY" /\ part.full = adc.full
        /\ part.state = adc.state /\ part.primary = adc.primary /\ part.secondary = adc.secondary
        /\ part.sampling = adc.sampling /\ part.startOnEnd = adc.startOnEnd
        /\ part.handler = adc.handler /\ SetAlike(adc, part) /\ part.events = adc.events
    BY <1>2, <1>6, <2>3 DEF Adc, SetAlike
  <2> HIDE DEF part, r
  <2>5. busy \in Work /\ busy.adc = part /\ busy.app = app
    BY <1>2, <2>1, <2>4 DEF Work
  <2>6. Step(busy)
    <3>1. Trigger(Whole) = busy
      BY <1>2, <2>1, <2>4 DEF Trigger, r
    <3>2. QED
      BY <3>1 DEF TriggerBlocking
  <2> HIDE DEF busy
  <2>7. Ordered(part, app, part.events)
    BY <1>4, <2>4 DEF Ordered, Owed
  <2>8. Chain(part, app, part.events)
    BY <1>1, <1>2, <2>4, <2>7, BlockingChain
  <2>9. QED
    BY <2>5, <2>6, <2>8, StepLinked
<1>11. CASE program = "advanced_blocking" /\ ~(k < adc.primary.len)
  <2>1. r = all
    <3>1. r = [Convert(adc, adc.primary) EXCEPT !.converted = 0, !.primary = adc.secondary,
                                                !.secondary = NoBuffer, !.err = "SUCCESS"]
      BY <1>3, <1>5, <1>11 DEF nrfx_saadc_mode_trigger, BlockingPass
    <3>2. Convert(adc, adc.primary) = [adc EXCEPT !.full = full, !.amount = adc.primary.len]
      BY DEF Convert
    <3> HIDE DEF full, r, k
    <3>3. QED
      BY <1>2, <1>3, <3>1, <3>2 DEF Adc
  <2>2. /\ all \in Adc /\ all.err = "SUCCESS" /\ all.full = full
        /\ all.state = adc.state /\ all.primary = NoBuffer /\ all.secondary = NoBuffer
        /\ all.sampling = adc.sampling /\ all.startOnEnd = adc.startOnEnd
        /\ all.handler = adc.handler /\ SetAlike(adc, all) /\ all.events = adc.events
    <3>1. full \in Seq(Buffers)
      BY <1>6
    <3> HIDE DEF full
    <3>2. QED
      BY <1>2, <1>3, <1>6, <3>1 DEF Adc, SetAlike
  <2> HIDE DEF all
  <2>3. /\ done \in Work /\ done.adc = all
        /\ done.app = [app EXCEPT !.count = n, !.pc = app.after]
    BY <1>8, <2>1, <2>2
  <2>4. s = [all EXCEPT !.primary = Buffer(0), !.err = "SUCCESS"]
    <3>1. all.activated = {0} /\ Buffer(0).len = 2
      BY <1>2, <1>11, <2>2 DEF Running, Simple, SetAlike, Buffer
    <3>2. ~InvalidLength(all, Buffer(0))
      <4>1. all.state # SimpleMode
        BY <1>3, <1>5, <1>11, <2>2
      <4>2. 2 % Cardinality({0}) = 0
        BY TwoChannels
      <4>3. QED
        BY <3>1, <4>1, <4>2 DEF InvalidLength
    <3>3. all.state = AdvMode /\ AdvMode # AdvModeSampleStarted /\ AdvMode # SimpleMode
      BY <1>3, <1>5, <1>11, <2>2 DEF AdvMode, AdvModeSampleStarted
    <3>4. QED
      BY <2>2, <2>3, <3>2, <3>3 DEF nrfx_saadc_buffer_set
  <2>5. /\ s \in Adc /\ s.err = "SUCCESS" /\ s.full = full
        /\ s.state = adc.state /\ s.primary = adc.primary /\ s.secondary = adc.secondary
        /\ s.sampling = adc.sampling /\ s.startOnEnd = adc.startOnEnd
        /\ s.handler = adc.handler /\ SetAlike(adc, s) /\ s.events = adc.events
    <3>1. Buffer(0) \in Buffers /\ Buffer(0) = adc.primary
      BY <1>3, <1>6, <1>11
    <3> HIDE DEF s
    <3>2. QED
      BY <1>3, <1>6, <2>2, <2>4, <3>1 DEF Adc, SetAlike
  <2> DEFINE z == Asserted(handed, s)
  <2>6. handed \in Work /\ handed.app = c
    <3> HIDE DEF done, r, n
    <3>1. handed = [done EXCEPT !.app = [done.app EXCEPT !.done = Append(@, Buffer(0))]]
      BY <2>3 DEF Work, App
    <3>2. [done.app EXCEPT !.done = Append(@, Buffer(0))] = c
      BY <1>2, <1>3, <1>11, <2>3 DEF App
    <3> HIDE DEF handed, c
    <3>3. QED
      BY <1>7, <2>3, <3>1, <3>2 DEF Work
  <2>7. Step(z)
    <3>1. Trigger(Whole) = z
      BY <1>2, <1>11, <2>1, <2>2 DEF Trigger
    <3>2. QED
      BY <3>1 DEF TriggerBlocking
  <2> HIDE DEF s, handed, c
  <2>8. z \in Work /\ z.adc = s /\ z.app = c
    BY <2>5, <2>6, AssertedKept
  <2> HIDE DEF z
  <2>9. Ordered(s, c, s.events)
    <3>1. ~Owed(s, s.events)
      BY <1>4, <2>5 DEF Owed
    <3>2. QED
      BY <1>2, <1>4, <1>7, <2>5, <3>1, ConvertOrdered
  <2>10. Chain(s, c, s.events)
    BY <1>1, <1>2, <1>7, <2>5, <2>9, BlockingChain
  <2>11. QED
    BY <2>7, <2>8, <2>10, StepLinked
<1>12. QED
  BY <1>1, <1>9, <1>10, <1>11 DEF Blocking

-----------------------------------------------------------------------------
(* The peripheral, and the rest of what happens between interrupts.        *)
LEMMA FullChain ==
  ASSUME ChainInv, BufferFull
  PROVE  Linked'
<1> DEFINE on == adc.sampling /\ adc.state # SimpleModeSample
           full == Append(adc.full, adc.writing)
           len == adc.writing.len
           r == [adc EXCEPT !.events = @ \cup {"END"}, !.amount = len, !.full = full,
                            !.writing = NoBuffer, !.sampling = on]
           y == Ended(app, r)
           c == [app EXCEPT !.late = @ \/ "STARTED" \in adc.events]
<1>1. /\ adc \in Adc /\ app \in App /\ Chain(adc, app, adc.events) /\ adc.sampling
      /\ adc.writing \notin {NoBuffer, CalibSamples} /\ "END" \notin adc.events
  BY DEF ChainInv, SaadcInv, Linked, Whole, Work, Sound, BufferFull
<1>2. /\ adc' = y /\ app' = c /\ UNCHANGED program
  <2>1. adc' = Ended(app, [adc EXCEPT !.events = @ \cup {"END"}, !.amount = adc.writing.len,
                            !.full = Append(@, adc.writing), !.writing = NoBuffer,
                            !.sampling = @ /\ adc.state # SimpleModeSample])
    BY DEF BufferFull
  <2>2. QED
    BY <1>1, <2>1 DEF BufferFull, Adc
<1>3. AppAlike(app, c) /\ c.startOnEnd = app.startOnEnd
  BY <1>1 DEF AppAlike, App
<1> HIDE DEF c
<1>4. /\ adc.state \in Filling /\ adc.state \in SamplingStates /\ adc.state # Calibration
      /\ adc.state # AdvModeSample
      /\ adc.writing = adc.primary /\ "STOPPED" \notin adc.events
      /\ Fits(adc) /\ Writes(adc, app, adc.events) /\ Ordered(adc, app, adc.events)
  <2>1. /\ Fits(adc) /\ Writes(adc, app, adc.events) /\ Ordered(adc, app, adc.events)
    BY <1>1 DEF Chain
  <2>2. adc.state \in Filling
    BY <1>1, <2>1 DEF Writes
  <2>3. /\ adc.state \in SamplingStates /\ adc.state # Calibration /\ adc.state # AdvModeSample
    BY <2>2, StatesDiffer DEF Filling, SimpleModeSample, AdvModeSample, AdvModeSampleStarted
  <2>4. QED
    BY <1>1, <2>1, <2>2, <2>3 DEF Writes
<1>5. /\ y.state = adc.state /\ y.prev = adc.prev /\ y.primary = adc.primary
      /\ y.secondary = adc.secondary /\ y.ptr = adc.ptr /\ y.startOnEnd = adc.startOnEnd
      /\ y.handler = adc.handler /\ y.full = full
      /\ y.writing = (IF app.startOnEnd THEN adc.ptr ELSE NoBuffer)
      /\ SetAlike(adc, y) /\ "END" \in y.events /\ "STOPPED" \notin y.events
  <2>1. /\ r.state = adc.state /\ r.prev = adc.prev /\ r.primary = adc.primary
        /\ r.secondary = adc.secondary /\ r.ptr = adc.ptr /\ r.startOnEnd = adc.startOnEnd
        /\ r.handler = adc.handler /\ r.full = full /\ r.writing = NoBuffer
        /\ SetAlike(adc, r) /\ r.events = adc.events \cup {"END"} /\ r \in Adc
    <3>1. /\ full \in Seq(Buffers) /\ NoBuffer \in Buffers /\ on \in BOOLEAN /\ len \in Nat
          /\ adc.events \cup {"END"} \in SUBSET Interrupts
      BY <1>1, BufferTypes, StatesDiffer DEF Adc, Buffers, Interrupts
    <3> HIDE DEF full, on, len
    <3>2. QED
      BY <1>1, <3>1 DEF Adc, SetAlike
  <2> HIDE DEF r
  <2>2. y = IF app.startOnEnd THEN [r EXCEPT !.writing = r.ptr, !.events = @ \cup {"STARTED"}]
            ELSE r
    BY DEF Ended, TaskStart
  <2> HIDE DEF y, full
  <2>3. QED
    BY <1>4, <2>1, <2>2 DEF Adc, SetAlike
<1> HIDE DEF y
<1>6. Fits(y)
  BY <1>4, <1>5 DEF Fits
<1>7. Writes(y, app, y.events)
  BY <1>4, <1>5 DEF Writes
<1>8. Ordered(y, app, y.events)
  <2>1. Owed(y, y.events) /\ ~Owed(adc, adc.events) /\ Due(y, y.events) = adc.writing
    BY <1>1, <1>4, <1>5 DEF Owed, Due
  <2>2. /\ adc.full \in Seq(Buffers) /\ Len(adc.full) = Len(app.done)
        /\ app.done \in Seq(Buffers)
        /\ \A i \in 1 .. Len(app.done) : app.done[i] = adc.full[i]
    BY <1>1, <1>4, <2>1 DEF Ordered, Adc, App
  <2>3. /\ Len(full) = Len(app.done) + 1 /\ full[Len(full)] = adc.writing
        /\ \A i \in 1 .. Len(app.done) : app.done[i] = full[i]
    BY <2>2
  <2>4. QED
    BY <1>5, <2>1, <2>3 DEF Ordered
<1>9. Chained(y, app)
  BY <1>1, <1>5 DEF Chain, Chained, Advanced, Reports
<1>10. Example(y, app, y.events)
  <2>1. ASSUME program # "any" PROVE app.pc # "init" /\ Running(y, app, y.events)
    <3>1. app.pc # "init" /\ Running(adc, app, adc.events)
      BY <1>1, <2>1 DEF Chain, Example, PowerOn
    <3>2. QED
      BY <1>4, <1>5, <3>1 DEF Running, SetAlike
  <2>2. QED
    BY <2>1 DEF Example
<1>11. Chain(y, app, y.events)
  BY <1>1, <1>6, <1>7, <1>8, <1>9, <1>10 DEF Chain
<1>12. Chain(y, c, y.events)
  BY <1>3, <1>11, AppChain
<1>13. QED
  BY <1>2, <1>12, LinkedWhen

LEMMA PeripheralChain ==
  ASSUME ChainInv, Peripheral
  PROVE  Linked'
<1>1. /\ adc \in Adc /\ Chain(adc, app, adc.events)
      /\ adc.calibrating \/ adc.sampling => program = "any" \/ app.pc # "init"
  BY DEF ChainInv, SaadcInv, Linked, Sound, Chain, Example, PowerOn
<1>2. CASE BufferFull
  BY <1>2, FullChain
<1>3. CASE OffsetCalibrated
  <2> DEFINE y == [adc EXCEPT !.calibrating = FALSE, !.events = @ \cup {"CALIBRATEDONE"}]
  <2>1. Like(adc, y) /\ SetAlike(adc, y) /\ y.events = adc.events \cup {"CALIBRATEDONE"}
    BY <1>1 DEF Adc, Like, SetAlike
  <2>2. adc' = y /\ UNCHANGED <<program, app>> /\ adc.calibrating
    BY <1>3 DEF OffsetCalibrated
  <2> HIDE DEF y
  <2>3. y.events \cap Conversions = adc.events \cap Conversions
    BY <2>1, StatesDiffer
  <2>4. Chain(y, app, y.events)
    BY <1>1, <2>1, <2>2, <2>3, LikeChain
  <2>5. QED
    BY <2>2, <2>4, LinkedWhen
<1>4. CASE LimitExceeded
  <2>1. PICK l \in adc.limits : adc' = [adc EXCEPT !.events = @ \cup {l}]
    BY <1>4 DEF LimitExceeded
  <2> DEFINE y == [adc EXCEPT !.events = @ \cup {l}]
  <2>2. Like(adc, y) /\ SetAlike(adc, y) /\ y.events = adc.events \cup {l}
    BY <1>1 DEF Adc, Like, SetAlike
  <2>3. adc' = y /\ UNCHANGED <<program, app>> /\ adc.sampling
    BY <1>4, <2>1 DEF LimitExceeded
  <2> HIDE DEF y
  <2>4. y.events \cap Conversions = adc.events \cap Conversions
    <3>1. l \in Limits
      BY <1>1 DEF Adc
    <3>2. QED
      BY <2>2, <3>1, StatesDiffer
  <2>5. Chain(y, app, y.events)
    BY <1>1, <2>2, <2>3, <2>4, LikeChain
  <2>6. QED
    BY <2>3, <2>5, LinkedWhen
<1>5. QED
  BY <1>2, <1>3, <1>4 DEF Peripheral

LEMMA SuppliesChain ==
  ASSUME ChainInv, Supplies
  PROVE  Linked'
<1>1. AppAlike(app, app') /\ UNCHANGED <<program, adc>>
  BY DEF ChainInv, SaadcInv, Whole, Work, App, Supplies, AppAlike
<1>2. Chain(adc, app', adc.events)
  BY <1>1, AppChain DEF ChainInv, Linked
<1>3. QED
  BY <1>1, <1>2, LinkedWhen

LEMMA InitLinked ==
  ASSUME SaadcInit
  PROVE  Linked
<1>1. /\ adc = PowerOn /\ app.pc = "init" /\ app.done = <<>> /\ ~app.failed
      /\ app.startOnEnd = (program = "maximum_performance")
  BY DEF SaadcInit
<1>2. /\ PowerOn.state = "UNINITIALIZED" /\ PowerOn.primary = NoBuffer
      /\ PowerOn.secondary = NoBuffer /\ ~PowerOn.sampling /\ PowerOn.full = <<>>
  BY DEF PowerOn
<1>3. "UNINITIALIZED" \notin Filling \cup SamplingStates \cup {Calibration, SimpleMode, AdvMode,
                             AdvModeSample, AdvModeSampleStarted}
  BY StatesDiffer DEF Filling
<1>4. Fits(adc) /\ Writes(adc, app, adc.events)
  BY <1>1, <1>2, <1>3 DEF Fits, Writes
<1>5. Ordered(adc, app, adc.events)
  BY <1>1, <1>2, <1>3 DEF Ordered, Owed
<1>6. Chained(adc, app)
  BY <1>1, <1>2, <1>3 DEF Chained, Advanced, Reports
<1>7. QED
  BY <1>1, <1>4, <1>5, <1>6 DEF Linked, Chain, Example

-----------------------------------------------------------------------------
(* The interrupt.  R are the events it has taken and not come to yet.      *)
Inside(x, R) ==
  /\ x \in Work /\ Sound(x.adc) /\ Taken(x.adc) /\ Chain(x.adc, x.app, x.adc.events \cup R)
  /\ program \in Programs /\ program \notin Blocking
  /\ program # "any" => x.app.pc # "init"

(* An event of the driver changes little of what the examples keep.        *)
Told(a, c) ==
  /\ c.startOnEnd = a.startOnEnd /\ c.failed = a.failed /\ c.requests = a.requests
  /\ c.pc = a.pc /\ c.count = a.count

LEMMA DoneTold ==
  ASSUME program \in Programs, program \notin Blocking, NEW x \in Work
  PROVE  LET y == saadc_handler(x, "DONE")
         IN  /\ y \in Work /\ y.adc = x.adc /\ Told(x.app, y.app)
             /\ y.app.done = Append(x.app.done, x.adc.primary)
             /\ program \notin Simple => y.app.ready = x.app.ready
<1>1. /\ Handed(x) \in Work /\ Handed(x).adc = x.adc
      /\ Handed(x).app = [x.app EXCEPT !.done = Append(@, x.adc.primary)]
  <2>1. Handed(x).app = [x.app EXCEPT !.done = Append(@, x.adc.primary)]
    BY DEF Handed, Work
  <2>2. QED
    BY <2>1, HandedSound
<1>2. /\ x.app \in App /\ Told(x.app, Handed(x).app) /\ Handed(x).app.ready = x.app.ready
      /\ Handed(x).app.done = Append(x.app.done, x.adc.primary)
  <2>1. x.app \in App
    BY DEF Work
  <2>2. QED
    BY <1>1, <2>1 DEF Told, App
<1> DEFINE h == Handed(x)
           s == [h EXCEPT !.app.ready = TRUE]
<1>3. CASE program \in Simple
  <2>1. saadc_handler(x, "DONE") = s
    BY <1>3, Modes DEF saadc_handler, SimpleHandler, Streaming
  <2> HIDE DEF h
  <2>2. s \in Work /\ s.adc = h.adc /\ s.app = [h.app EXCEPT !.ready = TRUE]
    BY <1>1 DEF Work, App, h
  <2> HIDE DEF s
  <2>3. Told(x.app, s.app) /\ s.app.done = h.app.done
    BY <1>1, <1>2, <2>2 DEF Told, Work, App, h
  <2>4. QED
    BY <1>1, <1>2, <1>3, <2>1, <2>2, <2>3 DEF h
<1>4. CASE program \notin Simple
  <2>1. program \in {"internal_timer", "maximum_performance", "any"}
    BY <1>4, Modes DEF Streaming
  <2>2. saadc_handler(x, "DONE") = h
    BY <1>4, <2>1 DEF saadc_handler, InternalTimerHandler, MaximumPerformanceHandler, AnyHandler
  <2>3. QED
    BY <1>1, <1>2, <1>4, <2>2
<1>5. QED
  BY <1>3, <1>4

LEMMA ReadyTold ==
  ASSUME program \in Programs, program \notin Blocking, NEW x \in Work,
         NEW evt \in {"READY", "FINISHED"}
  PROVE  LET y == saadc_handler(x, evt)
         IN  /\ y \in Work /\ y.app = x.app
             /\ \E on \in BOOLEAN : y.adc = [x.adc EXCEPT !.sampling = on]
             /\ evt = "FINISHED" /\ ~x.adc.sampling => y.adc = x.adc
<1>1. CASE program # "maximum_performance"
  <2>1. saadc_handler(x, evt) = x
    BY <1>1, Modes DEF saadc_handler, SimpleHandler, InternalTimerHandler, AnyHandler, Streaming
  <2>2. x.adc.sampling \in BOOLEAN /\ x.adc = [x.adc EXCEPT !.sampling = x.adc.sampling]
    BY DEF Work, Adc
  <2>3. QED
    BY <2>1, <2>2
<1>2. CASE program = "maximum_performance"
  <2> DEFINE on == evt = "READY"
             y == [x EXCEPT !.adc.sampling = on]
  <2>1. saadc_handler(x, evt) = y
    <3>1. CASE evt = "READY"
      BY <1>2, <3>1 DEF saadc_handler, MaximumPerformanceHandler, InternalTimerHandler, Simple
    <3>2. CASE evt = "FINISHED"
      BY <1>2, <3>2 DEF saadc_handler, MaximumPerformanceHandler, InternalTimerHandler, Simple
    <3>3. QED
      BY <3>1, <3>2
  <2>2. on \in BOOLEAN
    OBVIOUS
  <2>3. evt = "FINISHED" => on = FALSE
    OBVIOUS
  <2> HIDE DEF on
  <2>4. y = [x EXCEPT !.adc = [x.adc EXCEPT !.sampling = on]]
    BY DEF Work
  <2>5. x.adc \in Adc /\ [x.adc EXCEPT !.sampling = on] \in Adc
    BY <2>2 DEF Work, Adc
  <2>6. ~x.adc.sampling => [x.adc EXCEPT !.sampling = FALSE] = x.adc
    BY <2>5 DEF Adc
  <2> HIDE DEF y
  <2>7. y \in Work /\ y.app = x.app /\ y.adc = [x.adc EXCEPT !.sampling = on]
    BY <2>4, <2>5 DEF Work
  <2>8. QED
    BY <2>1, <2>2, <2>3, <2>6, <2>7
<1>3. QED
  BY <1>1, <1>2

(* A calibration that is over: the driver is back in its mode.             *)
LEMMA RestoreChain ==
  ASSUME NEW r, NEW a, NEW E, Chain(r, a, E), Sound(r), r.state = Calibration,
         NEW F, "STOPPED" \notin F, program \notin Blocking,
         program # "any" => a.pc # "init"
  PROVE  LET y == saadc_pre_calibration_state_restore(r)
         IN  /\ Chain(y, a, F) /\ y.state = r.prev /\ y.events \subseteq r.events
             /\ y.primary = r.primary /\ y.handler = r.handler
<1> DEFINE y == saadc_pre_calibration_state_restore(r)
           ints == r.limits \cup (IF r.handler THEN Conversions ELSE {})
<1>1. r \in Adc /\ r.prev \in IdleStates
  BY DEF Sound, Calibrates
<1>2. y = [Disable(r) EXCEPT !.state = r.prev, !.events = @ \ {"LOW", "HIGH"}, !.ints = ints]
  BY DEF saadc_pre_calibration_state_restore
<1> HIDE DEF ints
<1>3. /\ y.state = r.prev /\ y.events \subseteq r.events /\ ~y.sampling /\ y.writing = NoBuffer
      /\ y.primary = r.primary /\ y.secondary = r.secondary /\ y.full = r.full
      /\ y.startOnEnd = r.startOnEnd /\ y.handler = r.handler
      /\ y.configured = r.configured /\ y.activated = r.activated /\ y.limits = r.limits
  BY <1>1, <1>2 DEF Disable, Adc
<1> HIDE DEF y
<1>4. /\ y.state \notin Filling \cup SamplingStates \cup
                           {Calibration, AdvModeSample, AdvModeSampleStarted}
      /\ r.state \notin Filling \cup {SimpleMode, AdvMode, AdvModeSample, AdvModeSampleStarted}
  BY <1>1, <1>3, StatesDiffer DEF Filling
<1>5. Fits(y) /\ Writes(y, a, F)
  BY <1>3, <1>4 DEF Chain, Fits, Writes
<1>6. Ordered(y, a, F)
  BY <1>3, <1>4 DEF Chain, Ordered, Owed
<1>7. Chained(y, a)
  BY <1>3, <1>4 DEF Chain, Chained, Advanced, Reports
<1>8. ASSUME program # "any" PROVE Running(y, a, F)
  <2>1. Running(r, a, E)
    BY <1>8 DEF Chain, Example
  <2>2. r.prev = Mode /\ r.primary # NoBuffer
    BY <2>1 DEF Running
  <2>3. r.state # SimpleMode /\ r.state # AdvMode
    BY <1>4
  <2>4. ~(program = "simple_non_blocking" /\ a.ready) /\ ~(program \in Streaming /\ a.count = 0)
    BY <2>1, <2>3 DEF Running
  <2>5. QED
    BY <1>3, <1>4, <2>1, <2>2, <2>4, Modes DEF Running
<1>9. Chain(y, a, F)
  BY <1>5, <1>6, <1>7, <1>8 DEF Chain, Example
<1>10. QED
  BY <1>3, <1>9 DEF y

LEMMA CalibrationDoneChain ==
  ASSUME NEW x, NEW R, Inside(x, R), x.adc.state = Calibration
  PROVE  LET y == CalibrationDone(x) IN Inside(y, R) /\ y.adc.state = Calibration
<1> DEFINE y == CalibrationDone(x)
           r == Latch([x.adc EXCEPT !.ints = @ \ {"CALIBRATEDONE"}], CalibSamples)
           E == x.adc.events \cup R
           F == y.adc.events \cup R
<1>1. /\ x \in Work /\ x.adc \in Adc /\ Chain(x.adc, x.app, E) /\ program \notin Blocking
      /\ program # "any" => x.app.pc # "init"
  BY DEF Inside, Sound
<1>2. y.adc = r /\ y.app = x.app
  BY <1>1 DEF CalibrationDone, Work
<1>3. /\ r.state = Calibration /\ r.prev = x.adc.prev /\ r.ptr = CalibSamples
      /\ r.writing = CalibSamples /\ r.sampling = x.adc.sampling
      /\ r.primary = x.adc.primary /\ r.secondary = x.adc.secondary /\ r.full = x.adc.full
      /\ r.startOnEnd = x.adc.startOnEnd /\ r.handler = x.adc.handler
      /\ r.configured = x.adc.configured /\ r.activated = x.adc.activated
      /\ r.limits = x.adc.limits
  BY <1>1 DEF Latch, TaskStart, Adc
<1>4. y \in Work /\ Sound(y.adc) /\ Taken(y.adc)
  BY CalibrationDoneSound DEF Inside
<1> HIDE DEF r, y, E, F
<1>5. Calibration \notin Filling /\ Calibration # SimpleMode /\ Calibration # AdvMode
  BY StatesDiffer DEF Filling
<1>6. ~Owed(x.adc, E) /\ ~x.adc.sampling
  BY <1>1, <1>5 DEF Owed, Chain, Writes
<1>7. program # "any" =>
           /\ x.adc.primary # NoBuffer
           /\ program = "simple_non_blocking" => ~x.app.ready
           /\ program \in Streaming => x.app.count # 0
  BY <1>1, <1>5 DEF Chain, Example, Running
<1>8. Chain(r, x.app, F)
  BY <1>1, <1>3, <1>6, <1>7, CalibrationChain
<1>9. QED
  BY <1>2, <1>3, <1>4, <1>8 DEF Inside, y, F

LEMMA StoppedChain ==
  ASSUME NEW x, NEW R, Inside(x, R), "STOPPED" \in R
  PROVE  Inside(Stopped(x), R \ {"STOPPED"})
<1> DEFINE y == Stopped(x)
           r == x.adc
           a == x.app
           E == r.events \cup R
           Q == R \ {"STOPPED"}
           cut == IF r.primary = NoBuffer THEN NoBuffer ELSE [r.primary EXCEPT !.len = r.amount]
           short == [r EXCEPT !.primary = cut, !.secondary = NoBuffer]
           back == saadc_pre_calibration_state_restore(r)
<1>1. /\ x \in Work /\ r \in Adc /\ Sound(r) /\ Taken(r) /\ Chain(r, a, E)
      /\ program \notin Blocking
      /\ program # "any" => a.pc # "init"
  BY DEF Inside, Sound
<1>2. y \in Work /\ Sound(y.adc) /\ Taken(y.adc)
  BY StoppedSound DEF Inside
<1>3. "STOPPED" \notin r.events /\ "END" \notin r.events
  BY <1>1, StatesDiffer DEF Taken
<1>4. y.app = a /\ y.adc = IF r.state = Calibration
                           THEN IF "CALIBRATEDONE" \in r.ints THEN back ELSE r
                           ELSE short
  <2>1. cut = IF r.primary = NoBuffer THEN r.primary ELSE [r.primary EXCEPT !.len = r.amount]
    OBVIOUS
  <2>2. short.ints = r.ints
    BY <1>1 DEF Adc
  <2>3. r.state # Calibration => "CALIBRATEDONE" \notin r.ints
    BY <1>1 DEF Sound, Calibrates
  <2> DEFINE z == IF r.state = Calibration THEN r ELSE short
  <2>4. y = [x EXCEPT !.adc = IF "CALIBRATEDONE" \in z.ints
                              THEN saadc_pre_calibration_state_restore(z) ELSE z]
    BY <2>1 DEF Stopped
  <2> HIDE DEF short, y
  <2>5. QED
    BY <1>1, <2>2, <2>3, <2>4 DEF Work
<1> HIDE DEF y
<1>5. CASE r.state = Calibration /\ "CALIBRATEDONE" \in r.ints
  <2>1. "STOPPED" \notin y.adc.events \cup Q
    BY <1>2, StatesDiffer DEF Taken
  <2>2. Chain(back, a, y.adc.events \cup Q)
    BY <1>1, <1>5, <2>1, RestoreChain
  <2>3. QED
    BY <1>1, <1>2, <1>4, <1>5, <2>2 DEF Inside, y
<1>6. CASE r.state = Calibration /\ "CALIBRATEDONE" \notin r.ints
  <2> DEFINE F == r.events \cup Q
  <2>1. Calibration \notin Filling
    BY StatesDiffer DEF Filling
  <2>2. /\ ~Owed(r, E) /\ ~r.sampling /\ r.writing \in {NoBuffer, CalibSamples}
        /\ a.startOnEnd /\ "STARTED" \in F => r.ptr = CalibSamples
    BY <1>1, <1>6, <2>1 DEF Owed, Chain, Writes
  <2>3. program # "any" => /\ r.primary # NoBuffer
                           /\ program = "simple_non_blocking" => ~a.ready
                           /\ program \in Streaming => a.count # 0
    <3>1. Calibration # SimpleMode /\ Calibration # AdvMode
      BY StatesDiffer
    <3>2. QED
      BY <1>1, <1>6, <3>1 DEF Chain, Example, Running
  <2> HIDE DEF F
  <2>4. Chain(r, a, F)
    BY <1>1, <1>6, <2>2, <2>3, CalibrationChain
  <2>5. QED
    BY <1>1, <1>2, <1>4, <1>6, <2>4 DEF Inside, y, F
<1>7. CASE r.state # Calibration
  <2> DEFINE F == short.events \cup Q
  <2>1. program = "any"
    <3>1. program # "any" => Running(r, a, E)
      BY <1>1 DEF Chain, Example
    <3>2. QED
      BY <1>7, <3>1 DEF Running
  <2>2. /\ ~a.startOnEnd /\ ~a.failed /\ (Advanced(r) => r.startOnEnd) /\ a.pc # "trigger"
        /\ Reports(r) /\ Fits(r) /\ Writes(r, a, E) /\ Ordered(r, a, E)
    BY <1>1, <2>1, AnyFacts
  <2>3. /\ short.state = r.state /\ short.prev = r.prev /\ short.primary = cut
        /\ short.secondary = NoBuffer /\ short.writing = r.writing /\ short.sampling = r.sampling
        /\ short.full = r.full /\ short.startOnEnd = r.startOnEnd /\ short.handler = r.handler
        /\ short.events = r.events
    BY <1>1 DEF Adc
  <2> HIDE DEF short
  <2>4. /\ "STOPPED" \in E /\ "STOPPED" \notin F /\ ("END" \in F <=> "END" \in E)
        /\ "STARTED" \in F <=> "STARTED" \in E
    BY <1>3, <2>3
  <2>5. /\ r.state \in SamplingStates => r.state \in Filling /\ "END" \in E
        /\ r.state \in Filling => r.state \in SamplingStates
        /\ r.state # AdvModeSample
    BY <2>2, <2>4, StatesDiffer DEF Writes, Filling, SamplingStates
  <2>6. cut \in Given \cup {NoBuffer} /\ (cut = NoBuffer <=> r.primary = NoBuffer)
    <3>1. r.amount \in Nat /\ r.primary \in Given \cup {NoBuffer}
      BY <1>1, <2>2 DEF Adc, Fits
    <3>2. QED
      BY <3>1, GivenBuffers
  <2>7. Fits(short)
    BY <2>2, <2>3, <2>6 DEF Fits
  <2>8. Writes(short, a, F)
    BY <1>7, <2>2, <2>3, <2>4, <2>5 DEF Writes
  <2>9. Ordered(short, a, F)
    <3>1. Owed(short, F) <=> Owed(r, E)
      BY <2>3, <2>4 DEF Owed
    <3>2. Owed(r, E) => Due(short, F) = Due(r, E)
      BY <2>2, <2>3, <2>4, <2>5 DEF Owed, Due, Fits
    <3>3. QED
      BY <2>2, <2>3, <3>1, <3>2 DEF Ordered
  <2>10. (Advanced(short) => short.startOnEnd) /\ Reports(short)
    BY <2>2, <2>3 DEF Advanced, Reports
  <2>11. Chain(short, a, F)
    BY <2>1, <2>2, <2>7, <2>8, <2>9, <2>10, AnyChain
  <2>12. QED
    BY <1>1, <1>2, <1>4, <1>7, <2>1, <2>11 DEF Inside, y, F
<1>8. QED
  BY <1>5, <1>6, <1>7

(* The application takes the buffer whose END is served.                   *)
LEMMA HandedOrdered ==
  ASSUME NEW r \in Adc, NEW a \in App, NEW E, Ordered(r, a, E), Owed(r, E), "STOPPED" \notin E,
         NEW y, y.full = r.full, NEW F, ~Owed(y, F),
         NEW c, c.done = Append(a.done, r.primary)
  PROVE  Ordered(y, c, F)
<1>1. /\ r.full \in Seq(Buffers) /\ a.done \in Seq(Buffers) /\ r.primary \in Buffers
      /\ Len(r.full) = Len(a.done) + 1
      /\ \A i \in 1 .. Len(a.done) : a.done[i] = r.full[i]
      /\ r.full[Len(r.full)] = r.primary
  BY DEF Adc, App, Ordered, Due
<1>2. /\ Len(r.full) = Len(c.done)
      /\ \A i \in 1 .. Len(c.done) : c.done[i] = r.full[i]
  BY <1>1
<1>3. QED
  BY <1>1, <1>2 DEF Ordered

(* A conversion of the simple mode is over.                                *)
LEMMA SimpleEndChain ==
  ASSUME NEW x, NEW R, Inside(x, R), "END" \in R, "STOPPED" \notin R,
         x.adc.state = SimpleModeSample
  PROVE  LET e == [Disable(x.adc) EXCEPT !.state = SimpleMode]
             y == saadc_handler([x EXCEPT !.adc = e], "DONE")
         IN  /\ y.adc.events = x.adc.events
             /\ \A F : "STOPPED" \notin F => Chain(y.adc, y.app, F)
             /\ program # "any" => y.app.pc # "init"
<1> DEFINE r == x.adc
           a == x.app
           E == r.events \cup R
           e == [Disable(r) EXCEPT !.state = SimpleMode]
           z == [x EXCEPT !.adc = e]
           y == saadc_handler(z, "DONE")
<1>1. /\ x \in Work /\ r \in Adc /\ a \in App /\ Chain(r, a, E) /\ program \notin Blocking
      /\ program \in Programs
      /\ "STOPPED" \notin E /\ "END" \in E
  BY StatesDiffer DEF Inside, Taken, Work
<1>2. /\ e \in Adc /\ e.state = SimpleMode /\ ~e.sampling /\ e.writing = NoBuffer
      /\ e.primary = r.primary /\ e.secondary = r.secondary /\ e.full = r.full
      /\ e.startOnEnd = r.startOnEnd /\ e.handler = r.handler
      /\ e.configured = r.configured /\ e.activated = r.activated /\ e.limits = r.limits
      /\ e.events = r.events
  <2>1. NoBuffer \in Buffers /\ SimpleMode \in States
    BY BufferTypes, StatesDiffer
  <2>2. e = [r EXCEPT !.writing = NoBuffer, !.sampling = FALSE, !.state = SimpleMode]
    BY DEF Disable
  <2> HIDE DEF e
  <2>3. QED
    BY <1>1, <2>1, <2>2 DEF Adc
<1> HIDE DEF e
<1>3. z \in Work /\ z.adc = e /\ z.app = a
  BY <1>1, <1>2 DEF Work
<1> HIDE DEF z
<1>4. /\ y \in Work /\ y.adc = e /\ Told(a, y.app) /\ y.app.done = Append(a.done, r.primary)
      /\ program \notin Simple => y.app.ready = a.ready
  <2>1. /\ y \in Work /\ y.adc = z.adc /\ Told(z.app, y.app)
        /\ y.app.done = Append(z.app.done, z.adc.primary)
        /\ program \notin Simple => y.app.ready = z.app.ready
    BY <1>1, <1>3, DoneTold
  <2> HIDE DEF y
  <2>2. QED
    BY <1>2, <1>3, <2>1
<1> HIDE DEF y
<1>5. /\ SimpleMode \notin Filling \cup SamplingStates \cup {Calibration}
      /\ r.state \in Filling /\ r.state \in SamplingStates
      /\ SimpleMode \notin {AdvMode, AdvModeSample, AdvModeSampleStarted}
  BY StatesDiffer DEF Filling, SimpleMode, AdvMode, AdvModeSample, AdvModeSampleStarted
<1> SUFFICES ASSUME NEW F, "STOPPED" \notin F PROVE Chain(e, y.app, F)
  <2>1. \A F : "STOPPED" \notin F => Chain(e, y.app, F)
    OBVIOUS
  <2>2. /\ y.adc.events = r.events /\ \A F : "STOPPED" \notin F => Chain(y.adc, y.app, F)
        /\ program # "any" => y.app.pc # "init"
    BY <1>2, <1>4, <2>1 DEF Inside, Told
  <2>3. QED
    BY <2>2 DEF y, z, e
<1>6. Fits(e) /\ Writes(e, y.app, F)
  BY <1>1, <1>2, <1>5 DEF Chain, Fits, Writes
<1>7. Ordered(e, y.app, F)
  <2>1. ~Owed(e, F) /\ Owed(r, E) /\ Ordered(r, a, E)
    BY <1>1, <1>2, <1>5 DEF Owed, Chain
  <2> HIDE DEF a, r, E
  <2>2. QED
    BY <1>1, <1>2, <1>4, <2>1, HandedOrdered
<1>8. Chained(e, y.app)
  <2>1. r.handler
    BY <1>5, StatesDiffer DEF Inside, Sound, Listens
  <2>2. QED
    BY <1>1, <1>2, <1>4, <1>5, <2>1 DEF Chain, Chained, Advanced, Reports, Told
<1>9. ASSUME program # "any" PROVE Running(e, y.app, F) /\ y.app.pc # "init"
  <2>1. Running(r, a, E) /\ a.pc # "init"
    BY <1>1, <1>9 DEF Chain, Example, Inside
  <2>2. program \in Simple
    BY <1>5, <2>1, Modes DEF Running, SimpleModeSample, AdvModeSample, AdvModeSampleStarted,
       Calibration
  <2>3. Mode = SimpleMode /\ program \notin Streaming
    BY <2>2, Modes DEF Mode
  <2>4. QED
    BY <1>1, <1>2, <1>4, <1>5, <2>1, <2>2, <2>3 DEF Running, Told
<1>10. ~y.app.failed
  BY <1>1, <1>4 DEF Chain, Told
<1>11. QED
  BY <1>6, <1>7, <1>8, <1>9, <1>10 DEF Chain, Example

(* A buffer of a running conversion is full: the second one takes its      *)
(* place, and is being written, or the conversion is over.                 *)
LEMMA SampleEndChain ==
  ASSUME NEW x, NEW R, Inside(x, R), "END" \in R, "STOPPED" \notin R,
         x.adc.state = AdvModeSampleStarted
  PROVE  LET y == SampleEnd(x)
         IN  /\ y.adc.events \subseteq x.adc.events \cup {"STARTED"}
             /\ Chain(y.adc, y.app, y.adc.events \cup (R \ {"END"}))
             /\ program # "any" => y.app.pc # "init"
<1> DEFINE r == x.adc
           a == x.app
           E == r.events \cup R
           started == TaskStart(r)
           y == IF r.startOnEnd /\ r.secondary # NoBuffer THEN [x EXCEPT !.adc = started] ELSE x
           z == saadc_handler(y, "DONE")
           w == [z EXCEPT !.adc.primary = z.adc.secondary, !.adc.secondary = NoBuffer]
           e == [Disable(w.adc) EXCEPT !.state = AdvMode]
           f == [w EXCEPT !.adc = e]
           g == saadc_handler(f, "FINISHED")
           Q == R \ {"END"}
<1>1. /\ x \in Work /\ r \in Adc /\ a \in App /\ Chain(r, a, E) /\ program \notin Blocking
      /\ program \in Programs
      /\ "STOPPED" \notin E /\ "END" \in E /\ "END" \notin r.events /\ "STOPPED" \notin r.events
  BY StatesDiffer DEF Inside, Taken, Work
<1>2. /\ Fits(r) /\ Writes(r, a, E) /\ Ordered(r, a, E) /\ Chained(r, a) /\ ~a.failed
      /\ program # "any" => Running(r, a, E) /\ a.pc # "init"
  BY <1>1 DEF Chain, Example, Inside
<1>3. /\ AdvModeSampleStarted \in Filling /\ AdvModeSampleStarted \in SamplingStates
      /\ AdvModeSampleStarted \notin {AdvModeSample, Calibration, SimpleMode, AdvMode}
      /\ AdvMode \notin Filling \cup SamplingStates \cup {Calibration, AdvModeSample, SimpleMode}
  BY StatesDiffer DEF Filling, AdvModeSampleStarted, AdvModeSample, SimpleMode, AdvMode
<1>4. /\ r.secondary # NoBuffer => r.ptr = r.secondary
      /\ r.writing = (IF a.startOnEnd THEN r.ptr ELSE NoBuffer)
  BY <1>1, <1>2, <1>3 DEF Fits, Writes
<1>5. /\ started \in Adc /\ started.writing = r.ptr /\ started.events = r.events \cup {"STARTED"}
      /\ started.state = r.state /\ started.prev = r.prev /\ started.primary = r.primary
      /\ started.secondary = r.secondary /\ started.ptr = r.ptr
      /\ started.sampling = r.sampling /\ started.full = r.full
      /\ started.startOnEnd = r.startOnEnd /\ started.handler = r.handler
      /\ started.configured = r.configured /\ started.activated = r.activated
      /\ started.limits = r.limits
  BY <1>1, StatesDiffer DEF TaskStart, Adc, Interrupts
<1> HIDE DEF started
<1> DEFINE t == IF r.startOnEnd /\ r.secondary # NoBuffer THEN started ELSE r
<1>6. y \in Work /\ y.adc = t /\ y.app = a /\ t \in Adc
  BY <1>1, <1>5 DEF Work
<1>7. /\ t.writing = (IF r.startOnEnd /\ r.secondary # NoBuffer THEN r.ptr ELSE r.writing)
      /\ t.events \subseteq r.events \cup {"STARTED"}
      /\ t.state = r.state /\ t.prev = r.prev /\ t.primary = r.primary
      /\ t.secondary = r.secondary /\ t.ptr = r.ptr /\ t.sampling = r.sampling /\ t.full = r.full
      /\ t.startOnEnd = r.startOnEnd /\ t.handler = r.handler
      /\ t.configured = r.configured /\ t.activated = r.activated /\ t.limits = r.limits
  BY <1>5
<1> HIDE DEF t, y
<1>8. /\ z \in Work /\ z.adc = t /\ Told(a, z.app) /\ z.app.done = Append(a.done, r.primary)
      /\ program \notin Simple => z.app.ready = a.ready
  BY <1>1, <1>6, <1>7, DoneTold
<1> HIDE DEF z
<1> DEFINE q == [t EXCEPT !.primary = t.secondary, !.secondary = NoBuffer]
<1>9. w \in Work /\ w.adc = q /\ w.app = z.app /\ q \in Adc
  <2>1. q \in Adc
    BY <1>6, BufferTypes DEF Adc
  <2>2. w = [z EXCEPT !.adc = q]
    BY <1>8 DEF Work
  <2> HIDE DEF q, w
  <2>3. QED
    BY <1>8, <2>1, <2>2 DEF Work
<1>10. /\ q.primary = r.secondary /\ q.secondary = NoBuffer /\ q.writing = t.writing
       /\ q.events = t.events /\ q.state = r.state /\ q.prev = r.prev /\ q.ptr = r.ptr
       /\ q.sampling = r.sampling /\ q.full = r.full /\ q.startOnEnd = r.startOnEnd
       /\ q.handler = r.handler /\ q.configured = r.configured /\ q.activated = r.activated
       /\ q.limits = r.limits
  BY <1>6, <1>7 DEF Adc
<1> HIDE DEF w, q
<1>11. SampleEnd(x) = IF w.adc.primary # NoBuffer THEN w ELSE g
  BY DEF SampleEnd, NextBuffer, y, z, w, e, f, g, started
<1>12. program # "any" => program \in Streaming /\ a.count # 0
  BY <1>1, <1>2, <1>3, Modes DEF Running, SimpleModeSample, AdvModeSampleStarted, Mode, AdvMode
<1>13. CASE r.secondary # NoBuffer
  <2>1. q.writing = q.primary
    <3>1. r.startOnEnd = (program \in {"any", "internal_timer"})
      BY <1>2 DEF Chained, Advanced
    <3>2. program = "maximum_performance" => a.startOnEnd
      BY <1>2, <1>13 DEF Chained
    <3>3. r.startOnEnd \/ a.startOnEnd
      BY <1>12, <3>1, <3>2 DEF Streaming
    <3>4. a.startOnEnd => ~r.startOnEnd
      <4>1. a.startOnEnd => program = "maximum_performance"
        BY <1>2 DEF Chained
      <4>2. QED
        BY <3>1, <4>1
    <3>5. QED
      BY <1>4, <1>7, <1>10, <1>13, <3>3, <3>4
  <2> DEFINE F == q.events \cup Q
  <2>2. "END" \notin F /\ "STOPPED" \notin F
    BY <1>1, <1>7, <1>10
  <2> HIDE DEF F
  <2>3. Fits(q) /\ Writes(q, z.app, F)
    BY <1>2, <1>3, <1>10, <1>13, <2>1, <2>2 DEF Fits, Writes
  <2>4. Ordered(q, z.app, F)
    <3>1. ~Owed(q, F) /\ Owed(r, E)
      BY <1>1, <1>3, <2>2 DEF Owed
    <3> HIDE DEF a, r, E
    <3>2. QED
      BY <1>1, <1>2, <1>8, <1>10, <3>1, HandedOrdered
  <2>5. Chained(q, z.app)
    BY <1>2, <1>3, <1>8, <1>10 DEF Chained, Advanced, Reports, Told
  <2>6. program # "any" => Running(q, z.app, F) /\ z.app.pc # "init"
    BY <1>1, <1>2, <1>3, <1>8, <1>10, <1>12, <2>2, Modes DEF Running, Told
  <2>7. Chain(q, z.app, F)
    BY <1>2, <1>8, <2>3, <2>4, <2>5, <2>6 DEF Chain, Example, Told
  <2>8. SampleEnd(x) = w
    BY <1>9, <1>10, <1>11, <1>13
  <2>9. QED
    BY <1>7, <1>9, <1>10, <2>6, <2>7, <2>8 DEF F
<1>14. CASE r.secondary = NoBuffer
  <2>1. /\ e \in Adc /\ e.state = AdvMode /\ ~e.sampling /\ e.primary = NoBuffer
        /\ e.secondary = NoBuffer /\ e.events = q.events /\ e.full = r.full
        /\ e.startOnEnd = r.startOnEnd /\ e.handler = r.handler
        /\ e.configured = r.configured /\ e.activated = r.activated /\ e.limits = r.limits
    BY <1>9, <1>10, <1>14, BufferTypes, StatesDiffer DEF Disable, Adc
  <2> HIDE DEF e
  <2>2. f \in Work /\ f.adc = e /\ f.app = z.app
    BY <1>9, <2>1 DEF Work
  <2> HIDE DEF f
  <2>3. g.adc = e /\ g.app = z.app
    BY <1>1, <2>1, <2>2, ReadyTold
  <2> DEFINE F == e.events \cup Q
  <2>4. "END" \notin F /\ "STOPPED" \notin F
    BY <1>1, <1>7, <1>10, <2>1
  <2> HIDE DEF F, g
  <2>5. Fits(e) /\ Writes(e, z.app, F)
    BY <1>3, <2>1, <2>4 DEF Fits, Writes
  <2>6. Ordered(e, z.app, F)
    <3>1. ~Owed(e, F) /\ Owed(r, E)
      BY <1>1, <1>3, <2>4 DEF Owed
    <3> HIDE DEF a, r, E
    <3>2. QED
      BY <1>1, <1>2, <1>8, <2>1, <3>1, HandedOrdered
  <2>7. Chained(e, z.app)
    <3>1. r.handler
      BY <1>3 DEF Inside, Sound, Listens
    <3>2. QED
      BY <1>2, <1>3, <1>8, <2>1, <3>1 DEF Chained, Advanced, Reports, Told
  <2>8. program # "any" => Running(e, z.app, F) /\ z.app.pc # "init"
    BY <1>1, <1>2, <1>3, <1>8, <1>12, <2>1, <2>4, Modes DEF Running, Told
  <2>9. Chain(e, z.app, F)
    BY <1>2, <1>8, <2>5, <2>6, <2>7, <2>8 DEF Chain, Example, Told
  <2>10. SampleEnd(x) = g
    BY <1>9, <1>10, <1>11, <1>14
  <2>11. QED
    BY <1>7, <1>10, <2>1, <2>3, <2>8, <2>9, <2>10 DEF F
<1>15. QED
  BY <1>13, <1>14

(* A calibration is over: an example triggers its conversion, and the      *)
(* driver does not refuse.                                                 *)
LEMMA CalibrationEndChain ==
  ASSUME NEW x, NEW R, Inside(x, R), "STOPPED" \notin R, x.adc.state = Calibration
  PROVE  LET y == saadc_handler([x EXCEPT !.adc = saadc_pre_calibration_state_restore(x.adc)],
                                "CALIBRATEDONE")
         IN  /\ y.adc.events \subseteq x.adc.events \cup {"STARTED"}
             /\ Chain(y.adc, y.app, y.adc.events \cup (R \ {"END"}))
             /\ program # "any" => y.app.pc # "init"
<1> DEFINE r == x.adc
           a == x.app
           E == r.events \cup R
           e == saadc_pre_calibration_state_restore(r)
           z == [x EXCEPT !.adc = e]
           y == saadc_handler(z, "CALIBRATEDONE")
           Q == R \ {"END"}
           F == e.events \cup Q
           t == nrfx_saadc_mode_trigger(e)
<1>1. /\ x \in Work /\ r \in Adc /\ a \in App /\ Sound(r) /\ Taken(r) /\ Chain(r, a, E)
      /\ program \notin Blocking /\ program \in Programs
      /\ program # "any" => a.pc # "init"
      /\ "END" \notin r.events /\ "STOPPED" \notin r.events
  BY StatesDiffer DEF Inside, Taken, Work, Sound
<1>2. /\ \A G : "STOPPED" \notin G => Chain(e, a, G)
      /\ e.state = r.prev /\ e.events \subseteq r.events
      /\ e.primary = r.primary /\ e.handler = r.handler /\ Sound(e)
  BY <1>1, RestoreChain, RestoreSound
<1> HIDE DEF e
<1>3. z \in Work /\ z.adc = e /\ z.app = a
  BY <1>1, <1>2 DEF Work, Sound
<1> HIDE DEF z
<1>4. "END" \notin F /\ "STOPPED" \notin F
  BY <1>1, <1>2
<1>5. Chain(e, a, F)
  BY <1>2, <1>4
<1>6. CASE program = "any"
  <2>1. y = z
    BY <1>6 DEF saadc_handler, AnyHandler, Simple
  <2>2. QED
    BY <1>2, <1>3, <1>5, <1>6, <2>1 DEF y, z, e
<1>7. CASE program # "any"
  <2>1. Running(r, a, E) /\ Running(e, a, F)
    BY <1>1, <1>5, <1>7 DEF Chain, Example
  <2>2. /\ r.prev = Mode /\ r.primary # NoBuffer /\ r.handler
        /\ program = "simple_non_blocking" => ~a.ready
        /\ program \in Streaming => a.count # 0
    <3>1. Calibration # SimpleMode /\ Calibration # AdvMode
      BY StatesDiffer
    <3>2. QED
      BY <1>1, <2>1, <3>1 DEF Running
  <2>3. e.state \in {SimpleMode, AdvMode} /\ e.handler /\ e.primary # NoBuffer
    BY <1>2, <2>2, Modes
  <2>4. e \in Adc /\ Fits(e) /\ Writes(e, a, F) /\ Ordered(e, a, F) /\ Chained(e, a) /\ ~a.failed
    BY <1>2, <1>5 DEF Chain, Sound
  <2> HIDE DEF F
  <2>5. /\ Fits(t) /\ Writes(t, a, F \cup {"STARTED"}) /\ Ordered(t, a, F \cup {"STARTED"})
        /\ Chained(t, a) /\ t.err = "SUCCESS" /\ t.events = e.events \cup {"STARTED"}
        /\ t.state = (IF e.state = SimpleMode THEN SimpleModeSample ELSE AdvModeSample)
        /\ SetAlike(e, t) /\ t.handler /\ t.primary = e.primary
    BY <1>4, <2>3, <2>4, LatchedChain
  <2>6. Sound(t) /\ t \in Adc
    BY <1>2, TriggerSound DEF Sound
  <2> HIDE DEF t
  <2>7. y.adc = t /\ y.app = a
    <3>1. y = Asserted(z, nrfx_saadc_mode_trigger(z.adc))
      BY <1>1, <1>7, Modes DEF saadc_handler, SimpleHandler, InternalTimerHandler,
         MaximumPerformanceHandler, Streaming
    <3>2. Asserted(z, t).adc = t /\ Asserted(z, t).app = a
      BY <1>3, <2>5, <2>6, AssertedKept
    <3>3. QED
      BY <1>3, <3>1, <3>2 DEF t
  <2>8. Running(t, a, F \cup {"STARTED"})
    <3>1. /\ t.state \in (IF program \in Simple THEN {SimpleModeSample}
                          ELSE {AdvModeSample, AdvModeSampleStarted})
          /\ t.state # Calibration
      BY <1>2, <2>2, <2>5, StatesDiffer DEF Mode, SimpleMode, AdvMode
    <3>2. QED
      BY <1>1, <1>4, <2>1, <2>2, <2>3, <2>5, <3>1 DEF Running, SetAlike
  <2>9. Chain(t, a, F \cup {"STARTED"})
    BY <1>1, <1>7, <2>4, <2>5, <2>8 DEF Chain, Example
  <2>10. y.adc.events \cup Q = F \cup {"STARTED"}
    BY <2>5, <2>7 DEF F
  <2> HIDE DEF y
  <2>11. /\ Chain(y.adc, y.app, y.adc.events \cup Q)
         /\ y.adc.events \subseteq r.events \cup {"STARTED"} /\ y.app.pc # "init"
    BY <1>1, <1>2, <1>7, <2>5, <2>7, <2>9, <2>10
  <2>12. QED
    BY <2>11 DEF y, z, e
<1>8. QED
  BY <1>6, <1>7

LEMMA EndChain ==
  ASSUME NEW x, NEW R, Inside(x, R), "END" \in R, "STOPPED" \notin R
  PROVE  LET y == saadc_event_end_handle(x)
         IN  /\ y.adc.events \subseteq x.adc.events \cup {"STARTED"}
             /\ Chain(y.adc, y.app, y.adc.events \cup (R \ {"END"}))
             /\ program # "any" => y.app.pc # "init"
<1>1. "STOPPED" \notin x.adc.events
  BY StatesDiffer DEF Inside, Taken
<1>2. /\ SimpleModeSample \notin {AdvModeSampleStarted, Calibration}
      /\ AdvModeSampleStarted # Calibration
  BY StatesDiffer DEF SimpleModeSample, AdvModeSampleStarted
<1>3. CASE x.adc.state = SimpleModeSample
  <2> DEFINE y == saadc_handler([x EXCEPT !.adc = [Disable(x.adc) EXCEPT !.state = SimpleMode]],
                                "DONE")
  <2>1. /\ y.adc.events = x.adc.events
        /\ \A F : "STOPPED" \notin F => Chain(y.adc, y.app, F)
        /\ program # "any" => y.app.pc # "init"
    BY <1>3, SimpleEndChain
  <2>2. saadc_event_end_handle(x) = y
    BY <1>2, <1>3 DEF saadc_event_end_handle
  <2> HIDE DEF y
  <2>3. "STOPPED" \notin y.adc.events \cup (R \ {"END"})
    BY <1>1, <2>1
  <2>4. QED
    BY <2>1, <2>2, <2>3
<1>4. CASE x.adc.state = AdvModeSampleStarted
  <2>1. saadc_event_end_handle(x) = SampleEnd(x)
    BY <1>2, <1>4 DEF saadc_event_end_handle
  <2>2. QED
    BY <1>4, <2>1, SampleEndChain
<1>5. CASE x.adc.state = Calibration
  <2> DEFINE y == saadc_handler([x EXCEPT !.adc = saadc_pre_calibration_state_restore(x.adc)],
                                "CALIBRATEDONE")
  <2>1. saadc_event_end_handle(x) = y
    BY <1>2, <1>5 DEF saadc_event_end_handle
  <2>2. /\ y.adc.events \subseteq x.adc.events \cup {"STARTED"}
        /\ Chain(y.adc, y.app, y.adc.events \cup (R \ {"END"}))
        /\ program # "any" => y.app.pc # "init"
    BY <1>5, CalibrationEndChain
  <2> HIDE DEF y
  <2>3. QED
    BY <2>1, <2>2
<1>6. CASE x.adc.state \notin {SimpleModeSample, AdvModeSampleStarted, Calibration}
  <2> DEFINE r == x.adc
             a == x.app
             E == r.events \cup R
             F == r.events \cup (R \ {"END"})
  <2>1. Chain(r, a, E) /\ "END" \in E /\ "STOPPED" \notin F
    BY <1>1 DEF Inside
  <2>2. r.state \notin Filling \cup SamplingStates /\ r.state # AdvModeSample
    BY <1>6, <2>1 DEF Filling, Chain, Writes, SamplingStates
  <2> HIDE DEF F
  <2>3. Writes(r, a, F) /\ Ordered(r, a, F)
    BY <1>6, <2>1, <2>2 DEF Chain, Writes, Ordered, Owed
  <2>4. Example(r, a, F)
    BY <2>1 DEF Chain, Example, Running
  <2>5. Chain(r, a, F)
    BY <2>1, <2>3, <2>4 DEF Chain
  <2>6. saadc_event_end_handle(x) = x
    BY <1>6 DEF saadc_event_end_handle
  <2>7. QED
    BY <2>5, <2>6 DEF F, Inside
<1>7. QED
  BY <1>3, <1>4, <1>5, <1>6

(* STARTED is served: only a conversion that waits for it still needs it.  *)
LEMMA ServedChain ==
  ASSUME NEW r, NEW a, NEW E, Chain(r, a, E), "STARTED" \in E, "END" \notin E, "STOPPED" \notin E,
         NEW F, "END" \notin F, "STOPPED" \notin F, r.state # AdvModeSample
  PROVE  Chain(r, a, F)
<1>1. Writes(r, a, F)
  BY DEF Chain, Writes
<1>2. Ordered(r, a, F)
  BY DEF Chain, Ordered, Owed
<1>3. Example(r, a, F)
  BY DEF Chain, Example, Running
<1>4. QED
  BY <1>1, <1>2, <1>3 DEF Chain

(* A streaming example that gives the next buffer, or gives up on it.      *)
LEMMA SuppliedChain ==
  ASSUME program \in Streaming, NEW r, NEW a, NEW E, Chain(r, a, E), a.pc # "init",
         r.state = AdvModeSampleStarted, "END" \notin E,
         NEW y, NEW c, Chained(y, c),
         y.state = r.state, y.prev = r.prev, y.primary = r.primary, y.writing = r.writing,
         y.sampling = r.sampling, y.full = r.full, y.handler = r.handler, SetAlike(r, y),
         \/ y.secondary = NoBuffer
         \/ y.secondary \in Given /\ y.ptr = y.secondary,
         c.done = a.done, c.failed = a.failed, c.pc = a.pc, c.count = a.count
  PROVE  Chain(y, c, E)
<1>1. /\ program # "any" /\ program \notin Simple /\ program \notin Blocking
      /\ program # "simple_non_blocking" /\ program # "advanced_blocking"
  BY DEF Streaming, Simple, Blocking
<1>2. /\ AdvModeSampleStarted \in SamplingStates /\ AdvModeSampleStarted # Calibration
      /\ AdvModeSampleStarted # AdvModeSample /\ AdvModeSampleStarted # AdvMode
  BY StatesDiffer DEF AdvModeSampleStarted, AdvModeSample, AdvMode
<1>3. Fits(y)
  BY <1>2 DEF Chain, Fits
<1>4. Writes(y, c, E)
  BY <1>2 DEF Chain, Writes
<1>5. Ordered(y, c, E)
  BY DEF Chain, Ordered, Owed
<1>6. Running(y, c, E)
  BY <1>1, <1>2 DEF Chain, Example, Running, SetAlike
<1>7. QED
  BY <1>1, <1>3, <1>4, <1>5, <1>6 DEF Chain, Example

(* The driver takes the buffer a running conversion asks for.              *)
LEMMA BufferWanted ==
  ASSUME NEW r \in Adc, r.state = AdvModeSampleStarted, r.activated = {0},
         r.primary # NoBuffer, r.secondary = NoBuffer, NEW i \in Channels
  PROVE  LET y == nrfx_saadc_buffer_set(r, Buffer(i))
         IN  /\ y.err = "SUCCESS" /\ y.secondary = Buffer(i) /\ y.ptr = Buffer(i)
             /\ y.state = r.state /\ y.prev = r.prev /\ y.primary = r.primary
             /\ y.writing = r.writing /\ y.sampling = r.sampling /\ y.full = r.full
             /\ y.handler = r.handler /\ y.startOnEnd = r.startOnEnd /\ y.events = r.events
             /\ SetAlike(r, y) /\ y \in Adc
<1> DEFINE b == Buffer(i)
           w == [r EXCEPT !.ptr = b]
           s == [w EXCEPT !.secondary = b, !.err = "SUCCESS"]
<1>1. b \in Buffers /\ b.len = 2 /\ "SUCCESS" \in Errors
  BY BufferTypes DEF Buffer, Errors
<1>2. AdvModeSampleStarted # SimpleMode
  BY DEF AdvModeSampleStarted, SimpleMode
<1>3. ~InvalidLength(r, b)
  <2>1. Cardinality(r.activated) = 1
    BY TwoChannels
  <2>2. 2 % 1 = 0 /\ 2 # 0
    OBVIOUS
  <2> HIDE DEF b
  <2>3. QED
    BY <1>1, <1>2, <2>1, <2>2 DEF InvalidLength
<1> HIDE DEF b
<1>4. /\ s.err = "SUCCESS" /\ s.secondary = b /\ s.ptr = b
      /\ s.state = r.state /\ s.prev = r.prev /\ s.primary = r.primary
      /\ s.writing = r.writing /\ s.sampling = r.sampling /\ s.full = r.full
      /\ s.handler = r.handler /\ s.startOnEnd = r.startOnEnd /\ s.events = r.events
      /\ SetAlike(r, s) /\ s \in Adc
  BY <1>1 DEF Adc, SetAlike
<1>5. nrfx_saadc_buffer_set(r, b) = s
  BY <1>2, <1>3 DEF nrfx_saadc_buffer_set
<1> HIDE DEF s
<1>6. QED
  BY <1>4, <1>5 DEF b

(* BUF_REQ of a streaming example: a buffer as long as iterations are      *)
(* left, and none after them.                                              *)
LEMMA BufReqTold ==
  ASSUME NEW x \in Work, x.adc.state = AdvModeSampleStarted, x.adc.activated = {0},
         x.adc.primary # NoBuffer, x.adc.secondary = NoBuffer
  PROVE  LET y == BufReq(x)
             r == x.adc
             n == x.app.requests + 1
         IN  /\ y \in Work
             /\ y.app.requests = n /\ y.app.done = x.app.done /\ y.app.failed = x.app.failed
             /\ y.app.pc = x.app.pc /\ y.app.count = x.app.count
             /\ y.app.startOnEnd = x.app.startOnEnd
             /\ IF n < Iterations
                THEN \E i \in Channels : y.adc = nrfx_saadc_buffer_set(r, Buffer(i))
                ELSE y.adc = r
<1> DEFINE r == x.adc
           n == x.app.requests + 1
           i == x.app.index
           a == [x.app EXCEPT !.requests = n]
           y == [x EXCEPT !.app.requests = n]
           s == nrfx_saadc_buffer_set(r, Buffer(i))
           z == Asserted(y, s)
           w == [z EXCEPT !.app.index = (@ + 1) % 2]
<1>1. r \in Adc /\ x.app \in App /\ i \in Channels /\ n \in Nat
  BY DEF Work, App
<1>2. y \in Work /\ y.adc = r /\ y.app = a
  BY <1>1 DEF Work, App
<1>3. /\ a.requests = n /\ a.done = x.app.done /\ a.failed = x.app.failed /\ a.index = i
      /\ a.pc = x.app.pc /\ a.count = x.app.count /\ a.startOnEnd = x.app.startOnEnd
      /\ a \in App
  BY <1>1 DEF App
<1>4. s \in Adc /\ s.err = "SUCCESS"
  BY <1>1, BufferWanted
<1>5. BufReq(x) = IF n < Iterations THEN w ELSE y
  <2>1. y.app.index = i
    BY <1>2, <1>3
  <2>2. BufReq(x) = IF n < Iterations
                    THEN [Asserted(y, nrfx_saadc_buffer_set(y.adc, Buffer(y.app.index)))
                            EXCEPT !.app.index = (@ + 1) % 2]
                    ELSE y
    BY DEF BufReq
  <2> HIDE DEF y
  <2>3. QED
    BY <1>2, <2>1, <2>2
<1> HIDE DEF y, s, a
<1>6. z \in Work /\ z.adc = s /\ z.app = a
  BY <1>2, <1>4, AssertedKept
<1> HIDE DEF z, i, n
<1>7. w.adc = s /\ w.app = [a EXCEPT !.index = (@ + 1) % 2] /\ w \in Work
  <2>1. (a.index + 1) % 2 \in Channels
    BY <1>1, <1>3 DEF Channels
  <2>2. QED
    BY <1>3, <1>6, <2>1 DEF Work, App
<1>8. /\ w.app.requests = n /\ w.app.done = x.app.done /\ w.app.failed = x.app.failed
      /\ w.app.pc = x.app.pc /\ w.app.count = x.app.count
      /\ w.app.startOnEnd = x.app.startOnEnd
  BY <1>3, <1>7 DEF App
<1> HIDE DEF w
<1>9. CASE n < Iterations
  BY <1>1, <1>5, <1>7, <1>8, <1>9 DEF n, s
<1>10. CASE ~(n < Iterations)
  BY <1>2, <1>3, <1>5, <1>10 DEF n
<1>11. QED
  BY <1>9, <1>10

LEMMA StreamingRequest ==
  ASSUME program \in Streaming, NEW x \in Work, NEW E, Chain(x.adc, x.app, E),
         x.app.pc # "init", x.adc.state = AdvModeSampleStarted, x.adc.secondary = NoBuffer,
         "END" \notin E
  PROVE  LET y == saadc_handler(x, "BUF_REQ")
         IN  y.adc.events = x.adc.events /\ Chain(y.adc, y.app, E)
<1> DEFINE r == x.adc
           a == x.app
           n == a.requests + 1
           y == BufReq(x)
           z == [y EXCEPT !.app.startOnEnd = FALSE]
           last == program = "maximum_performance" /\ n >= Iterations
           w == IF last THEN z ELSE y
<1>1. /\ r \in Adc /\ a \in App /\ n \in Nat /\ Iterations \in Nat /\ Fits(r) /\ Chained(r, a)
      /\ program # "any" /\ program \notin Simple /\ Running(r, a, E)
      /\ a.requests \in Nat
  BY IterationsAssumption DEF Work, App, Chain, Example, Streaming, Simple
<1>2. r.activated = {0} /\ r.primary # NoBuffer
  BY <1>1, StatesDiffer DEF Running, Fits
<1>3. /\ y \in Work
      /\ y.app.requests = n /\ y.app.done = a.done /\ y.app.failed = a.failed
      /\ y.app.pc = a.pc /\ y.app.count = a.count /\ y.app.startOnEnd = a.startOnEnd
      /\ IF n < Iterations
         THEN \E i \in Channels : y.adc = nrfx_saadc_buffer_set(r, Buffer(i))
         ELSE y.adc = r
  BY <1>2, BufReqTold
<1>4. saadc_handler(x, "BUF_REQ") = w
  <2>1. CASE program = "internal_timer"
    BY <2>1 DEF saadc_handler, InternalTimerHandler, Simple
  <2>2. CASE program = "maximum_performance"
    <3>1. y.app.requests = n
      BY <1>3
    <3>2. saadc_handler(x, "BUF_REQ") = MaximumPerformanceHandler(x, "BUF_REQ")
          /\ InternalTimerHandler(x, "BUF_REQ") = y
      BY <2>2 DEF saadc_handler, InternalTimerHandler, Simple
    <3>3. MaximumPerformanceHandler(x, "BUF_REQ") =
             IF y.app.requests >= Iterations THEN z ELSE y
      <4> HIDE DEF y
      <4>1. QED
        BY <3>2 DEF MaximumPerformanceHandler
    <3>4. QED
      BY <2>2, <3>1, <3>2, <3>3
  <2>3. QED
    BY <2>1, <2>2 DEF Streaming
<1> HIDE DEF y
<1>5. z.adc = y.adc /\ z.app = [y.app EXCEPT !.startOnEnd = FALSE]
  BY <1>3 DEF Work, App
<1>6. /\ w.adc = y.adc /\ w.app.requests = n /\ w.app.done = a.done /\ w.app.failed = a.failed
      /\ w.app.pc = a.pc /\ w.app.count = a.count
      /\ w.app.startOnEnd = (a.startOnEnd /\ ~last)
  <2>1. y.app \in App
    BY <1>3 DEF Work
  <2>2. a.startOnEnd \in BOOLEAN
    BY <1>1 DEF App
  <2>3. /\ z.app.requests = n /\ z.app.done = a.done /\ z.app.failed = a.failed
        /\ z.app.pc = a.pc /\ z.app.count = a.count /\ z.app.startOnEnd = FALSE
    BY <1>3, <1>5, <2>1 DEF App
  <2> HIDE DEF last, z
  <2>4. CASE last
    BY <1>5, <2>3, <2>4
  <2>5. CASE ~last
    BY <1>3, <2>2, <2>5
  <2>6. QED
    BY <2>4, <2>5
<1> HIDE DEF w, z
<1>7. /\ r.startOnEnd = (program \in {"any", "internal_timer"})
      /\ a.startOnEnd => program = "maximum_performance"
      /\ program = "maximum_performance" /\ ~a.startOnEnd => a.requests >= Iterations
  BY <1>1 DEF Chained, Advanced
<1>8. /\ program # "any"
      /\ w.app.startOnEnd => program = "maximum_performance"
      /\ program = "maximum_performance" /\ ~w.app.startOnEnd =>
           w.app.requests >= Iterations /\ ~(n < Iterations)
      /\ w.app.pc = "trigger" => program \in Blocking
  <2>1. a.pc = "trigger" => program \in Blocking
    BY <1>1 DEF Chained
  <2>2. ASSUME program = "maximum_performance", ~w.app.startOnEnd
        PROVE  n >= Iterations
    <3>1. CASE a.startOnEnd
      <4>1. last
        BY <1>6, <2>2, <3>1
      <4>2. QED
        BY <4>1
    <3>2. CASE ~a.startOnEnd
      <4>1. a.requests >= Iterations
        BY <1>7, <2>2, <3>2
      <4>2. QED
        BY <1>1, <4>1
    <3>3. QED
      BY <3>1, <3>2
  <2>3. w.app.startOnEnd => program = "maximum_performance"
    <3>1. w.app.startOnEnd => a.startOnEnd
      BY <1>6
    <3>2. QED
      BY <1>7, <3>1
  <2>4. n >= Iterations => ~(n < Iterations) /\ w.app.requests >= Iterations
    <3>1. w.app.requests = n
      BY <1>6
    <3>2. QED
      BY <1>1, <3>1
  <2> HIDE DEF n, last
  <2>5. QED
    BY <1>1, <1>6, <2>1, <2>2, <2>3, <2>4
<1>9. /\ w.adc.state = r.state /\ w.adc.prev = r.prev /\ w.adc.primary = r.primary
      /\ w.adc.writing = r.writing /\ w.adc.sampling = r.sampling /\ w.adc.full = r.full
      /\ w.adc.handler = r.handler /\ w.adc.startOnEnd = r.startOnEnd
      /\ w.adc.events = r.events /\ SetAlike(r, w.adc)
      /\ \/ w.adc.secondary = NoBuffer
         \/ n < Iterations /\ w.adc.secondary \in Given /\ w.adc.ptr = w.adc.secondary
  <2>1. CASE n < Iterations
    <3>1. PICK i \in Channels : y.adc = nrfx_saadc_buffer_set(r, Buffer(i))
      BY <1>3, <2>1
    <3> DEFINE s == nrfx_saadc_buffer_set(r, Buffer(i))
    <3>2. /\ s.secondary = Buffer(i) /\ s.ptr = Buffer(i)
          /\ s.state = r.state /\ s.prev = r.prev /\ s.primary = r.primary
          /\ s.writing = r.writing /\ s.sampling = r.sampling /\ s.full = r.full
          /\ s.handler = r.handler /\ s.startOnEnd = r.startOnEnd /\ s.events = r.events
          /\ SetAlike(r, s)
      BY <1>1, <1>2, BufferWanted
    <3>3. w.adc = s
      BY <1>6, <3>1
    <3> HIDE DEF s
    <3>4. QED
      BY <2>1, <3>2, <3>3, GivenBuffers
  <2>2. CASE ~(n < Iterations)
    BY <1>3, <1>6, <2>2 DEF SetAlike
  <2>3. QED
    BY <2>1, <2>2
<1>10. Chained(w.adc, w.app)
  BY <1>7, <1>8, <1>9 DEF Chained
<1> HIDE DEF n
<1>11. Chain(w.adc, w.app, E)
  BY <1>6, <1>9, <1>10, SuppliedChain
<1>12. QED
  BY <1>4, <1>9, <1>11

LEMMA RequestChain ==
  ASSUME program \in Programs, program \notin Blocking, NEW x \in Work, NEW E,
         Chain(x.adc, x.app, E), program # "any" => x.app.pc # "init",
         x.adc.state = AdvModeSampleStarted, "END" \notin E
  PROVE  LET y == Request(x) IN y.adc.events = x.adc.events /\ Chain(y.adc, y.app, E)
<1>1. CASE x.adc.secondary # NoBuffer
  BY <1>1 DEF Request
<1>2. CASE x.adc.secondary = NoBuffer /\ program # "any"
  <2>1. program \in Streaming
    <3>1. Running(x.adc, x.app, E)
      BY <1>2 DEF Chain, Example
    <3>2. program \notin Simple
      BY <3>1, StatesDiffer, Modes DEF Running, AdvModeSampleStarted, SimpleModeSample
    <3>3. QED
      BY <1>2, <3>2, Modes
  <2>2. QED
    BY <1>2, <2>1, StreamingRequest DEF Request
<1>3. CASE x.adc.secondary = NoBuffer /\ program = "any"
  <2> DEFINE s == nrfx_saadc_buffer_set(x.adc, Buffer(x.app.index))
             y == [x EXCEPT !.adc = s, !.app.index = (@ + 1) % 2]
  <2>1. Request(x) = IF x.app.supply THEN y ELSE x
    BY <1>3 DEF Request, saadc_handler, AnyHandler, Simple
  <2>2. x.adc \in Adc /\ x.app \in App /\ Buffer(x.app.index) \in Given
    BY GivenBuffers DEF Work, App
  <2>3. Chain(s, x.app, E) /\ s.events = x.adc.events
    BY <1>3, <2>2, BufferSetChain, BufferSetTaken DEF Chain
  <2> HIDE DEF s
  <2>4. y.adc = s /\ y.app = [x.app EXCEPT !.index = (@ + 1) % 2]
    BY <2>2 DEF Work, App
  <2>5. AppAlike(x.app, y.app)
    BY <2>2, <2>4 DEF AppAlike, App
  <2> HIDE DEF y
  <2>6. Chain(y.adc, y.app, E)
    BY <2>3, <2>4, <2>5, AppChain
  <2>7. QED
    BY <2>1, <2>3, <2>4, <2>6
<1>4. QED
  BY <1>1, <1>2, <1>3

LEMMA StartedChain ==
  ASSUME NEW x \in Work, Sound(x.adc), NEW R, Chain(x.adc, x.app, x.adc.events \cup R),
         "STARTED" \in R, x.adc.events \cap {"END", "STOPPED"} = {}, R \cap {"END", "STOPPED"} = {},
         program \in Programs, program \notin Blocking, program # "any" => x.app.pc # "init"
  PROVE  LET y == saadc_event_started_handle(x) IN Chain(y.adc, y.app, y.adc.events)
<1> DEFINE r == x.adc
           a == x.app
           E == r.events \cup R
           y == saadc_event_started_handle(x)
<1>1. /\ r \in Adc /\ a \in App /\ Chain(r, a, E)
      /\ "STARTED" \in E /\ "END" \notin E /\ "STOPPED" \notin E
      /\ "END" \notin r.events /\ "STOPPED" \notin r.events
  BY DEF Work
<1> HIDE DEF E, y
<1>2. /\ AdvModeSampleStarted \notin {AdvModeSample, Calibration, AdvMode, SimpleMode}
      /\ SimpleModeSample \notin {AdvModeSample, AdvModeSampleStarted}
      /\ Calibration \notin {AdvModeSample, AdvModeSampleStarted, SimpleModeSample}
      /\ AdvModeSampleStarted \in SamplingStates \cap Filling /\ AdvModeSample \in SamplingStates
      /\ AdvModeSample \notin Filling /\ AdvModeSample # Calibration
      /\ SimpleModeSample \in SamplingStates \cap Filling /\ Calibration \notin Filling
  BY StatesDiffer DEF AdvModeSampleStarted, AdvModeSample, AdvMode, SimpleMode, SimpleModeSample,
     Filling
<1>3. CASE r.state = AdvModeSample
  <2> DEFINE z == saadc_handler(x, "READY")
             on == z.adc.sampling \/ z.adc.timer
             next == IF z.adc.secondary # NoBuffer THEN z.adc.secondary ELSE z.adc.ptr
             t == [z.adc EXCEPT !.sampling = on, !.state = AdvModeSampleStarted, !.ptr = next]
             w == [z EXCEPT !.adc = t]
  <2>1. y = Request(w)
    BY <1>2, <1>3 DEF y, saadc_event_started_handle
  <2>2. z \in Work /\ z.app = a /\ \E s \in BOOLEAN : z.adc = [r EXCEPT !.sampling = s]
    BY ReadyTold
  <2>3. PICK s \in BOOLEAN : z.adc = [r EXCEPT !.sampling = s]
    BY <2>2
  <2>4. z.adc \in Adc /\ on \in BOOLEAN /\ next \in Buffers /\ AdvModeSampleStarted \in States
    BY <2>2, StatesDiffer DEF Work, Adc
  <2>5. /\ z.adc.prev = r.prev /\ z.adc.primary = r.primary /\ z.adc.secondary = r.secondary
        /\ z.adc.writing = r.writing /\ z.adc.full = r.full /\ z.adc.startOnEnd = r.startOnEnd
        /\ z.adc.handler = r.handler /\ z.adc.events = r.events /\ SetAlike(r, z.adc)
    BY <1>1, <2>3 DEF Adc, SetAlike
  <2>6. next = IF r.secondary # NoBuffer THEN r.secondary ELSE z.adc.ptr
    BY <2>5
  <2> HIDE DEF z, on, next
  <2>7. /\ t \in Adc /\ t.state = AdvModeSampleStarted /\ t.ptr = next
        /\ t.prev = r.prev /\ t.primary = r.primary /\ t.secondary = r.secondary
        /\ t.writing = r.writing /\ t.full = r.full /\ t.startOnEnd = r.startOnEnd
        /\ t.handler = r.handler /\ t.events = r.events /\ SetAlike(r, t)
    BY <2>4, <2>5 DEF Adc, SetAlike
  <2> HIDE DEF t
  <2>8. w \in Work /\ w.adc = t /\ w.app = a
    BY <2>2, <2>7 DEF Work
  <2> HIDE DEF w
  <2>9. Fits(t)
    BY <1>1, <1>2, <1>3, <2>6, <2>7 DEF Chain, Fits
  <2>10. Writes(t, a, E)
    BY <1>1, <1>2, <1>3, <2>7 DEF Chain, Writes
  <2>11. Ordered(t, a, E)
    BY <1>1, <2>7 DEF Chain, Ordered, Owed
  <2>12. Chained(t, a)
    BY <1>1, <1>2, <1>3, <2>7 DEF Chain, Chained, Advanced, Reports
  <2>13. program # "any" => Running(t, a, E)
    <3>1. AdvModeSample # AdvMode /\ AdvModeSample # SimpleMode /\ AdvModeSample # SimpleModeSample
          /\ AdvModeSample # Mode
      BY Modes DEF AdvModeSample, AdvMode, SimpleMode, SimpleModeSample, Mode
    <3>2. QED
      BY <1>1, <1>2, <1>3, <2>7, <3>1 DEF Chain, Example, Running, SetAlike
  <2>14. Chain(t, a, E)
    BY <1>1, <2>9, <2>10, <2>11, <2>12, <2>13 DEF Chain, Example
  <2>15. Chain(w.adc, w.app, t.events)
    BY <1>1, <1>2, <2>7, <2>8, <2>14, ServedChain
  <2>16. y.adc.events = w.adc.events /\ Chain(y.adc, y.app, t.events)
    BY <1>1, <2>1, <2>7, <2>8, <2>15, RequestChain
  <2>17. QED
    BY <2>8, <2>16 DEF y
<1>4. CASE r.state = AdvModeSampleStarted
  <2>1. y = Request(x)
    BY <1>2, <1>4 DEF y, saadc_event_started_handle
  <2>2. Chain(r, a, r.events)
    BY <1>1, <1>2, <1>4, ServedChain
  <2>3. y.adc.events = r.events /\ Chain(y.adc, y.app, r.events)
    BY <1>1, <1>4, <2>1, <2>2, RequestChain
  <2>4. QED
    BY <2>3 DEF y
<1>5. CASE r.state = SimpleModeSample
  <2> DEFINE t == [r EXCEPT !.sampling = TRUE]
  <2>1. y.adc = t /\ y.app = a
    BY <1>1, <1>2, <1>5 DEF y, saadc_event_started_handle, Work
  <2>2. /\ t.state = r.state /\ t.ptr = r.ptr
        /\ t.prev = r.prev /\ t.primary = r.primary /\ t.secondary = r.secondary
        /\ t.writing = r.writing /\ t.full = r.full /\ t.startOnEnd = r.startOnEnd
        /\ t.handler = r.handler /\ t.events = r.events /\ SetAlike(r, t)
    BY <1>1 DEF Adc, SetAlike
  <2> HIDE DEF t
  <2>3. Fits(t) /\ Writes(t, a, E)
    BY <1>1, <1>2, <1>5, <2>2 DEF Chain, Fits, Writes
  <2>4. Ordered(t, a, E) /\ Chained(t, a)
    BY <1>1, <2>2 DEF Chain, Ordered, Owed, Chained, Advanced, Reports
  <2>5. program # "any" => Running(t, a, E)
    BY <1>1, <2>2 DEF Chain, Example, Running, SetAlike
  <2>6. Chain(t, a, E)
    BY <1>1, <2>3, <2>4, <2>5 DEF Chain, Example
  <2>7. Chain(t, a, t.events)
    BY <1>1, <1>2, <1>5, <2>2, <2>6, ServedChain
  <2>8. QED
    BY <2>1, <2>7 DEF y
<1>6. CASE r.state = Calibration
  <2> DEFINE s == TaskStop(r, 0)
             t == Ended(a, s)
  <2>1. y.adc = t /\ y.app = a
    BY <1>1, <1>2, <1>6 DEF y, saadc_event_started_handle, Work
  <2>2. /\ ~Owed(r, E) /\ r.writing \in {NoBuffer, CalibSamples}
        /\ a.startOnEnd => r.ptr = CalibSamples
    BY <1>1, <1>2, <1>6 DEF Owed, Chain, Writes
  <2>3. /\ s.state = r.state /\ s.ptr = r.ptr /\ s.prev = r.prev /\ s.primary = r.primary
        /\ s.secondary = r.secondary /\ s.full = r.full /\ s.startOnEnd = r.startOnEnd
        /\ s.handler = r.handler /\ s.writing = NoBuffer /\ ~s.sampling
        /\ s.configured = r.configured /\ s.activated = r.activated /\ s.limits = r.limits
        /\ s = [s EXCEPT !.writing = NoBuffer]
        /\ TaskStart(s).writing = r.ptr
    BY <1>1, <2>2 DEF TaskStop, TaskStart, Adc
  <2>4. /\ t.state = Calibration /\ t.ptr = r.ptr /\ t.prev = r.prev /\ t.primary = r.primary
        /\ t.secondary = r.secondary /\ t.full = r.full /\ t.startOnEnd = r.startOnEnd
        /\ t.handler = r.handler /\ t.writing \in {NoBuffer, CalibSamples} /\ ~t.sampling
        /\ t.configured = r.configured /\ t.activated = r.activated /\ t.limits = r.limits
    <3>1. s \in Adc
      <4> DEFINE more == r.events \cup {"STOPPED"} \cup
                           (IF r.writing = NoBuffer THEN {} ELSE {"END"})
                 n == IF r.writing = NoBuffer THEN r.amount ELSE 0
      <4>1. s = [r EXCEPT !.events = more, !.amount = n,
                          !.writing = NoBuffer, !.sampling = FALSE, !.calibrating = FALSE]
        BY <1>1, <2>2 DEF TaskStop, Adc
      <4>2. /\ more \in SUBSET Interrupts /\ n \in Nat /\ NoBuffer \in Buffers
        BY <1>1, StatesDiffer, BufferTypes DEF Interrupts, Adc
      <4> HIDE DEF s, more, n
      <4>3. QED
        BY <1>1, <4>1, <4>2 DEF Adc
    <3> HIDE DEF s
    <3>2. CASE a.startOnEnd
      BY <1>6, <2>2, <2>3, <3>1, <3>2 DEF Ended, TaskStart, Adc
    <3>3. CASE ~a.startOnEnd
      BY <1>6, <2>3, <3>3 DEF Ended
    <3>4. QED
      BY <3>2, <3>3
  <2> HIDE DEF t
  <2>5. program # "any" => /\ r.primary # NoBuffer
                           /\ program = "simple_non_blocking" => ~a.ready
                           /\ program \in Streaming => a.count # 0
    <3>1. Calibration # SimpleMode /\ Calibration # AdvMode
      BY StatesDiffer
    <3>2. QED
      BY <1>1, <1>6, <3>1 DEF Chain, Example, Running
  <2>6. Chain(t, a, t.events)
    BY <1>1, <1>6, <2>2, <2>4, <2>5, CalibrationChain
  <2>7. QED
    BY <2>1, <2>6 DEF y
<1>7. CASE r.state \notin {AdvModeSample, AdvModeSampleStarted, SimpleModeSample, Calibration}
  <2>1. y = x
    BY <1>7 DEF y, saadc_event_started_handle
  <2>2. Chain(r, a, r.events)
    BY <1>1, <1>7, ServedChain
  <2>3. QED
    BY <2>1, <2>2 DEF y
<1>8. QED
  BY <1>3, <1>4, <1>5, <1>6, <1>7

(* What an interrupt finds: an example that runs, and not a blocking one.  *)
LEMMA PendingFacts ==
  ASSUME ChainInv, Pending
  PROVE  /\ Whole \in Work /\ Whole.adc = adc /\ Whole.app = app /\ adc \in Adc /\ Sound(adc)
         /\ Chain(adc, app, adc.events) /\ adc.state # "UNINITIALIZED"
         /\ program \notin Blocking /\ (program # "any" => app.pc # "init")
<1>1. /\ Whole \in Work /\ Whole.adc = adc /\ Whole.app = app /\ adc \in Adc /\ Sound(adc)
      /\ Chain(adc, app, adc.events) /\ adc.ints # {}
  BY DEF ChainInv, SaadcInv, Linked, Pending, Whole, Sound
<1>2. adc.state # "UNINITIALIZED"
  BY <1>1 DEF Sound, Listens
<1>3. program # "any" => app.pc # "init" /\ Running(adc, app, adc.events)
  BY <1>1 DEF Chain, Example, PowerOn
<1>4. program \notin Blocking
  BY <1>1, <1>3, Modes DEF Running
<1>5. QED
  BY <1>1, <1>2, <1>3, <1>4

LEMMA LimitsServedChain ==
  ASSUME NEW r \in Adc, NEW a, Chain(r, a, r.events)
  PROVE  LET y == saadc_event_limits_handle(r) IN Chain(y, a, y.events)
<1> DEFINE l == [r EXCEPT !.events = @ \ (r.ints \cap Limits)]
           y == saadc_event_limits_handle(r)
<1>1. /\ Like(r, l) /\ SetAlike(r, l) /\ l.events \cap Conversions = r.events \cap Conversions
  BY StatesDiffer DEF Like, SetAlike, Adc
<1>2. y = IF r.state = Calibration THEN r ELSE l
  BY DEF saadc_event_limits_handle
<1> HIDE DEF y
<1>3. CASE program # "any" => a.pc # "init"
  <2> HIDE DEF l
  <2>1. Chain(l, a, l.events)
    BY <1>1, <1>3, LikeChain
  <2>2. Chain(y, a, y.events)
    BY <1>2, <2>1
  <2>3. QED
    BY <2>2 DEF y
<1>4. CASE program # "any" /\ a.pc = "init"
  <2>1. r.events = {}
    BY <1>4 DEF Chain, Example, PowerOn
  <2>2. l = r
    BY <2>1 DEF Adc
  <2> HIDE DEF l
  <2>3. QED
    BY <1>2, <2>2 DEF y
<1>5. QED
  BY <1>3, <1>4

(* The handler serves CALIBRATEDONE, STOPPED, END and STARTED in turn.     *)
LEMMA InterruptChain ==
  ASSUME ChainInv, nrfx_saadc_irq_handler
  PROVE  Linked'
<1> program \in Programs
  BY DEF ChainInv
<1> DEFINE evts == adc.events
           r0 == [adc EXCEPT !.events = evts \cap Limits]
           x0 == [Whole EXCEPT !.adc = r0]
           x1 == IF "CALIBRATEDONE" \in evts THEN CalibrationDone(x0) ELSE x0
           x2 == IF "STOPPED" \in evts THEN Stopped(x1) ELSE x1
           x3 == IF "END" \in evts THEN saadc_event_end_handle(x2) ELSE x2
           x4 == IF "STARTED" \in evts THEN saadc_event_started_handle(x3) ELSE x3
           ends == evts \cap {"STOPPED", "END", "CALIBRATEDONE"} # {}
           R2 == evts \ {"STOPPED"}
           R3 == R2 \ {"END"}
           Left(x) == /\ x \in Work /\ Sound(x.adc) /\ Chain(x.adc, x.app, x.adc.events \cup R3)
                      /\ x.adc.events \subseteq Limits \cup {"STARTED"}
                      /\ program # "any" => x.app.pc # "init"
<1>1. /\ Whole \in Work /\ Whole.adc = adc /\ Whole.app = app /\ adc \in Adc /\ Sound(adc)
      /\ Chain(adc, app, evts) /\ adc.state # "UNINITIALIZED"
      /\ program \notin Blocking /\ (program # "any" => app.pc # "init")
  BY PendingFacts DEF nrfx_saadc_irq_handler
<1>2. /\ Sound(r0) /\ r0.state = adc.state /\ r0.calibrating = adc.calibrating
      /\ r0.events = evts \cap Limits /\ Like(adc, r0) /\ SetAlike(adc, r0) /\ r0 \in Adc
  BY <1>1, StatesDiffer DEF Sound, Adc, Quiet, Calibrates, Listens, Like, SetAlike
<1>3. adc' = saadc_event_limits_handle(x4.adc) /\ app' = x4.app /\ UNCHANGED program
  <2>1. [Whole EXCEPT !.adc.events = evts \cap Limits] = x0
    BY <1>1 DEF Work
  <2>2. QED
    BY <2>1 DEF nrfx_saadc_irq_handler, x4, x3, x2, x1, x0
<1>4. "CALIBRATEDONE" \in evts => r0.state = Calibration
  BY <1>1, <1>2 DEF Sound, Calibrates
<1>5. ends => Taken(r0)
  BY <1>1, <1>2 DEF Sound, Calibrates, Taken
<1>6. Chain(r0, app, r0.events \cup evts)
  <2>1. (r0.events \cup evts) \cap Conversions = evts \cap Conversions
    BY <1>2
  <2> HIDE DEF r0
  <2>2. QED
    BY <1>1, <1>2, <2>1, LikeChain
<1> HIDE DEF r0
<1>7. x0 \in Work /\ x0.adc = r0 /\ x0.app = app
  BY <1>1, <1>2 DEF Work
<1> HIDE DEF x0
<1>8. evts \subseteq Interrupts
  BY <1>1 DEF Adc
<1>9. Left(x3)
  <2>1. CASE ends
    <3>1. Inside(x0, evts)
      BY <1>1, <1>2, <1>5, <1>6, <1>7, <2>1 DEF Inside
    <3>2. Inside(x1, evts)
      BY <1>4, <1>7, <3>1, CalibrationDoneChain
    <3> HIDE DEF x1
    <3>3. Inside(x2, R2)
      <4>1. CASE "STOPPED" \in evts
        <5>1. x2 = Stopped(x1)
          BY <4>1
        <5>2. QED
          BY <3>2, <4>1, <5>1, StoppedChain
      <4>2. CASE "STOPPED" \notin evts
        <5>1. x2 = x1 /\ R2 = evts
          BY <4>2
        <5>2. QED
          BY <3>2, <5>1
      <4>3. QED
        BY <4>1, <4>2
    <3> HIDE DEF x2
    <3>4. x2 \in Work /\ Sound(x2.adc) /\ Taken(x2.adc) /\ "STOPPED" \notin R2
      BY <3>3 DEF Inside
    <3>5. CASE "END" \in evts
      <4>1. "END" \in R2
        BY <3>5
      <4> HIDE DEF R2
      <4>2. /\ x3.adc.events \subseteq x2.adc.events \cup {"STARTED"}
            /\ Chain(x3.adc, x3.app, x3.adc.events \cup R3)
            /\ program # "any" => x3.app.pc # "init"
        BY <3>3, <3>4, <3>5, <4>1, EndChain
      <4>3. x3 \in Work /\ Sound(x3.adc)
        BY <3>4, <3>5, EndSound
      <4>4. QED
        BY <3>4, <4>2, <4>3 DEF Taken
    <3>6. CASE "END" \notin evts
      <4>1. x3 = x2 /\ R3 = R2
        BY <3>6
      <4>2. QED
        BY <3>3, <4>1 DEF Inside, Taken
    <3>7. QED
      BY <3>5, <3>6
  <2>2. CASE ~ends
    <3>1. x3 = x0 /\ R3 = evts
      BY <2>2
    <3>2. QED
      BY <1>1, <1>2, <1>6, <1>7, <3>1
  <2>3. QED
    BY <2>1, <2>2
<1> HIDE DEF x3
<1>10. /\ x3.adc.events \cap {"END", "STOPPED"} = {} /\ R3 \cap {"END", "STOPPED"} = {}
  BY <1>9, StatesDiffer
<1>11. x4 \in Work /\ Chain(x4.adc, x4.app, x4.adc.events)
  <2>1. CASE "STARTED" \in evts
    <3>1. "STARTED" \in R3
      BY <2>1
    <3> HIDE DEF R3
    <3>2. x4 \in Work /\ Chain(x4.adc, x4.app, x4.adc.events)
      BY <1>1, <1>9, <1>10, <2>1, <3>1, StartedChain, StartedSound
    <3>3. QED
      BY <3>2
  <2>2. CASE "STARTED" \notin evts
    <3>1. x4 = x3
      BY <2>2
    <3>2. (x3.adc.events \cup R3) \cap Conversions = x3.adc.events \cap Conversions
      BY <1>10, <2>2, StatesDiffer
    <3>3. Like(x3.adc, x3.adc) /\ SetAlike(x3.adc, x3.adc)
      BY DEF Like, SetAlike
    <3>4. /\ Chain(x3.adc, x3.app, x3.adc.events \cup R3)
          /\ program # "any" => x3.app.pc # "init"
      BY <1>9
    <3> HIDE DEF R3
    <3>5. Chain(x3.adc, x3.app, x3.adc.events)
      BY <3>2, <3>3, <3>4, LikeChain
    <3>6. QED
      BY <1>9, <3>1, <3>5
  <2>3. QED
    BY <2>1, <2>2
<1> HIDE DEF x4
<1>12. Chain(adc', app', adc'.events)
  <2>1. x4.adc \in Adc
    BY <1>11 DEF Work
  <2>2. QED
    BY <1>3, <1>11, <2>1, LimitsServedChain
<1>13. QED
  BY <1>3, <1>12, LinkedWhen

(* The chain holds under every program, call and interrupt.                *)
LEMMA ChainKept ==
  ASSUME ChainInv, [SaadcNext]_saadcVars
  PROVE  Linked' /\ program' = program
<1>1. program' = program
  BY DEF SaadcNext, saadcVars, Main, StartProgram, SampleOnce, TriggerBlocking, MultipleConfig,
         Step, AnyCall, Call, Supplies, nrfx_saadc_irq_handler, Peripheral, BufferFull,
         OffsetCalibrated, LimitExceeded
<1> SUFFICES Linked'
  BY <1>1
<1>2. CASE Main
  BY <1>2, StartChain, SampleChain, TriggerBlockingChain, MultipleChain DEF Main
<1>3. CASE AnyCall
  BY <1>3, AnyCallChain
<1>4. CASE Supplies
  BY <1>4, SuppliesChain
<1>5. CASE nrfx_saadc_irq_handler
  BY <1>5, InterruptChain
<1>6. CASE Peripheral
  BY <1>6, PeripheralChain
<1>7. CASE UNCHANGED saadcVars
  <2>1. UNCHANGED program /\ adc' = adc /\ app' = app
    BY <1>7 DEF saadcVars
  <2>2. Chain(adc', app', adc'.events)
    BY <2>1 DEF ChainInv, Linked
  <2>3. QED
    BY <2>1, <2>2, LinkedWhen
<1>8. QED
  BY <1>2, <1>3, <1>4, <1>5, <1>6, <1>7 DEF SaadcNext

(* The chain from the application to the converter and back is an          *)
(* invariant of every program (nrfx_saadc_irq_handler and the calls).      *)
THEOREM BuffersChained == SaadcSpec => []ChainInv
<1>1. SaadcInit => ChainInv
  BY SaadcInitSound, InitLinked DEF SaadcInit, ChainInv
<1>2. ChainInv /\ SaadcInv' /\ [SaadcNext]_saadcVars => ChainInv'
  BY ChainKept DEF ChainInv
<1>3. QED
  BY <1>1, <1>2, DriverSound, PTL DEF SaadcSpec

(* Every DONE hands over the buffer just filled, once and with the samples *)
(* it holds: saadc_event_end_handle and saadc_event_started_handle take    *)
(* the buffers in the order in which nrfx_saadc_buffer_set got them, for   *)
(* any number of samples, whatever aborts or calibrates in between.        *)
THEOREM InOrder == SaadcSpec => []BuffersInOrder
<1>1. ChainInv => BuffersInOrder
  <2> SUFFICES ASSUME ChainInv PROVE BuffersInOrder
    OBVIOUS
  <2>1. /\ app.done \in Seq(Buffers) /\ adc.full \in Seq(Buffers)
        /\ Ordered(adc, app, adc.events)
    BY DEF ChainInv, SaadcInv, Sound, Linked, Chain, Whole, Work, Adc, App
  <2>2. Len(app.done) \in Nat /\ Len(adc.full) \in Nat
    BY <2>1
  <2>3. Len(adc.full) \in {Len(app.done), Len(app.done) + 1}
    <3>1. Len(app.done) + 0 = Len(app.done)
      BY <2>2
    <3>2. QED
      BY <2>1, <3>1 DEF Ordered
  <2>4. \A i \in 1 .. Len(app.done) : app.done[i] = adc.full[i]
    BY <2>1 DEF Ordered
  <2>5. Len(app.done) <= Len(adc.full) /\ Len(adc.full) <= Len(app.done) + 1
    BY <2>2, <2>3
  <2>6. IsPrefix(app.done, adc.full)
    BY <2>1, <2>2, <2>4, <2>5 DEF IsPrefix
  <2>7. QED
    BY <2>5, <2>6 DEF BuffersInOrder
<1>2. QED
  BY <1>1, BuffersChained, PTL

(* No driver call of an example is refused, in main or in a handler: the   *)
(* NRFX_ASSERT behind nrfx_saadc_buffer_set, nrfx_saadc_mode_trigger and   *)
(* the others never stops a program, for any number of iterations.         *)
THEOREM NoneRefused == SaadcSpec => []AssertionsHold
<1>1. ChainInv => AssertionsHold
  BY DEF ChainInv, Linked, Chain, AssertionsHold
<1>2. QED
  BY <1>1, BuffersChained, PTL
=============================================================================

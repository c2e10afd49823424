---------------------------- MODULE SaadcDriver ----------------------------
(***************************************************************************)
(* The calls of the SAADC driver kept beside the project                   *)
(* (reseni_adc/nrfx_saadc.c), as functions on a record that holds the      *)
(* control block m_cb and what the driver uses of the peripheral: a call   *)
(* made by an event handler runs inside the interrupt, so an interrupt is  *)
(* a composition of these functions (SaadcInterrupt).                      *)
(***************************************************************************)
EXTENDS Naturals, Sequences, FiniteSets

NoBuffer == [name |-> "none", len |-> 0]
CalibSamples == [name |-> "calib", len |-> 2]

Idle == "IDLE"
SimpleMode == "SIMPLE_MODE"
SimpleModeSample == "SIMPLE_MODE_SAMPLE"
AdvMode == "ADV_MODE"
AdvModeSample == "ADV_MODE_SAMPLE"
AdvModeSampleStarted == "ADV_MODE_SAMPLE_STARTED"
Calibration == "CALIBRATION"

(* The control block after reset, and the peripheral: RESULT.PTR, the      *)
(* buffer being written, the enabled interrupts, the pending events.       *)
PowerOn ==
    [state |-> "UNINITIALIZED", prev |-> "UNINITIALIZED",
     handler |-> FALSE, calibHandler |-> FALSE,
     primary |-> NoBuffer, secondary |-> NoBuffer, converted |-> 0,
     configured |-> {}, activated |-> {}, limits |-> {}, startOnEnd |-> FALSE,
     timer |-> FALSE, err |-> "SUCCESS",
     ptr |-> NoBuffer, writing |-> NoBuffer, amount |-> 0, sampling |-> FALSE,
     calibrating |-> FALSE, ints |-> {}, events |-> {}, full |-> <<>>]

Conversions == {"STARTED", "STOPPED", "END"}

Return(r, err) == [r EXCEPT !.err = err]

saadc_busy_check(r) == r.state \notin {Idle, AdvMode, SimpleMode}

(* Tasks of the peripheral.  START latches RESULT.PTR; STOP ends a buffer  *)
(* that is being written, with an END event, after n samples.              *)
TaskStart(r) == [r EXCEPT !.writing = r.ptr, !.events = @ \cup {"STARTED"}]

TaskStop(r, n) ==
    [r EXCEPT !.events = @ \cup {"STOPPED"} \cup
                         (IF r.writing = NoBuffer THEN {} ELSE {"END"}),
              !.amount = IF r.writing = NoBuffer THEN @ ELSE n,
              !.full = IF r.writing \in {NoBuffer, CalibSamples} THEN @
                       ELSE Append(@, [r.writing EXCEPT !.len = n]),
              !.writing = NoBuffer, !.sampling = FALSE, !.calibrating = FALSE]

Disable(r) == [r EXCEPT !.writing = NoBuffer, !.sampling = FALSE]

Latch(r, b) == TaskStart([r EXCEPT !.ptr = b])

(* A blocking conversion: the buffer is full and its events are cleared    *)
(* when the call returns.                                                  *)
Convert(r, b) == [r EXCEPT !.full = Append(@, b), !.amount = b.len]

saadc_channel_config(r, ch) == [r EXCEPT !.configured = @ \cup {ch}]

saadc_channels_deconfig(r, chs) == [r EXCEPT !.configured = @ \ chs]

nrfx_saadc_init(r) ==
    IF r.state # "UNINITIALIZED" THEN Return(r, "ALREADY")
    ELSE [saadc_channels_deconfig(r, r.configured)
             EXCEPT !.state = Idle, !.handler = FALSE, !.ints = {},
                    !.events = {}, !.err = "SUCCESS"]

nrfx_saadc_channel_config(r, ch) ==
    IF saadc_busy_check(r) THEN Return(r, "BUSY")
    ELSE Return(saadc_channel_config(r, ch), "SUCCESS")

nrfx_saadc_channels_config(r, chs) ==
    IF saadc_busy_check(r) THEN Return(r, "BUSY")
    ELSE Return([saadc_channels_deconfig(r, r.configured) EXCEPT !.configured = chs], "SUCCESS")

(* The converter is stopped, buffers and limits are forgotten.             *)
saadc_generic_mode_set(r, chs, handler) ==
    [r EXCEPT !.limits = {}, !.primary = NoBuffer, !.secondary = NoBuffer,
              !.handler = handler, !.activated = chs, !.converted = 0,
              !.writing = NoBuffer, !.sampling = FALSE, !.events = @ \ {"STOPPED"},
              !.ints = IF handler THEN Conversions ELSE {}]

nrfx_saadc_simple_mode_set(r, chs, handler) ==
    IF saadc_busy_check(r) THEN Return(r, "BUSY")
    ELSE IF ~(chs \subseteq r.configured) THEN Return(r, "INVALID_PARAM")
    ELSE [saadc_generic_mode_set(r, chs, handler) EXCEPT !.state = SimpleMode, !.err = "SUCCESS"]

(* config: the internal timer runs, START on END by the driver.            *)
nrfx_saadc_advanced_mode_set(r, chs, config, handler) ==
    IF saadc_busy_check(r) THEN Return(r, "BUSY")
    ELSE IF ~(chs \subseteq r.configured) THEN Return(r, "INVALID_PARAM")
    ELSE IF config.timer /\ (Cardinality(chs) > 1 \/ ~handler) THEN Return(r, "NOT_SUPPORTED")
    ELSE [saadc_generic_mode_set(r, chs, handler)
             EXCEPT !.state = AdvMode, !.timer = config.timer,
                    !.startOnEnd = config.startOnEnd, !.err = "SUCCESS"]

(* Whole scans of the active channels, in simple mode a single one.        *)
InvalidLength(r, b) ==
    \/ b.len = 0 \/ b.len % Cardinality(r.activated) # 0
    \/ r.state = SimpleMode /\ b.len # Cardinality(r.activated)

(* Mutant: RESULT.PTR is not written while a conversion runs.              *)
BufferNotHandedOver(r, b) ==
    IF r.secondary # NoBuffer THEN Return(r, "ALREADY")
    ELSE IF InvalidLength(r, b) THEN Return(r, "INVALID_LENGTH")
    ELSE IF r.state = SimpleMode THEN [r EXCEPT !.primary = b, !.err = "SUCCESS"]
    ELSE IF r.state \notin {AdvMode, AdvModeSample, AdvModeSampleStarted}
    THEN Return(r, "INVALID_STATE")
    ELSE IF r.primary # NoBuffer THEN [r EXCEPT !.secondary = b, !.err = "SUCCESS"]
    ELSE [r EXCEPT !.primary = b, !.err = "SUCCESS"]

(* A buffer for the conversion, and behind it one for the next: while the  *)
(* first is being written its address goes to the peripheral at once.      *)
nrfx_saadc_buffer_set(r, b) ==
    IF r.secondary # NoBuffer THEN Return(r, "ALREADY")
    ELSE IF InvalidLength(r, b) THEN Return(r, "INVALID_LENGTH")
    ELSE IF r.state = SimpleMode THEN [r EXCEPT !.primary = b, !.err = "SUCCESS"]
    ELSE IF r.state \notin {AdvMode, AdvModeSample, AdvModeSampleStarted}
    THEN Return(r, "INVALID_STATE")
    ELSE LET w == IF r.state = AdvModeSampleStarted THEN [r EXCEPT !.ptr = b] ELSE r
         IN  IF r.primary # NoBuffer
             THEN [w EXCEPT !.secondary = b, !.err = "SUCCESS"]
             ELSE [w EXCEPT !.primary = b, !.err = "SUCCESS"]

(* One blocking pass of the advanced mode converts one sample per channel; *)
(* BUSY asks for another pass.                                             *)
BlockingPass(r) ==
    LET n == r.converted + Cardinality(r.activated)
    IN  IF n < r.primary.len THEN [r EXCEPT !.converted = n, !.err = "BUSY"]
        ELSE [Convert(r, r.primary) EXCEPT !.converted = 0, !.primary = r.secondary,
                                           !.secondary = NoBuffer, !.err = "SUCCESS"]

nrfx_saadc_mode_trigger(r) ==
    IF r.primary = NoBuffer THEN Return(r, "NO_MEM")
    ELSE CASE r.state = SimpleMode /\ r.handler ->
                Latch([r EXCEPT !.state = SimpleModeSample, !.err = "SUCCESS"], r.primary)
           [] r.state = SimpleMode /\ ~r.handler -> Return(Convert(r, r.primary), "SUCCESS")
           [] r.state = AdvMode /\ r.handler ->
                Latch([r EXCEPT !.state = AdvModeSample, !.err = "SUCCESS"], r.primary)
           [] r.state = AdvMode /\ ~r.handler -> BlockingPass(r)
           [] OTHER -> Return(r, "INVALID_STATE")

(* n: the samples the buffer holds when the conversion is stopped.         *)
nrfx_saadc_abort(r, n) ==
    IF IF r.state = Calibration THEN r.calibHandler ELSE r.handler
    THEN TaskStop(r, n)
    ELSE [r EXCEPT !.primary = NoBuffer, !.secondary = NoBuffer, !.converted = 0]

(* A buffer cut short here is never reported: it counts as not filled.     *)
nrfx_saadc_uninit(r, n) ==
    [Disable(nrfx_saadc_abort(r, n)) EXCEPT !.ints = {}, !.state = "UNINITIALIZED",
                                            !.full = r.full]

(* Limits of channel 0; on = {} switches both off.                         *)
nrfx_saadc_limits_set(r, on) ==
    CASE ~r.handler -> Return(r, "FORBIDDEN")
      [] r.handler /\ r.state \in {Idle, Calibration} -> Return(r, "INVALID_STATE")
      [] OTHER -> [r EXCEPT !.limits = on, !.err = "SUCCESS",
                            !.ints = (@ \ {"LOW", "HIGH"}) \cup on]

nrfx_saadc_offset_calibrate(r, handler) ==
    IF saadc_busy_check(r) THEN Return(r, "BUSY")
    ELSE IF handler
         THEN [r EXCEPT !.prev = r.state, !.state = Calibration, !.calibHandler = TRUE,
                        !.calibrating = TRUE, !.err = "SUCCESS",
                        !.ints = Conversions \cup {"CALIBRATEDONE"}]
         ELSE [r EXCEPT !.prev = r.state, !.calibHandler = FALSE, !.ptr = CalibSamples,
                        !.amount = 0, !.events = @ \ {"END", "LOW", "HIGH"},
                        !.err = "SUCCESS"]
=============================================================================

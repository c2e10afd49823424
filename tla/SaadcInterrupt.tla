--------------------------- MODULE SaadcInterrupt ---------------------------
(***************************************************************************)
(* The interrupt of the SAADC driver and the programs that use the driver: *)
(* the five saadc examples of spim_test/src/nrfx_saadc, and "any", which   *)
(* calls whatever the interface of nrfx_saadc.h allows.                    *)
(***************************************************************************)
EXTENDS SaadcDriver, SequencesExt

CONSTANTS
    Iterations,   \* SAMPLING_ITERATIONS of the examples (3 to 8 there)
    MaxCalls,     \* bound: calls made by "any"
    MaxBuffers    \* bound: buffers filled in a run

ASSUME IterationsAssumption == Iterations \in Nat \ {0}

Blocking == {"simple_blocking", "advanced_blocking"}
Simple == {"simple_blocking", "simple_non_blocking"}
Streaming == {"internal_timer", "maximum_performance"}
Programs == Simple \cup Streaming \cup {"advanced_blocking", "any"}

VARIABLES
    program,   \* the example that runs
    adc,       \* control block and peripheral (SaadcDriver)
    app        \* where main is, and what the handlers keep

saadcVars == <<program, adc, app>>

Channels == {0, 1}
Buffer(i) == [name |-> IF i = 0 THEN "first" ELSE "second", len |-> 2]

(* What an interrupt or a step of main works on.                           *)
Whole == [adc |-> adc, app |-> app]

(* NRFX_ASSERT(status == NRFX_SUCCESS) behind a driver call.               *)
Asserted(x, r) == [x EXCEPT !.adc = r, !.app.failed = @ \/ r.err # "SUCCESS"]

(* END triggers START where the application has connected the two.         *)
Ended(a, r) == IF a.startOnEnd THEN TaskStart(r) ELSE r

(* The next buffer on BUF_REQ, as long as iterations are left.             *)
BufReq(x) ==
    LET n == x.app.requests + 1
        y == [x EXCEPT !.app.requests = n]
    IN  IF n < Iterations
        THEN [Asserted(y, nrfx_saadc_buffer_set(y.adc, Buffer(y.app.index)))
                 EXCEPT !.app.index = (@ + 1) % 2]
        ELSE y

Handed(x) == [x EXCEPT !.app.done = Append(@, x.adc.primary)]

(* The event handlers of the examples.                                     *)
SimpleHandler(x, evt) ==
    CASE evt = "DONE" -> [Handed(x) EXCEPT !.app.ready = TRUE]
      [] evt = "CALIBRATEDONE" -> Asserted(x, nrfx_saadc_mode_trigger(x.adc))
      [] OTHER -> x

InternalTimerHandler(x, evt) ==
    CASE evt = "DONE" -> Handed(x)
      [] evt = "CALIBRATEDONE" -> Asserted(x, nrfx_saadc_mode_trigger(x.adc))
      [] evt = "BUF_REQ" -> BufReq(x)
      [] OTHER -> x

(* The external timer samples from READY to FINISHED; when no buffer is    *)
(* left, END no longer triggers START.                                     *)
MaximumPerformanceHandler(x, evt) ==
    LET y == InternalTimerHandler(x, evt)
    IN  CASE evt = "READY" -> [y EXCEPT !.adc.sampling = TRUE]
          [] evt = "FINISHED" -> [y EXCEPT !.adc.sampling = FALSE]
          [] evt = "BUF_REQ" /\ y.app.requests >= Iterations -> [y EXCEPT !.app.startOnEnd = FALSE]
          [] OTHER -> y

AnyHandler(x, evt) ==
    CASE evt = "DONE" -> Handed(x)
      [] evt = "BUF_REQ" /\ x.app.supply ->
            [x EXCEPT !.adc = nrfx_saadc_buffer_set(x.adc, Buffer(x.app.index)),
                      !.app.index = (@ + 1) % 2]
      [] OTHER -> x

saadc_handler(x, evt) ==
    CASE program \in Simple -> SimpleHandler(x, evt)
      [] program = "internal_timer" -> InternalTimerHandler(x, evt)
      [] program = "maximum_performance" -> MaximumPerformanceHandler(x, evt)
      [] program = "any" -> AnyHandler(x, evt)
      [] OTHER -> x

saadc_pre_calibration_state_restore(r) ==
    [Disable(r) EXCEPT !.state = r.prev, !.events = @ \ {"LOW", "HIGH"},
                       !.ints = r.limits \cup (IF r.handler THEN Conversions ELSE {})]

(* The first STARTED of a conversion reports READY, starts the internal    *)
(* timer and hands over a second buffer; every STARTED without one asks    *)
(* for it.                                                                 *)
Request(x) == IF x.adc.secondary = NoBuffer THEN saadc_handler(x, "BUF_REQ") ELSE x

saadc_event_started_handle(x) ==
    CASE x.adc.state = AdvModeSample ->
            LET y == saadc_handler(x, "READY")
                r == [y.adc EXCEPT !.sampling = @ \/ y.adc.timer,
                                   !.state = AdvModeSampleStarted,
                                   !.ptr = IF y.adc.secondary # NoBuffer THEN y.adc.secondary ELSE @]
            IN  Request([y EXCEPT !.adc = r])
      [] x.adc.state = AdvModeSampleStarted -> Request(x)
      [] x.adc.state = SimpleModeSample -> [x EXCEPT !.adc.sampling = TRUE]
      [] x.adc.state = Calibration -> [x EXCEPT !.adc = Ended(x.app, TaskStop(x.adc, 0))]
      [] OTHER -> x

(* The buffer just filled becomes the application's, the second one takes  *)
(* its place; without a second one the conversion is finished.             *)
NextBuffer(x) ==
    LET y == [x EXCEPT !.adc.primary = x.adc.secondary, !.adc.secondary = NoBuffer]
    IN  IF y.adc.primary # NoBuffer THEN y
        ELSE saadc_handler([y EXCEPT !.adc = [Disable(y.adc) EXCEPT !.state = AdvMode]], "FINISHED")

(* Mutant: the buffers are exchanged before the next conversion starts.    *)
StartAfterwards(x) ==
    LET y == NextBuffer(saadc_handler(x, "DONE"))
    IN  IF x.adc.startOnEnd THEN [y EXCEPT !.adc = TaskStart(y.adc)] ELSE y

SampleEnd(x) ==
    LET y == IF x.adc.startOnEnd /\ x.adc.secondary # NoBuffer
             THEN [x EXCEPT !.adc = TaskStart(x.adc)] ELSE x
    IN  NextBuffer(saadc_handler(y, "DONE"))

(* Mutant: the application hears of the calibration before the driver has  *)
(* gone back to its mode.                                                  *)
EndBeforeRestore(x) ==
    CASE x.adc.state = SimpleModeSample ->
            saadc_handler([x EXCEPT !.adc = [Disable(x.adc) EXCEPT !.state = SimpleMode]], "DONE")
      [] x.adc.state = AdvModeSampleStarted -> SampleEnd(x)
      [] x.adc.state = Calibration ->
            LET y == saadc_handler(x, "CALIBRATEDONE")
            IN  [y EXCEPT !.adc = saadc_pre_calibration_state_restore(y.adc)]
      [] OTHER -> x

saadc_event_end_handle(x) ==
    CASE x.adc.state = SimpleModeSample ->
            saadc_handler([x EXCEPT !.adc = [Disable(x.adc) EXCEPT !.state = SimpleMode]], "DONE")
      [] x.adc.state = AdvModeSampleStarted -> SampleEnd(x)
      [] x.adc.state = Calibration ->
            saadc_handler([x EXCEPT !.adc = saadc_pre_calibration_state_restore(x.adc)],
                          "CALIBRATEDONE")
      [] OTHER -> x

(* CALIBRATEDONE: a scratch buffer is latched to catch stray samples.      *)
CalibrationDone(x) ==
    [x EXCEPT !.adc = Latch([x.adc EXCEPT !.ints = @ \ {"CALIBRATEDONE"}], CalibSamples)]

(* STOPPED: the buffer is cut to what it holds; a calibration that was     *)
(* aborted before its end is left without an event.                        *)
Stopped(x) ==
    LET r == IF x.adc.state = Calibration THEN x.adc
             ELSE [x.adc EXCEPT !.primary = IF @ = NoBuffer THEN @
                                            ELSE [@ EXCEPT !.len = x.adc.amount],
                                !.secondary = NoBuffer]
    IN  [x EXCEPT !.adc = IF "CALIBRATEDONE" \in r.ints
                          THEN saadc_pre_calibration_state_restore(r) ELSE r]

Limits == {"LOW", "HIGH"}

(* Limit events reach the application except during a calibration; no      *)
(* program here reacts to one.                                             *)
saadc_event_limits_handle(r) ==
    IF r.state = Calibration THEN r ELSE [r EXCEPT !.events = @ \ (r.ints \cap Limits)]

Pending == adc.events \cap adc.ints # {}

nrfx_saadc_irq_handler ==
    /\ Pending
    /\ LET evts == adc.events
           x0 == [Whole EXCEPT !.adc.events = evts \cap Limits]
           x1 == IF "CALIBRATEDONE" \in evts THEN CalibrationDone(x0) ELSE x0
           x2 == IF "STOPPED" \in evts THEN Stopped(x1) ELSE x1
           x3 == IF "END" \in evts THEN saadc_event_end_handle(x2) ELSE x2
           x4 == IF "STARTED" \in evts THEN saadc_event_started_handle(x3) ELSE x3
       IN  adc' = saadc_event_limits_handle(x4.adc) /\ app' = x4.app
    /\ UNCHANGED program

-----------------------------------------------------------------------------
(* The peripheral.  The END of a buffer is served before the following     *)
(* buffer is full; its STARTED may be late.                                *)

BufferFull ==
    /\ adc.sampling /\ adc.writing \notin {NoBuffer, CalibSamples} /\ "END" \notin adc.events
    /\ Len(adc.full) < MaxBuffers
    /\ LET r == [adc EXCEPT !.events = @ \cup {"END"}, !.amount = adc.writing.len,
                            !.full = Append(@, adc.writing), !.writing = NoBuffer,
                            !.sampling = @ /\ adc.state # SimpleModeSample]
       IN  adc' = Ended(app, r)
    /\ app' = [app EXCEPT !.late = @ \/ "STARTED" \in adc.events]
    /\ UNCHANGED program

OffsetCalibrated ==
    /\ adc.calibrating
    /\ adc' = [adc EXCEPT !.calibrating = FALSE, !.events = @ \cup {"CALIBRATEDONE"}]
    /\ UNCHANGED <<program, app>>

LimitExceeded ==
    /\ adc.sampling /\ adc.limits \ adc.events # {}
    /\ \E l \in adc.limits : adc' = [adc EXCEPT !.events = @ \cup {l}]
    /\ UNCHANGED <<program, app>>

-----------------------------------------------------------------------------
(* The programs.                                                           *)

SaadcInit ==
    /\ program \in Programs
    /\ adc = PowerOn
    /\ app = [pc |-> "init", after |-> "single", count |-> 0, ready |-> TRUE, failed |-> FALSE, late |-> FALSE,
              index |-> 1, requests |-> 0, supply |-> FALSE,
              startOnEnd |-> program = "maximum_performance", done |-> <<>>]

Step(x) == adc' = x.adc /\ app' = x.app /\ UNCHANGED program

AdvConfig == [timer |-> program = "internal_timer", startOnEnd |-> program = "internal_timer"]

ModeSet(r, chs) ==
    IF program \in Simple THEN nrfx_saadc_simple_mode_set(r, chs, program \notin Blocking)
    ELSE nrfx_saadc_advanced_mode_set(r, chs, AdvConfig, program \notin Blocking)

(* Channels, mode and first buffer: a single channel, or both at once.     *)
Configure(x, chs, b) ==
    LET y == Asserted(x, IF Cardinality(chs) = 1 THEN nrfx_saadc_channel_config(x.adc, 0)
                         ELSE nrfx_saadc_channels_config(x.adc, chs))
        z == Asserted(y, ModeSet(y.adc, y.adc.configured))
    IN  Asserted(z, nrfx_saadc_buffer_set(z.adc, b))

StartProgram ==
    /\ app.pc = "init" /\ program # "any"
    /\ Step([Configure(Asserted(Whole, nrfx_saadc_init(adc)), {0},
                       [Buffer(0) EXCEPT !.len = IF program \in Simple THEN 1 ELSE 2])
                EXCEPT !.app.pc = "single"])

(* A calibration is started and, when it is not to be reported, the        *)
(* conversion after it; BUSY asks for one more trigger.                    *)
Trigger(x) ==
    LET r == nrfx_saadc_mode_trigger(x.adc)
        done == [Asserted(x, r) EXCEPT !.app.count = @ + 1, !.app.pc = x.app.after]
    IN  IF r.err = "BUSY" THEN [x EXCEPT !.adc = r]
        ELSE IF program = "advanced_blocking"
        THEN Asserted([done EXCEPT !.app.done = Append(@, Buffer(0))],
                      nrfx_saadc_buffer_set(done.adc, Buffer(0)))
        ELSE [done EXCEPT !.app.done = Append(@, x.adc.primary)]

SampleOnce ==
    /\ app.pc \in {"single", "multiple"} /\ program # "any"
    /\ app.count < (IF program \in Streaming THEN 1 ELSE Iterations)
    /\ app.ready
    /\ LET x == Asserted(Whole, nrfx_saadc_offset_calibrate(adc, program \notin Blocking))
       IN  Step(IF program \in Blocking
                THEN [x EXCEPT !.app.pc = "trigger", !.app.after = app.pc]
                ELSE [x EXCEPT !.app.ready = FALSE, !.app.count = @ + 1])

TriggerBlocking ==
    /\ app.pc = "trigger"
    /\ Step(Trigger(Whole))

(* Mutant: the iterations with a single channel are counted again.         *)
MultipleConfigCounted ==
    /\ app.pc = "single" /\ program \in Simple /\ app.ready /\ app.count = Iterations
    /\ Step([Configure(Whole, Channels, Buffer(0)) EXCEPT !.app.pc = "multiple"])

(* The simple examples sample anew with both channels.                     *)
MultipleConfig ==
    /\ app.pc = "single" /\ program \in Simple /\ app.ready /\ app.count = Iterations
    /\ Step([Configure([Whole EXCEPT !.app.count = 0], Channels, Buffer(0))
                EXCEPT !.app.pc = "multiple"])

(* "any": the calls of an application in any order, between interrupts.    *)
Call(r) ==
    /\ program = "any" /\ app.count < MaxCalls /\ ~Pending
    /\ adc' = r
    /\ app' = [app EXCEPT !.count = @ + 1]
    /\ UNCHANGED program

AnyCall ==
    \/ Call(nrfx_saadc_init(adc))
    \/ /\ adc.state # "UNINITIALIZED"
       /\ \/ Call(nrfx_saadc_channel_config(adc, 0))
          \/ Call(nrfx_saadc_simple_mode_set(adc, {0}, TRUE))
          \/ Call(nrfx_saadc_advanced_mode_set(adc, {0}, [timer |-> TRUE, startOnEnd |-> TRUE], TRUE))
          \/ /\ adc.activated # {}
             /\ Call(nrfx_saadc_buffer_set(adc, [Buffer(0) EXCEPT !.len = 1]))
          \/ adc.state # Idle /\ Call(nrfx_saadc_mode_trigger(adc))
          \/ Call(nrfx_saadc_offset_calibrate(adc, TRUE))
          \/ \E on \in {{}, {"LOW"}} : Call(nrfx_saadc_limits_set(adc, on))
          \/ \E n \in 0 .. 1 : Call(nrfx_saadc_abort(adc, n)) \/ Call(nrfx_saadc_uninit(adc, n))

Supplies ==
    /\ program = "any" /\ ~app.supply
    /\ app' = [app EXCEPT !.supply = TRUE]
    /\ UNCHANGED <<program, adc>>

(* A pending interrupt is served before main goes on.                      *)
Main == ~Pending /\ (StartProgram \/ SampleOnce \/ TriggerBlocking \/ MultipleConfig)

Peripheral == BufferFull \/ OffsetCalibrated \/ LimitExceeded

SaadcNext == Main \/ AnyCall \/ Supplies \/ nrfx_saadc_irq_handler \/ Peripheral

SaadcFairness ==
    /\ WF_saadcVars(Main) /\ WF_saadcVars(nrfx_saadc_irq_handler)
    /\ WF_saadcVars(BufferFull) /\ WF_saadcVars(OffsetCalibrated)

SaadcSpec == SaadcInit /\ [][SaadcNext]_saadcVars /\ SaadcFairness

-----------------------------------------------------------------------------

(* Every DONE event hands over the buffer the converter has just filled,   *)
(* with the number of samples it holds: no buffer is skipped, repeated or  *)
(* handed over while it is being written, with double buffering, a         *)
(* calibration, an abort or a new mode in between.                         *)
BuffersInOrder ==
    /\ IsPrefix(app.done, adc.full)
    /\ Len(adc.full) <= Len(app.done) + 1

(* The assertions behind the driver calls of the examples hold: no call is *)
(* made in a state in which the driver refuses it.                         *)
AssertionsHold == ~app.failed

(* Outside a conversion and a calibration the converter writes to no       *)
(* buffer, whatever calls and interrupts came before.                      *)
QuietWhenIdle ==
    ~saadc_busy_check(adc) \/ adc.state = "UNINITIALIZED" => adc.writing = NoBuffer

(* The samples an example takes: the simple ones with a single channel and *)
(* then with both.                                                         *)
Samples == IF program \in Simple THEN 2 * Iterations ELSE Iterations

(* Every example takes all its samples.  Of those that stream, one buffer  *)
(* may be full before the driver has seen that it was started and could    *)
(* ask for the next.                                                       *)
ExamplesFinish ==
    program # "any" =>
        <>(Len(app.done) >= Samples \/ (program \in Streaming /\ app.late))
=============================================================================

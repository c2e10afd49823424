# A TLA+ verification project for nRF9160_Examples

The repository is a collection of nRF9160 programs. The one that runs
unattended, and the largest with a logic of its own, is the LIS unit in
`src/mqtt_working`: it waits beside a railway line for a train, records four
channels of its signal, and uploads the record over LTE and MQTT. This project
models that program first, and then the other programs that have state and
concurrency: the AWS IoT example, the SAADC driver with its examples, the GNSS
sample and the REST FOTA sample.

## 1. Inventory

### The LIS unit (`src/mqtt_working/src`)

| Component | State it keeps | Operations | Works with |
|---|---|---|---|
| Measurement stage (`main.c:1312-1643`) | circular buffers, `buff_head`, `circ_buff_overflow`, `last_circ_buff_record`, counters, the PSRAM | timer interrupt, offset gathering, waiting for the trigger, recording, padding, copying the buffer | ADC and timer (flag), PSRAM driver, upload (shared variables) |
| Signal path (`main.c:651-710`) | `buffer`, filter values, `buffer_rms`, `sum_squares` | average, exponential filter, sliding effective value | decides the trigger and the end of a record |
| Sample cells and CRC (`unit_lib.c`, `main.c`) | none | saturate, encode, checksum, decode | PSRAM, packets |
| Upload (`main.c:326-503`, `605-649`) | `seed_packet`, `flash_address_read`, error counters, `train_counter` | header, first packet from the circular buffer, others from the PSRAM, retries, publish; the button handler on the work queue | measurement's variables, MQTT client |
| Sessions and commands (`main.c:800-1080`, `1115-1310`, `1645-`; `mqtt_connection.c`) | flags of the commands, session counters, the LTE semaphore, the MQTT client | connect, poll, RST, LDM, SKP, CFG, alive, data, automatic reset | broker (callback inside `mqtt_input`), LTE handler (callback of its own), configuration store |
| Configuration store (`eeprom_emul.c`) | NVS keys | read, write, default when absent | sessions |
| Retained log (`log_ram_backend.c`) | ring buffer and magic in RAM that is not initialised | log thread writes, LDM reads, kept over a warm reset | every module logs; sessions dump |
| BME280 driver (`drivers/bme280.c`) | trim values, the values of the last fetch, the mode of the sensor | reset, id, trim, wait until ready, read, compensate | SPI; main fetches twice behind a record |
| Unit clock and telemetry (`main.c:505-603`, `712-798`) | `rtcc_*`, `record_begin_unix_time_s`, `unit_*` | set from the modem, read, stamp, publish | both sessions, the trigger |

How they interact. Main runs one course: a *configuration session* with the
operator, then the measurement of one train, then an *upload session*, then a
reboot. Beside main run the sample timer's interrupt (one flag), the LTE
handler (one semaphore), the button handler on the system work queue (it shares
the packet and `train_counter` with main and takes no lock), and the log
thread. The MQTT callback is called by main itself, inside `mqtt_input`, and
leaves its result in flags that later sections of the same pass look at.

What is hard: the wrap of the circular buffer at the moment of the trigger;
two actors on one packet; retries with a counter that is not restarted per
sample; flags set in a pass that ends by an error and acted on in another
session; power that fails between the four writes of a configuration; a count
that is kept in two sessions; waits that nothing bounds; a ring that is full
while it is read; errors of the SPI that every caller drops.

### The other programs

| Component | State it keeps | Operations | What is hard |
|---|---|---|---|
| AWS IoT example (`AWS_IoT/src`) | semaphore `lte_connected`, flag `cloud_connected`, three delayable work items, MCUboot's image record | connect, publish the shadow, publish the version, on the system work queue; the library's events on its own thread; FOTA with erase, reboot, trial and revert | an event between any two steps of a work function; cancelling an item that runs; a reset anywhere in an update |
| SAADC driver (`reseni_adc/nrfx_saadc.c`, `.h`) | control block `m_cb`, the peripheral | init, channels, modes, buffers, trigger, abort, calibration, limits, uninit; the interrupt | buffers exchanged between the application and the converter, in the handler and in main |
| SAADC examples (`spim_test/src/nrfx_saadc`) | `m_samples_buffer`, counters, flags of the handlers | five programs: simple and advanced mode, blocking and not, internal timer, maximum performance | calls made by a handler in the middle of the driver's interrupt |
| GNSS sample (`gnss/src`) | `nmea_queue`, the heap, `last_agnss`, `requesting_assistance`, P-GPS flags, a work queue | start-up, event handler, display loop, assistance (A-GNSS, P-GPS, SUPL, minimal) with LTE on demand, time-to-first-fix test | three parties without a lock; a queue that fills; one thread that fetches, waits and restarts GNSS |
| REST FOTA sample (`nrf_cloud_rest_fota/src`) | `button_press_sem`, `jitp_requested`, `lte_connected`, the token, the socket | provisioning, token, poll rounds, wait with a button, reboot for an update | one button with three meanings; a token that expires in a long job |

`BasicNetworking`, `sms`, `sms2`, `Time`, `GPS`, `KeyMgmt`, `spi_lesson_test`,
`fade_rgb_led`, `shtc3` and `compression` are straight lines of I/O;
`nrf_provisioning`, `nrfx_adc.c`, the other examples of `spim_test` and the
generated build directories (`*/build*`) are vendored code (section 6).

The list of hazards with their lines is `hazards` in PROJECT.json.

What makes each component correct:

* measurement: the buffer's copy is the window before the trigger in order;
  the PSRAM holds every later sample in order; a record ends exactly when the
  code's two conditions say so, and every record ends;
* signal path: the running sum is that of the window; a quiet line measures
  as quiet after any train;
* cells: a cell comes back unchanged or is known to be bad;
* upload: the receiver gets a contiguous stream, complete or broken off, and
  knows how many samples failed; a button press spoils at most one packet;
* sessions: they end, answer what they received, measure with the stored
  configuration, and offer the record before rebooting;
* log: what the ring took arrives in order; a dump ends; the log thread never
  hangs;
* clock and sensor: a stamp is true to the second or says that it is unknown;
  the sensor cannot hold a record back; one failed transfer is repaired;
* AWS IoT: a retry is always under way while the cloud is away; one chain of
  publications; no faulty image is kept; the unit comes back to the cloud;
* SAADC: buffers arrive in order and once; an idle converter writes nowhere;
  the examples' assertions hold and their samples are all taken;
* GNSS: no frame leaks; no request is lost; the display and the test go on, but
  for one wait for LTE that may never end; a cold start has its assistance;
* REST FOTA: a press answers the question it followed; rounds end.

## 2. The modules

| Module | Models | State and actions against the code |
|---|---|---|
| `TrainRecorder` | measurement stage | one variable per C variable; `pc` is the place of main; `timer_handler`, `OffsetSample`, `circular_buffer_init`, `WaitSample`, `Trigger`, `RecordSample`, `PadRecord`, `StoreRecord`, one per loop body or block |
| `TrainUpload` (extends `TrainRecorder`) | upload and button handler | header in two halves and publish are steps of their own because the button handler can come between; loading is one step per read |
| `TrainDelivery` | the abstract promise of an upload | a stream of chunks, implemented by `TrainUpload` (property `DeliversRecord`, theorem `RecordDelivered`) |
| `LisUnit` | reboots, sessions, commands, configuration store | one action per section of `mqtt_pooling_procedure` and of the connection set-up; `Poll` contains the callback; the measurement is one step (`TrainRecorded`) and the upload another (`SendRecord`) |
| `LogRam` | retained log | one step per `ring_buf_put`, chunk read and publish; `log_ram_init` after each reset; `wire` is what the receiver has, byte by byte |
| `Sums` | the sums of the two below | `Total`: a loop that adds up an array, as a recursive function, which theorems can be proved about |
| `SampleCodec` | cells and CRC | `Store`, `Damage`, `LineStuck`, `Read`; the CRC bit by bit |
| `SignalPath` | averaging, filter, RMS | `GatherOffset`, `Measure`; integer arithmetic with C's division |
| `UnitTelemetry` | clock, BME280, telemetry packet | one action per transfer of the driver, each of which may fail; `Tick` moves time between any two; `measuring` is the mode of the sensor, which a reboot of the unit leaves alone |
| `AwsConnection` | AWS IoT example | a work function that blocks is a start and an end; one action per event of the library and of the modem; the kernel's delayable work as `delayed`, `queue`, `busy`, `canceling`; `Reset` is any restart, with MCUboot's decision |
| `SaadcDriver` | calls of the SAADC driver | every function of the interface maps a record (control block and peripheral) to a record, so that a handler's calls compose inside the interrupt |
| `SaadcInterrupt` (extends `SaadcDriver`) | interrupt and examples | `nrfx_saadc_irq_handler` applies the handlers of the pending events in the driver's order; one action per call of main; `BufferFull`, `OffsetCalibrated`, `LimitExceeded` are the peripheral; `program` says which example runs, `any` makes every allowed call |
| `GnssSample` | GNSS sample | the event handler's events, the two halves of the display loop, and one action per part of a work function between its waits; `build` is the Kconfig choice |
| `RestFota` | REST FOTA sample | `at` is the place of main; one action per call that waits; `press` remembers where main was at the press |
| `TrainUpload_proofs` (also of `TrainRecorder`), `LisUnit_proofs`, `LogRam_proofs`, `Values_proofs` (of `SampleCodec`, `SignalPath`, `UnitTelemetry`), `AwsConnection_proofs`, `SaadcInterrupt_proofs`, `GnssSample_proofs`, `RestFota_proofs` | | the theorems of section 5 |

The `MC` modules give the constants their small values. `MCValues` puts
`SampleCodec`, `SignalPath` and `UnitTelemetry` side by side, as the three
sources of what a unit publishes; they share no variable, and one of them moves
in a behaviour.

The `map` of PROJECT.json gives the lines of every definition. Operators named
"Mutant" in a comment are wrong variants of the definition behind them; no
specification uses them. They show that a property would notice such a bug.

Abstractions of the data, and why they keep what matters:

* In `TrainRecorder` and `TrainUpload` a sample is its number, so order, loss
  and duplication are visible. Whether it is over or under a threshold is the
  environment's choice; `SignalPath` computes what is left open there. A cell
  of the PSRAM is one value; a read gives it or fails its CRC. That a damaged
  cell does not pass its CRC is what `SampleCodec` checks for small damages;
  larger ones that match by chance (about 1 of 65536) are left out.
* The four channels take the same way. They are one value, except in
  `SampleCodec`, where their order could be wrong.
* In `LisUnit` a parameter's value is the number of the CFG message that
  brought it (0 for the default), so a mixture of two messages is visible; a
  short message leaves the tail of the one before in `cfg_buff`.
* The packet number and count are kept; header constants are marks.
* In `LogRam` a byte is the number of its production, so loss, order and
  repetition are visible.
* In `UnitTelemetry` a climate value is where it came from: measured by the
  sensor with all its trim values, or nonsense. Time is in half seconds, of
  which the clock keeps whole ones, so every truncation is visible.
* In `AwsConnection` a JSON document is its outcome (sent or not), an image is
  a name, and whether it can reach the broker is its only property.
* In `SaadcDriver` a buffer is its name and length; `adc.full` is the history
  of buffers the converter has filled, in order.
* In `GnssSample` a request is the set of things asked for; a frame is counted.
* In `RestFota` an answer of the poll library is its error code.

## 3. The runs

| Run | Instance | What it shows |
|---|---|---|
| `recorder` | buffer of 3, record of at most 9, duration 2, padding 2, up to 8 samples of waiting | indices in range, window, PSRAM content, end of the record, and that a record finishes |
| `upload` | packets of 2, record of 4, one CRC retry, one press | `FailuresCounted`, `PressSpoilsOne`, and that the upload implements `TrainDelivery` including its end |
| `failures_reported` | as `upload` | **violated**: no packet ever carries the number of unreadable samples (`main.c:498`) |
| `unit` | 2 messages, 1 power failure, any number of reboots, network losses and errors | session lengths, stored configuration, one message per configuration, commands answered, record offered, sessions end |
| `reset_avoids_measuring` | as `unit` | **violated**: RST in a pass whose poll also reports an error (`main.c:895`) is followed by a measurement, against the comment at `mqtt_connection.c:258` |
| `log` | ring of 5, chunks of 3, messages of 1 + 3 bytes, 2 messages, 2 resets | the dump is faithful and bounded, the log thread finishes |
| `values` | cells: 2 samples, all damages of one or two bits, inverted bytes, dead line; signal: mean of 2, window of 2, filter 1/3 that starts at 12, 7 + 5 inputs of 3 levels; telemetry: two boot times, 3 ticks, 1 reboot, any transfer failing | round trip and damage noticed; exact window and quiet line; true stamp, one failed fetch repaired, record not held back |
| `aws` | 3 images of which one is faulty, 2 resets | retry never lost, one chain of publications, no faulty image kept, the unit comes back to the cloud |
| `version_once` | as `aws` | **violated**: the version message is published at every connection (`aws.c:293`), against `main.c:100` and the README, which reserve it for the initial one |
| `saadc` | five examples and `any`, 3 iterations, 11 calls, 6 buffers | buffers in order, assertions of the examples, quiet when idle, examples take all their samples |
| `gnss` | every build, a queue of 1, a heap of 2 frames, 4 kinds of request | frames accounted for, no request lost, cold start fed; output and tests go on, but for a wait for LTE that was left on |
| `rest_fota` | with and without provisioning, 2 reboots, presses at any moment | a press answers its question, rounds end |

Why the bounds are enough. The circular buffer's index is a remainder, so a
buffer of three with eight samples shows "not yet full", "exactly full", and
two wraps with every residue. A record of up to seven samples in packets of
two or three shows an empty, a partial and a full last packet. One retry shows
a read that fails once and one that is given up. In the unit the two messages
are what the defects of the receive buffer need (the second sees what the first
left), and reboots are not bounded, so a session may start from anything an
earlier life stored. A ring of five is overfilled by two messages, its chunks
do not divide it. In the signal instance the filter starts above all levels, as
in the code above most of them; seven samples let it settle, and five more give
a loud window and a quiet one. Two boot times, one on a whole second and one off
it, with three half seconds behind them give every pair of truncations; the
reboot shows a sensor that was already measuring. With two resets an AWS unit
can boot a new image on trial and either revert or keep it and update again.
Three iterations are those of the maximum_performance example's double
buffering plus one; eleven calls reach every state of the driver and leave it,
also by an abort and a calibration, and reach an `nrfx_saadc_uninit` with a
second session behind it, in which buffers are filled again; six buffers are
what the simple examples take, three in each of their two stages. A
queue of one and a heap of two make either of them the first to be full. Two
reboots are one that completes a pending job and one more.

Bounds by name: `MaxWait` (samples before a train), `MaxPress` (presses),
`MaxMessages`, `MaxCycles` (power failures), `PassCap` (passes counted),
`MaxLogs`, `MaxResets`, `MaxWaiting` (samples after the offset), `MaxTicks`
(half seconds after a boot), `MaxBoots` (reboots: 2 in `aws` and `rest_fota`,
1 in `values`), `MaxCalls` (calls of `any`), `MaxBuffers` (buffers filled).
`Iterations`, `QueueLen`, `HeapFrames`, `Epochs`, `Requests` and `Images` are
parameters of the code at small values; version messages are counted to two.
`MaxWait` forces the trigger at the bound; all the others only stop the
environment.

`CHECK_DEADLOCK FALSE` stands where the system stops: the recorder after
`ready`, the upload after its end, main of the REST sample without credentials
or after its last reboot, the GNSS sample whose start-up failed (main returns),
the SAADC examples behind their last sample, and the bounded environments of
`log`, `values` and `aws`. `unit` is checked for deadlock: the unit always has
a next step or waits for the network, which may come.

## 4. Fairness

* `TrainRecorder`: weak fairness of the timer interrupt while the timer runs
  (hardware), and of main (the only thread that is ready there; its sleeps are
  finite). The train itself is forced by `MaxWait`: without trains nothing is
  promised.
* `TrainUpload`: weak fairness of main's upload steps; none of the button.
* `LisUnit`: weak fairness of the steps inside a pass. `poll` is given the
  time that is left of the keep-alive, so a pass with a configured client comes
  back from it. When `modem_configure` failed before the client was set up,
  `client.keepalive` is 0 and poll's limit is -1, without end: the fairness
  stops there and `SessionEnds` speaks only of sessions with a keep-alive.
  Nothing is assumed of the network, the broker, the operator or trains.
* `LogRam`: weak fairness of the log thread; none of main, which need not read.
* `UnitTelemetry`: weak fairness of main; strong fairness of a status read that
  finds the sensor idle (the sensor in normal mode sleeps between two
  measurements, so reading again and again meets such a moment). A missing
  sensor with the line high never reads as idle, and `RecordNotHeldBack` says
  so. In `MCValues` this fairness stands only where the telemetry moves.
* `AwsConnection`: weak fairness of the queue's thread and of the kernel's
  timers; strong fairness of a dial that succeeds and of the event that
  follows: the broker accepts in the end if it is asked again and again, which
  is what the retry is for. `Reconnects` assumes lasting coverage and an image
  that can connect.
* `SaadcInterrupt`: weak fairness of main, of the interrupt, and of the
  converter's END and CALIBRATEDONE. A pending interrupt that is enabled comes
  before main's next step, and END is served before the next buffer is full, as
  in the examples' sampling rates; STARTED may be late (`app.late`), which
  `ExamplesFinish` excuses in the examples that stream, because then a buffer is
  missing for good. A call of main, those of `any` too, is one step for the
  interrupt, which comes before or behind it. The simple examples must take `Iterations` samples of one channel and as many of
  several, in stages that both count from zero (`Samples`).
* `GnssSample`: weak fairness of both threads, the test's timer, a fix of a
  GNSS that runs (open sky), the registration of an LTE that was off and is
  switched on, or that lost its network, and of the P-GPS library, which goes on
  with what it began. When `lte_disconnect` fails, LTE stays on; to activate it
  again changes nothing (`Activated`), reports nothing, and `lte_connect` waits
  without a limit (`main.c:215`) for a registration that nothing makes due.
  `OutputResumes` and `TestsGoOn` except this one wait (`WaitsForLteLeftOn`) and
  no other; without the exception TLC finds the unit standing there, with the
  output paused and the test stopped for good.
* `RestFota`: weak fairness of main (its wait and the library's calls have time
  limits) and of the expiry of the token. A cloud does not give jobs to an
  expired token: that is why a cloud with job after job cannot keep a round
  from ending.

## 5. What is proved

All theorems are checked by TLAPS for every value of the constants that
satisfies the modules' assumptions.

**`TrainUpload_proofs`**, first part: the measurement stage, under
`RecorderAssumption` (the lengths are positive naturals, the record limit is at
least the length of the buffer, the duration is a `uint16_t`, the PSRAM holds a
record, its padding and one packet; the code's 1024, 81000, 1000 and 8 MB
satisfy it):

* `RecorderInvariant`: `RecorderInv` is an invariant of `RecorderSpec`;
* `RecorderTypes`: no index leaves its array (`RecorderTypeOK`);
* `Chronology`: `StoredChronology`, the copy is the window before the trigger;
* `RecordStored`: `RecordInPsram`, the PSRAM holds the samples behind it;
* `RecordEnds`: `EndsExactly`, if the duration is less than 65535 (a
  `uint16_t` counter never exceeds 65535, so that duration never ends a record).

None of these is inductive: that the copy is in order depends on what each slot
of the buffer holds while it fills. `RecorderInv` therefore says for every slot
which sample it holds (the newest one with that residue), relates `buff_head`,
`last_circ_buff_record` and `circ_buff_overflow` to the number of samples taken,
and for the PSRAM which sample each cell below the write address holds. Each
action has a lemma (`WaitSampleStep`, `TriggerStep`, `RecordSampleStep`, ...);
`WindowOfBuffer` turns the slot-by-slot fact into the rotated window that
`StoreRecord` copies; `Remainder` is the arithmetic of the wrap. `RecordEnds`
adds the history of the last loud sample.

**`TrainUpload_proofs`**, second part: the upload, under the same assumption,
for every CRC limit, number of presses and answer of the PSRAM and the client:

* `UploadInvariant`: `UploadInv` is an invariant of `UploadSpec`. Until the
  upload begins it is `RecorderInv`; `BeginStep` turns that into the closed
  record (`ClosedRecord`), which no later step touches although
  `FillFromCircular` clears `circ_buff_overflow`. `PacketsCounted` relates
  `pckt_cnt` to the packets on the wire, `PlaceInRecord` the read address to
  the packet and the slot, `SlotsDue` says that every slot filled so far holds
  what is due there. `CellDue` is the heart: the cell at the read address is in
  the PSRAM, and is the sample, the padding or the mark that belongs there;
  `OnePacketMore` and `Quotient` are the arithmetic of the division into
  packets;
* `RecordDelivered`: the safety part of the refinement, `UploadSpec =>
  Delivery!DeliverySafety`. `DeliveryStep` maps every step to one of
  `TrainDelivery` or to none: `UploadBegin` to `Begin`, `PublishPacket` to
  `SendChunk`, `PublishFails` to `Abandon`, `UploadEnds` to `Complete`;
* `MarksCounted`: `FailuresCounted`. `MarksAdvance` counts the marks when a
  slot is filled, `MarksPublished` when a packet joins the wire; the window of
  the first packet cannot hold a mark (`WindowStep`);
* `PressesContained`: `PressSpoilsOne`, which is not inductive: `PressInv` also
  counts a packet that is spoiled and not yet sent.

**`LisUnit_proofs`**, for any number of messages and power failures:

* `SessionsAreShort`: `SessionLength`. Its invariant `LengthInv` relates the
  passes to `first_alive_flag` and `initial_stage_timeout_counter` in the first
  session and to `auto_reset_counter` in the upload session, for every section
  a pass may be in;
* `CommandsObeyed`: `CommandsAnswered`. `RequestsInv` follows each command's
  flag to the section that clears it, as long as no error cut a pass short;
* `StoredConfiguration`: `MeasuresWithStored`. `ConfigInv` says that the
  configuration in RAM and the stored one are equal except between a reset and
  the reading of the store;
* `OneMessageMeasures`: `ConfigOfOneMessage`. `MessageInv` follows one message
  from the receive buffer through the four parameters to the store, whole
  unless some CFG was cut short;
* `RecordsOffered`: the action property `RecordOffered`. With `LengthInv`,
  `OfferInv` says in which sections of the upload session a record may still
  wait to be offered, so that neither time-out nor automatic reset comes there.

**`LogRam_proofs`** (`LogAssumption`: lengths are positive), for every size of
ring, chunk, stamp, text and piece, any number of messages and resets:

* `DumpIsFaithful`: `DumpFaithful`. `KeptInv` says, as long as nothing was
  lost, that what was accepted is what was delivered, the chunk in hand and the
  ring, in that order (`PlacesInv`), and that every byte on the wire is padding
  or stands behind all the delivered ones before it (`WireInv`).
  `ChunkMoves` takes a chunk from the ring into the hand, `ChunkArrives` from
  the hand to the wire, where the rest of the buffer repeats older bytes;
  `PutKeeps` is a put of the log thread in between;
* `DumpIsBounded`: `DumpBounded`. `DueInv` counts what waits with the log
  thread too: the messages queued and the text left are due as much as the
  bytes in the ring.

**`Values_proofs`**, first part: the telemetry, for every time of the boot,
length of a run and number of reboots (`TimeAssumption`: unix time at boot
is not in its first second):

* `StampOfRecord`: `RecordTimeTrue`. `TimeInv` says that a valid clock was set
  with the truncated time of a moment not after now, that an invalid one
  remembers 0, and that a stamp is 0 or less than two seconds early;
  `Halves` is the arithmetic of two truncations and `ClockReading` carries it
  to `rtcc_get_unix_time`;
* `ClimateMeasured`: `FirstFetchRepaired`. `RepairInv` says, for every place of
  the driver, which of reset, id, trim values and mode of the sensor have been
  done and which failure would have been repaired by now.

**`Values_proofs`**, second part: the signal, under `SignalAssumption`, for every
length of the two buffers, every weight of the filter, every set of 14-bit
inputs and any number of samples:

* `EffectiveValue`: `WindowExact`. `SignalInv` says what each slot of
  `buffer_rms` holds, counted back from `indexx` (`RingHolds`: the last
  differences, zeros before them), and that the sum is that of the window
  (`SumHolds`). Without the ring the sum is not inductive: the square that
  `update_rms` takes away must be the one the window loses (`WindowSlides`);
* `WidthsSuffice`: the widths of the C variables. A difference fits 15 bits
  with its sign, which is what `SampleCodec` assumes of its samples;
  `sum_squares` stays between 0 and `RMS_BUFFER_SIZE * 16383^2`, so the mean of
  the squares fits the `int32_t` and no root is taken of a negative number;
* `LineIsQuiet`: `QuietLine`, for every start of the filter, where the samples
  of the offset are enough for it to settle (`Ample(k, m)`: the levels lie within
  `m` of zero and of `FilterStart`, `k` times the weight is at least 4, and the
  samples are a buffer, a quarter of `m` and `k`). The argument is a measure:
  four times the steps the filter still takes (`Left`). The rest is the distance
  to the level, from either side (`Rest`). Integer division takes nothing off a
  rest below `ALPHA_DEN / ALPHA_NUM`, at least one off a rest of once that and
  at least four off a rest of four times that (`FilterCloses`, from above and
  from below); `FilterBetween` bounds a step on both sides, and `FilterStays`
  keeps the rest within `m` while the averaging buffer fills and its means are
  between zero and the level. `GatherInv` follows the measure while the offset
  is taken, `OffsetInv` is what it has come to, `MeansInv` what each
  difference is when the line is back, and `LineInv` what the averaging buffer
  holds, slot by slot;
* `LineOfTheCode`: the constants of `main.h` (1/25, a buffer of 4) and the 5000
  samples of `main.c:1363` are ample for the filter's start at 5200
  (`main.c:1190`), with `k = 100` and `m = 13392`, the distance from there to
  -8192, so nothing is left of the condition. The run's own constants (1/3, a
  start at 12, 7 samples, levels up to 9) are not ample: there TLC shows that
  the property holds below the bound too.

**`Values_proofs`**, third part: the cells, under `CodecAssumption`, for every
set of samples of 15-bit differences:

* `SamplesReturn`: `RoundTrip`. `BitsOfValue` is two's complement, bit by bit;
  `CodecInv` says that a cell nothing has damaged holds the bits and the
  checksum of its sample;
* `DamagesSeen`: `DamageNoticed`, for damages that lie within 16 bits or are two
  bits anywhere in data and checksum (`Burst`, `Pair`), which covers those of
  the run, and for a line that is stuck low or high. A register is a set of bits
  and a step of `crc16_ccitt_jch` is linear: `DifferenceSteps` says that the
  difference of two runs is a run over the difference of the data. So a burst
  changes the checksum: the lowest bit of its trace moves up one place with
  each bit and has not left the register when the last wrong bit comes in
  (`BurstSeen`), and right bits never empty it again (`NotEmptied`). A pair
  changes it because what one wrong bit leaves is never nothing and never a
  single bit within the 64 bits of the data, so that the second cannot take it
  away (`TraceOfOneBit` works all of it out, `PairSeen`). The stuck line
  is one value each (`TraceOfOnes`). `DamageInv` adds that a damaged cell stays
  unbelieved until it is read.

The values of the recursive functions (`Total`, the run of the checksum) are
found without an induction theorem that takes an operator: `AllNumbers` says that
a set of numbers with 0 and every successor is all of them, from the least
counterexample (`WFMin` of the library, which speaks of sets), and each use
names the set of the numbers for which its claim holds.

**`AwsConnection_proofs`**, for every set of images and number of resets
(`ImagesAssumption`: the factory image can connect):

* `GoodImageKept`: `FaultyNeverKept`. The image a job replaces must be good, so
  `ImageInv` adds that a job or an open session implies a confirmed image, and
  that between two resets no image is pending;
* `RetryNeverLost` and `PublicationsChained`: `AlwaysRetrying` and
  `OneUpdateChain`, both from `ConnectionInv`. It says where each work item may
  be (on a timer, in the queue, once, or running and perhaps canceled) given
  `cloudConnected`, `session` and the function that runs, so that an event
  between two work items, or between the steps of `shadow_update_work_fn`, finds
  the retry where it can still act. There are no events of a session inside
  `connect_work_fn`: it has no session until its call succeeds, and it runs on
  the cooperative system work queue, which the library's thread does not
  preempt.

**`SaadcInterrupt_proofs`**, for the five examples and for the application that
makes any allowed call, any number of iterations, calls and buffers:

* `DriverSound`: `SaadcInv`, the types of control block, peripheral and programs
  with the invariant of the driver (`Sound`). It has three parts: `Quiet`, an
  idle converter writes nowhere; `Calibrates`, a calibration has its own state,
  whose event and interrupt exist nowhere else, and nothing is written or
  stopped while the offset is measured; `Listens`, the interrupts of a
  conversion are enabled wherever one can end;
* `IdleIsQuiet`: `QuietWhenIdle`, which follows. `Quiet` alone is not inductive:
  an end served in the wrong state, or one whose interrupt is disabled, would
  leave the converter writing behind the driver's back;
* `BuffersChained`: `ChainInv`, the buffers from the application to the
  converter and back. `Fits` and `Writes` relate the first and second buffer of
  the control block, RESULT.PTR and the buffer that is being written in every
  state; `Ordered` says that the application has had every full buffer but the
  one whose END waits; `Chained` says who starts the next conversion; `Running`
  says where each example stands in each state of the driver. All parts speak of
  the events that have not been served, which inside the interrupt are fewer
  than it has taken (`Chain(r, a, E)`): so each part of the interrupt has a
  lemma that serves one event of `E`, with a handler that may call the driver
  in the middle of it;
* `InOrder` and `NoneRefused`: `BuffersInOrder` and `AssertionsHold`, which
  follow. Neither is inductive: that the next END hands over the right buffer
  depends on what STARTED has exchanged before, and that a call is accepted
  depends on the state in which the example makes it. Both hold for every
  length of the history of full buffers, which an `nrfx_saadc_uninit` does not
  end: what was filled before it has been handed over.

Every call of the driver has a lemma on a record (`TriggerSound`, `AbortSound`,
`CalibrateSound`, ...), and so has every part of the interrupt (`StoppedSound`,
`SampleEndSound`, `StartedSound`, ...), with the handlers of the programs as one
step (`HandlerSound`): the interrupt and main are compositions of them.
`Served` is what main may rely on because pending interrupts come first, `Taken`
what the parts of the interrupt rely on because its events were cleared.

**`GnssSample_proofs`** (`QueueAssumption`, `RequestsAssumption`), for every
length of the queue, size of the heap, build and set of requests:

* `FramesFreed`: `FramesAccounted`. `FramesInv` is the property with the types
  of the two counts; `OthersLeaveFrames` disposes of everything that does not
  touch them;
* `RequestsKept` and `ColdStartsFed`: `NoRequestLost` and `ColdStartFed`, from
  `WorkInv`. The work queue holds each item once (`QueueType`); a request that
  nobody has read has its item queued or at its first step (`RequestInv`); the
  items of the test follow each other (`TestInv`); and at a cold start the item
  that fetches stands ahead of the one that starts (`FedInv`). `Submitted`,
  `FirstTaken` and `StartQueued` are what the kernel's queue does to that.

**`RestFota_proofs`**, for any number of reboots: `PressAnswers`
(`PressAnswersQuestion`; `PressInv` adds that a press held while a question is
open was made after it).

Only model-checked:

* all liveness (the prover has no ENABLED): `RecordFinishes`, `SessionEnds`,
  `LogThreadFinishes`, `RecordNotHeldBack`, `Reconnects`,
  `ExamplesFinish`, `OutputResumes`, `TestsGoOn`, `RoundsEnd`;
* the end of an upload, which is liveness, in `DeliversRecord`.

Every safety invariant and action property that a passing run checks is also a
theorem.

## 6. What is not modelled

In the LIS unit:

* The compensation formulas of the BME280 (the datasheet's); they are one
  operator. With the BME280 disabled `unit_humidity` and `unit_pressure_hpa`
  keep their initial -1 (`main.c:29-30`), and `main.c:245-246` converts this
  float to an unsigned integer, which C leaves undefined: what the packet then
  carries depends on the build. `UnitTelemetry` calls the
  values unset.
* The wrap of 32-bit seconds in 2106.
* Transfers without a caller in `main.c` (UART and RAM variants, `test_flash`),
  the u32 and blob accessors of the configuration store, `log_ram_clear`.
* An NVS that cannot be mounted (`eeprom_emul_init` fails): every parameter
  would keep its default and no write would succeed. The error of a single
  `nvs_write` either: the parameter would stand in RAM only.
* A configuration mixed from two messages, by power that fails between the four
  writes or by a CFG with fewer than four parameters, is in the model, and no
  property forbids it: the code allows it, and `ConfigOfOneMessage` speaks of
  units that met neither.
* Topics, credentials, client ids, formatting of log messages.
* The registers of SPI, ADC and timer; overruns of the sample timer in time.
* Waits that nothing in the code bounds (registration, `main.c:221`; the
  broker, `main.c:836`): there is no promise to check.

In the other programs:

* AWS IoT: JSON documents, the shadow's content, TLS.
* SAADC: gains, resistors, pins and oversampling of a channel; limits are those
  of one channel. An interrupt so late that two buffers have been filled.
* GNSS: what is printed of PVT data, the parsing of XTRA and SUPL messages, the
  content of ephemerides, factory almanacs, the distance to a reference. With
  A-GNSS and P-GPS in one build the masks of a newer request may be cleared
  (`assistance.c:265`); the model does so, and `NoRequestLost` leaves these masks
  out.
* REST FOTA: the status document, certificates, the inside of the FOTA library.
  The later questions of a round may go out with a token that has expired,
  though the comment at `main.c:440` asks for one for each call: the model does
  so, and no property asks for a fresh one.

Left out as a whole: `BasicNetworking` is a straight line to an MQTT connection
and `mqtt_input`/`mqtt_live` once a second with their results ignored; its HTTP
requests are commented out. `sms` prints in a callback; `sms2` averages and
prints samples in an endless loop behind which its SMS part is never reached.
`Time`, `GPS` and `KeyMgmt` call the modem and print. The SPI and LED lessons
are one loop of I/O each, with copies of the unit's drivers.
`nrf_provisioning`, `nrfx_adc.c` (an ADC this chip does not have), the other
nrfx examples of `spim_test` and the build directories are vendored or
generated.

## 7. Plan

Done: all modules of section 2 and the eight proof modules.

Left: liveness, which this prover cannot state (`ENABLED` of the fairness
conditions): the last steps of `RecordFinishes`, `SessionEnds` and the others
stay with TLC.

--------------------------- MODULE AwsConnection ---------------------------
(***************************************************************************)
(* The AWS IoT example: main.c, aws.c, lte.c and dfu.c of AWS_IoT/src.     *)
(* Three work items share the cooperative system work queue; the events of *)
(* the aws_iot library arrive on the library's own thread and set the flag *)
(* cloud_connected the work functions read.  A work function that blocks   *)
(* (dialling the broker, sending a shadow document) is split in a start    *)
(* and an end, and events may be handled between the two.  The delayable   *)
(* work of the kernel, the aws_iot library and MCUboot are external: they  *)
(* are modelled from how the example uses them.                            *)
(***************************************************************************)
EXTENDS Naturals, Sequences, SequencesExt

CONSTANTS
    Images,     \* firmware images a job can deliver
    Faulty,     \* those that never reach the broker
    Factory,    \* the image flashed at production
    MaxBoots    \* bound: restarts of the unit

ASSUME ImagesAssumption == Faulty \subseteq Images /\ Factory \in Images \ Faulty
ASSUME BootsAssumption == MaxBoots \in Nat

None == "none"

Works == {"connect", "update", "version"}

VARIABLES
    main,             \* where the main thread is
    lteConnected,     \* the semaphore lte_connected
    link,             \* "down", "up", or "offline" (lte_lc_offline)
    session,          \* the library's MQTT session
    cloudConnected,   \* the flag cloud_connected
    delayed,          \* work items whose timer runs
    queue,            \* the system work queue
    busy,             \* the work item its thread runs, None
    canceling,        \* that item was cancelled while it ran
    clockKnown,       \* date_time_now succeeds
    fota,             \* "idle", "loading", "erasing"
    image,            \* what MCUboot knows of the images
    versions,         \* version messages published since the boot, at most 2
    boots

unit == <<main, lteConnected, link, clockKnown>>
works == <<delayed, queue, busy, canceling>>
flash == <<image, boots>>
awsVars == <<unit, session, cloudConnected, works, fota, flash, versions>>

Queued(w) == w \in ToSet(queue)
Running(w) == busy = w
Pending(w) == w \in delayed \/ Queued(w)

(* k_work_schedule and k_work_submit do nothing to an item that is already *)
(* scheduled, queued or being cancelled.                                   *)
Schedulable(w) == ~Pending(w) /\ ~(Running(w) /\ canceling)

Later(w, items) == IF Schedulable(w) THEN items \cup {w} ELSE items

AtOnce(w, q) == IF Schedulable(w) THEN Append(q, w) ELSE q

(* MCUboot at a reset: a pending image is started on trial, an image still *)
(* on trial is reverted.                                                   *)
AfterReset(i) ==
    CASE i.pending # None -> [running |-> i.pending, fallback |-> i.running,
                              confirmed |-> FALSE, pending |-> None]
      [] i.pending = None /\ ~i.confirmed ->
                             [running |-> i.fallback, fallback |-> i.fallback,
                              confirmed |-> TRUE, pending |-> None]
      [] OTHER -> i

AwsInit ==
    /\ main = "booting"
    /\ lteConnected = FALSE /\ link = "down" /\ clockKnown = FALSE
    /\ session = "closed" /\ cloudConnected = FALSE
    /\ delayed = {} /\ queue = <<>> /\ busy = None /\ canceling = FALSE
    /\ fota = "idle" /\ versions = 0 /\ boots = 0
    /\ image = [running |-> Factory, fallback |-> Factory,
                confirmed |-> TRUE, pending |-> None]

(* sys_reboot, a power cut or a fault: RAM is lost, MCUboot decides.       *)
Reset(i) ==
    /\ boots < MaxBoots
    /\ boots' = boots + 1
    /\ image' = AfterReset(i)
    /\ main' = "booting"
    /\ lteConnected' = FALSE /\ link' = "down" /\ clockKnown' = FALSE
    /\ session' = "closed" /\ cloudConnected' = FALSE
    /\ delayed' = {} /\ queue' = <<>> /\ busy' = None /\ canceling' = FALSE
    /\ fota' = "idle" /\ versions' = 0

(* nrf_modem_lib_dfu_handler: a modem update that was just applied, well   *)
(* or badly, ends in a reboot.                                             *)
nrf_modem_lib_dfu_handler == main = "booting" /\ Reset(image)

(* Mutant: the image is confirmed by the mere fact that it boots.          *)
StartMainConfirmed ==
    /\ main = "booting"
    /\ main' \in {"halted", "waiting", "deaf"}
    /\ image' = [image EXCEPT !.confirmed = TRUE]
    /\ UNCHANGED <<lteConnected, link, clockKnown, session, cloudConnected,
                   works, fota, boots, versions>>

(* main, once the modem library is up: without a hardware id it returns;   *)
(* an error of modem_configure is only printed, and then no registration   *)
(* ever arrives.                                                           *)
StartMain ==
    /\ main = "booting"
    /\ main' \in {"halted", "waiting", "deaf"}
    /\ UNCHANGED <<lteConnected, link, clockKnown, session, cloudConnected,
                   works, fota, flash, versions>>

(* lte_handler: only a home or roaming registration gives the semaphore.   *)
lte_handler ==
    /\ main \in {"waiting", "done"}
    /\ link = "down"
    /\ link' = "up"
    /\ lteConnected' = TRUE
    /\ UNCHANGED <<main, clockKnown, session, cloudConnected, works, fota, flash, versions>>

LinkLost ==
    /\ link = "up"
    /\ link' = "down"
    /\ UNCHANGED <<main, lteConnected, clockKnown, session, cloudConnected,
                   works, fota, flash, versions>>

LteTaken ==
    /\ main = "waiting" /\ lteConnected
    /\ main' = "done"
    /\ lteConnected' = FALSE
    /\ queue' = AtOnce("connect", queue)
    /\ UNCHANGED <<link, clockKnown, session, cloudConnected, delayed, busy,
                   canceling, fota, flash, versions>>

date_time_event_handler ==
    /\ main = "done" /\ link = "up"
    /\ clockKnown' = TRUE
    /\ UNCHANGED <<main, lteConnected, link, session, cloudConnected, works,
                   fota, flash, versions>>

TimerExpires(w) ==
    /\ w \in delayed
    /\ delayed' = delayed \ {w}
    /\ queue' = Append(queue, w)
    /\ UNCHANGED <<unit, session, cloudConnected, busy, canceling, fota, flash, versions>>

(* The queue's thread takes the first item; busy' = None is an early       *)
(* return of its function.                                                 *)
Take(w) ==
    /\ busy = None /\ queue # <<>> /\ Head(queue) = w
    /\ queue' = Tail(queue)

Finish == busy' = None /\ canceling' = FALSE

(* connect_work_fn up to aws_iot_connect, which refuses at once when the   *)
(* library still has a session.                                            *)
StartConnect ==
    /\ Take("connect")
    /\ IF cloudConnected \/ session # "closed"
       THEN /\ Finish
            /\ delayed' = IF cloudConnected THEN delayed ELSE delayed \cup {"connect"}
       ELSE /\ busy' = "connect"
            /\ UNCHANGED <<delayed, canceling>>
    /\ UNCHANGED <<unit, session, cloudConnected, fota, flash, versions>>

(* Mutant: an error ends the attempts.                                     *)
EndConnectGivesUp(err) ==
    /\ busy = "connect"
    /\ err \/ link = "up"
    /\ session' = IF err THEN session ELSE "connecting"
    /\ delayed' = IF err THEN delayed ELSE Later("connect", delayed)
    /\ Finish
    /\ UNCHANGED <<unit, cloudConnected, queue, fota, flash, versions>>

(* aws_iot_connect returns, with or without an error, and the next retry   *)
(* is scheduled.                                                           *)
EndConnect(err) ==
    /\ busy = "connect"
    /\ err \/ link = "up"
    /\ session' = IF err THEN session ELSE "connecting"
    /\ delayed' = Later("connect", delayed)
    /\ Finish
    /\ UNCHANGED <<unit, cloudConnected, queue, fota, flash, versions>>

StartUpdate ==
    /\ Take("update")
    /\ busy' = IF cloudConnected THEN "update" ELSE None
    /\ UNCHANGED <<unit, session, cloudConnected, delayed, canceling, fota, flash, versions>>

(* shadow_update returned, whatever it could do.                           *)
shadow_update_work_fn ==
    /\ busy = "update"
    /\ delayed' = Later("update", delayed)
    /\ Finish
    /\ UNCHANGED <<unit, session, cloudConnected, queue, fota, flash, versions>>

StartVersion ==
    /\ Take("version")
    /\ busy' = "version"
    /\ UNCHANGED <<unit, session, cloudConnected, delayed, canceling, fota, flash, versions>>

(* shadow_update publishes only with a known time and an open session; the *)
(* modem, the JSON objects or the send may fail as well.                   *)
shadow_update(sent) ==
    /\ sent => clockKnown /\ session = "open"
    /\ versions' = IF sent /\ versions < 2 THEN versions + 1 ELSE versions

shadow_update_version_work_fn ==
    /\ busy = "version"
    /\ \E sent \in BOOLEAN : shadow_update(sent)
    /\ Finish
    /\ UNCHANGED <<unit, session, cloudConnected, delayed, queue, fota, flash>>

(* An item stands in the queue once, from where it is taken out.           *)
Withdrawn(q, w) ==
    IF w \in ToSet(q) THEN RemoveAt(q, CHOOSE i \in DOMAIN q : q[i] = w) ELSE q

(* k_work_cancel_delayable: off the timer and the queue; an item that is   *)
(* running is only marked.                                                 *)
Cancelled(w) == <<delayed \ {w}, Withdrawn(queue, w), canceling \/ Running(w)>>

(* AWS_IOT_EVT_CONNECTED.  A faulty image never gets that far.             *)
EvtConnected ==
    /\ session = "connecting" /\ link = "up" /\ image.running \notin Faulty
    /\ session' = "open"
    /\ cloudConnected' = TRUE
    /\ LET c == Cancelled("connect")
       IN  /\ delayed' = Later("update", c[1])
           /\ queue' = AtOnce("version", c[2])
           /\ canceling' = c[3]
    /\ image' = [image EXCEPT !.confirmed = TRUE]
    /\ UNCHANGED <<unit, busy, fota, boots, versions>>

(* Mutant: the next attempt is left to the work function.                  *)
DisconnectedNoRetry ==
    /\ session \in {"connecting", "open"}
    /\ session' = "closed"
    /\ cloudConnected' = FALSE
    /\ LET c == Cancelled("update")
       IN  delayed' = c[1] /\ queue' = c[2] /\ canceling' = c[3]
    /\ UNCHANGED <<unit, busy, fota, flash, versions>>

(* Mutant: the periodic publication is not cancelled.                      *)
DisconnectedStillUpdating ==
    /\ session \in {"connecting", "open"}
    /\ session' = "closed"
    /\ cloudConnected' = FALSE
    /\ queue' = AtOnce("connect", queue)
    /\ UNCHANGED <<unit, delayed, busy, canceling, fota, flash, versions>>

(* AWS_IOT_EVT_DISCONNECTED: the session is lost or was refused.           *)
EvtDisconnected ==
    /\ session \in {"connecting", "open"}
    /\ session' = "closed"
    /\ cloudConnected' = FALSE
    /\ LET c == Cancelled("update")
       IN  /\ delayed' = c[1]
           /\ queue' = AtOnce("connect", c[2])
           /\ canceling' = c[3]
    /\ UNCHANGED <<unit, busy, fota, flash, versions>>

EvtFotaStart ==
    /\ session = "open" /\ fota = "idle"
    /\ fota' = "loading"
    /\ UNCHANGED <<unit, session, cloudConnected, works, flash, versions>>

(* AWS_IOT_EVT_FOTA_ERASE_PENDING: the link is taken down for the erase.   *)
EvtErasePending ==
    /\ fota = "loading"
    /\ fota' = "erasing"
    /\ link' \in {link, "offline"}
    /\ UNCHANGED <<main, lteConnected, clockKnown, session, cloudConnected,
                   works, flash, versions>>

(* AWS_IOT_EVT_FOTA_ERASE_DONE: an error of lte_lc_connect is printed.     *)
EvtEraseDone ==
    /\ fota = "erasing"
    /\ fota' = "loading"
    /\ link' \in {link, "up"}
    /\ UNCHANGED <<main, lteConnected, clockKnown, session, cloudConnected,
                   works, flash, versions>>

(* AWS_IOT_EVT_FOTA_DONE: disconnect and reboot into the new image.        *)
EvtFotaDone(i) ==
    /\ fota = "loading" /\ link = "up"
    /\ Reset([image EXCEPT !.pending = i])

EvtFotaError ==
    /\ fota # "idle"
    /\ fota' = "idle"
    /\ UNCHANGED <<unit, session, cloudConnected, works, flash, versions>>

PowerCut == Reset(image)

QueueThread ==
    \/ StartConnect \/ \E err \in BOOLEAN : EndConnect(err)
    \/ StartUpdate \/ shadow_update_work_fn
    \/ StartVersion \/ shadow_update_version_work_fn

aws_iot_event_handler ==
    \/ EvtConnected \/ EvtDisconnected
    \/ EvtFotaStart \/ EvtErasePending \/ EvtEraseDone \/ EvtFotaError
    \/ \E i \in Images \ {image.running} : EvtFotaDone(i)

AwsNext ==
    \/ nrf_modem_lib_dfu_handler \/ StartMain \/ LteTaken
    \/ lte_handler \/ LinkLost \/ date_time_event_handler
    \/ \E w \in Works : TimerExpires(w)
    \/ QueueThread
    \/ aws_iot_event_handler
    \/ PowerCut

(* The queue thread and its timers run, and a broker that is dialled again *)
(* and again accepts in the end.                                           *)
AwsFairness ==
    /\ WF_awsVars(QueueThread)
    /\ \A w \in Works : WF_awsVars(TimerExpires(w))
    /\ SF_awsVars(EndConnect(FALSE))
    /\ SF_awsVars(EvtConnected)

AwsSpec == AwsInit /\ [][AwsNext]_awsVars /\ AwsFairness

-----------------------------------------------------------------------------

(* While the unit is off the cloud a connection attempt is under way or    *)
(* scheduled: no order of events and work functions loses the retry        *)
(* (connect_work_fn and AWS_IOT_EVT_DISCONNECTED).                         *)
AlwaysRetrying ==
    main = "done" /\ ~cloudConnected => Pending("connect") \/ Running("connect")

(* While the unit is connected its periodic publication is alive, and once *)
(* it is disconnected nothing is left of it but a function that is         *)
(* returning: publications never overlap from one connection to the next.  *)
OneUpdateChain ==
    IF cloudConnected
    THEN (Pending("update") \/ Running("update")) /\ ~canceling
    ELSE ~Pending("update") /\ (Running("update") => canceling)

(* Whatever is interrupted by a reset, MCUboot keeps for good only an      *)
(* image that has reached the broker, and can always go back to one        *)
(* (boot_write_img_confirmed in AWS_IOT_EVT_CONNECTED).                    *)
FaultyNeverKept ==
    /\ image.confirmed => image.running \notin Faulty
    /\ image.fallback \notin Faulty

(* With lasting coverage and an image that can connect, the unit is on the *)
(* cloud again and again, whatever the broker drops and whenever.          *)
Reconnects ==
    <>[](main = "done" /\ link = "up" /\ image.running \notin Faulty)
        => []<>cloudConnected

(* "only publishes a message (with version number) upon an initial         *)
(* connection" (AWS_IoT/src/main.c:100).                                   *)
VersionOnce == versions <= 1
=============================================================================

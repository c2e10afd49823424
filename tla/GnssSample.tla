----------------------------- MODULE GnssSample -----------------------------
(***************************************************************************)
(* The GNSS sample: gnss/src/main.c with its three kinds of assistance     *)
(* (assistance.c, assistance_supl.c, assistance_minimal.c).  Three parties *)
(* share state without a lock: the GNSS event handler, the main loop that  *)
(* prints, and the thread of gnss_work_q that fetches assistance and, in   *)
(* the time-to-first-fix test, restarts GNSS.  A work function that waits  *)
(* for the network is split where it waits.  The options chosen when the   *)
(* sample is built are picked by Init.  The kernel, the modem and the      *)
(* P-GPS library are external.                                             *)
(***************************************************************************)
EXTENDS Naturals, Sequences, SequencesExt

CONSTANTS
    QueueLen,     \* NMEA strings nmea_queue holds, 10 in the code
    HeapFrames,   \* NMEA frames that fit in the heap of 2048 bytes
    Requests      \* what GNSS may ask for in one event

(* What a request of GNSS asks for: ephemerides or almanacs (the masks of  *)
(* GPS), time or position, the NeQuick corrections.  {} is a request that  *)
(* concerns QZSS only.                                                     *)
Ephemerides == "ephemerides"
TimePosition == "time_position"
NeQuick == "nequick"
Everything == {Ephemerides, TimePosition, NeQuick}

ASSUME QueueAssumption == QueueLen \in Nat \ {0} /\ HeapFrames \in Nat \ {0}
ASSUME RequestsAssumption == Requests \subseteq SUBSET Everything

(* The combinations Kconfig allows: minimal assistance selects LTE on      *)
(* demand, P-GPS excludes it; cold starts belong to the test mode.         *)
Builds ==
    {b \in [assistance : {"none", "agnss", "pgps", "both", "supl", "minimal"},
            ttff : BOOLEAN, cold : BOOLEAN, onDemand : BOOLEAN] :
        /\ b.cold => b.ttff
        /\ b.assistance = "minimal" => b.onDemand
        /\ b.assistance \in {"none", "pgps", "both"} => ~b.onDemand}

VARIABLES
    build,
    main,       \* where main is: the start-up, "poll", "print", "halted"
    nmea,       \* [queued, heap]: strings in nmea_queue, frames allocated
    gnss,       \* "off", "running"
    need,       \* last_agnss
    asked,      \* history: the request in last_agnss no work has looked at yet
    fed,        \* history: assistance was fetched after GNSS data were deleted
    broken,     \* history: GNSS could not be cleared or started
    workq,      \* gnss_work_q: [queue, item, step]
    delayed,    \* delayable work whose timer runs
    requesting, \* requesting_assistance
    active,     \* assistance_active
    pgps,       \* what the P-GPS library is at
    lte,        \* [mode, ready, left]: "off", "searching", "registered"; lte_ready;
                \* history: lte_disconnect failed and left LTE on
    socket      \* supl_fd is open

display == <<main, nmea>>
assistance == <<need, asked, fed, requesting, active, pgps, socket>>
gnssVars == <<build, display, gnss, broken, workq, delayed, assistance, lte>>

PGps == build.assistance \in {"pgps", "both"}
Assisted == build.assistance # "none"
Nobody == [queue |-> <<>>, item |-> "none", step |-> "none"]

(* k_work_submit_to_queue: nothing happens to an item that is queued.      *)
Submit(w, q) == IF w \in ToSet(q.queue) THEN q ELSE [q EXCEPT !.queue = Append(@, w)]

Done(q) == [q EXCEPT !.item = "none", !.step = "none"]

GnssInit ==
    /\ build \in Builds
    /\ main = "boot"
    /\ nmea = [queued |-> 0, heap |-> 0]
    /\ gnss = "off" /\ need = {} /\ asked = {} /\ fed = FALSE /\ broken = FALSE
    /\ workq = Nobody /\ delayed = {}
    /\ requesting = FALSE /\ active = FALSE /\ pgps = "idle" /\ socket = FALSE
    /\ lte = [mode |-> "off", ready |-> FALSE, left |-> FALSE]

-----------------------------------------------------------------------------
(* main up to the loop.  Any of these may fail, and main returns.  The     *)
(* connection of a build without LTE on demand is awaited in modem_init.   *)

Halt == main' = "halted" /\ UNCHANGED lte

modem_init ==
    /\ main = "boot"
    /\ \/ Halt
       \/ main' = "modem" /\ UNCHANGED lte
    /\ UNCHANGED <<build, nmea, gnss, broken, workq, delayed, assistance>>

sample_init ==
    /\ main = "modem"
    /\ \/ Halt
       \/ main' = "sample" /\ UNCHANGED lte
    /\ UNCHANGED <<build, nmea, gnss, broken, workq, delayed, assistance>>

(* The test mode starts GNSS from the work queue.                          *)
gnss_init_and_start ==
    /\ main = "sample"
    /\ \/ Halt /\ UNCHANGED <<gnss, delayed>>
       \/ /\ main' = "poll"
          /\ gnss' = IF build.ttff THEN gnss ELSE "running"
          /\ delayed' = IF build.ttff THEN {"prepare"} ELSE delayed
          /\ UNCHANGED lte
    /\ UNCHANGED <<build, nmea, broken, workq, assistance>>

-----------------------------------------------------------------------------
(* gnss_event_handler, which interrupts any thread.                        *)

(* The test asks for a single fix, after which GNSS stops; the next test   *)
(* is scheduled.  The work item that only prints the result is left out.   *)
EvtFix ==
    /\ gnss = "running" /\ build.ttff
    /\ gnss' = "off"
    /\ delayed' = delayed \cup ({"prepare"} \ ToSet(workq.queue))
    /\ UNCHANGED <<build, display, broken, workq, assistance, lte>>

(* Mutant: the frame is not freed when it could not be queued.             *)
EvtNmeaKept(read) ==
    /\ gnss = "running"
    /\ nmea.heap < HeapFrames
    /\ nmea' = [queued |-> IF read /\ nmea.queued < QueueLen THEN nmea.queued + 1 ELSE nmea.queued,
                heap |-> nmea.heap + 1]
    /\ UNCHANGED <<build, main, gnss, broken, workq, delayed, assistance, lte>>

EvtNmea(read) ==
    /\ gnss = "running"
    /\ nmea.heap < HeapFrames
    /\ nmea' = IF read /\ nmea.queued < QueueLen
               THEN [queued |-> nmea.queued + 1, heap |-> nmea.heap + 1] ELSE nmea
    /\ UNCHANGED <<build, main, gnss, broken, workq, delayed, assistance, lte>>

(* Mutant: nothing is submitted while a request is being served.           *)
EvtAgnssReqBusy(n) ==
    /\ gnss = "running" /\ Assisted
    /\ need' = n /\ asked' = n
    /\ workq' = IF requesting THEN workq ELSE Submit("agnss", workq)
    /\ UNCHANGED <<build, display, gnss, broken, delayed, fed, requesting, active,
                   pgps, socket, lte>>

EvtAgnssReq(n) ==
    /\ gnss = "running" /\ Assisted
    /\ need' = n /\ asked' = n
    /\ workq' = Submit("agnss", workq)
    /\ UNCHANGED <<build, display, gnss, broken, delayed, fed, requesting, active,
                   pgps, socket, lte>>

gnss_event_handler ==
    \/ \E read \in BOOLEAN : EvtNmea(read)
    \/ EvtFix
    \/ \E n \in Requests : EvtAgnssReq(n)

-----------------------------------------------------------------------------
(* The loop of main: when k_poll has noted an NMEA string it is taken,     *)
(* printed unless the output is paused, and freed.  PVT data, which only   *)
(* change what is printed, are left out.                                   *)

output_paused == Assisted /\ (requesting \/ active)

HandleEvents ==
    /\ main = "poll" /\ nmea.queued > 0
    /\ main' = "print"
    /\ nmea' = [nmea EXCEPT !.queued = @ - 1]
    /\ UNCHANGED <<build, gnss, broken, workq, delayed, assistance, lte>>

FreeNmea ==
    /\ main = "print"
    /\ main' = "poll"
    /\ nmea' = [nmea EXCEPT !.heap = @ - 1]
    /\ UNCHANGED <<build, gnss, broken, workq, delayed, assistance, lte>>

-----------------------------------------------------------------------------
(* gnss_work_q.                                                            *)

PrepareTimer ==
    /\ delayed # {}
    /\ delayed' = {}
    /\ workq' = Submit("prepare", workq)
    /\ UNCHANGED <<build, display, gnss, broken, assistance, lte>>

TakeWork ==
    /\ workq.item = "none" /\ workq.queue # <<>>
    /\ workq' = [queue |-> Tail(workq.queue), item |-> Head(workq.queue), step |-> "start"]
    /\ UNCHANGED <<build, display, gnss, broken, delayed, assistance, lte>>

At(w, s) == workq.item = w /\ workq.step = s
Goto(s) == [workq EXCEPT !.step = s]

(* Requests the kind of assistance cannot or need not answer.              *)
Ignored(n) ==
    \/ build.assistance = "supl" /\ n \subseteq {NeQuick}
    \/ build.assistance = "minimal" /\ TimePosition \notin n
    \/ n = {}

(* Mutant: the output is paused before it is known whether to fetch.       *)
PausedTooEarly ==
    /\ At("agnss", "start")
    /\ asked' = {}
    /\ requesting' = TRUE
    /\ workq' = IF Ignored(need) THEN Done(workq)
                ELSE Goto(IF build.onDemand THEN "connect" ELSE "request")
    /\ UNCHANGED <<build, display, gnss, broken, delayed, need, fed, active, pgps, socket, lte>>

agnss_data_get_work_fn ==
    /\ At("agnss", "start")
    /\ asked' = {}
    /\ requesting' = ~Ignored(need)
    /\ workq' = IF Ignored(need) THEN Done(workq)
                ELSE Goto(IF build.onDemand THEN "connect" ELSE "request")
    /\ UNCHANGED <<build, display, gnss, broken, delayed, need, fed, active, pgps, socket, lte>>

(* To activate LTE that is on already changes nothing and reports nothing. *)
Activated == [lte EXCEPT !.mode = IF @ = "off" THEN "searching" ELSE @]

(* Mutant: the registration is awaited although LTE was not activated.     *)
AwaitedAnyway ==
    /\ At("agnss", "connect")
    /\ lte' \in {lte, Activated}
    /\ workq' = Goto("await")
    /\ UNCHANGED <<build, display, gnss, broken, delayed, assistance>>

(* LTE is activated and awaited; an error sends the request without it.    *)
lte_connect ==
    /\ At("agnss", "connect")
    /\ \/ lte' = Activated /\ workq' = Goto("await")
       \/ workq' = Goto("request") /\ UNCHANGED lte
    /\ UNCHANGED <<build, display, gnss, broken, delayed, assistance>>

LteReadyTaken ==
    /\ At("agnss", "await") /\ lte.ready
    /\ lte' = [lte EXCEPT !.ready = FALSE]
    /\ workq' = Goto("request")
    /\ UNCHANGED <<build, display, gnss, broken, delayed, assistance>>

lte_lc_event_handler ==
    /\ lte.mode = "searching"
    /\ lte' = [lte EXCEPT !.mode = "registered", !.ready = TRUE]
    /\ UNCHANGED <<build, display, gnss, broken, workq, delayed, assistance>>

LteLost ==
    /\ lte.mode = "registered"
    /\ lte' = [lte EXCEPT !.mode = "searching"]
    /\ UNCHANGED <<build, display, gnss, broken, workq, delayed, assistance>>

(* lte_disconnect may fail and leave LTE on; the work function ends.       *)
lte_disconnect ==
    /\ At("agnss", "release")
    /\ \/ build.onDemand /\ lte' = [lte EXCEPT !.mode = "off", !.left = FALSE]
       \/ lte' = [lte EXCEPT !.left = (lte.mode # "off")]
    /\ requesting' = FALSE
    /\ workq' = Done(workq)
    /\ UNCHANGED <<build, display, gnss, broken, delayed, need, asked, fed, active, pgps, socket>>

(* assistance_request.  Without A-GNSS, or when no data flag is set, P-GPS *)
(* is only notified; it finds a prediction or asks for data.               *)
RequestPgps ==
    /\ At("agnss", "request") /\ PGps
    /\ IF build.assistance = "pgps" \/ need \subseteq {Ephemerides}
       THEN pgps' = "notified" /\ workq' = Goto("release")
       ELSE workq' = Goto("masks") /\ UNCHANGED pgps
    /\ UNCHANGED <<build, display, gnss, broken, delayed, need, asked, fed, requesting,
                   active, socket, lte>>

(* P-GPS takes care of the ephemerides: their masks are cleared in         *)
(* last_agnss itself, which the event handler may have written since.      *)
ClearMasks ==
    /\ At("agnss", "masks")
    /\ need' = need \ {Ephemerides}
    /\ workq' = Goto("fetch")
    /\ active' = TRUE
    /\ UNCHANGED <<build, display, gnss, broken, delayed, asked, fed, requesting, pgps, socket, lte>>

RequestCloud ==
    /\ At("agnss", "request") /\ build.assistance = "agnss"
    /\ active' = TRUE
    /\ workq' = Goto("fetch")
    /\ UNCHANGED <<build, display, gnss, broken, delayed, need, asked, fed, requesting,
                   pgps, socket, lte>>

(* The token, the REST call and the processing of its answer, any of which *)
(* may fail.                                                               *)
FetchAgnss ==
    /\ At("agnss", "fetch")
    /\ active' = FALSE /\ fed' = TRUE
    /\ pgps' = IF PGps THEN "notified" ELSE pgps
    /\ workq' = Goto("release")
    /\ UNCHANGED <<build, display, gnss, broken, delayed, need, asked, requesting, socket, lte>>

(* The addresses of the server are tried in turn.                          *)
open_supl_socket ==
    /\ At("agnss", "request") /\ build.assistance = "supl"
    /\ \/ socket' = TRUE /\ active' = TRUE /\ workq' = Goto("session") /\ UNCHANGED fed
       \/ workq' = Goto("release") /\ fed' = TRUE /\ UNCHANGED <<socket, active>>
    /\ UNCHANGED <<build, display, gnss, broken, delayed, need, asked, requesting, pgps, lte>>

supl_session ==
    /\ At("agnss", "session")
    /\ socket' = FALSE /\ active' = FALSE /\ fed' = TRUE
    /\ workq' = Goto("release")
    /\ UNCHANGED <<build, display, gnss, broken, delayed, need, asked, requesting, pgps, lte>>

(* Time and location are injected as far as the modem knows them.          *)
InjectMinimal ==
    /\ At("agnss", "request") /\ build.assistance = "minimal"
    /\ fed' = TRUE
    /\ workq' = Goto("release")
    /\ UNCHANGED <<build, display, gnss, broken, delayed, need, asked, requesting, active,
                   pgps, socket, lte>>

-----------------------------------------------------------------------------
(* P-GPS.                                                                  *)

PgpsStep(q) ==
    /\ workq' = q
    /\ UNCHANGED <<build, display, gnss, broken, delayed, need, asked, fed, requesting, socket, lte>>

pgps_event_handler ==
    \/ /\ pgps = "notified" /\ pgps' = "idle" /\ UNCHANGED active
       /\ PgpsStep(Submit("inject_pgps", workq))
    \/ /\ pgps \in {"notified", "updating"} /\ pgps' = "wanted" /\ UNCHANGED active
       /\ PgpsStep(Submit("get_pgps", workq))
    \/ pgps = "answered" /\ pgps' = "loading" /\ active' = TRUE /\ PgpsStep(workq)
    \/ pgps = "loading" /\ pgps' = "idle" /\ active' = FALSE /\ PgpsStep(workq)

(* The answer to the REST call starts the loading; without one the request *)
(* is reset.  Both functions mark the assistance active meanwhile.         *)
get_pgps_data_work_fn ==
    \/ At("get_pgps", "start") /\ active' = TRUE /\ UNCHANGED pgps /\ PgpsStep(Goto("rest"))
    \/ /\ At("get_pgps", "rest")
       /\ pgps' \in {"answered", "idle"} /\ UNCHANGED active
       /\ PgpsStep(Goto("exit"))
    \/ At("get_pgps", "exit") /\ active' = FALSE /\ UNCHANGED pgps /\ PgpsStep(Done(workq))

inject_pgps_data_work_fn ==
    \/ At("inject_pgps", "start") /\ active' = TRUE /\ UNCHANGED pgps /\ PgpsStep(Goto("inject"))
    \/ /\ At("inject_pgps", "inject")
       /\ pgps' \in {pgps, IF pgps = "idle" THEN "updating" ELSE pgps}
       /\ active' = FALSE
       /\ PgpsStep(Done(workq))

-----------------------------------------------------------------------------
(* The time-to-first-fix test.                                             *)

(* The data of a cold start are deleted; when that fails the test ends.    *)
ttff_test_force_cold_start(err) ==
    /\ build.cold
    /\ fed' = (err /\ fed)

(* Mutant: the fetch is queued behind the start.                           *)
ColdStartFirst(q) ==
    LET s == Submit("start", q)
    IN  IF Assisted THEN Submit("agnss", s) ELSE s

ColdStart(q) == Submit("start", IF Assisted THEN Submit("agnss", q) ELSE q)

(* GNSS is stopped.  Cold: everything is asked for, and fetched before the *)
(* start; else a start and a stop make GNSS ask.                           *)
ttff_test_prepare_work_fn ==
    /\ At("prepare", "start")
    /\ gnss' = "off"
    /\ \/ /\ ttff_test_force_cold_start(TRUE)
          /\ broken' = TRUE /\ workq' = Done(workq)
          /\ UNCHANGED <<need, asked>>
       \/ /\ ttff_test_force_cold_start(FALSE)
          /\ need' = IF Assisted THEN Everything ELSE need
          /\ workq' = ColdStart(Done(workq))
          /\ UNCHANGED <<broken, asked>>
       \/ /\ ~build.cold
          /\ \E n \in IF Assisted THEN Requests \cup {need} ELSE {need} :
                /\ need' = n
                /\ asked' = IF n = need THEN asked ELSE n
                /\ workq' = Submit("start", IF n = need THEN Done(workq)
                                            ELSE Submit("agnss", Done(workq)))
          /\ UNCHANGED <<broken, fed>>
    /\ UNCHANGED <<build, display, delayed, requesting, active, pgps, socket, lte>>

ttff_test_start_work_fn ==
    /\ At("start", "start")
    /\ \/ gnss' = "running" /\ UNCHANGED broken
       \/ broken' = TRUE /\ UNCHANGED gnss
    /\ workq' = Done(workq)
    /\ UNCHANGED <<build, display, delayed, assistance, lte>>

-----------------------------------------------------------------------------
Startup == modem_init \/ sample_init \/ gnss_init_and_start

MainLoop == HandleEvents \/ FreeNmea

WorkFunction ==
    \/ TakeWork \/ agnss_data_get_work_fn
    \/ lte_connect \/ LteReadyTaken \/ lte_disconnect
    \/ RequestPgps \/ ClearMasks \/ RequestCloud \/ FetchAgnss
    \/ open_supl_socket \/ supl_session \/ InjectMinimal
    \/ get_pgps_data_work_fn \/ inject_pgps_data_work_fn
    \/ ttff_test_prepare_work_fn \/ ttff_test_start_work_fn

GnssNext ==
    \/ Startup \/ MainLoop \/ WorkFunction
    \/ gnss_event_handler \/ pgps_event_handler
    \/ lte_lc_event_handler \/ LteLost
    \/ PrepareTimer

(* The threads and timers run; the sky is open (a started GNSS gets a fix),*)
(* there is a network, and the P-GPS library goes on with what it began.   *)
GnssFairness ==
    /\ WF_gnssVars(MainLoop) /\ WF_gnssVars(WorkFunction)
    /\ WF_gnssVars(PrepareTimer)
    /\ WF_gnssVars(EvtFix) /\ WF_gnssVars(lte_lc_event_handler)
    /\ WF_gnssVars(pgps_event_handler)

GnssSpec == GnssInit /\ [][GnssNext]_gnssVars /\ GnssFairness

-----------------------------------------------------------------------------

(* No NMEA frame is lost to the heap: what is allocated waits in the queue *)
(* or is about to be printed and freed, with the queue full, the read of   *)
(* the string failing, or the output paused (gnss_event_handler, main).    *)
FramesAccounted ==
    /\ nmea.heap = nmea.queued + (IF main = "print" THEN 1 ELSE 0)
    /\ nmea.queued <= QueueLen

(* A request of GNSS is never dropped while the work queue is busy with an *)
(* older one or waits for the network: a run of agnss_data_get_work_fn     *)
(* that reads it is still to come.  With A-GNSS and P-GPS together the     *)
(* masks may be cleared under it (assistance_request).                     *)
NoRequestLost ==
    asked # {} => /\ "agnss" \in ToSet(workq.queue) \/ At("agnss", "start")
                  /\ asked \subseteq need \/ build.assistance = "both"

(* "new assistance data is also downloaded and injected to GNSS before     *)
(* each start" (gnss/README.rst): at a cold start the fetch is over,       *)
(* whatever else the queue had to do.  P-GPS injects later.                *)
ColdStartFed ==
    build.cold /\ At("start", "start") /\ Assisted /\ ~PGps => fed

(* LTE was left on by a failed lte_disconnect, so that lte_connect waits   *)
(* without a limit for a registration that nothing makes due.              *)
WaitsForLteLeftOn ==
    At("agnss", "await") /\ lte.left /\ lte.mode = "registered" /\ ~lte.ready

(* The display comes back: no request, failure or P-GPS event leaves the   *)
(* output paused for good (requesting_assistance, assistance_active), but  *)
(* for the one wait of lte_connect that may never end.                     *)
OutputResumes == []<>(~output_paused \/ WaitsForLteLeftOn)

(* The test goes from fix to fix with every kind of assistance, unless     *)
(* GNSS itself refused to be cleared or started, main never got there, or  *)
(* the work queue stands in the wait of lte_connect that may never end.    *)
TestsGoOn ==
    build.ttff => []<>(\/ gnss = "running" \/ broken \/ main \notin {"poll", "print"}
                       \/ WaitsForLteLeftOn)
=============================================================================

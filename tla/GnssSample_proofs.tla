-------------------------- MODULE GnssSample_proofs --------------------------
(***************************************************************************)
(* The NMEA frames, the requests and the cold starts of the GNSS sample,   *)
(* for every length of nmea_queue, every size of the heap, everything GNSS *)
(* may ask for, and every build.                                           *)
(***************************************************************************)
EXTENDS GnssSample, SequenceTheorems, TLAPS

FramesInv ==
    /\ nmea \in [queued : Nat, heap : Nat]
    /\ FramesAccounted

(* Everything but the NMEA event, the start-up and the loop of main leaves *)
(* the frames and the place of main alone.                                 *)
LEMMA OthersLeaveFrames ==
    ASSUME \/ WorkFunction \/ pgps_event_handler \/ EvtFix
           \/ \E n \in Requests : EvtAgnssReq(n)
           \/ lte_lc_event_handler \/ LteLost \/ PrepareTimer
    PROVE  UNCHANGED display
<1>1. CASE TakeWork \/ agnss_data_get_work_fn \/ lte_connect \/ LteReadyTaken \/ lte_disconnect
  BY <1>1 DEF TakeWork, agnss_data_get_work_fn, lte_connect, LteReadyTaken, lte_disconnect
<1>2. CASE RequestPgps \/ ClearMasks \/ RequestCloud \/ FetchAgnss
  BY <1>2 DEF RequestPgps, ClearMasks, RequestCloud, FetchAgnss
<1>3. CASE open_supl_socket \/ supl_session \/ InjectMinimal
  BY <1>3 DEF open_supl_socket, supl_session, InjectMinimal
<1>4. CASE get_pgps_data_work_fn \/ inject_pgps_data_work_fn \/ pgps_event_handler
  BY <1>4 DEF get_pgps_data_work_fn, inject_pgps_data_work_fn, pgps_event_handler, PgpsStep
<1>5. CASE ttff_test_prepare_work_fn \/ ttff_test_start_work_fn
  BY <1>5 DEF ttff_test_prepare_work_fn, ttff_test_start_work_fn
<1>6. CASE EvtFix \/ \E n \in Requests : EvtAgnssReq(n)
  BY <1>6 DEF EvtFix, EvtAgnssReq
<1>7. CASE lte_lc_event_handler \/ LteLost \/ PrepareTimer
  BY <1>7 DEF lte_lc_event_handler, LteLost, PrepareTimer
<1>8. QED
  BY <1>1, <1>2, <1>3, <1>4, <1>5, <1>6, <1>7 DEF WorkFunction

(* No NMEA frame is lost to the heap: what is allocated waits in the queue *)
(* or is about to be printed and freed (gnss_event_handler, main).         *)
THEOREM FramesFreed == GnssSpec => []FramesAccounted
<1>1. GnssInit => FramesInv
  BY QueueAssumption DEF GnssInit, FramesInv, FramesAccounted
<1>2. FramesInv /\ [GnssNext]_gnssVars => FramesInv'
  <2> SUFFICES ASSUME FramesInv, [GnssNext]_gnssVars PROVE FramesInv'
    OBVIOUS
  <2> USE QueueAssumption DEF FramesInv, FramesAccounted
  <2>1. CASE \E read \in BOOLEAN : EvtNmea(read)
    BY <2>1 DEF EvtNmea
  <2>2. CASE HandleEvents
    BY <2>2 DEF HandleEvents
  <2>3. CASE FreeNmea
    BY <2>3 DEF FreeNmea
  <2>4. CASE Startup
    BY <2>4 DEF Startup, modem_init, sample_init, gnss_init_and_start, Halt
  <2>5. CASE UNCHANGED display
    BY <2>5 DEF display
  <2>6. CASE UNCHANGED gnssVars
    BY <2>6, <2>5 DEF gnssVars
  <2>7. QED
    BY <2>1, <2>2, <2>3, <2>4, <2>5, <2>6, OthersLeaveFrames
    DEF GnssNext, MainLoop, gnss_event_handler
<1>3. FramesInv => FramesAccounted
  BY DEF FramesInv
<1>4. QED
  BY <1>1, <1>2, <1>3, PTL DEF GnssSpec

-----------------------------------------------------------------------------
(* The work queue.                                                         *)
Items == {"agnss", "get_pgps", "inject_pgps", "prepare", "start"}
Steps == {"none", "start", "connect", "await", "request", "masks", "fetch", "session", "release",
          "rest", "exit", "inject"}
WorkQueues ==
    {q \in [queue : Seq(Items), item : Items \cup {"none"}, step : Steps] : IsInjective(q.queue)}

Ahead(s, v, w) == \E i, j \in 1 .. Len(s) : i < j /\ s[i] = v /\ s[j] = w

(* A submitted item is queued behind everything else, once.                *)
LEMMA Submitted ==
    ASSUME NEW q \in WorkQueues, NEW w \in Items
    PROVE  /\ Submit(w, q) \in WorkQueues
           /\ Submit(w, q).item = q.item /\ Submit(w, q).step = q.step
           /\ ToSet(Submit(w, q).queue) = ToSet(q.queue) \cup {w}
           /\ \A u, v : Ahead(q.queue, u, v) => Ahead(Submit(w, q).queue, u, v)
           /\ w \notin ToSet(q.queue) =>
                \A u \in ToSet(q.queue) : Ahead(Submit(w, q).queue, u, w)
<1> DEFINE s == q.queue
           n == Len(s)
           t == Append(s, w)
<1>1. s \in Seq(Items) /\ n \in Nat /\ IsInjective(s)
  BY DEF WorkQueues
<1>2. /\ t \in Seq(Items) /\ Len(t) = n + 1 /\ t[n + 1] = w
      /\ \A i \in 1 .. n : t[i] = s[i]
  BY <1>1
<1>3. CASE w \in ToSet(s)
  BY <1>3 DEF Submit
<1>4. CASE w \notin ToSet(s)
  <2>1. Submit(w, q) = [q EXCEPT !.queue = t]
    BY <1>4 DEF Submit
  <2>2. \A i \in 1 .. n : s[i] # w
    BY <1>1, <1>4 DEF ToSet
  <2> HIDE DEF s, n, t
  <2>3. IsInjective(t)
    <3> SUFFICES ASSUME NEW i \in 1 .. n + 1, NEW j \in 1 .. n + 1, t[i] = t[j] PROVE i = j
      BY <1>1, <1>2 DEF IsInjective
    <3>1. i = n + 1 \/ i \in 1 .. n
      BY <1>1
    <3>2. j = n + 1 \/ j \in 1 .. n
      BY <1>1
    <3>3. \A a, b \in 1 .. n : s[a] = s[b] => a = b
      BY <1>1 DEF IsInjective, n
    <3>4. QED
      BY <1>2, <2>2, <3>1, <3>2, <3>3
  <2>4. ToSet(t) = ToSet(s) \cup {w}
    <3>1. ToSet(t) = {t[i] : i \in 1 .. n + 1} /\ ToSet(s) = {s[i] : i \in 1 .. n}
      BY <1>1, <1>2 DEF ToSet, n
    <3>2. 1 .. n + 1 = (1 .. n) \cup {n + 1}
      BY <1>1
    <3>3. QED
      BY <1>2, <3>1, <3>2
  <2>5. /\ Submit(w, q) \in WorkQueues
        /\ Submit(w, q).item = q.item /\ Submit(w, q).step = q.step /\ Submit(w, q).queue = t
    BY <1>2, <2>1, <2>3 DEF WorkQueues
  <2>6. \A u, v : Ahead(s, u, v) => Ahead(t, u, v)
    <3>1. \A i \in 1 .. n : i \in 1 .. n + 1
      BY <1>1
    <3>2. QED
      BY <1>2, <3>1 DEF Ahead, n
  <2>7. ASSUME NEW u \in ToSet(s) PROVE Ahead(t, u, w)
    <3>1. PICK i \in 1 .. n : s[i] = u
      BY <1>1 DEF ToSet, n
    <3>2. i \in 1 .. n + 1 /\ n + 1 \in 1 .. n + 1 /\ i < n + 1
      BY <1>1
    <3>3. QED
      BY <1>2, <3>1, <3>2 DEF Ahead
  <2>8. QED
    BY <2>4, <2>5, <2>6, <2>7 DEF s
<1>5. QED
  BY <1>3, <1>4

(* The first item is taken; nothing of it is left in the queue.            *)
LEMMA FirstTaken ==
    ASSUME NEW s \in Seq(Items), IsInjective(s), s # <<>>
    PROVE  /\ Tail(s) \in Seq(Items) /\ IsInjective(Tail(s)) /\ Head(s) \in Items
           /\ ToSet(s) = ToSet(Tail(s)) \cup {Head(s)} /\ Head(s) \notin ToSet(Tail(s))
           /\ \A u, v : Ahead(s, u, v) => Head(s) # v /\ (Head(s) = u \/ Ahead(Tail(s), u, v))
<1> DEFINE n == Len(s)
           t == Tail(s)
<1>1. /\ n \in Nat \ {0} /\ Head(s) = s[1] /\ t \in Seq(Items) /\ Len(t) = n - 1
      /\ \A i \in 1 .. n - 1 : t[i] = s[i + 1]
  BY HeadTailProperties, LenProperties, EmptySeq
<1>2. \A a, b \in 1 .. n : s[a] = s[b] => a = b
  BY DEF IsInjective
<1>3. ToSet(t) = {t[i] : i \in 1 .. n - 1} /\ ToSet(s) = {s[i] : i \in 1 .. n}
  <2>1. DOMAIN t = 1 .. n - 1 /\ DOMAIN s = 1 .. n
    BY <1>1
  <2> HIDE DEF n, t
  <2>2. QED
    BY <2>1 DEF ToSet
<1> HIDE DEF n, t
<1>4. \A i \in 1 .. n - 1 : i + 1 \in 1 .. n /\ i + 1 # 1
  BY <1>1
<1>5. \A i \in 1 .. n : i = 1 \/ (i - 1 \in 1 .. n - 1 /\ (i - 1) + 1 = i)
  BY <1>1
<1>6. 1 \in 1 .. n
  BY <1>1
<1>7. IsInjective(t)
  <2> SUFFICES ASSUME NEW i \in 1 .. n - 1, NEW j \in 1 .. n - 1, t[i] = t[j] PROVE i = j
    BY <1>1 DEF IsInjective
  <2>1. i + 1 = j + 1
    BY <1>1, <1>2, <1>4
  <2>2. QED
    BY <1>1, <2>1
<1>8. s[1] \notin ToSet(t)
  BY <1>1, <1>2, <1>3, <1>4, <1>6
<1>9. ToSet(s) = ToSet(t) \cup {s[1]}
  <2>1. \A u \in ToSet(s) : u \in ToSet(t) \cup {s[1]}
    <3> SUFFICES ASSUME NEW i \in 1 .. n PROVE s[i] \in ToSet(t) \cup {s[1]}
      BY <1>3
    <3>1. CASE i = 1
      BY <3>1
    <3>2. CASE i - 1 \in 1 .. n - 1 /\ (i - 1) + 1 = i
      <4>1. t[i - 1] = s[i]
        BY <1>1, <3>2
      <4>2. QED
        BY <1>3, <3>2, <4>1
    <3>3. QED
      BY <1>5, <3>1, <3>2
  <2>2. \A u \in ToSet(t) : u \in ToSet(s)
    BY <1>1, <1>3, <1>4
  <2>3. s[1] \in ToSet(s)
    BY <1>3, <1>6
  <2>4. QED
    BY <2>1, <2>2, <2>3
<1>10. ASSUME NEW u, NEW v, Ahead(s, u, v) PROVE s[1] # v /\ (s[1] = u \/ Ahead(t, u, v))
  <2>1. PICK i \in 1 .. n, j \in 1 .. n : i < j /\ s[i] = u /\ s[j] = v
    BY <1>10 DEF Ahead, n
  <2>2. j # 1 /\ j - 1 \in 1 .. n - 1 /\ (j - 1) + 1 = j
    BY <1>1, <2>1
  <2>3. s[1] # v
    BY <1>2, <1>6, <2>1, <2>2
  <2>4. CASE i = 1
    BY <2>1, <2>3, <2>4
  <2>5. CASE i # 1
    <3>1. i - 1 \in 1 .. n - 1 /\ (i - 1) + 1 = i /\ i - 1 < j - 1
      BY <1>1, <2>1, <2>5
    <3>2. t[i - 1] = u /\ t[j - 1] = v
      BY <1>1, <2>1, <2>2, <3>1
    <3>3. QED
      BY <1>1, <2>2, <2>3, <3>1, <3>2 DEF Ahead
  <2>6. QED
    BY <2>4, <2>5
<1>11. QED
  BY <1>1, <1>6, <1>7, <1>8, <1>9, <1>10, ElementOfSeq DEF n, t

-----------------------------------------------------------------------------
QueueType == workq \in WorkQueues

Waiting(w) == w \in ToSet(workq.queue)
Pending(w) == Waiting(w) \/ workq.item = w

(* A request is looked at before it is forgotten; the masks are cleared    *)
(* under it only where A-GNSS and P-GPS are combined.                      *)
RequestInv ==
    /\ NoRequestLost
    /\ asked \subseteq Everything
    /\ At("agnss", "masks") => build.assistance = "both"

(* One test at a time: its timer runs, or its preparation is pending, or   *)
(* its start, or GNSS runs, or it has ended for good.                      *)
TestInv ==
    /\ ~build.ttff \/ main \notin {"poll", "print"}
          => delayed = {} /\ ~Pending("prepare") /\ ~Pending("start")
    /\ main \notin {"poll", "print"} => gnss = "off"
    /\ delayed # {} => ~Pending("prepare") /\ ~Pending("start") /\ gnss = "off"
    /\ Pending("prepare") => ~Pending("start") /\ gnss = "off"
    /\ Pending("start") => gnss = "off"
    /\ workq.item \in {"prepare", "start"} => ~Waiting(workq.item)

(* While a cold start waits, the fetch is done, or at work, or queued      *)
(* before it, and it is a fetch of everything.                             *)
FedInv ==
    build.cold /\ Assisted /\ ~PGps /\ Pending("start") /\ ~fed =>
        /\ need = Everything
        /\ \/ Ahead(workq.queue, "agnss", "start")
           \/ /\ workq.item = "agnss"
              /\ workq.step \in {"start", "connect", "await", "request", "fetch", "session"}

WorkInv == QueueType /\ RequestInv /\ TestInv /\ FedInv

(* Whatever leaves the work queue and what it works on alone.              *)
LEMMA WorkUntouched ==
    ASSUME WorkInv, UNCHANGED <<build, gnss, workq, delayed, need, asked, fed>>,
           \/ main' = main
           \/ main \in {"poll", "print"} /\ main' \in {"poll", "print"}
           \/ main \notin {"poll", "print"} /\ main' \notin {"poll", "print"}
    PROVE  WorkInv'
  BY DEF WorkInv, QueueType, RequestInv, NoRequestLost, At, TestInv, FedInv, Pending, Waiting,
     Assisted, PGps

(* A step of the work function that stands in the way of nothing: the      *)
(* queue is left alone, and the item goes on or is done.                   *)
LEMMA ItemGoesOn ==
    ASSUME WorkInv, UNCHANGED <<build, main, gnss, delayed>>,
           workq' \in WorkQueues, workq'.queue = workq.queue,
           workq'.item \in {workq.item, "none"}
    PROVE  TestInv'
<1>1. /\ \A w \in {"prepare", "start"} : Waiting(w)' = Waiting(w)
      /\ \A w \in {"prepare", "start"} : Pending(w)' => Pending(w)
  BY DEF Waiting, Pending
<1>2. QED
  BY <1>1 DEF WorkInv, TestInv

LEMMA ItemGoesOnTo ==
    ASSUME WorkInv, NEW s \in Steps
    PROVE  /\ Goto(s) \in WorkQueues /\ Goto(s).queue = workq.queue
           /\ Goto(s).item = workq.item /\ Goto(s).step = s
           /\ Done(workq) \in WorkQueues /\ Done(workq).queue = workq.queue
           /\ Done(workq).item = "none" /\ Done(workq).step = "none"
  BY DEF WorkInv, QueueType, WorkQueues, Goto, Done, Items, Steps

(* The fetch of assistance, in each of its kinds.                          *)
LEMMA AssistanceSteps ==
    ASSUME WorkInv,
           \/ lte_connect \/ LteReadyTaken \/ lte_disconnect
           \/ RequestPgps \/ ClearMasks \/ RequestCloud \/ FetchAgnss
           \/ open_supl_socket \/ supl_session \/ InjectMinimal
    PROVE  WorkInv'
<1> USE DEF At, display, assistance
<1>1. /\ workq.item = "agnss"
      /\ workq.step \in {"connect", "await", "request", "masks", "fetch", "session", "release"}
      /\ UNCHANGED <<build, main, gnss, delayed, asked>>
      /\ need' = IF workq.step = "masks" THEN need \ {Ephemerides} ELSE need
  BY DEF lte_connect, LteReadyTaken, lte_disconnect, RequestPgps, ClearMasks, RequestCloud,
     FetchAgnss, open_supl_socket, supl_session, InjectMinimal
<1>2. \/ workq.step = "release" /\ workq' = Done(workq) /\ fed' = fed
      \/ workq.step \in {"connect", "await"} /\ workq' \in {Goto("await"), Goto("request")} /\ fed' = fed
      \/ workq.step = "request" /\ PGps /\ workq' = Goto("release") /\ fed' = fed
      \/ workq.step = "request" /\ build.assistance = "both" /\ workq' = Goto("masks") /\ fed' = fed
      \/ workq.step = "request" /\ workq' \in {Goto("fetch"), Goto("session")} /\ fed' = fed
      \/ workq.step = "masks" /\ workq' = Goto("fetch") /\ fed' = fed
      \/ workq.step \in {"request", "fetch", "session"} /\ workq' = Goto("release") /\ fed' = TRUE
  BY DEF lte_connect, LteReadyTaken, lte_disconnect, RequestPgps, ClearMasks, RequestCloud,
     FetchAgnss, open_supl_socket, supl_session, InjectMinimal, PGps
<1>3. /\ workq' \in WorkQueues /\ workq'.queue = workq.queue
      /\ \/ workq'.item = "none" /\ workq'.step = "none" /\ workq.step = "release"
         \/ workq'.item = "agnss" /\ workq'.step \in {"await", "request", "masks", "fetch", "session", "release"}
      /\ workq'.step = "masks" => build.assistance = "both"
      /\ fed' = fed \/ fed' = TRUE
      /\ workq.step # "release" /\ workq'.step \in {"none", "release"} => PGps \/ fed'
  BY <1>1, <1>2, ItemGoesOnTo DEF Steps
<1>4. TestInv'
  BY <1>1, <1>3, ItemGoesOn
<1>5. RequestInv'
  BY <1>1, <1>3 DEF WorkInv, RequestInv, NoRequestLost
<1>6. FedInv'
  BY <1>1, <1>3 DEF WorkInv, RequestInv, FedInv, Pending, Waiting, Assisted, PGps
<1>7. QED
  BY <1>3, <1>4, <1>5, <1>6 DEF WorkInv, QueueType

(* An item of P-GPS is queued, which none of the invariants is about.      *)
LEMMA PgpsItemQueued ==
    ASSUME WorkInv, NEW w \in {"inject_pgps", "get_pgps"}, workq' = Submit(w, workq),
           UNCHANGED <<build, main, gnss, delayed, need, asked, fed>>
    PROVE  WorkInv'
<1>1. /\ workq' \in WorkQueues /\ workq'.item = workq.item /\ workq'.step = workq.step
      /\ ToSet(workq'.queue) = ToSet(workq.queue) \cup {w}
      /\ Ahead(workq.queue, "agnss", "start") => Ahead(workq'.queue, "agnss", "start")
  BY Submitted DEF WorkInv, QueueType, Items
<1>2. /\ \A u \in {"agnss", "prepare", "start"} : Waiting(u)' = Waiting(u) /\ Pending(u)' = Pending(u)
  BY <1>1 DEF Waiting, Pending
<1>3. RequestInv'
  BY <1>1, <1>2 DEF WorkInv, RequestInv, NoRequestLost, At, Waiting
<1>4. TestInv'
  BY <1>1, <1>2 DEF WorkInv, TestInv
<1>5. FedInv'
  BY <1>1, <1>2 DEF WorkInv, FedInv, Assisted, PGps
<1>6. QED
  BY <1>1, <1>3, <1>4, <1>5 DEF WorkInv, QueueType

(* The work of P-GPS.                                                      *)
LEMMA PgpsSteps ==
    ASSUME WorkInv, pgps_event_handler \/ get_pgps_data_work_fn \/ inject_pgps_data_work_fn
    PROVE  WorkInv'
<1> USE DEF display
<1>1. UNCHANGED <<build, main, gnss, delayed, need, asked, fed>>
  BY DEF pgps_event_handler, get_pgps_data_work_fn, inject_pgps_data_work_fn, PgpsStep
<1>2. CASE pgps_event_handler
  BY <1>1, <1>2, PgpsItemQueued, WorkUntouched DEF pgps_event_handler, PgpsStep
<1>3. CASE get_pgps_data_work_fn \/ inject_pgps_data_work_fn
  <2>1. /\ workq.item \in {"get_pgps", "inject_pgps"}
        /\ workq' \in {Goto("rest"), Goto("exit"), Goto("inject"), Done(workq)}
    BY <1>3 DEF get_pgps_data_work_fn, inject_pgps_data_work_fn, PgpsStep, At
  <2>2. /\ workq' \in WorkQueues /\ workq'.queue = workq.queue
        /\ workq'.item \in {workq.item, "none"}
    BY <2>1, ItemGoesOnTo DEF Steps
  <2>3. TestInv'
    BY <1>1, <2>2, ItemGoesOn
  <2>4. RequestInv'
    BY <1>1, <2>1, <2>2 DEF WorkInv, RequestInv, NoRequestLost, At
  <2>5. FedInv'
    BY <1>1, <2>1, <2>2 DEF WorkInv, FedInv, Pending, Waiting, Assisted, PGps
  <2>6. QED
    BY <2>2, <2>3, <2>4, <2>5 DEF WorkInv, QueueType
<1>4. QED
  BY <1>2, <1>3

(* The next item is taken.                                                 *)
LEMMA TakeWorkStep == WorkInv /\ TakeWork => WorkInv'
<1> SUFFICES ASSUME WorkInv, TakeWork PROVE WorkInv'
  OBVIOUS
<1> DEFINE s == workq.queue
<1>1. /\ workq.item = "none" /\ s # <<>>
      /\ workq' = [queue |-> Tail(s), item |-> Head(s), step |-> "start"]
      /\ UNCHANGED <<build, main, gnss, delayed, need, asked, fed>>
  BY DEF TakeWork, display, assistance
<1>2. s \in Seq(Items) /\ IsInjective(s)
  BY DEF WorkInv, QueueType, WorkQueues
<1>. PICK first : first = Head(s)
  OBVIOUS
<1>3. /\ Tail(s) \in Seq(Items) /\ IsInjective(Tail(s)) /\ first \in Items
      /\ ToSet(s) = ToSet(Tail(s)) \cup {first} /\ first \notin ToSet(Tail(s))
      /\ \A u, v : Ahead(s, u, v) => first # v /\ (first = u \/ Ahead(Tail(s), u, v))
  BY <1>1, <1>2, FirstTaken
<1>4. workq'.queue = Tail(s) /\ workq'.item = first /\ workq'.step = "start"
  BY <1>1
<1>5. workq' \in WorkQueues
  BY <1>1, <1>3 DEF WorkQueues, Steps
<1>6. /\ \A w \in Items : Waiting(w) <=> Waiting(w)' \/ w = first
      /\ \A w \in Items : Pending(w)' = Pending(w)
      /\ ~Waiting(first)'
  BY <1>1, <1>3, <1>4 DEF Waiting, Pending, Items
<1>7. RequestInv'
  BY <1>1, <1>3, <1>4 DEF WorkInv, RequestInv, NoRequestLost, At
<1>8. TestInv'
  BY <1>1, <1>4, <1>6 DEF WorkInv, TestInv, Items
<1>9. FedInv'
  BY <1>1, <1>3, <1>4, <1>6 DEF WorkInv, FedInv, Assisted, PGps, Items
<1>10. QED
  BY <1>5, <1>7, <1>8, <1>9 DEF WorkInv, QueueType

LEMMA LookAtRequest == WorkInv /\ agnss_data_get_work_fn => WorkInv'
<1> SUFFICES ASSUME WorkInv, agnss_data_get_work_fn PROVE WorkInv'
  OBVIOUS
<1>1. /\ workq.item = "agnss" /\ workq.step = "start" /\ asked' = {}
      /\ workq' = IF Ignored(need) THEN Done(workq)
                  ELSE Goto(IF build.onDemand THEN "connect" ELSE "request")
      /\ UNCHANGED <<build, main, gnss, delayed, need, fed>>
  BY DEF agnss_data_get_work_fn, At, display
<1>2. /\ workq' \in WorkQueues /\ workq'.queue = workq.queue
      /\ workq'.item \in {workq.item, "none"} /\ workq'.step # "masks"
      /\ ~Ignored(need) => workq'.item = "agnss" /\ workq'.step \in {"connect", "request"}
  BY <1>1, ItemGoesOnTo DEF Steps
<1>3. need = Everything => ~Ignored(need)
  BY DEF Ignored, Everything, NeQuick, TimePosition, Ephemerides
<1>4. TestInv'
  BY <1>1, <1>2, ItemGoesOn
<1>5. RequestInv'
  BY <1>1, <1>2 DEF WorkInv, RequestInv, NoRequestLost, At
<1>6. FedInv'
  BY <1>1, <1>2, <1>3 DEF WorkInv, FedInv, Pending, Waiting, Assisted, PGps
<1>7. QED
  BY <1>2, <1>4, <1>5, <1>6 DEF WorkInv, QueueType

(* GNSS asks for assistance; the request is queued, or is queued already.  *)
LEMMA RequestEvent ==
    ASSUME WorkInv, NEW n \in Requests, EvtAgnssReq(n)
    PROVE  WorkInv'
<1>1. /\ gnss = "running" /\ need' = n /\ asked' = n /\ workq' = Submit("agnss", workq)
      /\ UNCHANGED <<build, main, gnss, delayed, fed>>
  BY DEF EvtAgnssReq, display
<1>2. /\ workq' \in WorkQueues /\ workq'.item = workq.item /\ workq'.step = workq.step
      /\ ToSet(workq'.queue) = ToSet(workq.queue) \cup {"agnss"}
  BY <1>1, Submitted DEF WorkInv, QueueType, Items
<1>3. \A u \in {"prepare", "start"} : Waiting(u)' = Waiting(u) /\ Pending(u)' = Pending(u)
  BY <1>2 DEF Waiting, Pending
<1>4. n \subseteq Everything
  BY RequestsAssumption
<1>5. RequestInv'
  BY <1>1, <1>2, <1>4 DEF WorkInv, RequestInv, NoRequestLost, At
<1>6. TestInv'
  BY <1>1, <1>2, <1>3 DEF WorkInv, TestInv
<1>7. FedInv'
  BY <1>1, <1>3 DEF WorkInv, TestInv, FedInv
<1>8. QED
  BY <1>2, <1>5, <1>6, <1>7 DEF WorkInv, QueueType

(* A fix ends a test, and the timer of the next is started and runs out.   *)
LEMMA TimerSteps == WorkInv /\ (EvtFix \/ PrepareTimer) => WorkInv'
<1> SUFFICES ASSUME WorkInv, EvtFix \/ PrepareTimer PROVE WorkInv'
  OBVIOUS
<1> USE DEF display, assistance
<1>1. CASE EvtFix
  BY <1>1 DEF EvtFix, WorkInv, QueueType, RequestInv, NoRequestLost, At, TestInv, FedInv, Pending,
     Waiting, Assisted, PGps
<1>2. CASE PrepareTimer
  <2>1. /\ delayed # {} /\ delayed' = {} /\ workq' = Submit("prepare", workq)
        /\ UNCHANGED <<build, main, gnss, need, asked, fed>>
    BY <1>2 DEF PrepareTimer
  <2>2. /\ workq' \in WorkQueues /\ workq'.item = workq.item /\ workq'.step = workq.step
        /\ ToSet(workq'.queue) = ToSet(workq.queue) \cup {"prepare"}
    BY <2>1, Submitted DEF WorkInv, QueueType, Items
  <2>3. /\ \A u \in {"agnss", "start"} : Waiting(u)' = Waiting(u) /\ Pending(u)' = Pending(u)
    BY <2>2 DEF Waiting, Pending
  <2>4. RequestInv'
    BY <2>1, <2>2, <2>3 DEF WorkInv, RequestInv, NoRequestLost, At, Waiting
  <2>5. TestInv' /\ FedInv'
    BY <2>1, <2>2, <2>3 DEF WorkInv, TestInv, FedInv, Pending, Waiting
  <2>6. QED
    BY <2>2, <2>4, <2>5 DEF WorkInv, QueueType
<1>3. QED
  BY <1>1, <1>2

(* The start of GNSS by the test.                                          *)
LEMMA StartStep == WorkInv /\ ttff_test_start_work_fn => WorkInv'
<1> SUFFICES ASSUME WorkInv, ttff_test_start_work_fn PROVE WorkInv'
  OBVIOUS
<1>1. /\ workq.item = "start" /\ workq.step = "start" /\ workq' = Done(workq)
      /\ gnss' \in {gnss, "running"}
      /\ UNCHANGED <<build, main, delayed, need, asked, fed>>
  BY DEF ttff_test_start_work_fn, At, display, assistance
<1>2. /\ workq' \in WorkQueues /\ workq'.queue = workq.queue
      /\ workq'.item = "none" /\ workq'.step = "none"
  BY <1>1, ItemGoesOnTo DEF Steps
<1>3. ~Pending("prepare")' /\ ~Pending("start")'
  BY <1>1, <1>2 DEF WorkInv, TestInv, Pending, Waiting
<1>4. RequestInv'
  BY <1>1, <1>2 DEF WorkInv, RequestInv, NoRequestLost, At
<1>5. TestInv' /\ FedInv'
  BY <1>1, <1>2, <1>3 DEF WorkInv, TestInv, FedInv, Pending
<1>6. QED
  BY <1>2, <1>4, <1>5 DEF WorkInv, QueueType

(* A test is prepared: what has to be fetched is queued, and behind it the *)
(* start.                                                                  *)
LEMMA StartQueued ==
    ASSUME WorkInv, At("prepare", "start"), gnss' = "off",
           UNCHANGED <<build, main, delayed>>,
           NEW e \in {Done(workq), Submit("agnss", Done(workq))},
           workq' = Submit("start", e)
    PROVE  /\ QueueType' /\ TestInv' /\ workq'.item = "none"
           /\ Waiting("agnss")' <=> "agnss" \in ToSet(e.queue)
           /\ Waiting("agnss") => "agnss" \in ToSet(e.queue)
           /\ "agnss" \in ToSet(e.queue) => Ahead(workq'.queue, "agnss", "start")
           /\ e # Done(workq) => "agnss" \in ToSet(e.queue)
<1>1. /\ Done(workq) \in WorkQueues /\ Done(workq).queue = workq.queue
      /\ Done(workq).item = "none"
  BY ItemGoesOnTo DEF Steps
<1>2. /\ ~Waiting("prepare") /\ ~Waiting("start") /\ build.ttff /\ delayed = {}
      /\ main \in {"poll", "print"}
  BY DEF WorkInv, TestInv, Pending, At
<1>3. /\ e \in WorkQueues /\ e.item = "none"
      /\ \/ e = Done(workq) /\ ToSet(e.queue) = ToSet(workq.queue)
         \/ ToSet(e.queue) = ToSet(workq.queue) \cup {"agnss"}
  BY <1>1, Submitted DEF Items
<1>4. "start" \notin ToSet(e.queue) /\ "prepare" \notin ToSet(e.queue)
  BY <1>2, <1>3 DEF Waiting
<1>5. /\ workq' \in WorkQueues /\ workq'.item = "none"
      /\ ToSet(workq'.queue) = ToSet(e.queue) \cup {"start"}
      /\ "agnss" \in ToSet(e.queue) => Ahead(workq'.queue, "agnss", "start")
  BY <1>3, <1>4, Submitted DEF Items
<1>6. TestInv'
  BY <1>2, <1>4, <1>5 DEF TestInv, Pending, Waiting
<1>7. QED
  BY <1>3, <1>5, <1>6 DEF QueueType, Waiting

LEMMA PrepareStep == WorkInv /\ ttff_test_prepare_work_fn => WorkInv'
<1> SUFFICES ASSUME WorkInv, ttff_test_prepare_work_fn PROVE WorkInv'
  OBVIOUS
<1>1. At("prepare", "start") /\ gnss' = "off" /\ UNCHANGED <<build, main, delayed>>
  BY DEF ttff_test_prepare_work_fn, display
<1>2. workq.item = "prepare" /\ asked \subseteq Everything
  BY <1>1 DEF At, WorkInv, RequestInv
<1>3. asked # {} => Waiting("agnss") /\ (asked \subseteq need \/ build.assistance = "both")
  BY <1>2 DEF WorkInv, RequestInv, NoRequestLost, At, Waiting
<1>4. CASE workq' = Done(workq) /\ UNCHANGED <<need, asked>>
  <2>1. /\ workq' \in WorkQueues /\ workq'.queue = workq.queue
        /\ workq'.item = "none" /\ workq'.step = "none"
    BY <1>4, ItemGoesOnTo DEF Steps
  <2>2. ~Pending("prepare")' /\ ~Pending("start")'
    BY <1>2, <2>1 DEF WorkInv, TestInv, Pending, Waiting
  <2>3. RequestInv'
    BY <1>1, <1>2, <1>3, <1>4, <2>1 DEF RequestInv, NoRequestLost, At, Waiting
  <2>4. TestInv' /\ FedInv'
    BY <1>1, <2>1, <2>2 DEF WorkInv, TestInv, FedInv, Pending
  <2>5. QED
    BY <2>1, <2>3, <2>4 DEF WorkInv, QueueType
<1>5. CASE /\ need' = IF Assisted THEN Everything ELSE need
           /\ workq' = ColdStart(Done(workq)) /\ asked' = asked
  <2>. PICK e \in {Done(workq), Submit("agnss", Done(workq))} :
          workq' = Submit("start", e) /\ (Assisted => e = Submit("agnss", Done(workq)))
    BY <1>5 DEF ColdStart
  <2>1. Assisted => "agnss" \in ToSet(e.queue)
    BY Submitted, ItemGoesOnTo DEF Items, Steps
  <2>2. /\ QueueType' /\ TestInv' /\ workq'.item = "none"
        /\ Waiting("agnss") => Waiting("agnss")'
        /\ "agnss" \in ToSet(e.queue) => Ahead(workq'.queue, "agnss", "start")
    BY <1>1, StartQueued
  <2>3. RequestInv'
    BY <1>1, <1>2, <1>3, <1>5, <2>2 DEF RequestInv, NoRequestLost, At, Waiting
  <2>4. FedInv'
    BY <1>1, <1>5, <2>1, <2>2 DEF FedInv, Assisted
  <2>5. QED
    BY <2>2, <2>3, <2>4 DEF WorkInv
<1>6. CASE /\ ~build.cold
           /\ \E n \in IF Assisted THEN Requests \cup {need} ELSE {need} :
                /\ need' = n
                /\ asked' = IF n = need THEN asked ELSE n
                /\ workq' = Submit("start", IF n = need THEN Done(workq)
                                            ELSE Submit("agnss", Done(workq)))
  <2>. PICK n \in Requests \cup {need} :
          /\ need' = n /\ asked' = IF n = need THEN asked ELSE n
          /\ workq' = Submit("start", IF n = need THEN Done(workq)
                                      ELSE Submit("agnss", Done(workq)))
    BY <1>6
  <2>. PICK e \in {Done(workq), Submit("agnss", Done(workq))} :
          e = IF n = need THEN Done(workq) ELSE Submit("agnss", Done(workq))
    OBVIOUS
  <2>1. n # need => "agnss" \in ToSet(e.queue)
    BY Submitted, ItemGoesOnTo DEF Items, Steps
  <2>2. /\ QueueType' /\ TestInv' /\ workq'.item = "none"
        /\ Waiting("agnss")' <=> "agnss" \in ToSet(e.queue)
        /\ Waiting("agnss") => Waiting("agnss")'
    BY <1>1, StartQueued
  <2>3. n # need => n \subseteq Everything
    BY RequestsAssumption
  <2>4. RequestInv'
    BY <1>1, <1>2, <1>3, <2>1, <2>2, <2>3 DEF RequestInv, NoRequestLost, At, Waiting
  <2>5. FedInv'
    BY <1>1, <1>6 DEF FedInv
  <2>6. QED
    BY <2>2, <2>4, <2>5 DEF WorkInv
<1>7. QED
  BY <1>4, <1>5, <1>6 DEF ttff_test_prepare_work_fn

THEOREM WorkInvariant == GnssSpec => []WorkInv
<1>1. GnssInit => WorkInv
  <2> SUFFICES ASSUME GnssInit PROVE WorkInv
    OBVIOUS
  <2>1. /\ ToSet(<<>>) = {} /\ Nobody \in WorkQueues
        /\ Nobody.queue = <<>> /\ Nobody.item = "none"
    <3>1. DOMAIN <<>> = {} /\ <<>> \in Seq(Items)
      OBVIOUS
    <3>2. ToSet(<<>>) = {}
      BY <3>1 DEF ToSet
    <3>3. IsInjective(<<>>)
      BY <3>1 DEF IsInjective
    <3>4. Nobody \in [queue : Seq(Items), item : Items \cup {"none"}, step : Steps]
      BY <3>1 DEF Nobody, Steps
    <3>5. Nobody.queue = <<>> /\ Nobody.item = "none"
      BY DEF Nobody
    <3>6. QED
      BY <3>2, <3>3, <3>4, <3>5 DEF WorkQueues
  <2>2. \A w \in Items : ~Waiting(w) /\ ~Pending(w)
    BY <2>1 DEF GnssInit, Waiting, Pending, Items
  <2>3. QED
    BY <2>1, <2>2 DEF GnssInit, WorkInv, QueueType, RequestInv, NoRequestLost, At, TestInv, FedInv,
       Pending, Waiting, Everything
<1>2. WorkInv /\ [GnssNext]_gnssVars => WorkInv'
  <2> SUFFICES ASSUME WorkInv, [GnssNext]_gnssVars PROVE WorkInv'
    OBVIOUS
  <2>1. CASE modem_init \/ sample_init
    BY <2>1, WorkUntouched DEF modem_init, sample_init, Halt, assistance
  <2>2. CASE gnss_init_and_start
    BY <2>2 DEF gnss_init_and_start, Halt, assistance, WorkInv, QueueType, RequestInv,
       NoRequestLost, At, TestInv, FedInv, Pending, Waiting, Assisted, PGps
  <2>3. CASE MainLoop \/ lte_lc_event_handler \/ LteLost \/ \E read \in BOOLEAN : EvtNmea(read)
    BY <2>3, WorkUntouched DEF MainLoop, HandleEvents, FreeNmea, lte_lc_event_handler, LteLost,
       EvtNmea, assistance, display
  <2>4. CASE TakeWork \/ agnss_data_get_work_fn \/ ttff_test_prepare_work_fn \/ ttff_test_start_work_fn
    BY <2>4, TakeWorkStep, LookAtRequest, PrepareStep, StartStep
  <2>5. CASE \/ lte_connect \/ LteReadyTaken \/ lte_disconnect
             \/ RequestPgps \/ ClearMasks \/ RequestCloud \/ FetchAgnss
             \/ open_supl_socket \/ supl_session \/ InjectMinimal
    BY <2>5, AssistanceSteps
  <2>6. CASE pgps_event_handler \/ get_pgps_data_work_fn \/ inject_pgps_data_work_fn
    BY <2>6, PgpsSteps
  <2>7. CASE \E n \in Requests : EvtAgnssReq(n)
    BY <2>7, RequestEvent
  <2>8. CASE EvtFix \/ PrepareTimer
    BY <2>8, TimerSteps
  <2>9. CASE UNCHANGED gnssVars
    BY <2>9, WorkUntouched DEF gnssVars, assistance, display
  <2>10. QED
    BY <2>1, <2>2, <2>3, <2>4, <2>5, <2>6, <2>7, <2>8, <2>9
    DEF GnssNext, Startup, WorkFunction, gnss_event_handler
<1>3. QED
  BY <1>1, <1>2, PTL DEF GnssSpec

(* A request of GNSS is never dropped while the work queue is busy with an *)
(* older one or waits for the network: a run that reads it is still to     *)
(* come (gnss_event_handler, agnss_data_get_work_fn).                      *)
THEOREM RequestsKept == GnssSpec => []NoRequestLost
<1>1. WorkInv => NoRequestLost
  BY DEF WorkInv, RequestInv
<1>2. QED
  BY <1>1, WorkInvariant, PTL

(* At a cold start the fetch of everything is over, whatever else the      *)
(* queue had to do (ttff_test_prepare_work_fn, ttff_test_start_work_fn).   *)
THEOREM ColdStartsFed == GnssSpec => []ColdStartFed
<1>1. WorkInv => ColdStartFed
  <2> SUFFICES ASSUME WorkInv, build.cold, At("start", "start"), Assisted, ~PGps, ~fed PROVE FALSE
    BY DEF ColdStartFed
  <2>1. workq.item = "start" /\ ~Waiting("start") /\ Pending("start")
    BY DEF At, WorkInv, TestInv, Pending
  <2>2. Ahead(workq.queue, "agnss", "start")
    BY <2>1 DEF WorkInv, FedInv
  <2>3. Waiting("start")
    BY <2>2 DEF Ahead, Waiting, ToSet, WorkInv, QueueType, WorkQueues
  <2>4. QED
    BY <2>1, <2>3
<1>2. QED
  BY <1>1, WorkInvariant, PTL
=============================================================================

------------------------ MODULE AwsConnection_proofs ------------------------
(***************************************************************************)
(* For every set of images, of which some are faulty, and any number of    *)
(* resets: the image MCUboot keeps is one that has reached the broker.     *)
(***************************************************************************)
EXTENDS AwsConnection, SequenceTheorems, TLAPS

(* Between two resets no image is pending: EvtFotaDone marks one and       *)
(* resets at once.                                                         *)
ImageType ==
    image \in [running : Images, fallback : Images, confirmed : BOOLEAN, pending : {None}]

(* A job is only started over a session, and a session is only opened      *)
(* together with the confirmation, so the image a job replaces is good.    *)
JobsOverConfirmed ==
    /\ session = "open" => image.confirmed
    /\ fota # "idle" => image.confirmed

ImageInv == ImageType /\ JobsOverConfirmed /\ FaultyNeverKept

(* What MCUboot makes of an image record a reset may find.                 *)
LEMMA ResetKeeps ==
    ASSUME NEW i,
           i \in [running : Images, fallback : Images, confirmed : BOOLEAN,
                  pending : Images \cup {None}],
           i.confirmed => i.running \notin Faulty,
           i.fallback \notin Faulty,
           i.pending # None => i.confirmed,
           Reset(i)
    PROVE  ImageInv'
<1>1. session' = "closed" /\ fota' = "idle" /\ image' = AfterReset(i)
  BY DEF Reset
<1>2. CASE i.pending # None
  BY <1>1, <1>2, ImagesAssumption
  DEF AfterReset, ImageInv, ImageType, JobsOverConfirmed, FaultyNeverKept
<1>3. CASE i.pending = None /\ ~i.confirmed
  BY <1>1, <1>3 DEF AfterReset, ImageInv, ImageType, JobsOverConfirmed, FaultyNeverKept
<1>4. CASE i.pending = None /\ i.confirmed
  BY <1>1, <1>4 DEF AfterReset, ImageInv, ImageType, JobsOverConfirmed, FaultyNeverKept
<1>5. QED
  BY <1>2, <1>3, <1>4

(* A reset finds the image as it is.                                       *)
LEMMA PlainReset == ImageInv /\ Reset(image) => ImageInv'
<1>1. SUFFICES ASSUME ImageInv, Reset(image) PROVE ImageInv'
  OBVIOUS
<1>2. image \in [running : Images, fallback : Images, confirmed : BOOLEAN,
                 pending : Images \cup {None}] /\ image.pending = None
  BY <1>1 DEF ImageInv, ImageType
<1>3. QED
  BY <1>1, <1>2, ResetKeeps DEF ImageInv, FaultyNeverKept

(* The end of a job marks its image and resets.                            *)
LEMMA FotaDoneStep ==
    ASSUME ImageInv, NEW i \in Images, EvtFotaDone(i)
    PROVE  ImageInv'
<1> DEFINE j == [image EXCEPT !.pending = i]
<1>1. image \in [running : Images, fallback : Images, confirmed : BOOLEAN, pending : {None}]
  BY DEF ImageInv, ImageType
<1>2. image.confirmed /\ image.running \notin Faulty /\ image.fallback \notin Faulty
  BY DEF EvtFotaDone, ImageInv, JobsOverConfirmed, FaultyNeverKept
<1>3. /\ j \in [running : Images, fallback : Images, confirmed : BOOLEAN,
                pending : Images \cup {None}]
      /\ j.running = image.running /\ j.fallback = image.fallback
      /\ j.confirmed = image.confirmed
  BY <1>1
<1>4. Reset(j)
  BY DEF EvtFotaDone
<1>5. QED
  BY <1>2, <1>3, <1>4, ResetKeeps

(* The invariant holds at the factory image and is kept by every step.     *)
THEOREM ImageInvariant == AwsSpec => []ImageInv
<1>1. AwsInit => ImageInv
  BY ImagesAssumption
  DEF AwsInit, ImageInv, ImageType, JobsOverConfirmed, FaultyNeverKept, None
<1>2. ImageInv /\ [AwsNext]_awsVars => ImageInv'
  <2> SUFFICES ASSUME ImageInv, [AwsNext]_awsVars PROVE ImageInv'
    OBVIOUS
  <2> USE DEF ImageInv, ImageType, JobsOverConfirmed, FaultyNeverKept, flash
  <2>1. CASE nrf_modem_lib_dfu_handler \/ PowerCut
    BY <2>1, PlainReset DEF nrf_modem_lib_dfu_handler, PowerCut
  <2>2. CASE \E i \in Images \ {image.running} : EvtFotaDone(i)
    BY <2>2, FotaDoneStep
  <2>3. CASE EvtConnected
    BY <2>3 DEF EvtConnected
  <2>4. CASE EvtFotaStart
    BY <2>4 DEF EvtFotaStart
  <2>5. CASE EvtDisconnected \/ EvtErasePending \/ EvtEraseDone \/ EvtFotaError
    BY <2>5 DEF EvtDisconnected, EvtErasePending, EvtEraseDone, EvtFotaError
  <2>6. CASE StartMain \/ LteTaken \/ lte_handler \/ LinkLost \/ date_time_event_handler
    BY <2>6 DEF StartMain, LteTaken, lte_handler, LinkLost, date_time_event_handler
  <2>7. CASE \E w \in Works : TimerExpires(w)
    BY <2>7 DEF TimerExpires
  <2>8. CASE QueueThread
    <3>1. CASE \E err \in BOOLEAN : EndConnect(err)
      BY <3>1 DEF EndConnect
    <3>2. CASE StartConnect \/ StartUpdate \/ StartVersion
      BY <3>2 DEF StartConnect, StartUpdate, StartVersion
    <3>3. CASE shadow_update_work_fn \/ shadow_update_version_work_fn
      BY <3>3 DEF shadow_update_work_fn, shadow_update_version_work_fn
    <3>4. QED
      BY <2>8, <3>1, <3>2, <3>3 DEF QueueThread
  <2>9. CASE UNCHANGED awsVars
    BY <2>9 DEF awsVars
  <2>10. QED
    BY <2>1, <2>2, <2>3, <2>4, <2>5, <2>6, <2>7, <2>8, <2>9
    DEF AwsNext, aws_iot_event_handler
<1>3. QED
  BY <1>1, <1>2, PTL DEF AwsSpec

(* Whatever is interrupted by a reset, MCUboot keeps for good only an      *)
(* image that has reached the broker, and can always go back to one.       *)
THEOREM GoodImageKept == AwsSpec => []FaultyNeverKept
<1>1. ImageInv => FaultyNeverKept
  BY DEF ImageInv
<1>2. QED
  BY <1>1, ImageInvariant, PTL
-----------------------------------------------------------------------------
(* The work items.                                                         *)

Once(q) == \A i, j \in DOMAIN q : q[i] = q[j] => i = j

(* An item waits in one place at most, and the queue's thread runs one.    *)
WorksInv ==
    /\ delayed \subseteq Works /\ queue \in Seq(Works)
    /\ busy \in Works \cup {None} /\ canceling \in BOOLEAN
    /\ Once(queue) /\ delayed \cap ToSet(queue) = {}

(* The flag follows the session; nothing dials while there is one; and     *)
(* only a publication is ever cancelled while it runs, until whose end no  *)
(* new session can come about.                                             *)
SessionInv ==
    /\ session \in {"closed", "connecting", "open"}
    /\ cloudConnected = (session = "open")
    /\ busy = "connect" => session = "closed"
    /\ canceling => busy = "update" /\ session = "closed"

ConnectionInv == WorksInv /\ SessionInv /\ AlwaysRetrying /\ OneUpdateChain

LEMMA ItemAppended ==
    ASSUME NEW q \in Seq(Works), Once(q), NEW w \in Works, w \notin ToSet(q)
    PROVE  Append(q, w) \in Seq(Works) /\ Once(Append(q, w)) /\ ToSet(Append(q, w)) = ToSet(q) \cup {w}
<1> DEFINE r == Append(q, w)
<1>1. r \in Seq(Works) /\ Len(r) = Len(q) + 1
  OBVIOUS
<1>2. \A i \in 1 .. Len(q) + 1 : r[i] = IF i <= Len(q) THEN q[i] ELSE w
  OBVIOUS
<1>3. DOMAIN q = 1 .. Len(q) /\ DOMAIN r = 1 .. Len(q) + 1 /\ Len(q) \in Nat
  BY <1>1
<1> HIDE DEF r
<1>4. Once(r)
  BY <1>2, <1>3 DEF Once, ToSet
<1>5. \A x \in ToSet(r) : x \in ToSet(q) \cup {w}
  BY <1>2, <1>3 DEF ToSet
<1>6. \A x \in ToSet(q) : x \in ToSet(r)
  BY <1>2, <1>3 DEF ToSet
<1>7. w \in ToSet(r)
  <2>1. r[Len(q) + 1] = w /\ Len(q) + 1 \in DOMAIN r
    BY <1>2, <1>3
  <2>2. QED
    BY <2>1 DEF ToSet
<1>8. QED
  BY <1>1, <1>4, <1>5, <1>6, <1>7 DEF r

LEMMA ItemTaken ==
    ASSUME NEW q \in Seq(Works), Once(q), q # <<>>
    PROVE  /\ Tail(q) \in Seq(Works) /\ Once(Tail(q))
           /\ Head(q) \in Works /\ ToSet(Tail(q)) = ToSet(q) \ {Head(q)}
<1> DEFINE r == Tail(q)
<1>1. /\ r \in Seq(Works) /\ Len(r) = Len(q) - 1 /\ Len(q) \in Nat /\ Len(q) >= 1
      /\ \A i \in 1 .. Len(q) - 1 : r[i] = q[i + 1]
  OBVIOUS
<1>2. DOMAIN q = 1 .. Len(q) /\ DOMAIN r = 1 .. Len(q) - 1 /\ Head(q) = q[1]
  BY <1>1
<1> HIDE DEF r
<1>3. Once(r)
  BY <1>1, <1>2 DEF Once
<1>4. \A x \in ToSet(r) : x \in ToSet(q) \ {Head(q)}
  <2> SUFFICES ASSUME NEW i \in 1 .. Len(q) - 1 PROVE r[i] \in ToSet(q) \ {Head(q)}
    BY <1>2 DEF ToSet
  <2>1. r[i] = q[i + 1] /\ i + 1 \in DOMAIN q /\ i + 1 # 1 /\ 1 \in DOMAIN q
    BY <1>1, <1>2
  <2>2. QED
    BY <2>1, <1>2 DEF ToSet, Once
<1>5. \A x \in ToSet(q) \ {Head(q)} : x \in ToSet(r)
  <2> SUFFICES ASSUME NEW i \in 1 .. Len(q), i # 1 PROVE q[i] \in ToSet(r)
    BY <1>2 DEF ToSet
  <2>1. i - 1 \in DOMAIN r /\ r[i - 1] = q[i]
    BY <1>1, <1>2
  <2>2. QED
    BY <2>1 DEF ToSet
<1>6. Head(q) \in Works
  OBVIOUS
<1>7. QED
  BY <1>1, <1>3, <1>4, <1>5, <1>6 DEF r

LEMMA ItemWithdrawn ==
    ASSUME NEW q \in Seq(Works), Once(q), NEW w
    PROVE  /\ Withdrawn(q, w) \in Seq(Works) /\ Once(Withdrawn(q, w))
           /\ ToSet(Withdrawn(q, w)) = ToSet(q) \ {w}
<1>1. CASE w \notin ToSet(q)
  BY <1>1 DEF Withdrawn
<1>2. CASE w \in ToSet(q)
  <2> DEFINE k == CHOOSE i \in DOMAIN q : q[i] = w
             r == SubSeq(q, 1, k - 1) \o SubSeq(q, k + 1, Len(q))
  <2>1. k \in 1 .. Len(q) /\ q[k] = w
    BY <1>2 DEF ToSet
  <2> HIDE DEF k
  <2>2. /\ r \in Seq(Works) /\ Len(r) = Len(q) - 1
        /\ \A i \in 1 .. Len(q) - 1 : r[i] = IF i < k THEN q[i] ELSE q[i + 1]
    <3> DEFINE s == SubSeq(q, 1, k - 1)
               t == SubSeq(q, k + 1, Len(q))
    <3>1. s \in Seq(Works) /\ Len(s) = k - 1 /\ \A i \in 1 .. k - 1 : s[i] = q[i]
      BY <2>1
    <3>2. t \in Seq(Works) /\ Len(t) = Len(q) - k /\ \A i \in 1 .. Len(q) - k : t[i] = q[k + i]
      BY <2>1
    <3> HIDE DEF s, t
    <3>3. /\ s \o t \in Seq(Works) /\ Len(s \o t) = Len(s) + Len(t)
          /\ \A i \in 1 .. Len(s) + Len(t) : (s \o t)[i] = IF i <= Len(s) THEN s[i] ELSE t[i - Len(s)]
      BY <3>1, <3>2, ConcatProperties
    <3>4. r = s \o t
      BY DEF s, t
    <3> HIDE DEF r
    <3> HIDE DEF s, t
    <3>5. r \in Seq(Works) /\ Len(r) = Len(q) - 1
      <4>1. Len(s) + Len(t) = Len(q) - 1
        BY <2>1, <3>1, <3>2
      <4>2. QED
        BY <4>1, <3>3, <3>4, Zenon
    <3>6. ASSUME NEW i \in 1 .. Len(q) - 1, i < k PROVE r[i] = q[i]
      BY <3>6, <2>1, <3>1, <3>2, <3>3, <3>4
    <3>7. ASSUME NEW i \in 1 .. Len(q) - 1, ~(i < k) PROVE r[i] = q[i + 1]
      <4>1. i \in 1 .. Len(s) + Len(t) /\ ~(i <= Len(s)) /\ i - Len(s) \in 1 .. Len(q) - k
        BY <3>7, <2>1, <3>1, <3>2
      <4>2. r[i] = t[i - Len(s)] /\ t[i - Len(s)] = q[k + (i - Len(s))]
        BY <4>1, <3>2, <3>3, <3>4
      <4>3. k + (i - Len(s)) = i + 1
        BY <2>1, <3>1
      <4>4. QED
        BY <4>2, <4>3
    <3>8. QED
      BY <3>5, <3>6, <3>7
  <2> HIDE DEF r
  <2>3. DOMAIN q = 1 .. Len(q) /\ DOMAIN r = 1 .. Len(q) - 1 /\ Len(q) \in Nat
    BY <2>1, <2>2
  <2>4. Once(r)
    <3> SUFFICES ASSUME NEW i \in 1 .. Len(q) - 1, NEW j \in 1 .. Len(q) - 1, i < j, r[i] = r[j]
                 PROVE  FALSE
      BY <2>3 DEF Once
    <3> DEFINE at(n) == IF n < k THEN n ELSE n + 1
    <3>1. at(i) \in 1 .. Len(q) /\ at(j) \in 1 .. Len(q) /\ at(i) # at(j)
      BY <2>1, <2>3
    <3>2. q[at(i)] = q[at(j)]
      BY <2>2
    <3>3. QED
      BY <3>1, <3>2, <2>3 DEF Once
  <2>5. \A x \in ToSet(r) : x \in ToSet(q) \ {w}
    <3> SUFFICES ASSUME NEW i \in 1 .. Len(q) - 1 PROVE r[i] \in ToSet(q) \ {w}
      BY <2>3 DEF ToSet
    <3>1. CASE i < k
      BY <3>1, <2>1, <2>2, <2>3 DEF ToSet, Once
    <3>2. CASE i >= k
      <4>1. r[i] = q[i + 1] /\ i + 1 \in DOMAIN q /\ i + 1 # k
        BY <3>2, <2>1, <2>2, <2>3
      <4>2. QED
        BY <4>1, <2>1, <2>3 DEF ToSet, Once
    <3>3. QED
      BY <3>1, <3>2, <2>1
  <2>6. \A x \in ToSet(q) \ {w} : x \in ToSet(r)
    <3> SUFFICES ASSUME NEW i \in 1 .. Len(q), i # k PROVE q[i] \in ToSet(r)
      BY <2>1, <2>3 DEF ToSet
    <3>1. CASE i < k
      BY <3>1, <2>1, <2>2, <2>3 DEF ToSet
    <3>2. CASE i > k
      <4>1. i - 1 \in DOMAIN r /\ r[i - 1] = q[i]
        BY <3>2, <2>1, <2>2, <2>3
      <4>2. QED
        BY <4>1 DEF ToSet
    <3>3. QED
      BY <3>1, <3>2, <2>1
  <2>7. Withdrawn(q, w) = r
    BY <1>2 DEF Withdrawn, RemoveAt, k, r
  <2>8. QED
    BY <2>2, <2>4, <2>5, <2>6, <2>7
<1>3. QED
  BY <1>1, <1>2

LEMMA NothingWaits == ToSet(<<>>) = {} /\ Once(<<>>) /\ <<>> \in Seq(Works)
  BY DEF ToSet, Once

LEMMA ResetStep ==
    ASSUME NEW i, Reset(i)
    PROVE  ConnectionInv'
  BY NothingWaits DEF Reset, ConnectionInv, WorksInv, SessionInv, AlwaysRetrying,
     OneUpdateChain, Pending, Queued, Running, None

LEMMA LteTakenStep == ConnectionInv /\ LteTaken => ConnectionInv'
<1> SUFFICES ASSUME ConnectionInv, LteTaken PROVE ConnectionInv'
  OBVIOUS
<1> USE DEF ConnectionInv, WorksInv, SessionInv, AlwaysRetrying, OneUpdateChain,
            Pending, Queued, Running, works
<1>1. CASE Schedulable("connect")
  <2>1. queue' = Append(queue, "connect") /\ "connect" \notin delayed \cup ToSet(queue)
    BY <1>1 DEF LteTaken, AtOnce, Schedulable
  <2>2. queue' \in Seq(Works) /\ Once(queue') /\ ToSet(queue') = ToSet(queue) \cup {"connect"}
    BY <2>1, ItemAppended DEF Works
  <2>3. QED
    BY <2>1, <2>2 DEF LteTaken
<1>2. CASE ~Schedulable("connect")
  BY <1>2 DEF LteTaken, AtOnce, Schedulable
<1>3. QED
  BY <1>1, <1>2

LEMMA TimerStep ==
    ASSUME ConnectionInv, NEW w \in Works, TimerExpires(w)
    PROVE  ConnectionInv'
<1> USE DEF ConnectionInv, WorksInv
<1>1. w \in delayed /\ w \notin ToSet(queue) /\ queue' = Append(queue, w)
  BY DEF TimerExpires
<1>2. queue' \in Seq(Works) /\ Once(queue') /\ ToSet(queue') = ToSet(queue) \cup {w}
  BY <1>1, ItemAppended
<1>3. \A v : Pending(v)' = Pending(v)
  BY <1>1, <1>2 DEF TimerExpires, Pending, Queued
<1>4. QED
  BY <1>1, <1>2, <1>3 DEF TimerExpires, SessionInv, AlwaysRetrying, OneUpdateChain,
     Running, unit

(* The start of a work function takes its item from the queue.             *)
LEMMA StartStep == ConnectionInv /\ (StartConnect \/ StartUpdate \/ StartVersion) => ConnectionInv'
<1> SUFFICES ASSUME ConnectionInv, StartConnect \/ StartUpdate \/ StartVersion
             PROVE  ConnectionInv'
  OBVIOUS
<1> USE DEF ConnectionInv, WorksInv, SessionInv, AlwaysRetrying, OneUpdateChain,
            Pending, Queued, Running, unit
<1>1. busy = None /\ queue # <<>> /\ queue' = Tail(queue) /\ ~canceling
  BY DEF StartConnect, StartUpdate, StartVersion, Take, None
<1>2. /\ queue' \in Seq(Works) /\ Once(queue') /\ Head(queue) \in ToSet(queue)
      /\ ToSet(queue') = ToSet(queue) \ {Head(queue)}
  BY <1>1, ItemTaken DEF ToSet
<1>3. CASE StartConnect
  BY <1>1, <1>2, <1>3 DEF StartConnect, Take, Finish, Works, None
<1>4. CASE StartUpdate
  BY <1>1, <1>2, <1>4 DEF StartUpdate, Take, Works, None
<1>5. CASE StartVersion
  BY <1>1, <1>2, <1>5 DEF StartVersion, Take, Works, None
<1>6. QED
  BY <1>3, <1>4, <1>5

(* The end of a work function schedules it again, unless it was cancelled. *)
LEMMA EndStep ==
    ASSUME ConnectionInv,
           \/ \E err \in BOOLEAN : EndConnect(err)
           \/ shadow_update_work_fn \/ shadow_update_version_work_fn
    PROVE  ConnectionInv'
<1> USE DEF ConnectionInv, WorksInv, SessionInv, AlwaysRetrying, OneUpdateChain,
            Pending, Queued, Running, unit
<1>1. CASE \E err \in BOOLEAN : EndConnect(err)
  BY <1>1 DEF EndConnect, Later, Schedulable, Finish, Works, None
<1>2. CASE shadow_update_work_fn
  BY <1>2 DEF shadow_update_work_fn, Later, Schedulable, Finish, Works, None
<1>3. CASE shadow_update_version_work_fn
  BY <1>3 DEF shadow_update_version_work_fn, Finish, Works, None
<1>4. QED
  BY <1>1, <1>2, <1>3

LEMMA ConnectedStep == ConnectionInv /\ EvtConnected => ConnectionInv'
<1> SUFFICES ASSUME ConnectionInv, EvtConnected PROVE ConnectionInv'
  OBVIOUS
<1> USE DEF ConnectionInv, WorksInv, SessionInv, OneUpdateChain, Pending, Queued, Running
<1> DEFINE q == Withdrawn(queue, "connect")
<1>1. q \in Seq(Works) /\ Once(q) /\ ToSet(q) = ToSet(queue) \ {"connect"}
  BY ItemWithdrawn
<1>2. /\ session = "connecting" /\ ~cloudConnected /\ busy \notin {"connect", "update"}
      /\ ~canceling /\ "update" \notin delayed \cup ToSet(queue)
  BY DEF EvtConnected
<1> HIDE DEF q
<1>3. /\ delayed' = (delayed \ {"connect"}) \cup {"update"}
      /\ canceling' = FALSE /\ busy' = busy /\ session' = "open" /\ cloudConnected' = TRUE
  BY <1>2 DEF EvtConnected, Cancelled, Later, Schedulable
<1>4. queue' = AtOnce("version", q)
  BY DEF EvtConnected, Cancelled, q
<1>5. /\ queue' \in Seq(Works) /\ Once(queue')
      /\ \/ ToSet(queue') = ToSet(q)
         \/ ToSet(queue') = ToSet(q) \cup {"version"} /\ "version" \notin delayed
  <2>1. CASE Schedulable("version")
    BY <2>1, <1>1, <1>4, ItemAppended DEF AtOnce, Schedulable, Works
  <2>2. CASE ~Schedulable("version")
    BY <2>2, <1>1, <1>4 DEF AtOnce
  <2>3. QED
    BY <2>1, <2>2
<1>6. QED
  BY <1>1, <1>2, <1>3, <1>5 DEF AlwaysRetrying, Works

LEMMA DisconnectedStep == ConnectionInv /\ EvtDisconnected => ConnectionInv'
<1> SUFFICES ASSUME ConnectionInv, EvtDisconnected PROVE ConnectionInv'
  OBVIOUS
<1> USE DEF ConnectionInv, WorksInv, SessionInv, OneUpdateChain, AlwaysRetrying,
            Pending, Queued, Running
<1> DEFINE q == Withdrawn(queue, "update")
<1>1. q \in Seq(Works) /\ Once(q) /\ ToSet(q) = ToSet(queue) \ {"update"}
  BY ItemWithdrawn
<1> HIDE DEF q
<1>2. /\ delayed' = delayed \ {"update"} /\ canceling' = (canceling \/ busy = "update")
      /\ busy' = busy /\ session' = "closed" /\ cloudConnected' = FALSE
      /\ ~canceling /\ busy # "connect"
  BY DEF EvtDisconnected, Cancelled
<1>3. queue' = AtOnce("connect", q)
  BY DEF EvtDisconnected, Cancelled, q
<1>4. CASE Schedulable("connect")
  <2>1. queue' = Append(q, "connect") /\ "connect" \notin delayed \cup ToSet(q)
    BY <1>1, <1>3, <1>4 DEF AtOnce, Schedulable
  <2>2. queue' \in Seq(Works) /\ Once(queue') /\ ToSet(queue') = ToSet(q) \cup {"connect"}
    BY <1>1, <2>1, ItemAppended DEF Works
  <2>3. QED
    BY <1>1, <1>2, <2>1, <2>2
<1>5. CASE ~Schedulable("connect")
  BY <1>1, <1>2, <1>3, <1>5 DEF AtOnce, Schedulable
<1>6. QED
  BY <1>4, <1>5

(* The invariant of the connection: every event, between any two steps of  *)
(* the work functions, keeps it.                                           *)
THEOREM ConnectionInvariant == AwsSpec => []ConnectionInv
<1>1. AwsInit => ConnectionInv
  BY NothingWaits DEF AwsInit, ConnectionInv, WorksInv, SessionInv, AlwaysRetrying,
     OneUpdateChain, Pending, Queued, Running, None
<1>2. ConnectionInv /\ [AwsNext]_awsVars => ConnectionInv'
  <2> SUFFICES ASSUME ConnectionInv, [AwsNext]_awsVars PROVE ConnectionInv'
    OBVIOUS
  <2>1. CASE nrf_modem_lib_dfu_handler \/ PowerCut \/ \E i \in Images : EvtFotaDone(i)
    BY <2>1, ResetStep DEF nrf_modem_lib_dfu_handler, PowerCut, EvtFotaDone
  <2>2. CASE LteTaken
    BY <2>2, LteTakenStep
  <2>3. CASE \E w \in Works : TimerExpires(w)
    BY <2>3, TimerStep
  <2>4. CASE QueueThread
    BY <2>4, StartStep, EndStep DEF QueueThread
  <2>5. CASE EvtConnected \/ EvtDisconnected
    BY <2>5, ConnectedStep, DisconnectedStep
  <2> USE DEF ConnectionInv, WorksInv, SessionInv, AlwaysRetrying, OneUpdateChain,
              Pending, Queued, Running, works
  <2>6. CASE StartMain \/ lte_handler \/ LinkLost \/ date_time_event_handler
    BY <2>6 DEF StartMain, lte_handler, LinkLost, date_time_event_handler
  <2>7. CASE EvtFotaStart \/ EvtErasePending \/ EvtEraseDone \/ EvtFotaError
    BY <2>7 DEF EvtFotaStart, EvtErasePending, EvtEraseDone, EvtFotaError, unit
  <2>8. CASE UNCHANGED awsVars
    BY <2>8 DEF awsVars, unit
  <2>9. QED
    BY <2>1, <2>2, <2>3, <2>4, <2>5, <2>6, <2>7, <2>8 DEF AwsNext, aws_iot_event_handler
<1>3. QED
  BY <1>1, <1>2, PTL DEF AwsSpec

(* Off the cloud a connection attempt is always under way or scheduled,    *)
(* whatever events come between the steps of connect_work_fn.              *)
THEOREM RetryNeverLost == AwsSpec => []AlwaysRetrying
<1>1. ConnectionInv => AlwaysRetrying
  BY DEF ConnectionInv
<1>2. QED
  BY <1>1, ConnectionInvariant, PTL

(* Publications never overlap from one connection to the next, and never   *)
(* die out within one.                                                     *)
THEOREM PublicationsChained == AwsSpec => []OneUpdateChain
<1>1. ConnectionInv => OneUpdateChain
  BY DEF ConnectionInv
<1>2. QED
  BY <1>1, ConnectionInvariant, PTL
=============================================================================

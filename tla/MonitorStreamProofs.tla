--------------------------- MODULE MonitorStreamProofs ---------------------------
(***************************************************************************)
(* Theorems about MonitorStream, for any number of monitors, replicas,     *)
(* changes and failures.                                                   *)
(***************************************************************************)
EXTENDS MonitorStream, TLAPS

(* A stream that was accepted has its replica, and nothing is announced    *)
(* that was not committed.                                                 *)
ServedOK ==
  /\ announced <= db
  /\ \A m \in Monitors : link[m] \in {"accepted", "greeting", "streaming"} => at[m] \in Replicas

IInv == TypeOK /\ ServedOK
Covered(m) == Nudged(m) \/ Reading(m) \/ AtRest(m)

LEMMA InitInv == Init => IInv /\ NobodyLeftBehind
<1> SUFFICES ASSUME Init PROVE IInv /\ NobodyLeftBehind
  OBVIOUS
<1>1. Blank \in Snapshot /\ 0 \in Versions
  BY BoundsAssumption DEF Blank, Snapshot, Versions
<1>2. TypeOK
  <2>1. [phase |-> "asked", read |-> Blank] \in Fetch
    BY <1>1 DEF Fetch
  <2>2. fetch \in [Monitors -> Fetch]
    BY <2>1 DEF Init
  <2> QED
    BY <1>1, <2>2 DEF Init, TypeOK, ListenStates, LinkStates
<1>3. ServedOK
  BY DEF Init, ServedOK
<1>4. NobodyLeftBehind
  BY DEF Init, NobodyLeftBehind, Nudged
<1> QED
  BY <1>2, <1>3, <1>4 DEF IInv

(* The side of the writers and of the brokers.                             *)
Push ==
  \/ Commit \/ Publish \/ PublishFails
  \/ \E s \in Replicas : Broker(s) \/ ListenBreaks(s) \/ ReplicaRestarts(s)

(* The side of one monitor.                                                *)
Page(m) ==
  Stream(m) \/ Snap(m) \/ StreamBreaks(m) \/ Refused(m) \/ Remount(m) \/ FetchFails(m)

LEMMA PushType ==
  ASSUME TypeOK, ServedOK, Push
  PROVE  TypeOK'
<1>1. db' \in Versions /\ announced' \in Versions /\ owed' \in Nat
  BY BoundsAssumption DEF TypeOK, Versions, Push, Broker, Commit, Publish, PublishFails, Forward, ListenBreaks,
     ListenError, Relisten, Resume, ReplicaRestarts, Fault
<1>2. listen' \in [Replicas -> ListenStates]
  BY DEF TypeOK, ListenStates, Push, Broker, Commit, Publish, PublishFails, Forward, ListenBreaks,
     ListenError, Relisten, Resume, ReplicaRestarts
<1>3. wire' \in [Replicas -> Nat]
  <2>0. wire \in [Replicas -> Nat]
    BY DEF TypeOK
  <2>1. CASE \E s \in Replicas : Forward(s)
    <3>1. PICK s \in Replicas : wire[s] > 0 /\ wire' = [wire EXCEPT ![s] = @ - 1]
      BY <2>1 DEF Forward, Notified
    <3>2. wire[s] - 1 \in Nat
      BY <2>0, <3>1
    <3> QED
      BY <2>0, <3>1, <3>2
  <2>2. CASE Publish
    <3>1. \A s \in Replicas : (IF Hears(s) THEN wire[s] + 1 ELSE wire[s]) \in Nat
      BY <2>0
    <3> QED
      BY <2>2, <3>1 DEF Publish
  <2>3. CASE \E s \in Replicas : ListenBreaks(s) \/ ReplicaRestarts(s)
    BY <2>0, <2>3 DEF ListenBreaks, ReplicaRestarts
  <2>4. wire' = wire \/ (\E s \in Replicas : Forward(s)) \/ Publish
        \/ (\E s \in Replicas : ListenBreaks(s) \/ ReplicaRestarts(s))
    BY DEF Push, Broker, Commit, PublishFails, ListenError, Relisten, Resume
  <2> QED
    BY <2>0, <2>1, <2>2, <2>3, <2>4
<1>4. link' \in [Monitors -> LinkStates]
  BY DEF TypeOK, LinkStates, streamVars, Push, Broker, Commit, Publish, PublishFails, Forward,
     ListenBreaks, ListenError, Relisten, Resume, ReplicaRestarts, Cut
<1>5. signal' \in [Monitors -> BOOLEAN]
  <2>1. \A s \in Replicas : Fanout(s) => signal' \in [Monitors -> BOOLEAN]
    BY Zenon DEF Fanout
  <2> QED
    BY <2>1 DEF TypeOK, streamVars, Push, Broker, Commit, Publish, PublishFails, Forward,
       ListenBreaks, ListenError, Relisten, Resume, BroadcastAll, ReplicaRestarts
<1>6. faults' \in Nat
  BY DEF TypeOK, Push, Broker, Commit, Publish, PublishFails, Forward, ListenBreaks,
     ListenError, Relisten, Resume, ReplicaRestarts, Fault
<1>7. /\ at' = at /\ frames' = frames /\ status' = status
      /\ timer' = timer /\ fetch' = fetch /\ shown' = shown /\ failed' = failed
  BY DEF streamVars, pageVars, Push, Broker, Commit, Publish, PublishFails, Forward, ListenBreaks,
     ListenError, Relisten, Resume, ReplicaRestarts
<1> QED
  BY <1>1, <1>2, <1>3, <1>4, <1>5, <1>6, <1>7 DEF TypeOK

LEMMA PageType ==
  ASSUME TypeOK, NEW m \in Monitors, Page(m)
  PROVE  TypeOK'
<1>1. /\ db' = db /\ owed' = owed /\ announced' = announced /\ listen' = listen /\ wire' = wire
  BY DEF pushVars, Page, Stream, Snap, Accept, Greet, WriteUpdate, StreamEnds, BackoffEnds, ReadFrame,
     CoalesceFires, ReadOverview, ReadRecent, Respond, StreamBreaks, Refused, Remount, FetchFails
<1>2. /\ at' \in [Monitors -> Replicas \cup {NULL}] /\ link' \in [Monitors -> LinkStates]
  <2>1. at' = at \/ \E s \in Replicas : at' = [at EXCEPT ![m] = s]
    BY DEF streamVars, Page, Stream, Snap, Accept, Greet, WriteUpdate, StreamEnds, BackoffEnds,
       ReadFrame, CoalesceFires, ReadOverview, ReadRecent, Respond, StreamBreaks, Refused, Remount,
       FetchFails
  <2>2. link' = link \/ \E l \in LinkStates : link' = [link EXCEPT ![m] = l]
    BY DEF LinkStates, streamVars, Page, Stream, Snap, Accept, Greet, WriteUpdate, StreamEnds,
       BackoffEnds, ReadFrame, CoalesceFires, ReadOverview, ReadRecent, Respond, StreamBreaks,
       Refused, Remount, FetchFails, ScheduleReconnect
  <2> QED
    BY <2>1, <2>2 DEF TypeOK
<1>3. signal' \in [Monitors -> BOOLEAN] /\ timer' \in [Monitors -> BOOLEAN]
      /\ failed' \in [Monitors -> BOOLEAN]
  BY DEF TypeOK, streamVars, pageVars, Page, Stream, Snap, Accept, Greet, WriteUpdate, StreamEnds,
     BackoffEnds, ReadFrame, CoalesceFires, ReadOverview, ReadRecent, Respond, StreamBreaks, Refused,
     Remount, FetchFails, ScheduleReconnect
<1>4. frames' \in [Monitors -> Seq({"hello", "update"})]
  <2>1. frames[m] \in Seq({"hello", "update"})
    BY DEF TypeOK
  <2>2. /\ Append(frames[m], "update") \in Seq({"hello", "update"})
        /\ frames[m] # << >> => Tail(frames[m]) \in Seq({"hello", "update"})
        /\ <<"hello">> \in Seq({"hello", "update"}) /\ << >> \in Seq({"hello", "update"})
    BY <2>1
  <2>3. frames' = frames \/ \E f \in Seq({"hello", "update"}) : frames' = [frames EXCEPT ![m] = f]
    BY <2>2 DEF streamVars, Page, Stream, Snap, Accept, Greet, WriteUpdate, StreamEnds, BackoffEnds,
       ReadFrame, CoalesceFires, ReadOverview, ReadRecent, Respond, StreamBreaks, Refused,
       Remount, FetchFails, ScheduleReconnect
  <2> QED
    BY <2>3 DEF TypeOK
<1>5. status' \in [Monitors -> {"connecting", "live", "reconnecting", "error"}]
  BY DEF TypeOK, streamVars, Page, Stream, Snap, Accept, Greet, WriteUpdate, StreamEnds,
     BackoffEnds, ReadFrame, CoalesceFires, ReadOverview, ReadRecent, Respond, StreamBreaks, Refused,
     Remount, FetchFails, ScheduleReconnect
<1>6. fetch' \in [Monitors -> Fetch] /\ shown' \in [Monitors -> Snapshot \cup {NULL}]
  <2>0. fetch[m] \in Fetch /\ fetch[m].read \in Snapshot
    BY DEF TypeOK, Fetch
  <2>1. Blank \in Snapshot
    BY BoundsAssumption DEF Blank, Snapshot, Versions
  <2>2. /\ Asked \in Fetch /\ [phase |-> "idle", read |-> Blank] \in Fetch
        /\ Refetch(m) \in Fetch
        /\ [phase |-> "overview", read |-> [Blank EXCEPT !.overview = db]] \in Fetch
    BY <2>0, <2>1 DEF Asked, Refetch, Fetch, Snapshot, Blank, TypeOK
  <2>3. [fetch[m] EXCEPT !.phase = "all", !.read.recent = db] \in Fetch
    BY <2>0 DEF Fetch, Snapshot, TypeOK
  <2>4. fetch' = fetch \/ \E f \in Fetch : fetch' = [fetch EXCEPT ![m] = f]
    <3>1. CASE ReadRecent(m)
      <4>1. fetch' = [fetch EXCEPT ![m] = [fetch[m] EXCEPT !.phase = "all", !.read.recent = db]]
        BY <3>1 DEF ReadRecent, TypeOK, Fetch, Snapshot
      <4> QED
        BY <2>3, <4>1
    <3>2. CASE Remount(m)
      BY <2>0, <2>2, <3>2 DEF Remount
    <3>3. CASE Stream(m) \/ ReadOverview(m) \/ Respond(m) \/ StreamBreaks(m) \/ Refused(m) \/ FetchFails(m)
      BY <2>2, <3>3 DEF pageVars, Stream, Accept, Greet, WriteUpdate, StreamEnds, BackoffEnds,
         ReadFrame, CoalesceFires, ReadOverview, Respond, StreamBreaks, Refused, FetchFails
    <3> QED
      BY <3>1, <3>2, <3>3 DEF Page, Snap
  <2>5. shown' = shown \/ shown' = [shown EXCEPT ![m] = fetch[m].read]
    BY DEF pageVars, Page, Stream, Snap, Accept, Greet, WriteUpdate, StreamEnds,
       BackoffEnds, ReadFrame, CoalesceFires, ReadOverview, ReadRecent, Respond, StreamBreaks, Refused,
       Remount, FetchFails
  <2> QED
    BY <2>0, <2>4, <2>5 DEF TypeOK
<1>7. faults' \in Nat
  BY DEF TypeOK, Page, Stream, Snap, Accept, Greet, WriteUpdate, StreamEnds,
     BackoffEnds, ReadFrame, CoalesceFires, ReadOverview, ReadRecent, Respond, StreamBreaks, Refused,
     Remount, FetchFails, Fault
<1> QED
  BY <1>1, <1>2, <1>3, <1>4, <1>5, <1>6, <1>7 DEF TypeOK

LEMMA ServedKept ==
  ASSUME IInv, Push \/ \E m \in Monitors : Page(m)
  PROVE  ServedOK'
<1>0. TypeOK /\ ServedOK /\ db \in Nat
  BY BoundsAssumption DEF IInv, TypeOK, Versions
<1>1. CASE Push
  <2>1. announced' <= db'
    BY <1>0, <1>1 DEF TypeOK, Versions, ServedOK, Push, Broker, Commit, Publish, PublishFails, Forward,
       ListenBreaks, ListenError, Relisten, Resume, ReplicaRestarts
  <2>2. at' = at
    BY <1>1 DEF streamVars, Push, Broker, Commit, Publish, PublishFails, Forward, ListenBreaks,
       ListenError, Relisten, Resume, ReplicaRestarts
  <2>3. \A m \in Monitors : link'[m] \in {link[m], "broken"}
    BY <1>0, <1>1 DEF TypeOK, streamVars, Push, Broker, Commit, Publish, PublishFails, Forward,
       ListenBreaks, ListenError, Relisten, Resume, ReplicaRestarts, Cut
  <2> QED
    BY <1>0, <2>1, <2>2, <2>3 DEF ServedOK
<1>2. ASSUME NEW m \in Monitors, Page(m) PROVE ServedOK'
  <2>1. db' = db /\ announced' = announced
    BY <1>2 DEF pushVars, Page, Stream, Snap, Accept, Greet, WriteUpdate, StreamEnds, BackoffEnds,
       ReadFrame, CoalesceFires, ReadOverview, ReadRecent, Respond, StreamBreaks, Refused, Remount,
       FetchFails
  <2>2. CASE \E s \in Replicas : Accept(m, s)
    BY <1>0, <2>1, <2>2 DEF TypeOK, ServedOK, Accept
  <2>3. CASE ~ \E s \in Replicas : Accept(m, s)
    <3>1. at' = at
      BY <1>2, <2>3 DEF streamVars, Page, Stream, Snap, Greet, WriteUpdate, StreamEnds, BackoffEnds,
         ReadFrame, CoalesceFires, ReadOverview, ReadRecent, Respond, StreamBreaks, Refused, Remount,
         FetchFails
    <3>2. \/ link' = link
          \/ \E l \in {"broken", "backoff", "over", "connect"} : link' = [link EXCEPT ![m] = l]
          \/ link[m] \in {"accepted", "greeting"} /\ \E l \in LinkStates : link' = [link EXCEPT ![m] = l]
      BY <1>2, <2>3 DEF LinkStates, streamVars, Page, Stream, Snap, Greet, WriteUpdate, StreamEnds,
         BackoffEnds, ReadFrame, CoalesceFires, ReadOverview, ReadRecent, Respond, StreamBreaks,
         Refused, Remount, FetchFails, ScheduleReconnect
    <3> QED
      BY <1>0, <2>1, <3>1, <3>2 DEF TypeOK, ServedOK
  <2> QED
    BY <2>2, <2>3
<1> QED
  BY <1>1, <1>2

(* What a broker does never takes the last reminder of a monitor away.     *)
LEMMA PushCovers ==
  ASSUME IInv, NobodyLeftBehind, Push
  PROVE  NobodyLeftBehind'
<1> SUFFICES ASSUME NEW m \in Monitors PROVE Covered(m)'
  BY DEF NobodyLeftBehind, Covered
<1>0. TypeOK /\ ServedOK /\ Covered(m)
  BY DEF IInv, NobodyLeftBehind, Covered
<1>1. link[m] = "streaming" => at[m] \in Replicas
  BY <1>0 DEF ServedOK
<1>2. at' = at /\ frames' = frames /\ timer' = timer /\ fetch' = fetch /\ shown' = shown /\ failed' = failed
  BY DEF streamVars, pageVars, Push, Broker, Commit, Publish, PublishFails, Forward, ListenBreaks,
     ListenError, Relisten, Resume, ReplicaRestarts
<1>3. CASE Commit \/ PublishFails
  BY <1>0, <1>2, <1>3 DEF Commit, PublishFails, streamVars, Covered, Nudged, Reading, AtRest, UpToDate
<1>4. CASE Publish
  <2>1. link[m] = "streaming" /\ listen[at[m]] = "up" => wire'[at[m]] > 0
    BY <1>0, <1>1, <1>4 DEF Publish, Hears, TypeOK
  <2> QED
    BY <1>2, <1>4, <2>1 DEF Publish, streamVars, Covered, Nudged
<1>5. ASSUME NEW s \in Replicas, Forward(s) \/ Resume(s) PROVE Covered(m)'
  <2>1. announced' = announced /\ link' = link
    BY <1>5 DEF Forward, Resume
  <2>2. CASE link[m] = "streaming" /\ at[m] = s
    BY <1>2, <1>5, <2>1, <2>2 DEF Forward, Resume, BroadcastAll, Fanout, Subscribers, Covered, Nudged
  <2>3. CASE link[m] = "streaming" /\ at[m] # s
    <3>1. wire'[at[m]] = wire[at[m]] /\ listen'[at[m]] = listen[at[m]]
      BY <1>0, <1>1, <1>5, <2>3 DEF TypeOK, Forward, Resume
    <3>2. signal[m] => signal'[m]
      BY <1>5 DEF Forward, Resume, BroadcastAll, Fanout
    <3> QED
      BY <1>0, <1>2, <2>1, <3>1, <3>2 DEF Covered, Nudged, Reading, AtRest, UpToDate
  <2>4. CASE link[m] # "streaming"
    BY <2>1, <2>4 DEF Covered, Nudged
  <2> QED
    BY <2>2, <2>3, <2>4
<1>6. ASSUME NEW s \in Replicas, ListenBreaks(s) \/ ListenError(s) \/ Relisten(s) PROVE Covered(m)'
  <2>1. announced' = announced /\ link' = link /\ signal' = signal
    BY <1>6 DEF ListenBreaks, ListenError, Relisten, streamVars
  <2>2. CASE link[m] = "streaming" /\ at[m] = s
    BY <1>0, <1>2, <1>6, <2>1, <2>2 DEF TypeOK, ListenBreaks, ListenError, Relisten, Covered, Nudged
  <2>3. CASE link[m] = "streaming" /\ at[m] # s
    <3>1. wire'[at[m]] = wire[at[m]] /\ listen'[at[m]] = listen[at[m]]
      BY <1>0, <1>1, <1>6, <2>3 DEF TypeOK, ListenBreaks, ListenError, Relisten
    <3> QED
      BY <1>0, <1>2, <2>1, <3>1 DEF Covered, Nudged, Reading, AtRest, UpToDate
  <2>4. CASE link[m] # "streaming"
    BY <2>1, <2>4 DEF Covered, Nudged
  <2> QED
    BY <2>2, <2>3, <2>4
<1>7. ASSUME NEW s \in Replicas, ReplicaRestarts(s) PROVE Covered(m)'
  <2>1. announced' = announced /\ signal' = signal
    BY <1>7 DEF ReplicaRestarts
  <2>2. link'[m] = IF at[m] = s THEN Cut(m) ELSE link[m]
    BY <1>7 DEF ReplicaRestarts
  <2>3. CASE link[m] = "streaming" /\ at[m] # s
    <3>1. wire'[at[m]] = wire[at[m]] /\ listen'[at[m]] = listen[at[m]]
      BY <1>0, <1>1, <1>7, <2>3 DEF TypeOK, ReplicaRestarts
    <3> QED
      BY <1>0, <1>2, <2>1, <2>2, <2>3, <3>1 DEF Covered, Nudged, Reading, AtRest, UpToDate
  <2>4. CASE link[m] # "streaming" \/ at[m] = s
    BY <2>2, <2>4 DEF Cut, Covered, Nudged
  <2> QED
    BY <2>3, <2>4
<1> QED
  BY <1>3, <1>4, <1>5, <1>6, <1>7 DEF Push, Broker

(* What a stream or a page does takes a reminder away only by passing it   *)
(* on: the signal to a frame, the frame to the timer, the timer to a       *)
(* request that starts after it.                                           *)
LEMMA PageCovers ==
  ASSUME IInv, NobodyLeftBehind, "slow" \notin Faults, NEW n \in Monitors, Page(n)
  PROVE  NobodyLeftBehind'
<1> SUFFICES ASSUME NEW m \in Monitors PROVE Covered(m)'
  BY DEF NobodyLeftBehind, Covered
<1>0. TypeOK /\ ServedOK /\ Covered(m)
  BY DEF IInv, NobodyLeftBehind, Covered
<1>1. /\ db \in Nat /\ announced \in Nat /\ announced <= db
      /\ db' = db /\ announced' = announced /\ listen' = listen /\ wire' = wire
  BY <1>0, BoundsAssumption DEF TypeOK, Versions, ServedOK, pushVars, Page, Stream, Snap, Accept, Greet,
     WriteUpdate, StreamEnds, BackoffEnds, ReadFrame, CoalesceFires, ReadOverview, ReadRecent, Respond,
     StreamBreaks, Refused, Remount, FetchFails
<1>2. CASE m # n
  <2>1. /\ at'[m] = at[m] /\ link'[m] = link[m] /\ signal'[m] = signal[m] /\ frames'[m] = frames[m]
        /\ timer'[m] = timer[m] /\ fetch'[m] = fetch[m] /\ shown'[m] = shown[m] /\ failed'[m] = failed[m]
    BY <1>0, <1>2 DEF TypeOK, streamVars, pageVars, Page, Stream, Snap, Accept, Greet, WriteUpdate,
       StreamEnds, BackoffEnds, ReadFrame, CoalesceFires, ReadOverview, ReadRecent, Respond,
       StreamBreaks, Refused, Remount, FetchFails, ScheduleReconnect
  <2> QED
    BY <1>0, <1>1, <2>1 DEF Covered, Nudged, Reading, AtRest, UpToDate
<1>3. CASE m = n
  <2>1. CASE \/ \E s \in Replicas : Accept(m, s)
             \/ StreamEnds(m) \/ BackoffEnds(m) \/ StreamBreaks(m) \/ Refused(m) \/ Remount(m)
    <3>1. link'[m] # "streaming"
      BY <1>0, <2>1 DEF TypeOK, Accept, StreamEnds, BackoffEnds, StreamBreaks, Refused, Remount,
         ScheduleReconnect
    <3> QED
      BY <3>1 DEF Covered, Nudged
  <2>2. CASE Greet(m)
    <3>1. link'[m] = "greeting" \/ frames'[m] = <<"hello">>
      BY <1>0, <2>2 DEF TypeOK, Greet, FirstStep
    <3> QED
      BY <3>1 DEF Covered, Nudged
  <2>3. CASE WriteUpdate(m)
    <3>1. frames[m] \in Seq({"hello", "update"}) /\ frames'[m] = Append(frames[m], "update")
      BY <1>0, <2>3 DEF TypeOK, WriteUpdate
    <3>2. frames'[m] # << >>
      BY <3>1
    <3> QED
      BY <3>2 DEF Covered, Nudged
  <2>4. CASE ReadFrame(m)
    BY <1>0, <2>4 DEF TypeOK, ReadFrame, Resyncs, Covered, Nudged
  <2>5. CASE CoalesceFires(m)
    <3>1. fetch[m].phase \in {"idle", "asked", "overview", "all"}
      BY <1>0 DEF TypeOK, Fetch
    <3>2. fetch'[m] = Refetch(m)
      BY <1>0, <2>5 DEF TypeOK, CoalesceFires
    <3>3. Refetch(m).phase = "asked"
      BY <2>5, <3>1 DEF CoalesceFires, Refetch, Asked
    <3> QED
      BY <3>2, <3>3 DEF Covered, Reading
  <2>6. CASE ReadOverview(m)
    <3>1. fetch'[m].phase = "overview" /\ fetch'[m].read.overview = db
      BY <1>0, <2>6 DEF TypeOK, ReadOverview, Blank
    <3> QED
      BY <1>1, <3>1 DEF Covered, Reading
  <2>7. CASE ReadRecent(m)
    <3>0. fetch[m].phase = "overview" /\ fetch[m] \in Fetch /\ fetch[m].read \in Snapshot
      BY <1>0, <2>7 DEF TypeOK, ReadRecent, Fetch
    <3>1. fetch' = [fetch EXCEPT ![m] = [fetch[m] EXCEPT !.phase = "all", !.read.recent = db]]
      BY <1>0, <2>7 DEF ReadRecent, TypeOK, Fetch, Snapshot
    <3>2. /\ fetch'[m].phase = "all"
          /\ fetch'[m].read.overview = fetch[m].read.overview /\ fetch'[m].read.recent = db
      BY <1>0, <3>0, <3>1 DEF TypeOK, Fetch, Snapshot
    <3>3. (Nudged(m) => Nudged(m)') /\ fetch'[m].read # NULL
      <4>1. [fetch[m] EXCEPT !.phase = "all", !.read.recent = db].read \in [overview : Nat, recent : Nat]
        BY <1>1, <3>0, BoundsAssumption DEF Fetch, Snapshot, Versions
      <4>2. fetch'[m].read # NULL
        BY <1>0, <3>1, <4>1, NullAssumption DEF TypeOK
      <4> QED
        BY <1>1, <2>7, <4>2 DEF ReadRecent, streamVars, Nudged
    <3> QED
      BY <1>0, <1>1, <3>0, <3>2, <3>3 DEF Covered, Reading, AtRest, UpToDate
  <2>8. CASE Respond(m)
    <3>1. fetch'[m].phase = "idle" /\ shown'[m] = fetch[m].read /\ fetch[m].phase = "all"
      BY <1>0, <2>8 DEF TypeOK, Respond
    <3>2. Nudged(m) => Nudged(m)'
      BY <1>1, <2>8 DEF Respond, streamVars, Nudged
    <3> QED
      BY <1>0, <1>1, <3>1, <3>2 DEF Covered, Reading, AtRest, UpToDate
  <2>9. CASE FetchFails(m)
    <3>1. fetch'[m].phase = "asked" \/ (fetch'[m].phase = "idle" /\ failed'[m])
      BY <1>0, <2>9 DEF TypeOK, FetchFails, Asked
    <3> QED
      BY <3>1 DEF Covered, Reading, AtRest
  <2> QED
    BY <1>3, <2>1, <2>2, <2>3, <2>4, <2>5, <2>6, <2>7, <2>8, <2>9 DEF Page, Stream, Snap
<1> QED
  BY <1>2, <1>3

LEMMA NextSplit == Next => Push \/ \E m \in Monitors : Page(m)
  BY DEF Next, Push, Page

LEMMA StutterInv == IInv /\ NobodyLeftBehind /\ UNCHANGED vars => IInv' /\ NobodyLeftBehind'
<1> SUFFICES ASSUME IInv, UNCHANGED vars PROVE IInv' /\ (NobodyLeftBehind => NobodyLeftBehind')
  OBVIOUS
<1>1. IInv'
  BY DEF vars, pushVars, streamVars, pageVars, IInv, TypeOK, ServedOK
<1>2. NobodyLeftBehind => NobodyLeftBehind'
  BY DEF vars, pushVars, streamVars, pageVars, NobodyLeftBehind, Nudged, Reading, AtRest, UpToDate
<1> QED
  BY <1>1, <1>2

LEMMA StepInv == IInv /\ [Next]_vars => IInv'
<1> SUFFICES ASSUME IInv, [Next]_vars PROVE IInv'
  OBVIOUS
<1>1. CASE Next
  <2>1. ServedOK'
    BY <1>1, NextSplit, ServedKept
  <2>2. TypeOK'
    BY <1>1, NextSplit, PushType, PageType DEF IInv
  <2> QED
    BY <2>1, <2>2 DEF IInv
<1>2. CASE UNCHANGED vars
  BY <1>2 DEF vars, pushVars, streamVars, pageVars, IInv, TypeOK, ServedOK
<1> QED
  BY <1>1, <1>2

(* Every variable of the push path keeps its type, whatever fails: the     *)
(* notification queues never go negative, and a stream that is open is     *)
(* served by a replica.                                                    *)
THEOREM TypeCorrect == Spec => []TypeOK
<1>1. Init => IInv
  BY InitInv
<1>2. IInv => TypeOK
  BY DEF IInv
<1> QED
  BY <1>1, <1>2, StepInv, PTL DEF Spec

(* No monitor is left behind, for any number of monitors and replicas and  *)
(* any failures of the broker sessions, servers, streams and requests,     *)
(* when the first snapshot is answered before the first coalesced refetch. *)
THEOREM EveryMonitorCovered ==
  ASSUME "slow" \notin Faults
  PROVE  Spec => []NobodyLeftBehind
<1>1. Init => IInv /\ NobodyLeftBehind
  BY InitInv
<1>2. IInv /\ NobodyLeftBehind /\ [Next]_vars => IInv' /\ NobodyLeftBehind'
  <2> SUFFICES ASSUME IInv, NobodyLeftBehind, [Next]_vars PROVE IInv' /\ NobodyLeftBehind'
    OBVIOUS
  <2>1. CASE Next
    BY <2>1, NextSplit, StepInv, PushCovers, PageCovers
  <2>2. CASE UNCHANGED vars
    BY <2>2, StutterInv
  <2> QED
    BY <2>1, <2>2
<1> QED
  BY <1>1, <1>2, PTL DEF Spec

------------------------------------------------------------------------------
(* The screen never goes back.                                             *)

(* A snapshot under way is read after the one on the screen, its overview  *)
(* before its recent feed.                                                 *)
ReadAfter(m) ==
  LET f == fetch[m]
      s == shown[m] IN
  /\ s # NULL => s.overview <= s.recent /\ s.recent <= db
  /\ f.phase = "overview" => f.read.overview <= db /\ (s # NULL => s.recent <= f.read.overview)
  /\ f.phase = "all" => /\ f.read.overview <= f.read.recent /\ f.read.recent <= db
                        /\ s # NULL => s.recent <= f.read.overview
ReadInOrder == \A m \in Monitors : ReadAfter(m)

(* A torn snapshot shows counters that are older than its feed, never      *)
(* newer, and nothing that was not committed.                              *)
NothingUncommitted ==
  \A m \in Monitors : shown[m] # NULL =>
    shown[m].overview <= shown[m].recent /\ shown[m].recent <= db

(* A screen that shows data keeps showing data, and what replaces it was   *)
(* read, counters and feed, after everything it showed.                    *)
NeverBackwards ==
  [][\A m \in Monitors : shown'[m] # shown[m] =>
       /\ shown'[m] # NULL
       /\ shown[m] # NULL => shown[m].recent <= shown'[m].overview]_vars

(* Only the snapshot requests touch what is read or shown.                 *)
LEMMA OthersRead ==
  ASSUME IInv, ReadInOrder, UNCHANGED shown, db' \in Versions, db <= db',
         \A m \in Monitors : fetch'[m] = fetch[m] \/ fetch'[m].phase \in {"idle", "asked"}
  PROVE  ReadInOrder'
<1> SUFFICES ASSUME NEW m \in Monitors PROVE ReadAfter(m)'
  BY DEF ReadInOrder
<1>1. /\ db \in Nat /\ db' \in Nat /\ fetch[m].read.overview \in Nat /\ fetch[m].read.recent \in Nat
      /\ shown[m] # NULL => shown[m].overview \in Nat /\ shown[m].recent \in Nat
  BY BoundsAssumption DEF IInv, TypeOK, Versions, Fetch, Snapshot
<1>2. ReadAfter(m)
  BY DEF ReadInOrder
<1>3. CASE fetch'[m] = fetch[m]
  BY <1>1, <1>2, <1>3 DEF ReadAfter
<1>4. CASE fetch'[m].phase \in {"idle", "asked"}
  BY <1>1, <1>2, <1>4 DEF ReadAfter
<1> QED
  BY <1>3, <1>4

LEMMA PushReads ==
  ASSUME IInv, ReadInOrder, Push
  PROVE  ReadInOrder' /\ shown' = shown
<1>1. /\ shown' = shown /\ fetch' = fetch
      /\ db' = db \/ (db' = db + 1 /\ db < MaxChanges)
  <2>1. shown' = shown /\ fetch' = fetch
    BY DEF streamVars, pageVars, Push, Broker, Commit, Publish, PublishFails, Forward, ListenBreaks,
       ListenError, Relisten, Resume, ReplicaRestarts
  <2>2. CASE Commit
    BY <2>1, <2>2 DEF Commit
  <2>3. CASE Push /\ ~Commit
    <3>1. db' = db
      BY <2>3 DEF Push, Broker, Publish, PublishFails, Forward, ListenBreaks, ListenError, Relisten, Resume,
                  ReplicaRestarts
    <3> QED
      BY <2>1, <3>1
  <2> QED
    BY <2>2, <2>3
<1>2. db' \in Versions /\ db <= db'
  BY <1>1, BoundsAssumption DEF IInv, TypeOK, Versions
<1> QED
  BY <1>1, <1>2, OthersRead

LEMMA PageReads ==
  ASSUME IInv, ReadInOrder, NEW m \in Monitors, Page(m)
  PROVE  /\ ReadInOrder'
         /\ \A k \in Monitors : shown'[k] # shown[k] =>
              /\ shown'[k] # NULL
              /\ shown[k] # NULL => shown[k].recent <= shown'[k].overview
<1>0. /\ db \in Versions /\ db \in Nat /\ fetch \in [Monitors -> Fetch] /\ db' = db
      /\ shown \in [Monitors -> Snapshot \cup {NULL}]
  BY BoundsAssumption DEF IInv, TypeOK, Versions, pushVars, Page, Stream, Snap, Accept, Greet, WriteUpdate,
     StreamEnds, BackoffEnds, ReadFrame, CoalesceFires, ReadOverview, ReadRecent, Respond, StreamBreaks,
     Refused, Remount, FetchFails
<1>1. CASE /\ shown' = shown
           /\ \A k \in Monitors : fetch'[k] = fetch[k] \/ fetch'[k].phase \in {"idle", "asked"}
  BY <1>0, <1>1, OthersRead
<1>2. CASE ReadOverview(m)
  <2>1. /\ shown' = shown /\ fetch'[m].phase = "overview" /\ fetch'[m].read.overview = db
        /\ \A k \in Monitors \ {m} : fetch'[k] = fetch[k]
    BY <1>0, <1>2 DEF ReadOverview, Blank
  <2>2. ReadAfter(m)'
    BY <1>0, <2>1 DEF ReadAfter, ReadInOrder
  <2>3. \A k \in Monitors \ {m} : ReadAfter(k)'
    BY <1>0, <2>1 DEF ReadAfter, ReadInOrder
  <2> QED
    BY <2>1, <2>2, <2>3 DEF ReadInOrder
<1>3. CASE ReadRecent(m)
  <2>1. /\ shown' = shown /\ fetch[m].phase = "overview" /\ fetch'[m].phase = "all"
        /\ fetch'[m].read.recent = db /\ fetch'[m].read.overview = fetch[m].read.overview
        /\ \A k \in Monitors \ {m} : fetch'[k] = fetch[k]
    BY <1>0, <1>3 DEF ReadRecent, Fetch, Snapshot
  <2>2. ReadAfter(m)'
    BY <1>0, <2>1 DEF ReadAfter, ReadInOrder
  <2>3. \A k \in Monitors \ {m} : ReadAfter(k)'
    BY <1>0, <2>1 DEF ReadAfter, ReadInOrder
  <2> QED
    BY <2>1, <2>2, <2>3 DEF ReadInOrder
<1>4. CASE Respond(m)
  <2>1. /\ fetch[m].phase = "all" /\ shown'[m] = fetch[m].read /\ fetch'[m].phase = "idle"
        /\ \A k \in Monitors \ {m} : fetch'[k] = fetch[k] /\ shown'[k] = shown[k]
    BY <1>0, <1>4 DEF Respond
  <2>2. fetch[m].read \in [overview : Nat, recent : Nat]
    BY <1>0, BoundsAssumption DEF Fetch, Snapshot, Versions
  <2>3. shown'[m] # NULL
    BY <2>1, <2>2, NullAssumption
  <2>4. ReadAfter(m)'
    BY <1>0, <2>1 DEF ReadAfter, ReadInOrder
  <2>5. \A k \in Monitors \ {m} : ReadAfter(k)'
    BY <1>0, <2>1 DEF ReadAfter, ReadInOrder
  <2>6. shown[m] # NULL => shown[m].recent <= shown'[m].overview
    BY <2>1 DEF ReadAfter, ReadInOrder
  <2> QED
    BY <2>1, <2>3, <2>4, <2>5, <2>6 DEF ReadInOrder
<1>5. CASE CoalesceFires(m) \/ Remount(m) \/ FetchFails(m)
  <2>1. /\ shown' = shown
        /\ \E f \in {fetch[m], Asked, [phase |-> "idle", read |-> Blank]} : fetch' = [fetch EXCEPT ![m] = f]
    BY <1>5 DEF CoalesceFires, Refetch, Remount, FetchFails
  <2>2. \A k \in Monitors : fetch'[k] = fetch[k] \/ fetch'[k].phase \in {"idle", "asked"}
    BY <1>0, <2>1 DEF Asked
  <2> QED
    BY <1>1, <2>1, <2>2
<1>6. CASE shown' = shown /\ fetch' = fetch
  BY <1>1, <1>6
<1> QED
  BY <1>2, <1>3, <1>4, <1>5, <1>6
     DEF pageVars, Page, Stream, Snap, Accept, Greet, WriteUpdate, StreamEnds, BackoffEnds, ReadFrame,
         StreamBreaks, Refused

LEMMA ReadingOrdered == Spec => [](IInv /\ ReadInOrder)
<1>1. Init => IInv
  BY InitInv
<1>2. Init => ReadInOrder
  <2> SUFFICES ASSUME Init PROVE ReadInOrder
    OBVIOUS
  <2>1. \A m \in Monitors : shown[m] = NULL /\ fetch[m] = Asked
    BY DEF Init, Asked
  <2>2. Asked.phase = "asked"
    BY DEF Asked
  <2> QED
    BY <2>1, <2>2 DEF ReadInOrder, ReadAfter
<1>3. IInv /\ ReadInOrder /\ [Next]_vars => ReadInOrder'
  <2> SUFFICES ASSUME IInv, ReadInOrder, [Next]_vars PROVE ReadInOrder'
    OBVIOUS
  <2>1. CASE Next
    BY <2>1, NextSplit, PushReads, PageReads
  <2>2. CASE UNCHANGED vars
    BY <2>2 DEF vars, pushVars, pageVars, ReadInOrder, ReadAfter
  <2> QED
    BY <2>1, <2>2
<1> QED
  BY <1>1, <1>2, <1>3, StepInv, PTL DEF Spec

(* No snapshot on a screen holds more than was committed, or counters that *)
(* are newer than its list, whatever is torn, cancelled or joined.         *)
THEOREM ScreenIsPast == Spec => []NothingUncommitted
<1>1. ReadInOrder => NothingUncommitted
  BY DEF ReadInOrder, ReadAfter, NothingUncommitted
<1> QED
  BY <1>1, ReadingOrdered, PTL

(* No cancelled, joined or late answer ever takes a screen back, "slow"    *)
(* first requests included.                                                *)
THEOREM ScreenMovesOn == Spec => NeverBackwards
<1>1. IInv /\ ReadInOrder /\ [Next]_vars
        => [\A m \in Monitors : shown'[m] # shown[m] =>
              /\ shown'[m] # NULL
              /\ shown[m] # NULL => shown[m].recent <= shown'[m].overview]_vars
  <2> SUFFICES ASSUME IInv, ReadInOrder, Next
               PROVE  \A m \in Monitors : shown'[m] # shown[m] =>
                        /\ shown'[m] # NULL
                        /\ shown[m] # NULL => shown[m].recent <= shown'[m].overview
    OBVIOUS
  <2>1. CASE Push
    BY <2>1, PushReads
  <2>2. CASE \E m \in Monitors : Page(m)
    BY <2>2, PageReads
  <2> QED
    BY <2>1, <2>2, NextSplit
<1> QED
  BY <1>1, ReadingOrdered, PTL DEF Spec, NeverBackwards
===============================================================================

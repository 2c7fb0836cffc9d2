---------------------------- MODULE MonitorStream ----------------------------
(***************************************************************************)
(* How a change of one event's check-in state reaches the live monitors:   *)
(* the publish after the commit, PostgreSQL NOTIFY to the LISTEN session   *)
(* of every server process, the one-slot channel of each SSE handler, the  *)
(* frames on the wire, and the panel hook that turns them into at most one *)
(* refetch of the snapshot per second.                                     *)
(*                                                                         *)
(* No message carries state.  The design is right if whoever missed a      *)
(* message is always made to read the snapshot again later, and reads it   *)
(* after the change.  The monitor-visible state is its version, db.        *)
(***************************************************************************)
EXTENDS Naturals, Sequences

CONSTANTS
  Monitors,    \* open monitor screens of the event
  Replicas,    \* server processes, each with its broker
  MaxChanges,  \* bound: changes committed to the event
  MaxFaults,   \* bound: failures and remounts of a behaviour
  Faults,      \* what may go wrong, a subset of AllFaults
  NULL

AllFaults == {"publish", "listen", "replica", "stream", "refuse", "fetch", "remount", "slow"}

ASSUME BoundsAssumption == MaxChanges \in Nat /\ MaxFaults \in Nat
ASSUME FaultKindsAssumption == Faults \subseteq AllFaults
ASSUME NullAssumption == NULL \notin Replicas \cup [overview : Nat, recent : Nat]

VARIABLES
  db,         \* version of the event's monitor-visible state
  owed,       \* committed changes whose request has not published yet
  announced,  \* the version of the last NOTIFY that was committed
  listen,     \* listen[s]: the LISTEN session of replica s
  wire,       \* wire[s]: notifications that session has not forwarded yet
  at,         \* at[m]: the replica that serves m's stream
  link,       \* link[m]: how far m's stream has got
  signal,     \* signal[m]: the 1-buffered channel of m's subscription is full
  frames,     \* frames[m]: SSE frames written and not yet read
  status,     \* status[m]: what useMonitorStream tells the page
  timer,      \* timer[m]: coalescePending
  fetch,      \* fetch[m]: the snapshot request in flight
  shown,      \* shown[m]: the snapshot on the screen
  failed,     \* failed[m]: the last snapshot request gave up
  faults      \* failures so far

pushVars == <<db, owed, announced, listen, wire>>
streamVars == <<at, link, signal, frames, status>>
pageVars == <<timer, fetch, shown, failed>>
vars == <<pushVars, streamVars, pageVars, faults>>

Versions == 0..MaxChanges
(* A snapshot is put together from several statements, each with an MVCC   *)
(* snapshot of its own: the overview first, the recent feed last.          *)
Snapshot == [overview : Versions, recent : Versions]
Blank == [overview |-> 0, recent |-> 0]
Fetch == [phase : {"idle", "asked", "overview", "all"}, read : Snapshot]

(* up: WaitForNotification; dead: broken, not yet noticed; down: backing   *)
(* off; relistened: LISTEN is issued, BroadcastAll is not done.            *)
ListenStates == {"up", "dead", "down", "relistened"}

(* connect: about to call the endpoint; accepted: headers out, handler not *)
(* subscribed; greeting: hello not written; streaming; broken: cut, the    *)
(* panel has not noticed; backoff; over: ended by a 4xx.                   *)
LinkStates == {"connect", "accepted", "greeting", "streaming", "broken", "backoff", "over"}

(* Every variable keeps its type, the queues and counters stay natural.    *)
TypeOK ==
  /\ db \in Versions /\ announced \in Versions /\ owed \in Nat
  /\ listen \in [Replicas -> ListenStates]
  /\ wire \in [Replicas -> Nat]
  /\ at \in [Monitors -> Replicas \cup {NULL}]
  /\ link \in [Monitors -> LinkStates]
  /\ signal \in [Monitors -> BOOLEAN]
  /\ frames \in [Monitors -> Seq({"hello", "update"})]
  /\ status \in [Monitors -> {"connecting", "live", "reconnecting", "error"}]
  /\ timer \in [Monitors -> BOOLEAN]
  /\ fetch \in [Monitors -> Fetch]
  /\ shown \in [Monitors -> Snapshot \cup {NULL}]
  /\ failed \in [Monitors -> BOOLEAN]
  /\ faults \in Nat

Init ==
  /\ db = 0 /\ owed = 0 /\ announced = 0
  /\ listen = [s \in Replicas |-> "up"]
  /\ wire = [s \in Replicas |-> 0]
  /\ at = [m \in Monitors |-> NULL]
  /\ link = [m \in Monitors |-> "connect"]
  /\ signal = [m \in Monitors |-> FALSE]
  /\ frames = [m \in Monitors |-> << >>]
  /\ status = [m \in Monitors |-> "connecting"]
  /\ timer = [m \in Monitors |-> FALSE]
  /\ fetch = [m \in Monitors |-> [phase |-> "asked", read |-> Blank]]
  /\ shown = [m \in Monitors |-> NULL]
  /\ failed = [m \in Monitors |-> FALSE]
  /\ faults = 0

(* A failure of kind f happens, within the bound.                          *)
Fault(f) ==
  /\ f \in Faults /\ faults < MaxFaults
  /\ faults' = faults + 1

------------------------------------------------------------------------------
(* The writers: CheckinStore's requests, seen from here.                   *)

Commit ==
  /\ db < MaxChanges
  /\ db' = db + 1
  /\ owed' = owed + 1
  /\ UNCHANGED <<announced, listen, wire, streamVars, pageVars, faults>>

Hears(s) == listen[s] \in {"up", "relistened"}

(* PGBroker.Publish: NOTIFY reaches every session that LISTENs by then.    *)
Publish ==
  /\ owed > 0
  /\ owed' = owed - 1
  /\ announced' = db
  /\ wire' = [s \in Replicas |-> IF Hears(s) THEN wire[s] + 1 ELSE wire[s]]
  /\ UNCHANGED <<db, listen, streamVars, pageVars, faults>>

(* An error or the two-second timeout is logged, and that is all.          *)
PublishFails ==
  /\ Fault("publish")
  /\ owed > 0
  /\ owed' = owed - 1
  /\ UNCHANGED <<db, announced, listen, wire, streamVars, pageVars>>

------------------------------------------------------------------------------
(* PGBroker.listenLoop and MemBroker, one per replica.                     *)

(* What the stream handler does first when it accepts a client.            *)
(* Mutant: a client may have read hello before its channel exists.         *)
HelloStep == "hello"
FirstStep == "subscribe"

Subscribers(s) ==
  {m \in Monitors : at[m] = s /\ (link[m] = "streaming" \/ (link[m] = "greeting" /\ FirstStep = "subscribe"))}
Fanout(s) == signal' = [m \in Monitors |-> signal[m] \/ m \in Subscribers(s)]

(* Mutant: a wait that ends for another reason counts as a notification.   *)
AlwaysNotified(s) == TRUE
Notified(s) == wire[s] > 0

Forward(s) ==
  /\ listen[s] = "up" /\ Notified(s)
  /\ wire' = [wire EXCEPT ![s] = @ - 1]
  /\ Fanout(s)
  /\ UNCHANGED <<db, owed, announced, listen, at, link, frames, status, pageVars, faults>>

(* The session breaks and takes what it has not forwarded with it.         *)
ListenBreaks(s) ==
  /\ Fault("listen")
  /\ Hears(s)
  /\ listen' = [listen EXCEPT ![s] = "dead"]
  /\ wire' = [wire EXCEPT ![s] = 0]
  /\ UNCHANGED <<db, owed, announced, streamVars, pageVars>>

ListenError(s) ==
  /\ listen[s] = "dead"
  /\ listen' = [listen EXCEPT ![s] = "down"]
  /\ UNCHANGED <<db, owed, announced, wire, streamVars, pageVars, faults>>

Relisten(s) ==
  /\ listen[s] = "down"
  /\ listen' = [listen EXCEPT ![s] = "relistened"]
  /\ UNCHANGED <<db, owed, announced, wire, streamVars, pageVars, faults>>

(* Mutant: the loop goes back to waiting, as after the first connect.      *)
NoBroadcast(s) == UNCHANGED signal
BroadcastAll(s) == Fanout(s)

Resume(s) ==
  /\ listen[s] = "relistened"
  /\ BroadcastAll(s)
  /\ listen' = [listen EXCEPT ![s] = "up"]
  /\ UNCHANGED <<db, owed, announced, wire, at, link, frames, status, pageVars, faults>>

Cut(m) == IF link[m] \in {"accepted", "greeting", "streaming"} THEN "broken" ELSE link[m]

(* The process dies and is started again: its streams are cut, its queue   *)
(* is gone, and publishes that its requests owed may never happen.         *)
ReplicaRestarts(s) ==
  /\ Fault("replica")
  /\ owed' \in 0..owed
  /\ listen' = [listen EXCEPT ![s] = "up"]
  /\ wire' = [wire EXCEPT ![s] = 0]
  /\ link' = [m \in Monitors |-> IF at[m] = s THEN Cut(m) ELSE link[m]]
  /\ UNCHANGED <<db, announced, at, signal, frames, status, pageVars>>

------------------------------------------------------------------------------
(* GET /monitor/stream: GetEventMonitorStream and openSseStream.           *)

Accept(m, s) ==
  /\ link[m] = "connect"
  /\ at' = [at EXCEPT ![m] = s]
  /\ link' = [link EXCEPT ![m] = "accepted"]
  /\ signal' = [signal EXCEPT ![m] = FALSE]
  /\ UNCHANGED <<pushVars, frames, status, pageVars, faults>>

(* Subscribe, the hello frame, then the select loop.                       *)
Greet(m) ==
  /\ link[m] \in {"accepted", "greeting"}
  /\ link' = [link EXCEPT ![m] = IF @ = "accepted" THEN "greeting" ELSE "streaming"]
  /\ frames' = IF (link[m] = "accepted") <=> (FirstStep = "hello")
               THEN [frames EXCEPT ![m] = <<"hello">>] ELSE frames
  /\ UNCHANGED <<pushVars, at, signal, status, pageVars, faults>>

WriteUpdate(m) ==
  /\ link[m] = "streaming" /\ signal[m]
  /\ signal' = [signal EXCEPT ![m] = FALSE]
  /\ frames' = [frames EXCEPT ![m] = Append(@, "update")]
  /\ UNCHANGED <<pushVars, at, link, status, pageVars, faults>>

(* Client, network or proxy: the frames on the way may be lost.            *)
StreamBreaks(m) ==
  /\ Fault("stream")
  /\ Cut(m) # link[m]
  /\ link' = [link EXCEPT ![m] = "broken"]
  /\ UNCHANGED <<pushVars, at, signal, frames, status, pageVars>>

------------------------------------------------------------------------------
(* useMonitorStream.                                                       *)

ScheduleReconnect(m) ==
  /\ link' = [link EXCEPT ![m] = "backoff"]
  /\ status' = [status EXCEPT ![m] = "reconnecting"]
  /\ frames' = [frames EXCEPT ![m] = << >>]

StreamEnds(m) ==
  /\ link[m] = "broken"
  /\ ScheduleReconnect(m)
  /\ UNCHANGED <<pushVars, at, signal, pageVars, faults>>

(* A 5xx, or no server at all, is retried; a 4xx is final.                 *)
Refused(m) ==
  /\ Fault("refuse")
  /\ link[m] = "connect"
  /\ \/ ScheduleReconnect(m)
     \/ /\ link' = [link EXCEPT ![m] = "over"]
        /\ status' = [status EXCEPT ![m] = "error"]
        /\ UNCHANGED frames
  /\ UNCHANGED <<pushVars, at, signal, pageVars>>

BackoffEnds(m) ==
  /\ link[m] = "backoff"
  /\ link' = [link EXCEPT ![m] = "connect"]
  /\ UNCHANGED <<pushVars, at, signal, frames, status, pageVars, faults>>

(* Mutant: only an update frame is worth a refetch.                        *)
ResyncsOnUpdate(frame) == frame = "update"
Resyncs(frame) == TRUE

ReadFrame(m) ==
  /\ link[m] \in {"greeting", "streaming", "broken"} /\ frames[m] # << >>
  /\ frames' = [frames EXCEPT ![m] = Tail(@)]
  /\ status' = IF Head(frames[m]) = "hello" THEN [status EXCEPT ![m] = "live"] ELSE status
  /\ timer' = IF Resyncs(Head(frames[m])) THEN [timer EXCEPT ![m] = TRUE] ELSE timer
  /\ UNCHANGED <<pushVars, at, link, signal, fetch, shown, failed, faults>>

Asked == [phase |-> "asked", read |-> Blank]

(* Mutant: whatever is in flight is good enough.                           *)
JoinInFlight(m) == IF fetch[m].phase = "idle" THEN Asked ELSE fetch[m]
(* invalidateQueries cancels a refetch and starts another, but joins the   *)
(* first request for the data, which it cannot tell from a fresh one.      *)
Refetch(m) ==
  IF shown[m] = NULL /\ fetch[m].phase # "idle" THEN fetch[m] ELSE Asked

(* The page's own first request is answered within a second of the hello,  *)
(* unless it is slow.                                                      *)
CoalesceFires(m) ==
  /\ timer[m]
  /\ shown[m] = NULL /\ fetch[m].phase \in {"overview", "all"} => "slow" \in Faults
  /\ timer' = [timer EXCEPT ![m] = FALSE]
  /\ fetch' = [fetch EXCEPT ![m] = Refetch(m)]
  /\ UNCHANGED <<pushVars, streamVars, shown, failed, faults>>

(* The page is left and opened again, or the event changes and back: the   *)
(* hook starts afresh, the query cache keeps its data and its request.     *)
Remount(m) ==
  /\ Fault("remount")
  /\ link' = [link EXCEPT ![m] = "connect"]
  /\ status' = [status EXCEPT ![m] = "connecting"]
  /\ frames' = [frames EXCEPT ![m] = << >>]
  /\ timer' = [timer EXCEPT ![m] = FALSE]
  /\ fetch' = [fetch EXCEPT ![m] = IF @.phase = "idle" THEN Asked ELSE @]
  /\ UNCHANGED <<pushVars, at, signal, shown, failed>>

------------------------------------------------------------------------------
(* GET /monitor: GetEventMonitor.                                          *)

ReadOverview(m) ==
  /\ fetch[m].phase = "asked"
  /\ fetch' = [fetch EXCEPT ![m] = [phase |-> "overview", read |-> [Blank EXCEPT !.overview = db]]]
  /\ UNCHANGED <<pushVars, streamVars, timer, shown, failed, faults>>

ReadRecent(m) ==
  /\ fetch[m].phase = "overview"
  /\ fetch' = [fetch EXCEPT ![m].phase = "all", ![m].read.recent = db]
  /\ UNCHANGED <<pushVars, streamVars, timer, shown, failed, faults>>

Respond(m) ==
  /\ fetch[m].phase = "all"
  /\ shown' = [shown EXCEPT ![m] = fetch[m].read]
  /\ failed' = [failed EXCEPT ![m] = FALSE]
  /\ fetch' = [fetch EXCEPT ![m] = [phase |-> "idle", read |-> Blank]]
  /\ UNCHANGED <<pushVars, streamVars, timer, faults>>

(* An error is retried by the query client, or it gives up.                *)
FetchFails(m) ==
  /\ Fault("fetch")
  /\ fetch[m].phase # "idle"
  /\ \/ fetch' = [fetch EXCEPT ![m] = Asked] /\ UNCHANGED failed
     \/ /\ fetch' = [fetch EXCEPT ![m] = [phase |-> "idle", read |-> Blank]]
        /\ failed' = [failed EXCEPT ![m] = TRUE]
  /\ UNCHANGED <<pushVars, streamVars, timer, shown>>

------------------------------------------------------------------------------
Broker(s) == Forward(s) \/ ListenError(s) \/ Relisten(s) \/ Resume(s)
Stream(m) ==
  \/ \E s \in Replicas : Accept(m, s)
  \/ Greet(m) \/ WriteUpdate(m)
  \/ StreamEnds(m) \/ BackoffEnds(m) \/ ReadFrame(m) \/ CoalesceFires(m)
Snap(m) == ReadOverview(m) \/ ReadRecent(m) \/ Respond(m)

Next ==
  \/ Commit \/ Publish \/ PublishFails
  \/ \E s \in Replicas : Broker(s) \/ ListenBreaks(s) \/ ReplicaRestarts(s)
  \/ \E m \in Monitors :
       Stream(m) \/ Snap(m) \/ StreamBreaks(m) \/ Refused(m) \/ Remount(m) \/ FetchFails(m)

Spec == Init /\ [][Next]_vars

(* Handlers, broker loops, timers and requests make progress; a dead       *)
(* connection is noticed in the end (TCP keep-alive).  Nothing obliges a   *)
(* change to be made or a fault to happen.                                 *)
FairSpec ==
  /\ Spec
  /\ WF_vars(Publish)
  /\ \A s \in Replicas : WF_vars(Broker(s))
  /\ \A m \in Monitors :
       /\ WF_vars(\E s \in Replicas : Accept(m, s))
       /\ WF_vars(Greet(m)) /\ WF_vars(WriteUpdate(m))
       /\ WF_vars(StreamEnds(m)) /\ WF_vars(BackoffEnds(m))
       /\ WF_vars(ReadFrame(m)) /\ WF_vars(CoalesceFires(m))
       /\ WF_vars(Snap(m))

------------------------------------------------------------------------------
(* Properties.                                                             *)

UpToDate(snap) == snap # NULL /\ snap.overview >= announced /\ snap.recent >= announced

(* What will make m read the snapshot again, starting after now.           *)
Nudged(m) ==
  \/ link[m] # "streaming"                       \* a hello is still to come, or the stream is over
  \/ frames[m] # << >> \/ signal[m] \/ timer[m]
  \/ listen[at[m]] # "up" \/ wire[at[m]] > 0

(* A request that will have read the last announced change.                *)
Reading(m) ==
  LET f == fetch[m] IN
  \/ f.phase = "asked"
  \/ f.phase = "overview" /\ f.read.overview >= announced
  \/ f.phase = "all" /\ UpToDate(f.read)

(* At rest, the screen shows it, or says that its last request failed.     *)
AtRest(m) == fetch[m].phase = "idle" /\ (failed[m] \/ UpToDate(shown[m]))

(* No monitor is left behind: its screen shows everything that was         *)
(* announced, or something still pending will make it read again: whatever *)
(* was lost with a session, coalesced into one signal or frame, refetched  *)
(* too early or torn between two statements of the snapshot.               *)
NobodyLeftBehind ==
  \A m \in Monitors : Nudged(m) \/ Reading(m) \/ AtRest(m)

(* Once changes and failures stop, every monitor ends up live over a       *)
(* snapshot with all that was announced, unless its stream was refused for *)
(* good or its last request gave up.                                       *)
Settles ==
  \A m \in Monitors :
    <>[](status[m] = "error" \/ (status[m] = "live" /\ (UpToDate(shown[m]) \/ failed[m])))
==============================================================================

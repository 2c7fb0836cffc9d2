---------------------------- MODULE CheckinStore -----------------------------
(***************************************************************************)
(* The writers of an attendee's check-in state in the Go backend, one HTTP *)
(* request per process, one action per SQL statement or transaction.       *)
(*                                                                         *)
(* A statement of PostgreSQL under READ COMMITTED sees every transaction   *)
(* committed before it starts, and an UPDATE re-evaluates its WHERE on the *)
(* latest committed version of the row, which it then keeps locked until   *)
(* its transaction ends.  So a guarded UPDATE with the feed row inserted   *)
(* in the same transaction is one step, and everything else is a step of   *)
(* its own: the handler's ownership read, the fallback SELECT, the dedup   *)
(* log, the full-row overwrite, the publish.                               *)
(*                                                                         *)
(* A request is served once.  A client's retry is another request, with    *)
(* the same client uuid when it resends a queued batch item.               *)
(***************************************************************************)
EXTENDS Naturals, Sequences, FiniteSets

CONSTANTS
  Attendees,   \* rows of the attendees table, all of one event
  Requests,    \* HTTP requests that may ever be served
  Uuids,       \* client_uuid values of queued batch items
  Ops,         \* the endpoints in use, a subset of AllOps
  Faults,      \* what may go wrong, a subset of AllFaults
  NULL         \* SQL NULL

ScanOps  == {"station", "batch"}                      \* check somebody in
GuardedOps == ScanOps \cup {"undo", "printed"}        \* write only under a guard
EditOps  == {"info", "block", "unblock", "delete", "codes", "zonereg"}
LegacyOps == {"put", "sync"} \cup EditOps             \* end in UpdateAttendee
AllOps   == GuardedOps \cup LegacyOps

(* The server process dies; a statement returns an error; a publish fails. *)
AllFaults == {"crash", "store", "publish"}

ASSUME OpsAssumption == Ops \subseteq AllOps
ASSUME FaultsAssumption == Faults \subseteq AllFaults
ASSUME FiniteAssumption == IsFiniteSet(Requests)
ASSUME NullAssumption == NULL \notin Requests /\ NULL \notin Uuids /\ NULL \notin Attendees

VARIABLES
  row,          \* the attendees table
  feed,         \* checkin_actions rows of kind checkin or undo, per attendee, in commit order
  reprints,     \* checkin_actions rows of kind reprint, per attendee
  log,          \* batch_checkin_log: the client uuids already processed
  pc,           \* the statement each request runs next
  call,         \* what each request asks for
  copy,         \* the attendee a handler loaded and edited, to be written back
  tries,        \* guarded UPDATEs a station request has issued
  won,          \* whether the request's own guarded UPDATE matched the row
  ans,          \* the outcome decided for the request
  unannounced,  \* attendees changed on the monitor since the last publish
  dropped       \* a due publish failed, or the process that owed it died

vars == <<row, feed, reprints, log, pc, call, copy, tries, won, ans, unannounced, dropped>>

(* at, by, device and point name the request that wrote the column: the    *)
(* values it writes are its own clock, user, device and station.           *)
Stamp == Requests \cup {NULL}
Row == [status : BOOLEAN, at : Stamp, by : Stamp, device : Stamp, point : Stamp,
        blocked : BOOLEAN, deleted : BOOLEAN, printed : Nat]
FeedRow == [action : {"checkin", "undo"}, req : Requests]
Call == [op : AllOps \cup {"none"}, att : Attendees \cup {NULL}, uuid : Uuids \cup {NULL}]
Steps == {"new", "update", "fallback", "logCheck", "exists", "logInsert", "push",
          "transition", "feed", "write", "increment", "reprint", "publish",
          "done", "failed"}
Answers == {"none", "checked_in", "already_checked_in", "blocked", "not_found",
            "conflict", "undone", "created", "already_exists", "duplicate", "ok"}

MaxAttempts == 2      \* checkInAttendeeMaxAttempts

BlankRow == [status |-> FALSE, at |-> NULL, by |-> NULL, device |-> NULL, point |-> NULL,
             blocked |-> FALSE, deleted |-> FALSE, printed |-> 0]
BlankCall == [op |-> "none", att |-> NULL, uuid |-> NULL]

(* The tables and every request's control and answer keep their types; in  *)
(* particular no request issues a third guarded UPDATE (tries).            *)
TypeOK ==
  /\ row \in [Attendees -> Row]
  /\ feed \in [Attendees -> Seq(FeedRow)]
  /\ reprints \in [Attendees -> Nat]
  /\ log \in SUBSET Uuids
  /\ pc \in [Requests -> Steps]
  /\ call \in [Requests -> Call]
  /\ copy \in [Requests -> Row]
  /\ tries \in [Requests -> 0..MaxAttempts]
  /\ won \in [Requests -> BOOLEAN]
  /\ ans \in [Requests -> Answers]
  /\ unannounced \in SUBSET Attendees
  /\ dropped \in BOOLEAN

Init ==
  /\ row \in [Attendees -> {[BlankRow EXCEPT !.blocked = b] : b \in BOOLEAN}]
  /\ feed = [a \in Attendees |-> << >>]
  /\ reprints = [a \in Attendees |-> 0]
  /\ log = {}
  /\ pc = [r \in Requests |-> "new"]
  /\ call = [r \in Requests |-> BlankCall]
  /\ copy = [r \in Requests |-> BlankRow]
  /\ tries = [r \in Requests |-> 0]
  /\ won = [r \in Requests |-> FALSE]
  /\ ans = [r \in Requests |-> "none"]
  /\ unannounced = {}
  /\ dropped = FALSE

------------------------------------------------------------------------------
(* Helpers of the actions.                                                 *)

Target(r) == call[r].att
Goto(r, step) == pc' = [pc EXCEPT ![r] = step]
Answer(r, a) == ans' = [ans EXCEPT ![r] = a]
Visible(a) == unannounced' = unannounced \cup {a}
At(r, op, step) == call[r].op = op /\ pc[r] = step

AppendFeed(a, action, r) ==
  feed' = [feed EXCEPT ![a] = Append(@, [action |-> action, req |-> r])]

(* The first statement of every handler: requireAttendeeOwnership, or a    *)
(* plain GetAttendeeByID, which hides soft-deleted rows.                   *)
Receive(r, op, a, uuid) ==
  /\ pc[r] = "new"
  /\ op \in Ops
  /\ call' = [call EXCEPT ![r] = [op |-> op, att |-> a, uuid |-> uuid]]
  /\ UNCHANGED <<row, feed, reprints, log, tries, won, unannounced, dropped>>

Found(r, a, step) ==
  /\ ~row[a].deleted
  /\ Goto(r, step)
  /\ UNCHANGED ans

Refused(r, answer) ==
  /\ Goto(r, "done")
  /\ Answer(r, answer)

NotFound(r, a) == row[a].deleted /\ Refused(r, "not_found")

------------------------------------------------------------------------------
(* POST /events/:id/checkin -- StationCheckin and CheckInAttendee.         *)

StationRead(r, a) ==
  /\ Receive(r, "station", a, NULL)
  /\ \/ NotFound(r, a)
     \/ ~row[a].deleted /\ row[a].blocked /\ Refused(r, "blocked")
     \/ ~row[a].blocked /\ Found(r, a, "update")
  /\ UNCHANGED copy

(* Mutant: the guard before it learnt of blocked attendees.                *)
StationGuardNoBlocked(w) == ~w.status /\ ~w.deleted
StationGuard(w) == ~w.status /\ ~w.blocked /\ ~w.deleted
StationSet(w, r, point) ==
  [w EXCEPT !.status = TRUE, !.at = r, !.by = r, !.device = NULL, !.point = point]

(* checkInAttendeeGuardedUpdateSQL; when it matches, the feed row and the  *)
(* commit.  A station-less scan has no point name.                         *)
StationUpdate(r) ==
  LET a == Target(r) IN
  /\ At(r, "station", "update")
  /\ tries' = [tries EXCEPT ![r] = @ + 1]
  /\ \/ /\ StationGuard(row[a])
        /\ \E point \in {r, NULL} : row' = [row EXCEPT ![a] = StationSet(@, r, point)]
        /\ AppendFeed(a, "checkin", r)
        /\ won' = [won EXCEPT ![r] = TRUE]
        /\ Answer(r, "checked_in")
        /\ Visible(a)
        /\ Goto(r, "publish")
     \/ /\ ~StationGuard(row[a])
        /\ Goto(r, "fallback")
        /\ UNCHANGED <<row, feed, won, ans, unannounced>>
  /\ UNCHANGED <<reprints, log, call, copy, dropped>>

(* Mutants: a miss always means "already"; a retry that takes a blocked    *)
(* attendee for a conflict and starts counting afresh.                     *)
StationFallbackBlunt(r) ==
  LET w == row[Target(r)] IN
  /\ At(r, "station", "fallback")
  /\ Goto(r, "done")
  /\ Answer(r, IF w.deleted THEN "not_found" ELSE "already_checked_in")
  /\ UNCHANGED <<row, feed, reprints, log, call, copy, tries, won, unannounced, dropped>>

StationFallbackEndless(r) ==
  LET w == row[Target(r)] IN
  /\ At(r, "station", "fallback")
  /\ \/ w.deleted /\ Goto(r, "done") /\ Answer(r, "not_found") /\ UNCHANGED tries
     \/ ~w.deleted /\ w.status /\ Goto(r, "done") /\ Answer(r, "already_checked_in") /\ UNCHANGED tries
     \/ ~w.deleted /\ ~w.status /\ Goto(r, "update") /\ tries' = [tries EXCEPT ![r] = 0] /\ UNCHANGED ans
  /\ UNCHANGED <<row, feed, reprints, log, call, copy, won, unannounced, dropped>>

(* The fallback SELECT of checkInAttendeeAttempt, with its own snapshot,   *)
(* and the bounded retry of CheckInAttendee.                               *)
StationFallback(r) ==
  LET w == row[Target(r)] IN
  /\ At(r, "station", "fallback")
  /\ \/ w.deleted /\ Goto(r, "done") /\ Answer(r, "not_found")
     \/ ~w.deleted /\ w.status /\ Goto(r, "done") /\ Answer(r, "already_checked_in")
     \/ ~w.deleted /\ ~w.status /\ w.blocked /\ Goto(r, "done") /\ Answer(r, "blocked")
     \/ /\ StationGuard(w) /\ tries[r] < MaxAttempts
        /\ Goto(r, "update") /\ UNCHANGED ans
     \/ /\ StationGuard(w) /\ tries[r] = MaxAttempts
        /\ Goto(r, "done") /\ Answer(r, "conflict")
  /\ UNCHANGED <<row, feed, reprints, log, call, copy, tries, won, unannounced, dropped>>

------------------------------------------------------------------------------
(* POST /events/:id/checkin/undo -- UndoCheckin.                           *)

UndoRead(r, a) ==
  /\ Receive(r, "undo", a, NULL)
  /\ NotFound(r, a) \/ Found(r, a, "update")
  /\ UNCHANGED copy

UndoGuard(w) == w.status /\ ~w.deleted
(* Mutant: the legacy clear, which left device and point behind.           *)
UndoSetPartial(w) == [w EXCEPT !.status = FALSE, !.at = NULL, !.by = NULL]
UndoSet(w) ==
  [w EXCEPT !.status = FALSE, !.at = NULL, !.by = NULL, !.device = NULL, !.point = NULL]

UndoUpdate(r) ==
  LET a == Target(r) IN
  /\ At(r, "undo", "update")
  /\ \/ /\ UndoGuard(row[a])
        /\ row' = [row EXCEPT ![a] = UndoSet(@)]
        /\ AppendFeed(a, "undo", r)
        /\ won' = [won EXCEPT ![r] = TRUE]
        /\ Answer(r, "undone")
        /\ Visible(a)
        /\ Goto(r, "publish")
     \/ /\ ~UndoGuard(row[a])
        /\ IF row[a].deleted THEN UNCHANGED ans ELSE Answer(r, "undone")
        /\ Goto(r, "fallback")
        /\ UNCHANGED <<row, feed, won, unannounced>>
  /\ UNCHANGED <<reprints, log, call, copy, tries, dropped>>

(* Nothing to undo is a success, decided when the UPDATE found nobody      *)
(* checked in, as long as the row still exists for the SELECT that         *)
(* follows; the handler publishes on every success.                        *)
UndoFallback(r) ==
  /\ At(r, "undo", "fallback")
  /\ \/ row[Target(r)].deleted /\ Goto(r, "done") /\ Answer(r, "not_found")
     \/ ~row[Target(r)].deleted /\ Goto(r, "publish") /\ Answer(r, "undone")
  /\ UNCHANGED <<row, feed, reprints, log, call, copy, tries, won, unannounced, dropped>>

------------------------------------------------------------------------------
(* POST /events/:id/checkins/batch -- BatchCheckin and ApplyBatchCheckin,  *)
(* one item of kind checkin.  A client uuid is minted for one attendee.    *)

BatchRead(r, a, u) ==
  /\ Receive(r, "batch", a, u)
  /\ \A q \in Requests : call[q].uuid = u => call[q].att = a
  /\ NotFound(r, a) \/ Found(r, a, "logCheck")
  /\ UNCHANGED copy

BatchLogCheck(r) ==
  /\ At(r, "batch", "logCheck")
  /\ \/ call[r].uuid \in log /\ Goto(r, "done") /\ Answer(r, "duplicate")
     \/ call[r].uuid \notin log /\ Goto(r, "exists") /\ UNCHANGED ans
  /\ UNCHANGED <<row, feed, reprints, log, call, copy, tries, won, unannounced, dropped>>

BatchExists(r) ==
  /\ At(r, "batch", "exists")
  /\ \/ row[Target(r)].deleted /\ Goto(r, "done") /\ Answer(r, "not_found")
     \/ ~row[Target(r)].deleted /\ Goto(r, "update") /\ UNCHANGED ans
  /\ UNCHANGED <<row, feed, reprints, log, call, copy, tries, won, unannounced, dropped>>

(* Mutant: the existence check alone decides.                              *)
BatchGuardNoStatus(w) == ~w.deleted
BatchGuard(w) == ~w.status /\ ~w.deleted
BatchSet(w, r, point) ==
  [w EXCEPT !.status = TRUE, !.at = r, !.by = r, !.device = r, !.point = point]

BatchUpdate(r) ==
  LET a == Target(r) IN
  /\ At(r, "batch", "update")
  /\ Goto(r, "logInsert")
  /\ \/ /\ BatchGuard(row[a])
        /\ \E point \in {r, NULL} : row' = [row EXCEPT ![a] = BatchSet(@, r, point)]
        /\ AppendFeed(a, "checkin", r)
        /\ won' = [won EXCEPT ![r] = TRUE]
        /\ Answer(r, "created")
        /\ Visible(a)
     \/ /\ ~BatchGuard(row[a])
        /\ Answer(r, "already_exists")
        /\ UNCHANGED <<row, feed, won, unannounced>>
  /\ UNCHANGED <<reprints, log, call, copy, tries, dropped>>

(* Mutant: an item another request has logged meanwhile is a duplicate.    *)
BatchLogInsertConflicts(r) ==
  /\ At(r, "batch", "logInsert")
  /\ log' = log \cup {call[r].uuid}
  /\ Goto(r, IF won[r] /\ call[r].uuid \notin log THEN "publish" ELSE "done")
  /\ UNCHANGED <<row, feed, reprints, call, copy, tries, won, ans, unannounced, dropped>>

(* INSERT ... ON CONFLICT DO NOTHING, outside the transaction above.  The  *)
(* handler publishes once the batch is through, if it created something.   *)
BatchLogInsert(r) ==
  /\ At(r, "batch", "logInsert")
  /\ log' = log \cup {call[r].uuid}
  /\ Goto(r, IF won[r] THEN "publish" ELSE "done")
  /\ UNCHANGED <<row, feed, reprints, call, copy, tries, won, ans, unannounced, dropped>>

------------------------------------------------------------------------------
(* PUT /attendees/:id -- UpdateAttendeeHandler, and the push half of sync. *)

(* A check-in keeps the time and user already there unless the body brings *)
(* a time; an un-check clears both; device and point are left alone.       *)
PutEdit(w, r, target, explicit) ==
  IF target
  THEN [w EXCEPT !.status = TRUE,
                 !.at = IF explicit \/ w.at = NULL THEN r ELSE @,
                 !.by = IF w.by = NULL THEN r ELSE @]
  ELSE [w EXCEPT !.status = FALSE, !.at = NULL, !.by = NULL]

PutRead(r, a) ==
  /\ Receive(r, "put", a, NULL)
  /\ \/ NotFound(r, a) /\ UNCHANGED copy
     \/ /\ Found(r, a, "transition")
        /\ \E target, explicit \in BOOLEAN :
             copy' = [copy EXCEPT ![r] = PutEdit(row[a], r, target, explicit)]

(* GetAttendeesChangedSince sends neither who checked in nor the device,   *)
(* point, blocked and deleted columns, so they come back at their zero     *)
(* values; an incremental pull includes deleted rows.                      *)
SyncEdit(w, r, target) ==
  [BlankRow EXCEPT !.status = target,
                   !.at = IF ~target THEN NULL ELSE IF w.status THEN w.at ELSE r]

SyncPull(r, a) ==
  /\ Receive(r, "sync", a, NULL)
  /\ \E target \in BOOLEAN : copy' = [copy EXCEPT ![r] = SyncEdit(row[a], r, target)]
  /\ Goto(r, "push")
  /\ UNCHANGED ans

SyncPush(r) ==
  /\ At(r, "sync", "push")
  /\ \/ row[Target(r)].deleted /\ Goto(r, "done") /\ Answer(r, "not_found")
     \/ ~row[Target(r)].deleted /\ Goto(r, "transition") /\ UNCHANGED ans
  /\ UNCHANGED <<row, feed, reprints, log, call, copy, tries, won, unannounced, dropped>>

(* TransitionAttendeeCheckinStatus: the guarded claim of the status flip.  *)
(* Mutant: the flip is taken for granted from the copy the handler loaded. *)
TransitionGuardBlind(w, c) == ~w.deleted
TransitionGuard(w, c) == w.status # c.status /\ ~w.deleted
TransitionSet(w, c) ==
  [w EXCEPT !.status = c.status,
            !.at = IF c.status THEN c.at ELSE NULL,
            !.by = IF c.status THEN c.by ELSE NULL]

Transition(r) ==
  LET a == Target(r) IN
  /\ pc[r] = "transition"
  /\ \/ /\ TransitionGuard(row[a], copy[r])
        /\ row' = [row EXCEPT ![a] = TransitionSet(@, copy[r])]
        /\ won' = [won EXCEPT ![r] = TRUE]
        /\ Visible(a)
        /\ Goto(r, "feed")
     \/ /\ ~TransitionGuard(row[a], copy[r])
        /\ Goto(r, "write")
        /\ UNCHANGED <<row, won, unannounced>>
  /\ UNCHANGED <<feed, reprints, log, call, copy, tries, ans, dropped>>

(* InsertCheckinActionAt, a statement of its own; its failure is logged    *)
(* and the handler goes on.                                                *)
FeedInsert(r) ==
  LET a == Target(r) IN
  /\ pc[r] = "feed"
  /\ \/ AppendFeed(a, IF copy[r].status THEN "checkin" ELSE "undo", r) /\ Visible(a)
     \/ "store" \in Faults /\ UNCHANGED <<feed, unannounced>>
  /\ Goto(r, "write")
  /\ UNCHANGED <<row, reprints, log, call, copy, tries, won, ans, dropped>>

------------------------------------------------------------------------------
(* The handlers that edit one loaded attendee and write the whole row.     *)

Edited(w, op) ==
  CASE op = "info"    -> {w, [w EXCEPT !.blocked = ~w.blocked]}
    [] op = "block"   -> {[w EXCEPT !.blocked = TRUE]}
    [] op = "unblock" -> {[w EXCEPT !.blocked = FALSE]}
    [] op = "delete"  -> {[w EXCEPT !.deleted = TRUE]}
    [] OTHER          -> {w}            \* a code, a registration: other columns

EditRead(r, a) ==
  \E op \in EditOps :
    /\ Receive(r, op, a, NULL)
    /\ \/ NotFound(r, a) /\ UNCHANGED copy
       \/ /\ Found(r, a, "write")
          /\ \E c \in Edited(row[a], op) : copy' = [copy EXCEPT ![r] = c]

(* UpdateAttendee: every column but printed_count, whatever the row has    *)
(* become since it was read.                                               *)
(* Mutant: printed_count round-trips with the other columns.               *)
OverwriteAll(w, c) == c
Overwrite(w, c) == [c EXCEPT !.printed = w.printed]
Shown(w) == <<w.status, w.at, w.deleted>>      \* columns the monitor's queries read

PublishesWrite(r) ==
  \/ call[r].op \in {"info", "delete", "sync"}
  \/ call[r].op = "put" /\ won[r]

WriteRow(r) ==
  LET a == Target(r) IN
  /\ pc[r] = "write"
  /\ row' = [row EXCEPT ![a] = Overwrite(@, copy[r])]
  /\ Answer(r, "ok")
  /\ IF Shown(row'[a]) # Shown(row[a]) \/ call[r].op = "info"
     THEN Visible(a) ELSE UNCHANGED unannounced
  /\ Goto(r, IF PublishesWrite(r) THEN "publish" ELSE "done")
  /\ UNCHANGED <<feed, reprints, log, call, copy, tries, won, dropped>>

(* A failed write skips one item of a sync push; the flip it claimed has   *)
(* already marked the event.                                               *)
SyncWriteFails(r) ==
  /\ At(r, "sync", "write")
  /\ "store" \in Faults
  /\ Answer(r, "ok")
  /\ Goto(r, IF won[r] THEN "publish" ELSE "done")
  /\ UNCHANGED <<row, feed, reprints, log, call, copy, tries, won, unannounced, dropped>>

------------------------------------------------------------------------------
(* POST /attendees/:id/printed -- MarkAttendeePrinted.                     *)

PrintedRead(r, a) ==
  /\ Receive(r, "printed", a, NULL)
  /\ NotFound(r, a) \/ Found(r, a, "increment")
  /\ UNCHANGED copy

PrintedIncrement(r) ==
  LET a == Target(r) IN
  /\ At(r, "printed", "increment")
  /\ \/ /\ row[a].deleted
        /\ Goto(r, "done") /\ Answer(r, "not_found")
        /\ UNCHANGED <<row, won>>
     \/ /\ ~row[a].deleted
        /\ row' = [row EXCEPT ![a].printed = @ + 1]
        /\ won' = [won EXCEPT ![r] = TRUE]
        /\ Answer(r, "ok")
        /\ \E withEvent \in BOOLEAN : Goto(r, IF withEvent THEN "reprint" ELSE "done")
  /\ UNCHANGED <<feed, reprints, log, call, copy, tries, unannounced, dropped>>

(* The reprint row is best effort and only a logged one is published.      *)
ReprintInsert(r) ==
  LET a == Target(r) IN
  /\ At(r, "printed", "reprint")
  /\ \/ /\ reprints' = [reprints EXCEPT ![a] = @ + 1]
        /\ Visible(a)
        /\ Goto(r, "publish")
     \/ /\ "store" \in Faults
        /\ Goto(r, "done")
        /\ UNCHANGED <<reprints, unannounced>>
  /\ UNCHANGED <<row, feed, log, call, copy, tries, won, ans, dropped>>

------------------------------------------------------------------------------
(* publishCheckinEvent, and how requests end early.                        *)

(* A monitor that hears a publish refetches everything committed by then.  *)
Publish(r) ==
  /\ pc[r] = "publish"
  /\ Goto(r, "done")
  /\ \/ unannounced' = {} /\ UNCHANGED dropped
     \/ "publish" \in Faults /\ dropped' = TRUE /\ UNCHANGED unannounced
  /\ UNCHANGED <<row, feed, reprints, log, call, copy, tries, won, ans>>

(* The publishes a request will still issue if nothing goes wrong.         *)
Owes(r) ==
  \/ pc[r] = "publish"
  \/ won[r] /\ pc[r] \in {"feed", "write", "logInsert"}

Ended(r) == pc[r] \in {"done", "failed"}

Crash(r) ==
  /\ "crash" \in Faults
  /\ pc[r] # "new" /\ ~Ended(r)
  /\ Goto(r, "failed")
  /\ dropped' = (dropped \/ Owes(r))
  /\ UNCHANGED <<row, feed, reprints, log, call, copy, tries, won, ans, unannounced>>

(* A statement whose error the handler turns into a 500 or an "error"      *)
(* item, at once: whatever it had committed stays, and is not published.   *)
StoreFails(r) ==
  /\ "store" \in Faults
  /\ pc[r] \notin {"new", "feed", "reprint", "publish"} /\ ~Ended(r)
  /\ ~At(r, "sync", "write")
  /\ Goto(r, "failed")
  /\ UNCHANGED <<row, feed, reprints, log, call, copy, tries, won, ans, unannounced, dropped>>

------------------------------------------------------------------------------
Arrive(r, a) ==
  \/ StationRead(r, a) \/ UndoRead(r, a) \/ PutRead(r, a) \/ SyncPull(r, a)
  \/ EditRead(r, a) \/ PrintedRead(r, a)
  \/ \E u \in Uuids : BatchRead(r, a, u)

Continue(r) ==
  \/ StationUpdate(r) \/ StationFallback(r)
  \/ UndoUpdate(r) \/ UndoFallback(r)
  \/ BatchLogCheck(r) \/ BatchExists(r) \/ BatchUpdate(r) \/ BatchLogInsert(r)
  \/ SyncPush(r) \/ Transition(r) \/ FeedInsert(r)
  \/ WriteRow(r) \/ SyncWriteFails(r)
  \/ PrintedIncrement(r) \/ ReprintInsert(r)
  \/ Publish(r)

Next ==
  \E r \in Requests :
    \/ \E a \in Attendees : Arrive(r, a)
    \/ Continue(r) \/ Crash(r) \/ StoreFails(r)

Spec == Init /\ [][Next]_vars

(* net/http runs a handler to its end, and each statement it waits for is  *)
(* answered or fails; nothing makes a request arrive.                      *)
FairSpec == Spec /\ \A r \in Requests : WF_vars(Continue(r))

------------------------------------------------------------------------------
(* Properties.                                                             *)

Alternates(f) ==
  \A i \in DOMAIN f : IF i = 1 THEN f[i].action = "checkin"
                               ELSE f[i].action # f[i - 1].action
EndsInCheckin(f) == f # << >> /\ f[Len(f)].action = "checkin"

(* The feed tells the attendee's story in order: a check-in, its undo, a   *)
(* check-in, ..., and it ends with a check-in exactly when the row says    *)
(* checked in.  The monitor counts the checkin rows and attributes an      *)
(* attendee by the last row.  The order is that of the commits: created_at *)
(* is not modelled.  It holds where every writer of the status is a        *)
(* guarded UPDATE with its feed row in the same transaction.               *)
FeedMirrorsStatus ==
  \A a \in Attendees :
    Alternates(feed[a]) /\ (row[a].status <=> EndsInCheckin(feed[a]))

(* The time, user, device and point on a checked-in row are all those of   *)
(* the one scan that admitted the attendee, never a mixture of two scans   *)
(* or a leftover of an undone one (the device number of a mobile check-in  *)
(* under a later panel one); a row not checked in carries none.            *)
OneScanPerRow ==
  \A a \in Attendees :
    LET w == row[a]
        q == IF w.status THEN feed[a][Len(feed[a])].req ELSE NULL IN
    /\ w.at = q /\ w.by = q
    /\ w.device \in {q, NULL} /\ w.point \in {q, NULL}

(* printed_count is the number of /printed calls that succeeded: no full-  *)
(* row overwrite from a copy loaded before a print takes one back, and the *)
(* feed never shows more reprints than there were prints.                  *)
Prints(a) == {r \in Requests : call[r].op = "printed" /\ Target(r) = a /\ won[r]}
PrintedExact ==
  \A a \in Attendees :
    /\ row[a].printed = Cardinality(Prints(a))
    /\ reprints[a] <= row[a].printed

(* A change the monitor shows is announced by a publish that follows it,   *)
(* is still going to be by a request in progress, or its publish was tried *)
(* and failed, or died with the process.                                   *)
NothingSilent ==
  \A a \in unannounced : dropped \/ \E r \in Requests : Target(r) = a /\ Owes(r)

(* An answer is decided by what the row is at that very statement, however *)
(* old the handler's own reading is: the station admits nobody blocked,    *)
(* deleted or checked in already, the batch endpoint, whose UPDATE does    *)
(* not look at blocked, nobody deleted or in already, and a refusal names  *)
(* the reason that holds.                                                  *)
TrueVerdict(r) ==
  LET w == row[call'[r].att]
      admissible == ~w.status /\ ~w.deleted IN
  CASE ans'[r] = "checked_in"         -> admissible /\ ~w.blocked /\ row'[Target(r)].status
    [] ans'[r] = "created"            -> admissible /\ row'[Target(r)].status
    [] ans'[r] = "already_checked_in" -> w.status /\ ~w.deleted
    [] ans'[r] = "already_exists"     -> w.status \/ w.deleted
    [] ans'[r] = "blocked"            -> w.blocked /\ ~w.deleted
    [] ans'[r] = "conflict"           -> admissible /\ ~w.blocked /\ tries[r] = MaxAttempts
    [] ans'[r] = "not_found"          -> w.deleted
    [] ans'[r] = "duplicate"          -> call[r].uuid \in log
    [] ans'[r] = "undone"             -> ~w.deleted /\ (pc[r] = "update" => ~row'[Target(r)].status)
    [] OTHER                          -> TRUE
VerdictWasTrue ==
  [][\A r \in Requests : ans'[r] # ans[r] => TrueVerdict(r)]_vars

(* Every request that arrived is answered or fails: the station's retry    *)
(* cannot go on for ever, whoever keeps blocking the attendee.             *)
Answered == \A r \in Requests : (pc[r] # "new") ~> Ended(r)

(* Station, batch and undo together behave as one atomic ledger, each      *)
(* request taking effect at one statement of its own.                      *)
Verdict(answer) ==
  CASE answer = "none"                                  -> "none"
    [] answer \in {"checked_in", "created"}             -> "admitted"
    [] answer \in {"already_checked_in", "already_exists"} -> "already"
    [] answer = "undone"                                -> "cleared"
    [] OTHER                                            -> "refused"

Ledger == INSTANCE CheckinLedger
            WITH holder  <- [a \in Attendees |-> row[a].by],
                 verdict <- [r \in Requests |-> Verdict(ans[r])]

AtomicLedger == Ledger!LedgerSpec

(* What the comments of the code promise and its full-row writes break.    *)

(* "Zero double check-in": two admissions of an attendee always have an    *)
(* undo between them.                                                      *)
NoDoubleCheckin ==
  \A a \in Attendees : \A i \in DOMAIN feed[a] :
    ~(i > 1 /\ feed[a][i - 1].action = "checkin" /\ feed[a][i].action = "checkin")

(* A queued batch item is applied at most once, however often the client   *)
(* sends its client_uuid.                                                  *)
UuidAppliedOnce ==
  \A q, r \in Requests :
    (q # r /\ won[q] /\ won[r] /\ call[q].op = "batch") => call[q].uuid # call[r].uuid
==============================================================================

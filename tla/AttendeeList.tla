------------------------------ MODULE AttendeeList ------------------------------
(***************************************************************************)
(* The panel's attendees page and its bulk bar                             *)
(* (panel/src/features/attendees/AttendeesPage.tsx and BulkBar.tsx): a     *)
(* page of a filtered list, a selection over it, and batches that assign a *)
(* zone, delete or print one attendee after the other.                     *)
(*                                                                         *)
(* Attendees are numbered in list order.  The filter is by check-in status *)
(* and hides those checked in.                                             *)
(***************************************************************************)
EXTENDS Naturals, FiniteSets

CONSTANTS
  Roll, PerPage,   \* attendees, and rows of a page
  MaxListTurns     \* bounds what the operator and others do to the list

ASSUME ListAssumption == Roll \in Nat /\ PerPage \in Nat \ {0} /\ MaxListTurns \in Nat

VARIABLES
  roll,        \* the backend: attendees not deleted
  arrived,     \* those checked in
  listUrl,     \* page and filter in the URL
  fetching,    \* the list request in flight: the count it has read, or none yet
  listData,    \* what the page has for this URL: rows, total, or not loaded
  pickedRows,      \* the checked boxes, kept across pages
  bulkDialog,  \* the dialog of the bulk bar on screen
  batch,       \* the loop running: its kind, who is left, whether its bar still shows it
  tally,       \* the progress the bar shows: of, done, failed, timedOut, unmarked, stopped
  outcomes,    \* what became of the requests of the batch last started, at the other end
  listTurns    \* counter of the bound
listVars == <<roll, arrived, listUrl, fetching, listData, pickedRows, bulkDialog, batch, tally,
              outcomes, listTurns>>

People == 1..Roll
Pages == 1..(Roll + 1)
Kinds == {"assign", "delete", "print"}
Url == [page : Pages, filtered : BOOLEAN]
Unread == Roll + 1
NoData == [loaded |-> FALSE, rows |-> {}, total |-> 0]
NoBatch == [kind |-> "none", of |-> {}, left |-> {}, waits |-> FALSE, shown |-> FALSE]
NoTally == [kind |-> "none", of |-> 0, done |-> 0, failed |-> 0, timedOut |-> 0, unmarked |-> 0,
            stopped |-> FALSE]
Counts == 0..Roll
(* A request was not sent, was answered, came to nothing, or was carried   *)
(* out although the page stopped waiting or lost the connection.           *)
Fates == {"none", "answered", "nothing", "unheard", "cut"}

ListTypeOK ==
  /\ {roll, arrived, pickedRows} \subseteq SUBSET People /\ listUrl \in Url
  /\ fetching \in [on : BOOLEAN, total : 0..Unread]
  /\ listData \in [loaded : BOOLEAN, rows : SUBSET People, total : Counts]
  /\ bulkDialog \in Kinds \cup {"none"}
  /\ batch \in [kind : Kinds \cup {"none"}, of : SUBSET People, left : SUBSET People,
               waits : BOOLEAN, shown : BOOLEAN]
  /\ tally \in [kind : Kinds \cup {"none"}, of : Counts, done : Counts, failed : Counts,
                timedOut : Counts, unmarked : Counts, stopped : BOOLEAN]
  /\ outcomes \in [People -> Fates]
  /\ listTurns \in 0..MaxListTurns

ListInit ==
  /\ roll = People /\ arrived = {} /\ listUrl = [page |-> 1, filtered |-> FALSE]
  /\ fetching = [on |-> TRUE, total |-> Unread] /\ listData = NoData
  /\ pickedRows = {} /\ bulkDialog = "none" /\ batch = NoBatch /\ tally = NoTally
  /\ outcomes = [a \in People |-> "none"] /\ listTurns = 0

ListTurn == listTurns < MaxListTurns /\ listTurns' = listTurns + 1

------------------------------------------------------------------------------
(* AttendeesPage.                                                          *)

Hits == IF listUrl.filtered THEN roll \ arrived ELSE roll
Position(a) == Cardinality({b \in Hits : b <= a})
PageRows(page) == {a \in Hits : PerPage * (page - 1) < Position(a) /\ Position(a) <= PerPage * page}
LastPage(total) == IF total = 0 THEN 1 ELSE (total + PerPage - 1) \div PerPage

BulkShows(rows) == pickedRows' \cap rows # {}
(* The bar unmounts when no selected row is on the page, and a new one     *)
(* knows nothing of the loop the old one started.                          *)
BarEffects ==
  IF BulkShows(listData'.rows) THEN UNCHANGED <<bulkDialog, tally>> /\ batch' = batch
  ELSE bulkDialog' = "none" /\ tally' = NoTally /\ batch' = [batch EXCEPT !.shown = FALSE]

GoTo(url) ==
  /\ url # listUrl /\ listUrl' = url
  /\ listData' = NoData /\ fetching' = [on |-> TRUE, total |-> Unread]
  /\ UNCHANGED pickedRows /\ BarEffects

(* Pager, filter and browser history; a dialog is modal, history is not.   *)
GoToPage(page) ==
  /\ ListTurn /\ bulkDialog = "none" /\ listData.loaded
  /\ page \in 1..LastPage(listData.total)
  /\ GoTo([listUrl EXCEPT !.page = page])
  /\ UNCHANGED <<roll, arrived, outcomes>>
UpdateFilter ==
  /\ ListTurn /\ bulkDialog = "none"
  /\ GoTo([page |-> 1, filtered |-> ~listUrl.filtered])
  /\ UNCHANGED <<roll, arrived, outcomes>>

BrowserBack(url) == ListTurn /\ GoTo(url) /\ UNCHANGED <<roll, arrived, outcomes>>

(* The count and the rows are two statements, not one transaction.         *)
CountRead ==
  /\ fetching.on /\ fetching.total = Unread
  /\ fetching' = [fetching EXCEPT !.total = Cardinality(Hits)]
  /\ UNCHANGED <<roll, arrived, listUrl, listData, pickedRows, bulkDialog, batch, tally, outcomes,
                 listTurns>>

OutOfRange == listData.loaded /\ listData.rows = {} /\ listData.total > 0

(* A request that fails puts the error in the place of the rows.           *)
RowsRead ==
  /\ fetching.on /\ fetching' = [on |-> FALSE, total |-> Unread]
  /\ \/ /\ fetching.total # Unread
        /\ listData' = [loaded |-> TRUE, rows |-> PageRows(listUrl.page), total |-> fetching.total]
     \/ listData' = NoData
  /\ UNCHANGED <<roll, arrived, listUrl, pickedRows, outcomes, listTurns>>
  /\ BarEffects

(* A page past the end: the effect moves to the last page.                 *)
ClampPage ==
  /\ OutOfRange /\ listUrl.page # LastPage(listData.total)
  /\ GoTo([listUrl EXCEPT !.page = LastPage(listData.total)])
  /\ UNCHANGED <<roll, arrived, outcomes, listTurns>>

(* A window focus or an invalidation fetches again behind what is shown.   *)
RefetchPage ==
  /\ ~fetching.on /\ ListTurn /\ fetching' = [on |-> TRUE, total |-> Unread]
  /\ UNCHANGED <<roll, arrived, listUrl, listData, pickedRows, bulkDialog, batch, tally, outcomes>>

ToggleRow(a) ==
  /\ a \in listData.rows /\ bulkDialog = "none" /\ ListTurn
  /\ pickedRows' = IF a \in pickedRows THEN pickedRows \ {a} ELSE pickedRows \cup {a}
  /\ UNCHANGED <<roll, arrived, listUrl, fetching, listData, outcomes>>
  /\ BarEffects
ToggleAll ==
  /\ listData.rows # {} /\ bulkDialog = "none" /\ ListTurn
  /\ pickedRows' = IF listData.rows \subseteq pickedRows THEN pickedRows \ listData.rows
               ELSE pickedRows \cup listData.rows
  /\ UNCHANGED <<roll, arrived, listUrl, fetching, listData, outcomes>>
  /\ BarEffects

OthersAct(a) ==
  /\ ListTurn /\ a \in roll
  /\ \/ roll' = roll \ {a} /\ UNCHANGED arrived
     \/ a \notin arrived /\ arrived' = arrived \cup {a} /\ UNCHANGED roll
  /\ UNCHANGED <<listUrl, fetching, listData, pickedRows, bulkDialog, batch, tally, outcomes>>

------------------------------------------------------------------------------
(* BulkBar.                                                                *)

Selected == pickedRows \cap listData.rows
Running(k) == batch.kind = k /\ batch.shown

OpenBulk(k) ==
  /\ Selected # {} /\ bulkDialog = "none" /\ bulkDialog' = k
  /\ tally' = NoTally
  /\ UNCHANGED <<roll, arrived, listUrl, fetching, listData, pickedRows, batch, outcomes, listTurns>>

(* Closing is ignored while the loop runs, and clears what it counted.     *)
CloseAssign == bulkDialog = "assign" /\ ~Running("assign") /\ tally' = NoTally
CloseDelete == bulkDialog = "delete" /\ ~Running("delete") /\ tally' = NoTally
ClosePrint  == bulkDialog = "print" /\ ~Running("print") /\ tally' = NoTally
CloseBulk ==
  /\ CloseAssign \/ CloseDelete \/ ClosePrint
  /\ bulkDialog' = "none"
  /\ UNCHANGED <<roll, arrived, listUrl, fetching, listData, pickedRows, batch, outcomes, listTurns>>

(* One batch at a time is followed: a second loop starts only once the     *)
(* first has ended.                                                        *)
StartBatch ==
  /\ bulkDialog # "none" /\ Selected # {} /\ batch.kind = "none"
  /\ tally.kind = "none" \/ bulkDialog = "delete"
  /\ batch' = [kind |-> bulkDialog, of |-> Selected, left |-> Selected,
               waits |-> FALSE, shown |-> TRUE]
  /\ tally' = [NoTally EXCEPT !.kind = bulkDialog, !.of = Cardinality(Selected)]
  /\ outcomes' = [a \in People |-> "none"]
  /\ UNCHANGED <<roll, arrived, listUrl, fetching, listData, pickedRows, bulkDialog, listTurns>>

NextOf == CHOOSE a \in batch.left : \A b \in batch.left : a <= b

(* Mutant: a timeout is counted as sent.                                 *)
CountOutcomeTwoWay(result) ==
  tally' = IF ~batch.shown THEN tally
           ELSE [tally EXCEPT !.done = @ + 1,
                   !.failed = IF result = "failed" THEN @ + 1 ELSE @,
                   !.timedOut = @,
                   !.unmarked = IF result = "unmarked" THEN @ + 1 ELSE @]

CountOutcome(result) ==
  tally' = IF ~batch.shown THEN tally
           ELSE [tally EXCEPT !.done = @ + 1,
                   !.failed = IF result = "failed" THEN @ + 1 ELSE @,
                   !.timedOut = IF result = "timeout" THEN @ + 1 ELSE @,
                   !.unmarked = IF result = "unmarked" THEN @ + 1 ELSE @]

(* One request of the loop: what became of it, and what the loop makes of  *)
(* that.  A print may be sent and not marked, or time out; a request whose *)
(* connection breaks is a failure, carried out or not; a delete of someone *)
(* already gone fails.                                                     *)
AssignOne(fate, result) ==
  /\ batch.kind = "assign" /\ UNCHANGED roll
  /\ IF fate = "answered" THEN result = "ok" ELSE fate \in {"nothing", "cut"} /\ result = "failed"
DeleteOne(fate, result) ==
  /\ batch.kind = "delete"
  /\ roll' = IF fate = "nothing" THEN roll ELSE roll \ {NextOf}
  /\ IF fate = "answered" THEN result = "ok" /\ NextOf \in roll
     ELSE fate \in {"nothing", "cut"} /\ result = "failed"
PrintOne(fate, result) ==
  /\ batch.kind = "print" /\ UNCHANGED roll
  /\ CASE fate = "answered" -> result \in {"ok", "unmarked"}
       [] fate = "nothing" -> result \in {"failed", "timeout"}
       [] fate = "unheard" -> result = "timeout"
       [] OTHER -> result = "failed"

BatchStep(fate, result) ==
  /\ batch.left # {}
  /\ batch' = [batch EXCEPT !.left = @ \ {NextOf}]
  /\ outcomes' = [outcomes EXCEPT ![NextOf] = fate]
  /\ AssignOne(fate, result) \/ DeleteOne(fate, result) \/ PrintOne(fate, result)
  /\ CountOutcome(result)
  /\ UNCHANGED <<arrived, listUrl, fetching, listData, pickedRows, bulkDialog, listTurns>>

(* No template, or a font missing: the rest of the batch is not attempted. *)
PrintStops ==
  /\ batch.kind = "print" /\ batch.left # {}
  /\ batch' = [batch EXCEPT !.left = {}]
  /\ tally' = IF batch.shown THEN [tally EXCEPT !.stopped = TRUE] ELSE tally
  /\ UNCHANGED <<roll, arrived, listUrl, fetching, listData, pickedRows, bulkDialog, outcomes, listTurns>>

(* After the loop the list is invalidated and its refetch awaited, unless  *)
(* nothing was attempted; then the running flag is dropped, and a delete   *)
(* without failures closes its dialog.                                     *)
BatchInvalidates ==
  /\ batch.kind # "none" /\ batch.left = {} /\ ~batch.waits
  /\ batch' = [batch EXCEPT !.waits = TRUE]
  /\ fetching' = IF \E a \in People : outcomes[a] # "none" THEN [on |-> TRUE, total |-> Unread]
                 ELSE fetching
  /\ UNCHANGED <<roll, arrived, listUrl, listData, pickedRows, bulkDialog, tally, outcomes, listTurns>>
DeleteCloses == batch.shown /\ batch.kind = "delete" /\ tally.failed = 0
BatchEnds ==
  /\ batch.waits /\ ~fetching.on /\ batch' = NoBatch
  /\ bulkDialog' = IF DeleteCloses THEN "none" ELSE bulkDialog
  /\ UNCHANGED <<roll, arrived, listUrl, fetching, listData, pickedRows, tally, outcomes, listTurns>>

ListNext ==
  \/ \E page \in Pages : GoToPage(page)
  \/ \E url \in Url : BrowserBack(url)
  \/ UpdateFilter \/ CountRead \/ RowsRead \/ ClampPage \/ RefetchPage \/ ToggleAll
  \/ \E a \in People : ToggleRow(a) \/ OthersAct(a)
  \/ \E k \in Kinds : OpenBulk(k)
  \/ CloseBulk \/ StartBatch \/ PrintStops \/ BatchInvalidates \/ BatchEnds
  \/ \E fate \in Fates \ {"none"}, result \in {"ok", "unmarked", "timeout", "failed"} :
       BatchStep(fate, result)

ListSpec == ListInit /\ [][ListNext]_listVars

------------------------------------------------------------------------------
(* How many badges the print dialog says were sent.                        *)
Sent(t) == (IF t.stopped THEN t.done ELSE t.of) - t.failed - t.timedOut

(* What the print dialog says was sent is what the agent acknowledged, in  *)
(* a batch cut short too; and a badge the agent was still busy with when   *)
(* the page stopped waiting is announced as one that may still print,      *)
(* never counted as failed.  (A badge whose connection broke is: the page  *)
(* cannot tell it from one that was refused.)                              *)
With(fates) == Cardinality({a \in People : outcomes[a] \in fates})
TallyHonest ==
  tally.kind = "print" /\ batch.kind = "none" =>
    /\ Sent(tally) = With({"answered"})
    /\ With({"unheard"}) <= tally.timedOut
    /\ With({"cut"}) <= tally.failed /\ tally.failed <= With({"cut", "nothing"})
==============================================================================

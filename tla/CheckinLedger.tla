---------------------------- MODULE CheckinLedger ----------------------------
(***************************************************************************)
(* What the check-in endpoints promise together, as one atomic object.     *)
(*                                                                         *)
(* Each attendee is held by at most one request: the one whose scan        *)
(* admitted them.  A request gets one verdict, given at one instant        *)
(* between its arrival and its answer.  The module knows nothing of rows,  *)
(* guards, fallback queries or feeds: CheckinStore implements it.          *)
(***************************************************************************)
CONSTANTS Attendees, Requests, NULL

VARIABLES
  holder,      \* holder[a]: the request whose scan admitted a, or NULL
  verdict      \* verdict[r]: what request r was told

ledgerVars == <<holder, verdict>>

Verdicts == {"none", "admitted", "already", "cleared", "refused"}

(* Each attendee has one holder or none, each request one verdict.         *)
LedgerTypeOK ==
  /\ holder \in [Attendees -> Requests \cup {NULL}]
  /\ verdict \in [Requests -> Verdicts]

LedgerInit ==
  /\ holder = [a \in Attendees |-> NULL]
  /\ verdict = [r \in Requests |-> "none"]

Tell(r, v) ==
  /\ verdict[r] = "none"
  /\ verdict' = [verdict EXCEPT ![r] = v]

(* A scan of an attendee nobody holds admits them. *)
Admit(r, a) ==
  /\ Tell(r, "admitted")
  /\ holder[a] = NULL
  /\ holder' = [holder EXCEPT ![a] = r]

(* A scan is told "already" only while somebody does hold the attendee. *)
Decline(r, a) ==
  /\ Tell(r, "already")
  /\ holder[a] # NULL
  /\ UNCHANGED holder

(* An undo leaves the attendee held by nobody, whoever held them. *)
Clear(r, a) ==
  /\ Tell(r, "cleared")
  /\ holder' = [holder EXCEPT ![a] = NULL]

(* Not found, blocked, conflict, a replayed batch item, another endpoint. *)
Refuse(r) ==
  /\ Tell(r, "refused")
  /\ UNCHANGED holder

LedgerNext ==
  \E r \in Requests :
    \/ Refuse(r)
    \/ \E a \in Attendees : Admit(r, a) \/ Decline(r, a) \/ Clear(r, a)

LedgerSpec == LedgerInit /\ [][LedgerNext]_ledgerVars
==============================================================================

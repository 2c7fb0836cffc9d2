--------------------------- MODULE CheckinHistory ----------------------------
(***************************************************************************)
(* CheckinStore with one auxiliary variable: who really turned an          *)
(* attendee from not checked in to checked in.  The monitor counts         *)
(* checkin rows; this is what those rows are supposed to count.            *)
(***************************************************************************)
EXTENDS CheckinStore

VARIABLE raised      \* raised[a]: requests one of whose statements raised checkin_status

historyVars == <<vars, raised>>

HistoryInit == Init /\ raised = [a \in Attendees |-> {}]

Raisers(a) ==
  {r \in Requests : Target(r) = a /\ pc'[r] # pc[r] /\ ~row[a].status /\ row'[a].status}

HistoryNext ==
  /\ Next
  /\ raised' = [a \in Attendees |-> raised[a] \cup Raisers(a)]

HistorySpec == HistoryInit /\ [][HistoryNext]_historyVars

(* The monitor's rate, peak and recent scans count checkin rows.  None is  *)
(* there without a statement of its request that really checked the        *)
(* attendee in, and no request leaves two, although the legacy paths claim *)
(* the flip and write the row in separate statements and several of them   *)
(* race on a status they all read as "not checked in".                     *)
NoOvercount ==
  \A a \in Attendees : \A i \in DOMAIN feed[a] :
    /\ feed[a][i].action = "checkin" => feed[a][i].req \in raised[a]
    /\ \A j \in DOMAIN feed[a] : feed[a][j].req = feed[a][i].req => j = i
==============================================================================

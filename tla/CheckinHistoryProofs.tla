------------------------- MODULE CheckinHistoryProofs -------------------------
(***************************************************************************)
(* The feed never counts more check-ins than there were, for every number  *)
(* of attendees, requests and client uuids, with every endpoint in use and *)
(* every fault.                                                            *)
(***************************************************************************)
EXTENDS CheckinHistory, CheckinStoreProofs

(* Steps after the statement that inserts the request's feed row; no way   *)
(* leads back from them.                                                   *)
Inserted == {"logInsert", "write", "publish", "done", "failed"}

(* A request that claimed a flip to checked in, and whose row is still to  *)
(* come, has raised the status; a request that left a row is past the      *)
(* statement that inserts one, so it leaves no second.                     *)
HistoryInv ==
  /\ raised \in [Attendees -> SUBSET Requests]
  /\ \A r \in Requests : (pc[r] = "feed" /\ copy[r].status) => r \in raised[Target(r)]
  /\ \A a \in Attendees : \A i \in DOMAIN feed[a] : pc[feed[a][i].req] \in Inserted
  /\ NoOvercount

(* What a step of one request does to the feed: nothing, or one row of its *)
(* own request, which is a check-in only if the request raised the status. *)
OneRow(r, a) ==
  \/ feed' = feed
  \/ /\ pc[r] \notin Inserted /\ pc'[r] \in Inserted
     /\ \E action \in {"checkin", "undo"} :
          /\ feed' = [feed EXCEPT ![a] = Append(@, [action |-> action, req |-> r])]
          /\ action = "checkin" => r \in raised'[a]

(* A step that appends at most one such row, and lets no request back      *)
(* before its insertion, keeps the invariant.                              *)
LEMMA OneRowKeeps ==
  ASSUME IInv, HistoryInv, NEW r \in Requests, NEW a \in Attendees, OneRow(r, a),
         raised' \in [Attendees -> SUBSET Requests],
         \A b \in Attendees : raised[b] \subseteq raised'[b],
         \A q \in Requests : pc[q] \in Inserted => pc'[q] \in Inserted
  PROVE  /\ \A b \in Attendees : \A i \in DOMAIN feed'[b] : pc'[feed'[b][i].req] \in Inserted
         /\ NoOvercount'
<1>0. \A b \in Attendees : /\ feed[b] \in Seq(FeedRow) /\ DOMAIN feed[b] = 1..Len(feed[b])
                          /\ \A i \in DOMAIN feed[b] : feed[b][i].req \in Requests
  <2> TAKE b \in Attendees
  <2>1. feed[b] \in Seq(FeedRow)
    BY DEF IInv, TypeOK
  <2>2. DOMAIN feed[b] = 1..Len(feed[b]) /\ \A i \in DOMAIN feed[b] : feed[b][i] \in FeedRow
    BY <2>1
  <2> QED
    BY <2>1, <2>2 DEF FeedRow
<1>1. CASE feed' = feed
  BY <1>0, <1>1 DEF HistoryInv, NoOvercount
<1>2. CASE feed' # feed
  <2>1. PICK action \in {"checkin", "undo"} :
          /\ feed' = [feed EXCEPT ![a] = Append(feed[a], [action |-> action, req |-> r])]
          /\ action = "checkin" => r \in raised'[a]
    BY <1>2 DEF OneRow
  <2>2. pc[r] \notin Inserted /\ pc'[r] \in Inserted
    BY <1>2 DEF OneRow
  <2>3. \A b \in Attendees \ {a} : feed'[b] = feed[b]
    BY <2>1 DEF IInv, TypeOK
  <2>4. feed'[a] = Append(feed[a], [action |-> action, req |-> r])
    BY <2>1 DEF IInv, TypeOK
  <2>5. /\ DOMAIN feed'[a] = 1..(Len(feed[a]) + 1)
        /\ \A i \in 1..Len(feed[a]) : feed'[a][i] = feed[a][i]
        /\ feed'[a][Len(feed[a]) + 1] = [action |-> action, req |-> r]
        /\ Len(feed[a]) \in Nat
    BY <1>0, <2>4
  <2>6. \A i \in 1..Len(feed[a]) : feed[a][i].req # r
    BY <1>0, <2>2 DEF HistoryInv
  <2>7. \A i \in DOMAIN feed'[a] : i \in 1..Len(feed[a]) \/ i = Len(feed[a]) + 1
    BY <2>5
  <2>8. ASSUME NEW b \in Attendees, NEW i \in DOMAIN feed'[b]
        PROVE  pc'[feed'[b][i].req] \in Inserted
    <3>1. CASE b = a
      <4>1. CASE i \in 1..Len(feed[a])
        <5>1. feed'[b][i] = feed[a][i] /\ feed[a][i].req \in Requests
          BY <1>0, <2>5, <3>1, <4>1
        <5>2. pc[feed[a][i].req] \in Inserted
          BY <1>0, <4>1 DEF HistoryInv
        <5> QED
          BY <5>1, <5>2
      <4>2. CASE i = Len(feed[a]) + 1
        <5>1. feed'[b][i].req = r
          BY <2>5, <3>1, <4>2
        <5> QED
          BY <2>2, <5>1
      <4> QED
        BY <2>7, <2>8, <3>1, <4>1, <4>2
    <3>2. CASE b # a
      BY <1>0, <2>3, <2>8, <3>2 DEF HistoryInv
    <3> QED
      BY <3>1, <3>2
  <2>9. ASSUME NEW b \in Attendees, NEW i \in DOMAIN feed'[b]
        PROVE  /\ feed'[b][i].action = "checkin" => feed'[b][i].req \in raised'[b]
               /\ \A j \in DOMAIN feed'[b] : feed'[b][j].req = feed'[b][i].req => j = i
    <3>1. CASE b = a
      <4>1. CASE i = Len(feed[a]) + 1
        BY <2>1, <2>5, <2>6, <2>7, <3>1, <4>1
      <4>2. CASE i \in 1..Len(feed[a])
        <5>1. /\ feed[a][i].action = "checkin" => feed[a][i].req \in raised[a]
              /\ \A j \in DOMAIN feed[a] : feed[a][j].req = feed[a][i].req => j = i
          BY <1>0, <4>2 DEF HistoryInv, NoOvercount
        <5> QED
          BY <1>0, <2>5, <2>6, <2>7, <3>1, <4>2, <5>1
      <4> QED
        BY <2>7, <2>9, <3>1, <4>1, <4>2
    <3>2. CASE b # a
      BY <1>0, <2>3, <2>9, <3>2 DEF HistoryInv, NoOvercount
    <3> QED
      BY <3>1, <3>2
  <2> QED
    BY <2>8, <2>9 DEF NoOvercount
<1> QED
  BY <1>1, <1>2

(* The history only grows, by requests that moved.                         *)
LEMMA RaisedGrows ==
  ASSUME HistoryInv, HistoryNext
  PROVE  /\ raised' \in [Attendees -> SUBSET Requests]
         /\ \A a \in Attendees : raised[a] \subseteq raised'[a]
         /\ \A a \in Attendees, r \in Requests :
              (Target(r) = a /\ pc'[r] # pc[r] /\ ~row[a].status /\ row'[a].status)
                => r \in raised'[a]
  BY DEF HistoryInv, HistoryNext, Raisers

(* No statement leads back before the insertion.                           *)
LEMMA NoWayBack ==
  ASSUME IInv, Next, NEW q \in Requests, pc[q] \in Inserted
  PROVE  pc'[q] \in Inserted
<1>1. ASSUME NEW r \in Requests, NEW a \in Attendees, Arrive(r, a) PROVE pc'[q] \in Inserted
  <2>1. pc[r] = "new" /\ \E s \in Steps : pc' = [pc EXCEPT ![r] = s]
    BY <1>1 DEF Arrive, StationRead, UndoRead, PutRead, SyncPull, EditRead, PrintedRead, BatchRead,
                Receive, NotFound, Refused, Found, Goto, Steps
  <2> QED
    BY <2>1 DEF IInv, TypeOK, Inserted
<1>2. ASSUME NEW r \in Requests, Continue(r) PROVE pc'[q] \in Inserted
  BY <1>2 DEF IInv, TypeOK, Inserted, Continue, StationUpdate, StationFallback, UndoUpdate,
         UndoFallback, BatchLogCheck, BatchExists, BatchUpdate, BatchLogInsert, SyncPush, Transition,
         FeedInsert, WriteRow, SyncWriteFails, PrintedIncrement, ReprintInsert, Publish, At, Goto
<1>3. ASSUME NEW r \in Requests, Crash(r) \/ StoreFails(r) PROVE pc'[q] \in Inserted
  BY <1>3 DEF IInv, TypeOK, Inserted, Crash, StoreFails, Goto
<1> QED
  BY <1>1, <1>2, <1>3 DEF Next

(* The three statements that insert a row with the UPDATE it records, and  *)
(* the one that inserts it afterwards.                                     *)
LEMMA ContinueOneRow ==
  ASSUME IInv, HistoryInv, NEW r \in Requests, Continue(r), HistoryNext
  PROVE  OneRow(r, Target(r))
<1>0. /\ Target(r) \in Attendees /\ row[Target(r)] \in Row /\ copy[r] \in Row /\ TypeOK
  BY TargetRow DEF IInv
<1>1. CASE StationUpdate(r) /\ StationGuard(row[Target(r)])
  <2>1. PICK point \in {r, NULL} : row' = [row EXCEPT ![Target(r)] = StationSet(row[Target(r)], r, point)]
    BY <1>1 DEF StationUpdate
  <2>2. StationSet(row[Target(r)], r, point).status
    BY <1>0 DEF StationSet, Row
  <2>3. row'[Target(r)].status /\ ~row[Target(r)].status
    BY <1>0, <1>1, <2>1, <2>2 DEF TypeOK, StationGuard
  <2>4. pc[r] = "update" /\ pc'[r] = "publish"
    BY <1>0, <1>1 DEF TypeOK, StationUpdate, At, Goto
  <2>5. r \in raised'[Target(r)]
    BY <1>0, <2>3, <2>4, RaisedGrows
  <2>6. feed' = [feed EXCEPT ![Target(r)] = Append(@, [action |-> "checkin", req |-> r])]
    BY <1>1 DEF StationUpdate, AppendFeed
  <2> QED
    BY <2>4, <2>5, <2>6 DEF OneRow, Inserted
<1>2. CASE BatchUpdate(r) /\ BatchGuard(row[Target(r)])
  <2>1. PICK point \in {r, NULL} : row' = [row EXCEPT ![Target(r)] = BatchSet(row[Target(r)], r, point)]
    BY <1>2 DEF BatchUpdate
  <2>2. BatchSet(row[Target(r)], r, point).status
    BY <1>0 DEF BatchSet, Row
  <2>3. row'[Target(r)].status /\ ~row[Target(r)].status
    BY <1>0, <1>2, <2>1, <2>2 DEF TypeOK, BatchGuard
  <2>4. pc[r] = "update" /\ pc'[r] = "logInsert"
    BY <1>0, <1>2 DEF TypeOK, BatchUpdate, At, Goto
  <2>5. r \in raised'[Target(r)]
    BY <1>0, <2>3, <2>4, RaisedGrows
  <2>6. feed' = [feed EXCEPT ![Target(r)] = Append(@, [action |-> "checkin", req |-> r])]
    BY <1>2 DEF BatchUpdate, AppendFeed
  <2> QED
    BY <2>4, <2>5, <2>6 DEF OneRow, Inserted
<1>3. CASE UndoUpdate(r) /\ UndoGuard(row[Target(r)])
  <2>1. pc[r] = "update" /\ pc'[r] = "publish"
    BY <1>0, <1>3 DEF TypeOK, UndoUpdate, At, Goto
  <2>2. feed' = [feed EXCEPT ![Target(r)] = Append(@, [action |-> "undo", req |-> r])]
    BY <1>3 DEF UndoUpdate, AppendFeed
  <2> QED
    BY <2>1, <2>2 DEF OneRow, Inserted
<1>4. CASE FeedInsert(r)
  <2>1. pc[r] = "feed" /\ pc'[r] = "write"
    BY <1>0, <1>4 DEF TypeOK, FeedInsert, Goto
  <2>2. copy[r].status => r \in raised'[Target(r)]
    BY <1>0, <2>1, RaisedGrows DEF HistoryInv
  <2>3. CASE feed' = feed
    BY <2>3 DEF OneRow
  <2>4. CASE feed' # feed
    <3>1. AppendFeed(Target(r), IF copy[r].status THEN "checkin" ELSE "undo", r)
      BY <1>4, <2>4 DEF FeedInsert
    <3>2. CASE copy[r].status
      <4>1. feed' = [feed EXCEPT ![Target(r)] = Append(@, [action |-> "checkin", req |-> r])]
        BY <3>1, <3>2 DEF AppendFeed
      <4> QED
        BY <2>1, <2>2, <3>2, <4>1 DEF OneRow, Inserted
    <3>3. CASE ~copy[r].status
      <4>1. feed' = [feed EXCEPT ![Target(r)] = Append(@, [action |-> "undo", req |-> r])]
        BY <3>1, <3>3 DEF AppendFeed
      <4> QED
        BY <2>1, <4>1 DEF OneRow, Inserted
    <3> QED
      BY <3>2, <3>3
  <2> QED
    BY <2>3, <2>4
<1>5. CASE feed' = feed
  BY <1>5 DEF OneRow
<1> QED
  BY <1>1, <1>2, <1>3, <1>4, <1>5
     DEF Continue, StationUpdate, StationFallback, UndoUpdate, UndoFallback, BatchLogCheck,
         BatchExists, BatchUpdate, BatchLogInsert, SyncPush, Transition, WriteRow, SyncWriteFails,
         PrintedIncrement, ReprintInsert, Publish

(* A request waits at its feed insertion only after claiming the flip.     *)
LEMMA ClaimRaises ==
  ASSUME IInv, HistoryInv, HistoryNext, NEW q \in Requests, pc'[q] = "feed", copy'[q].status
  PROVE  q \in raised'[Target(q)']
<1> USE DEF Target
<1>1. ASSUME NEW r \in Requests, NEW a \in Attendees, Arrive(r, a) PROVE q \in raised'[Target(q)']
  <2>1. /\ \A p \in Requests \ {r} : call'[p] = call[p] /\ pc'[p] = pc[p] /\ copy'[p] = copy[p]
        /\ pc'[r] # "feed"
    BY <1>1 DEF IInv, TypeOK, Arrive, StationRead, UndoRead, PutRead, SyncPull, EditRead, PrintedRead,
         BatchRead, Receive, NotFound, Refused, Found, Goto
  <2>2. pc[q] = "feed" /\ copy[q].status /\ Target(q)' = Target(q)
    BY <2>1
  <2>3. Target(q) \in Attendees
    BY <2>2 DEF IInv, ControlOK
  <2> QED
    BY <2>2, <2>3, RaisedGrows DEF HistoryInv
<1>2. ASSUME NEW r \in Requests, Continue(r) PROVE q \in raised'[Target(q)']
  <2>0. call' = call /\ copy' = copy /\ TypeOK /\ Target(r) \in Attendees /\ row[Target(r)] \in Row
        /\ copy[r] \in Row
    BY <1>2, TargetRow DEF IInv, Continue, StationUpdate, StationFallback, UndoUpdate, UndoFallback,
         BatchLogCheck, BatchExists, BatchUpdate, BatchLogInsert, SyncPush, Transition, FeedInsert,
         WriteRow, SyncWriteFails, PrintedIncrement, ReprintInsert, Publish
  <2>1. CASE pc[q] = "feed"
    <3>1. Target(q) \in Attendees
      BY <2>1 DEF IInv, ControlOK
    <3> QED
      BY <2>0, <2>1, <3>1, RaisedGrows DEF HistoryInv
  <2>2. CASE pc[q] # "feed"
    <3>1. q = r /\ Transition(r)
      BY <1>2, <2>0, <2>2 DEF TypeOK, Continue, StationUpdate, StationFallback, UndoUpdate, UndoFallback,
         BatchLogCheck, BatchExists, BatchUpdate, BatchLogInsert, SyncPush, FeedInsert, Transition,
         WriteRow, SyncWriteFails, PrintedIncrement, ReprintInsert, Publish, Goto
    <3>2. TransitionGuard(row[Target(r)], copy[r])
          /\ row' = [row EXCEPT ![Target(r)] = TransitionSet(row[Target(r)], copy[r])]
      BY <2>0, <3>1 DEF TypeOK, Transition, Goto
    <3>3. TransitionSet(row[Target(r)], copy[r]).status
      BY <2>0, <3>1 DEF TransitionSet, Row
    <3>4. row'[Target(r)].status /\ ~row[Target(r)].status
      BY <2>0, <3>1, <3>2, <3>3 DEF TypeOK, TransitionGuard, Row
    <3> QED
      BY <2>0, <2>2, <3>1, <3>4, RaisedGrows
  <2> QED
    BY <2>1, <2>2
<1>3. ASSUME NEW r \in Requests, Crash(r) \/ StoreFails(r) PROVE q \in raised'[Target(q)']
  <2>1. pc[q] = "feed" /\ copy[q].status /\ Target(q)' = Target(q) /\ Target(q) \in Attendees
    BY <1>3 DEF IInv, TypeOK, ControlOK, Crash, StoreFails, Goto
  <2> QED
    BY <2>1, RaisedGrows DEF HistoryInv
<1> QED
  BY <1>1, <1>2, <1>3 DEF HistoryNext, Next

LEMMA HistoryNextInv == IInv /\ HistoryInv /\ [HistoryNext]_historyVars => HistoryInv'
<1> SUFFICES ASSUME IInv, HistoryInv, [HistoryNext]_historyVars PROVE HistoryInv'
  OBVIOUS
<1>1. CASE HistoryNext
  <2>1. \A q \in Requests : pc[q] \in Inserted => pc'[q] \in Inserted
    BY <1>1, NoWayBack DEF HistoryNext
  <2>2. ASSUME NEW r \in Requests, NEW a \in Attendees, OneRow(r, a) PROVE HistoryInv'
    <3>1. /\ \A b \in Attendees : \A i \in DOMAIN feed'[b] : pc'[feed'[b][i].req] \in Inserted
          /\ NoOvercount'
      BY <1>1, <2>1, <2>2, RaisedGrows, OneRowKeeps
    <3>2. \A q \in Requests : pc'[q] = "feed" /\ copy'[q].status => q \in raised'[Target(q)']
      BY <1>1, ClaimRaises
    <3> QED
      BY <1>1, <3>1, <3>2, RaisedGrows DEF HistoryInv, Target
  <2>3. ASSUME NEW r \in Requests, NEW a \in Attendees, Arrive(r, a) PROVE OneRow(r, a)
    BY <2>3 DEF OneRow, Arrive, StationRead, UndoRead, PutRead, SyncPull, EditRead, PrintedRead,
                BatchRead, Receive
  <2>4. ASSUME NEW r \in Requests, Continue(r)
        PROVE  Target(r) \in Attendees /\ OneRow(r, Target(r))
    BY <1>1, <2>4, TargetRow, ContinueOneRow
  <2>5. ASSUME NEW r \in Requests, Crash(r) \/ StoreFails(r)
        PROVE  \E a \in Attendees : OneRow(r, a)
    <3>1. feed' = feed /\ Target(r) \in Attendees
      BY <2>5 DEF IInv, ControlOK, Crash, StoreFails, Target
    <3> QED
      BY <3>1 DEF OneRow
  <2> QED
    BY <1>1, <2>2, <2>3, <2>4, <2>5 DEF HistoryNext, Next
<1>2. CASE UNCHANGED historyVars
  BY <1>2 DEF historyVars, vars, HistoryInv, NoOvercount, Target
<1> QED
  BY <1>1, <1>2

(* Every checkin row of the feed is of a request that really checked the   *)
(* attendee in, and no request leaves two rows: the legacy paths, which    *)
(* claim the flip, log it and write the row in three statements, lose rows *)
(* but never invent one.                                                   *)
THEOREM FeedNeverOvercounts == HistorySpec => []NoOvercount
<1>1. HistoryInit => HistoryInv
  <2> SUFFICES ASSUME HistoryInit PROVE HistoryInv
    OBVIOUS
  <2>1. /\ raised = [a \in Attendees |-> {}] /\ feed = [a \in Attendees |-> << >>]
        /\ pc = [r \in Requests |-> "new"]
    BY DEF HistoryInit, Init
  <2>2. \A a \in Attendees : DOMAIN feed[a] = {}
    BY <2>1
  <2> QED
    BY <2>1, <2>2 DEF HistoryInv, NoOvercount
<1>2. HistoryInit => IInv
  BY InitType, InitControl DEF IInv, HistoryInit
<1>3. IInv /\ [HistoryNext]_historyVars => IInv'
  BY NextInv DEF HistoryNext, historyVars
<1>4. HistoryInv => NoOvercount
  BY DEF HistoryInv
<1> QED
  BY <1>1, <1>2, <1>3, <1>4, HistoryNextInv, PTL DEF HistorySpec
===============================================================================

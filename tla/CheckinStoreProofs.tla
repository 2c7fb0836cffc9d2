-------------------------- MODULE CheckinStoreProofs --------------------------
(***************************************************************************)
(* Theorems about CheckinStore, for every number of attendees, requests    *)
(* and client uuids.                                                       *)
(***************************************************************************)
EXTENDS CheckinStore, FiniteSetTheorems, TLAPS

(* Where a request can be, and what is known of it there.                  *)
ControlOK ==
  \A r \in Requests :
    /\ pc[r] = "new" => call[r] = BlankCall /\ ~won[r] /\ ans[r] = "none" /\ tries[r] = 0
    /\ pc[r] # "new" => call[r].op \in Ops /\ call[r].att \in Attendees
    /\ call[r].op = "batch" => call[r].uuid \in Uuids
    /\ pc[r] \in {"update", "logCheck", "exists"} => tries[r] < MaxAttempts
    /\ pc[r] \in {"transition", "feed"} => call[r].op \in {"put", "sync"}
    /\ pc[r] = "write" => call[r].op \in LegacyOps
    /\ pc[r] = "feed" => won[r]
    /\ pc[r] \in {"update", "fallback", "logCheck", "exists", "push", "transition", "increment"}
         => ~won[r]

IInv == TypeOK /\ ControlOK

LEMMA InitType == Init => TypeOK
<1> SUFFICES ASSUME Init PROVE TypeOK
  OBVIOUS
<1>1. BlankRow \in Row /\ \A b \in BOOLEAN : [BlankRow EXCEPT !.blocked = b] \in Row
  BY DEF BlankRow, Row, Stamp
<1>2. BlankCall \in Call
  BY DEF BlankCall, Call
<1>3. row \in [Attendees -> Row]
  <2>1. \A b \in BOOLEAN : [BlankRow EXCEPT !.blocked = b] \in Row
    BY <1>1
  <2>2. {[BlankRow EXCEPT !.blocked = b] : b \in BOOLEAN} \subseteq Row
    BY ONLY <2>1
  <2>3. row \in [Attendees -> {[BlankRow EXCEPT !.blocked = b] : b \in BOOLEAN}]
    BY DEF Init
  <2> HIDE DEF Row
  <2> QED
    BY ONLY <2>2, <2>3
<1>4. copy \in [Requests -> Row]
  BY <1>1 DEF Init
<1>5. feed \in [Attendees -> Seq(FeedRow)] /\ call \in [Requests -> Call]
  BY <1>2 DEF Init
<1>6. /\ reprints \in [Attendees -> Nat] /\ log \in SUBSET Uuids
      /\ tries \in [Requests -> 0..MaxAttempts] /\ unannounced \in SUBSET Attendees
  BY DEF Init, MaxAttempts
<1>8. won \in [Requests -> BOOLEAN] /\ dropped \in BOOLEAN
  BY Zenon DEF Init
<1>7. pc \in [Requests -> Steps] /\ ans \in [Requests -> Answers]
  BY DEF Init, Steps, Answers
<1> QED
  BY <1>3, <1>4, <1>5, <1>6, <1>7, <1>8 DEF TypeOK

LEMMA InitControl == Init => ControlOK
  BY DEF Init, ControlOK, BlankCall, MaxAttempts

(* Every branch of an arriving request leaves the tables as they were.     *)
LEMMA ArriveType ==
  ASSUME TypeOK, NEW r \in Requests, NEW a \in Attendees, Arrive(r, a)
  PROVE  TypeOK'
<1>1. row' = row /\ feed' = feed /\ reprints' = reprints /\ log' = log /\ tries' = tries
      /\ won' = won /\ unannounced' = unannounced /\ dropped' = dropped
  BY DEF Arrive, StationRead, UndoRead, PutRead, SyncPull, EditRead, PrintedRead, BatchRead, Receive
<1>2. call' \in [Requests -> Call]
  <2>1. \E op \in Ops, u \in Uuids \cup {NULL} :
          call' = [call EXCEPT ![r] = [op |-> op, att |-> a, uuid |-> u]]
    BY DEF Arrive, StationRead, UndoRead, PutRead, SyncPull, EditRead, PrintedRead, BatchRead, Receive
  <2> QED
    BY <2>1, OpsAssumption DEF TypeOK, Call
<1>3. pc' \in [Requests -> Steps] /\ ans' \in [Requests -> Answers]
  BY DEF TypeOK, Steps, Answers, Arrive, StationRead, UndoRead, PutRead, SyncPull, EditRead,
         PrintedRead, BatchRead, NotFound, Refused, Found, Goto, Answer
<1>4. copy' \in [Requests -> Row]
  <2>1. row[a] \in Row
    BY DEF TypeOK
  <2>2. \A t, e \in BOOLEAN : PutEdit(row[a], r, t, e) \in Row
    BY <2>1 DEF PutEdit, Row, Stamp
  <2>3. \A t \in BOOLEAN : SyncEdit(row[a], r, t) \in Row
    BY <2>1 DEF SyncEdit, BlankRow, Row, Stamp
  <2>4. \A op \in EditOps : \A c \in Edited(row[a], op) : c \in Row
    BY <2>1 DEF Edited, EditOps, Row, Stamp
  <2>5. copy' = copy \/ \E c \in Row : copy' = [copy EXCEPT ![r] = c]
    BY <2>2, <2>3, <2>4 DEF Arrive, StationRead, UndoRead, PutRead, SyncPull, EditRead,
                            PrintedRead, BatchRead
  <2> QED
    BY <2>5 DEF TypeOK
<1> QED
  BY <1>1, <1>2, <1>3, <1>4 DEF TypeOK

(* The statements that write the attendee's row leave it well formed.      *)
LEMMA SetsAreRows ==
  ASSUME NEW w \in Row, NEW c \in Row, NEW r \in Requests, NEW point \in {r, NULL}
  PROVE  /\ StationSet(w, r, point) \in Row
         /\ BatchSet(w, r, point) \in Row
         /\ UndoSet(w) \in Row
         /\ TransitionSet(w, c) \in Row
         /\ Overwrite(w, c) \in Row
<1>1. StationSet(w, r, point) \in Row
  BY DEF StationSet, Row, Stamp
<1>2. BatchSet(w, r, point) \in Row
  BY DEF BatchSet, Row, Stamp
<1>3. UndoSet(w) \in Row
  BY DEF UndoSet, Row, Stamp
<1>4. TransitionSet(w, c) \in Row /\ Overwrite(w, c) \in Row
  BY DEF TransitionSet, Overwrite, Row, Stamp
<1> QED
  BY <1>1, <1>2, <1>3, <1>4

(* A request in progress has its attendee.                                 *)
LEMMA TargetRow ==
  ASSUME IInv, NEW r \in Requests, Continue(r)
  PROVE  /\ Target(r) \in Attendees /\ row[Target(r)] \in Row /\ copy[r] \in Row
         /\ pc[r] # "new" /\ call[r].op \in Ops
<1>1. pc[r] # "new"
  BY DEF Continue, StationUpdate, StationFallback, UndoUpdate, UndoFallback, BatchLogCheck,
         BatchExists, BatchUpdate, BatchLogInsert, SyncPush, Transition, FeedInsert, WriteRow,
         SyncWriteFails, PrintedIncrement, ReprintInsert, Publish, At
<1> QED
  BY <1>1 DEF IInv, ControlOK, TypeOK, Target

LEMMA ContinueType ==
  ASSUME IInv, NEW r \in Requests, Continue(r)
  PROVE  TypeOK'
<1> DEFINE a == call[r].att
<1>0. TypeOK /\ a \in Attendees /\ row[a] \in Row /\ copy[r] \in Row
  BY TargetRow DEF IInv, Target
<1>1. row' \in [Attendees -> Row]
  <2>1. row' = row \/ \E w \in Row : row' = [row EXCEPT ![a] = w]
    <3>1. CASE StationUpdate(r)
      BY <1>0, <3>1, SetsAreRows DEF StationUpdate, Target
    <3>2. CASE UndoUpdate(r)
      BY <1>0, <3>2, SetsAreRows DEF UndoUpdate, Target
    <3>3. CASE BatchUpdate(r)
      BY <1>0, <3>3, SetsAreRows DEF BatchUpdate, Target
    <3>4. CASE Transition(r)
      BY <1>0, <3>4, SetsAreRows DEF Transition, Target
    <3>5. CASE WriteRow(r)
      BY <1>0, <3>5, SetsAreRows DEF WriteRow, Target
    <3>6. CASE PrintedIncrement(r)
      <4>1. [row[a] EXCEPT !.printed = @ + 1] \in Row
        BY <1>0 DEF Row
      <4> QED
        BY <1>0, <3>6, <4>1 DEF PrintedIncrement, Target
    <3> QED
      BY <3>1, <3>2, <3>3, <3>4, <3>5, <3>6
         DEF Continue, StationFallback, UndoFallback, BatchLogCheck, BatchExists, BatchLogInsert,
             SyncPush, FeedInsert, SyncWriteFails, ReprintInsert, Publish
  <2> QED
    BY <1>0, <2>1 DEF TypeOK
<1>2. feed' \in [Attendees -> Seq(FeedRow)]
  <2>1. feed' = feed \/ \E x \in FeedRow : feed' = [feed EXCEPT ![a] = Append(@, x)]
    BY DEF Continue, StationUpdate, StationFallback, UndoUpdate, UndoFallback, BatchLogCheck,
           BatchExists, BatchUpdate, BatchLogInsert, SyncPush, Transition, FeedInsert, WriteRow,
           SyncWriteFails, PrintedIncrement, ReprintInsert, Publish, AppendFeed, FeedRow, Target
  <2>2. ASSUME NEW x \in FeedRow PROVE Append(feed[a], x) \in Seq(FeedRow)
    BY <1>0 DEF TypeOK
  <2> QED
    BY <1>0, <2>1, <2>2 DEF TypeOK
<1>3. reprints' \in [Attendees -> Nat]
  BY <1>0 DEF TypeOK, Continue, StationUpdate, StationFallback, UndoUpdate, UndoFallback,
         BatchLogCheck, BatchExists, BatchUpdate, BatchLogInsert, SyncPush, Transition,
         FeedInsert, WriteRow, SyncWriteFails, PrintedIncrement, ReprintInsert, Publish
<1>8. log' \in SUBSET Uuids
  <2>1. log' = log \/ (call[r].op = "batch" /\ log' = log \cup {call[r].uuid})
    BY DEF At, Continue, StationUpdate, StationFallback, UndoUpdate, UndoFallback,
         BatchLogCheck, BatchExists, BatchUpdate, BatchLogInsert, SyncPush, Transition,
         FeedInsert, WriteRow, SyncWriteFails, PrintedIncrement, ReprintInsert, Publish
  <2> QED
    BY <1>0, <2>1 DEF IInv, ControlOK, TypeOK
<1>4. pc' \in [Requests -> Steps] /\ ans' \in [Requests -> Answers]
  BY <1>0 DEF TypeOK, Steps, Answers, Goto, Answer, Continue, StationUpdate, StationFallback,
         UndoUpdate, UndoFallback, BatchLogCheck, BatchExists, BatchUpdate, BatchLogInsert,
         SyncPush, Transition, FeedInsert, WriteRow, SyncWriteFails, PrintedIncrement,
         ReprintInsert, Publish
<1>5. call' = call /\ copy' = copy
  BY DEF Continue, StationUpdate, StationFallback, UndoUpdate, UndoFallback, BatchLogCheck,
         BatchExists, BatchUpdate, BatchLogInsert, SyncPush, Transition, FeedInsert, WriteRow,
         SyncWriteFails, PrintedIncrement, ReprintInsert, Publish
<1>6. won' \in [Requests -> BOOLEAN] /\ unannounced' \in SUBSET Attendees /\ dropped' \in BOOLEAN
  BY <1>0 DEF TypeOK, Visible, Target, Continue, StationUpdate, StationFallback, UndoUpdate,
         UndoFallback, BatchLogCheck, BatchExists, BatchUpdate, BatchLogInsert, SyncPush,
         Transition, FeedInsert, WriteRow, SyncWriteFails, PrintedIncrement, ReprintInsert, Publish
<1>7. tries' \in [Requests -> 0..MaxAttempts]
  <2>1. CASE StationUpdate(r)
    <3>1. tries[r] \in 0..MaxAttempts /\ tries[r] < MaxAttempts
      BY <1>0, <2>1 DEF StationUpdate, At, IInv, ControlOK, TypeOK
    <3>2. tries[r] + 1 \in 0..MaxAttempts
      BY <3>1 DEF MaxAttempts
    <3> QED
      BY <1>0, <2>1, <3>2 DEF StationUpdate, TypeOK
  <2>2. CASE tries' = tries
    BY <1>0, <2>2 DEF TypeOK
  <2> QED
    BY <2>1, <2>2 DEF Continue, StationFallback, UndoUpdate, UndoFallback, BatchLogCheck,
         BatchExists, BatchUpdate, BatchLogInsert, SyncPush, Transition, FeedInsert, WriteRow,
         SyncWriteFails, PrintedIncrement, ReprintInsert, Publish
<1> QED
  BY <1>0, <1>1, <1>2, <1>3, <1>4, <1>5, <1>6, <1>7, <1>8 DEF TypeOK

(* Control: where a request goes from each statement.                      *)
LEMMA ArriveControl ==
  ASSUME IInv, NEW r \in Requests, NEW a \in Attendees, Arrive(r, a)
  PROVE  ControlOK'
<1>1. /\ won' = won /\ tries' = tries /\ pc[r] = "new" /\ ~won[r] /\ tries[r] = 0
  BY DEF IInv, ControlOK, Arrive, StationRead, UndoRead, PutRead, SyncPull, EditRead, PrintedRead,
         BatchRead, Receive
<1>2. \A q \in Requests \ {r} : call'[q] = call[q] /\ pc'[q] = pc[q] /\ ans'[q] = ans[q]
  BY DEF IInv, TypeOK, Arrive, StationRead, UndoRead, PutRead, SyncPull, EditRead, PrintedRead,
         BatchRead, Receive, NotFound, Refused, Found, Goto, Answer
<1>3. /\ call'[r].op \in Ops /\ call'[r].att \in Attendees
      /\ call'[r].op = "batch" => call'[r].uuid \in Uuids
      /\ pc'[r] \in {"update", "logCheck", "push", "transition", "write", "increment", "done"}
      /\ pc'[r] = "transition" => call'[r].op \in {"put", "sync"}
      /\ pc'[r] = "write" => call'[r].op \in LegacyOps
  BY DEF IInv, TypeOK, Arrive, StationRead, UndoRead, PutRead, SyncPull, EditRead, PrintedRead,
         BatchRead, Receive, NotFound, Refused, Found, Goto, LegacyOps, EditOps
<1> QED
  BY <1>1, <1>2, <1>3 DEF IInv, ControlOK, MaxAttempts

LEMMA ContinueControl ==
  ASSUME IInv, NEW r \in Requests, Continue(r)
  PROVE  ControlOK'
<1>1. call' = call /\ pc[r] # "new" /\ pc'[r] # "new"
  BY DEF IInv, TypeOK, Continue, StationUpdate, StationFallback, UndoUpdate, UndoFallback,
         BatchLogCheck, BatchExists, BatchUpdate, BatchLogInsert, SyncPush, Transition,
         FeedInsert, WriteRow, SyncWriteFails, PrintedIncrement, ReprintInsert, Publish, At, Goto
<1>2. \A q \in Requests \ {r} : won'[q] = won[q] /\ tries'[q] = tries[q] /\ pc'[q] = pc[q]
                                /\ ans'[q] = ans[q]
  BY DEF IInv, TypeOK, Continue, StationUpdate, StationFallback, UndoUpdate, UndoFallback,
         BatchLogCheck, BatchExists, BatchUpdate, BatchLogInsert, SyncPush, Transition,
         FeedInsert, WriteRow, SyncWriteFails, PrintedIncrement, ReprintInsert, Publish, Goto, Answer
<1>3. /\ pc'[r] \in {"transition", "feed"} => call[r].op \in {"put", "sync"}
      /\ pc'[r] = "write" => call[r].op \in LegacyOps
      /\ pc'[r] = "feed" => won'[r]
      /\ pc'[r] \in {"update", "fallback", "logCheck", "exists", "push", "transition", "increment"}
           => ~won'[r]
      /\ pc'[r] \in {"update", "logCheck", "exists"} => tries'[r] < MaxAttempts
  BY DEF IInv, TypeOK, ControlOK, Continue, StationUpdate, StationFallback, UndoUpdate, UndoFallback,
         BatchLogCheck, BatchExists, BatchUpdate, BatchLogInsert, SyncPush, Transition, LegacyOps,
         FeedInsert, WriteRow, SyncWriteFails, PrintedIncrement, ReprintInsert, Publish, At, Goto,
         MaxAttempts
<1> QED
  BY <1>1, <1>2, <1>3 DEF IInv, ControlOK

LEMMA FailureInv ==
  ASSUME IInv, NEW r \in Requests, Crash(r) \/ StoreFails(r)
  PROVE  IInv'
<1>1. TypeOK'
  BY DEF IInv, TypeOK, Steps, Crash, StoreFails, Goto
<1>2. ControlOK'
  BY DEF IInv, TypeOK, ControlOK, Crash, StoreFails, Goto
<1> QED
  BY <1>1, <1>2 DEF IInv

LEMMA NextInv == IInv /\ [Next]_vars => IInv'
<1> SUFFICES ASSUME IInv, [Next]_vars PROVE IInv'
  OBVIOUS
<1>1. ASSUME NEW r \in Requests, NEW a \in Attendees, Arrive(r, a) PROVE IInv'
  BY <1>1, ArriveType, ArriveControl DEF IInv
<1>2. ASSUME NEW r \in Requests, Continue(r) PROVE IInv'
  BY <1>2, ContinueType, ContinueControl DEF IInv
<1>3. ASSUME NEW r \in Requests, Crash(r) \/ StoreFails(r) PROVE IInv'
  BY <1>3, FailureInv
<1>4. CASE UNCHANGED vars
  BY <1>4 DEF vars, IInv, TypeOK, ControlOK
<1> QED
  BY <1>1, <1>2, <1>3, <1>4 DEF Next

LEMMA Invariance == Spec => []IInv
<1>1. Init => IInv
  BY InitType, InitControl DEF IInv
<1> QED
  BY <1>1, NextInv, PTL DEF Spec

(* Every table, and every request's program counter, answer and count of   *)
(* attempts, keeps its type: in particular CheckInAttendee never issues a  *)
(* third guarded UPDATE.                                                   *)
THEOREM TypeCorrect == Spec => []TypeOK
  BY Invariance, PTL DEF IInv

------------------------------------------------------------------------------
(* Printed counts.                                                         *)

(* A print not yet logged in the feed has been counted already.            *)
Reprinting(a) ==
  {r \in Requests : call[r].op = "printed" /\ Target(r) = a /\ pc[r] = "reprint"}
PrintInv ==
  \A a \in Attendees :
    /\ row[a].printed = Cardinality(Prints(a))
    /\ reprints[a] + Cardinality(Reprinting(a)) <= row[a].printed

LEMMA FinitePrints ==
  ASSUME NEW a
  PROVE  IsFiniteSet(Prints(a)) /\ IsFiniteSet(Reprinting(a))
<1>1. Prints(a) \subseteq Requests /\ Reprinting(a) \subseteq Requests
  BY DEF Prints, Reprinting
<1> QED
  BY <1>1, FiniteAssumption, FS_Subset

(* Only /printed touches printed_count or won for a printed request.       *)
LEMMA OtherStepsPrint ==
  ASSUME IInv, PrintInv, NEW r \in Requests, Continue(r),
         ~PrintedIncrement(r), ~ReprintInsert(r)
  PROVE  PrintInv'
<1>1. call' = call /\ reprints' = reprints
  BY DEF Continue, StationUpdate, StationFallback, UndoUpdate, UndoFallback, BatchLogCheck,
         BatchExists, BatchUpdate, BatchLogInsert, SyncPush, Transition, FeedInsert, WriteRow,
         SyncWriteFails, Publish
<1>2. \A q \in Requests : call[q].op = "printed" => won'[q] = won[q] /\ (pc'[q] = "reprint" <=> pc[q] = "reprint")
  BY DEF IInv, TypeOK, ControlOK, LegacyOps, EditOps, Continue, StationUpdate, StationFallback,
         UndoUpdate, UndoFallback, BatchLogCheck, BatchExists, BatchUpdate, BatchLogInsert, SyncPush,
         Transition, FeedInsert, WriteRow, SyncWriteFails, Publish, At, Goto
<1>3. \A a \in Attendees : row'[a].printed = row[a].printed
  <2>1. row' = row \/ \E w : row' = [row EXCEPT ![Target(r)] = w] /\ w.printed = row[Target(r)].printed
    <3>1. CASE StationUpdate(r)
      <4>1. \A point \in {r, NULL} :
              StationSet(row[Target(r)], r, point).printed = row[Target(r)].printed
        BY TargetRow DEF StationSet, Row
      <4>2. row' = row \/ \E point \in {r, NULL} :
                            row' = [row EXCEPT ![Target(r)] = StationSet(row[Target(r)], r, point)]
        BY <3>1 DEF StationUpdate
      <4> QED
        BY <4>1, <4>2
    <3>2. CASE UndoUpdate(r)
      <4>1. UndoSet(row[Target(r)]).printed = row[Target(r)].printed
        BY TargetRow DEF UndoSet, Row
      <4>2. row' = row \/ row' = [row EXCEPT ![Target(r)] = UndoSet(row[Target(r)])]
        BY <3>2 DEF UndoUpdate
      <4> QED
        BY <4>1, <4>2
    <3>3. CASE BatchUpdate(r)
      <4>1. \A point \in {r, NULL} :
              BatchSet(row[Target(r)], r, point).printed = row[Target(r)].printed
        BY TargetRow DEF BatchSet, Row
      <4>2. row' = row \/ \E point \in {r, NULL} :
                            row' = [row EXCEPT ![Target(r)] = BatchSet(row[Target(r)], r, point)]
        BY <3>3 DEF BatchUpdate
      <4> QED
        BY <4>1, <4>2
    <3>4. CASE Transition(r)
      <4>1. TransitionSet(row[Target(r)], copy[r]).printed = row[Target(r)].printed
        BY TargetRow DEF TransitionSet, Row
      <4>2. row' = row \/ row' = [row EXCEPT ![Target(r)] = TransitionSet(row[Target(r)], copy[r])]
        BY <3>4 DEF Transition
      <4> QED
        BY <4>1, <4>2
    <3>5. CASE WriteRow(r)
      <4>1. Overwrite(row[Target(r)], copy[r]).printed = row[Target(r)].printed
        BY TargetRow DEF Overwrite, Row
      <4>2. row' = [row EXCEPT ![Target(r)] = Overwrite(row[Target(r)], copy[r])]
        BY <3>5 DEF WriteRow
      <4> QED
        BY <4>1, <4>2
    <3>6. CASE UNCHANGED row
      BY <3>6
    <3>7. \/ StationUpdate(r) \/ UndoUpdate(r) \/ BatchUpdate(r) \/ Transition(r) \/ WriteRow(r)
          \/ UNCHANGED row
      BY DEF Continue, StationFallback, UndoFallback, BatchLogCheck, BatchExists, BatchLogInsert,
             SyncPush, FeedInsert, SyncWriteFails, Publish
    <3> QED
      BY <3>1, <3>2, <3>3, <3>4, <3>5, <3>6, <3>7
  <2> QED
    BY <2>1, TargetRow DEF IInv, TypeOK
<1>4. \A a \in Attendees : Prints(a)' = Prints(a) /\ Reprinting(a)' = Reprinting(a)
  BY <1>1, <1>2 DEF Prints, Reprinting, Target
<1> QED
  BY <1>1, <1>3, <1>4 DEF PrintInv

LEMMA IncrementPrint ==
  ASSUME IInv, PrintInv, NEW r \in Requests, PrintedIncrement(r)
  PROVE  PrintInv'
<1> DEFINE b == call[r].att
<1>0. /\ b \in Attendees /\ call' = call /\ reprints' = reprints /\ call[r].op = "printed"
      /\ pc[r] = "increment" /\ ~won[r]
  BY DEF IInv, ControlOK, PrintedIncrement, At
<1>1. CASE row[b].deleted
  <2>1. row' = row /\ won' = won /\ \A q \in Requests : pc'[q] = "reprint" <=> pc[q] = "reprint"
    BY <1>0, <1>1 DEF IInv, TypeOK, PrintedIncrement, Goto, Target
  <2>2. \A a \in Attendees : Prints(a)' = Prints(a) /\ Reprinting(a)' = Reprinting(a)
    BY <1>0, <2>1 DEF Prints, Reprinting, Target
  <2> QED
    BY <1>0, <2>1, <2>2 DEF PrintInv
<1>2. CASE ~row[b].deleted
  <2>1. /\ \A a \in Attendees \ {b} : row'[a] = row[a]
        /\ row'[b].printed = row[b].printed + 1
        /\ won' = [won EXCEPT ![r] = TRUE]
        /\ pc' = [pc EXCEPT ![r] = "reprint"] \/ pc' = [pc EXCEPT ![r] = "done"]
    BY <1>0, <1>2 DEF IInv, TypeOK, Row, PrintedIncrement, Goto, Target
  <2>2. ASSUME NEW a \in Attendees \ {b}
        PROVE  Prints(a)' = Prints(a) /\ Reprinting(a)' = Reprinting(a)
    BY <1>0, <2>1 DEF IInv, TypeOK, Prints, Reprinting, Target
  <2>3. Prints(b)' = Prints(b) \cup {r} /\ r \notin Prints(b)
    BY <1>0, <2>1 DEF IInv, TypeOK, Prints, Target
  <2>4. Reprinting(b)' \in {Reprinting(b), Reprinting(b) \cup {r}} /\ r \notin Reprinting(b)
    BY <1>0, <2>1 DEF IInv, TypeOK, Reprinting, Target
  <2>5. Cardinality(Prints(b)') = Cardinality(Prints(b)) + 1
    BY <2>3, FinitePrints, FS_AddElement
  <2>6. /\ Cardinality(Reprinting(b)') \in {Cardinality(Reprinting(b)), Cardinality(Reprinting(b)) + 1}
        /\ Cardinality(Reprinting(b)) \in Nat
    BY <2>4, FinitePrints, FS_AddElement, FS_CardinalityType
  <2>7. reprints[b] \in Nat /\ row[b].printed \in Nat
    BY <1>0 DEF IInv, TypeOK, Row
  <2> QED
    BY <1>0, <2>1, <2>2, <2>5, <2>6, <2>7 DEF PrintInv
<1> QED
  BY <1>1, <1>2

LEMMA ReprintPrint ==
  ASSUME IInv, PrintInv, NEW r \in Requests, ReprintInsert(r)
  PROVE  PrintInv'
<1> DEFINE b == call[r].att
<1>0. /\ b \in Attendees /\ call' = call /\ row' = row /\ won' = won
      /\ call[r].op = "printed" /\ pc[r] = "reprint"
      /\ \A q \in Requests : pc'[q] = "reprint" <=> (q # r /\ pc[q] = "reprint")
      /\ reprints' = reprints \/ reprints' = [reprints EXCEPT ![b] = @ + 1]
  BY DEF IInv, TypeOK, ControlOK, ReprintInsert, At, Goto, Target
<1>1. \A a \in Attendees : Prints(a)' = Prints(a)
  BY <1>0 DEF Prints, Target
<1>2. \A a \in Attendees \ {b} : Reprinting(a)' = Reprinting(a)
  BY <1>0 DEF Reprinting, Target
<1>3. Reprinting(b)' = Reprinting(b) \ {r} /\ r \in Reprinting(b)
  BY <1>0 DEF Reprinting, Target
<1>4. /\ Cardinality(Reprinting(b)') = Cardinality(Reprinting(b)) - 1
      /\ Cardinality(Reprinting(b)) \in Nat
  BY <1>3, FinitePrints, FS_RemoveElement, FS_CardinalityType
<1>5. reprints[b] \in Nat /\ row[b].printed \in Nat
  BY <1>0 DEF IInv, TypeOK, Row
<1>6. reprints'[b] <= reprints[b] + 1 /\ reprints'[b] \in Nat
      /\ \A a \in Attendees \ {b} : reprints'[a] = reprints[a]
  BY <1>0, <1>5 DEF IInv, TypeOK
<1> QED
  BY <1>0, <1>1, <1>2, <1>4, <1>5, <1>6 DEF PrintInv

LEMMA ArrivePrint ==
  ASSUME IInv, PrintInv, NEW r \in Requests, NEW a \in Attendees, Arrive(r, a)
  PROVE  PrintInv'
<1>1. row' = row /\ reprints' = reprints /\ won' = won /\ ~won[r]
  BY DEF IInv, ControlOK, Arrive, StationRead, UndoRead, PutRead, SyncPull, EditRead, PrintedRead,
         BatchRead, Receive
<1>2. /\ \A q \in Requests \ {r} : call'[q] = call[q] /\ pc'[q] = pc[q]
      /\ pc[r] # "reprint" /\ pc'[r] # "reprint"
  BY DEF IInv, TypeOK, Arrive, StationRead, UndoRead, PutRead, SyncPull, EditRead, PrintedRead,
         BatchRead, Receive, NotFound, Refused, Found, Goto
<1>3. \A b \in Attendees : Prints(b)' = Prints(b) /\ Reprinting(b)' = Reprinting(b)
  BY <1>1, <1>2 DEF Prints, Reprinting, Target
<1> QED
  BY <1>1, <1>3 DEF PrintInv

LEMMA FailurePrint ==
  ASSUME IInv, PrintInv, NEW r \in Requests, Crash(r) \/ StoreFails(r)
  PROVE  PrintInv'
<1>1. /\ row' = row /\ reprints' = reprints /\ won' = won /\ call' = call
      /\ \A q \in Requests : pc'[q] = "reprint" => pc[q] = "reprint"
  BY DEF IInv, TypeOK, Crash, StoreFails, Goto
<1>2. \A b \in Attendees : Prints(b)' = Prints(b) /\ Reprinting(b)' \subseteq Reprinting(b)
  BY <1>1 DEF Prints, Reprinting, Target
<1>3. \A b \in Attendees : /\ Cardinality(Reprinting(b)') <= Cardinality(Reprinting(b))
                          /\ Cardinality(Reprinting(b)') \in Nat /\ Cardinality(Reprinting(b)) \in Nat
  BY <1>2, FinitePrints, FS_Subset, FS_CardinalityType
<1>4. \A b \in Attendees : reprints[b] \in Nat /\ row[b].printed \in Nat
  BY DEF IInv, TypeOK, Row
<1> QED
  BY <1>1, <1>2, <1>3, <1>4 DEF PrintInv

(* No full-row overwrite ever takes a print back: whatever endpoints run   *)
(* and fail, printed_count is the number of /printed calls that matched.   *)
THEOREM PrintsCounted == Spec => []PrintedExact
<1>1. Init => PrintInv
  <2> SUFFICES ASSUME Init, NEW a \in Attendees
               PROVE  /\ row[a].printed = Cardinality(Prints(a))
                      /\ reprints[a] + Cardinality(Reprinting(a)) <= row[a].printed
    BY DEF PrintInv
  <2>1. Prints(a) = {} /\ Reprinting(a) = {}
    BY DEF Init, Prints, Reprinting
  <2>2. row[a].printed = 0 /\ reprints[a] = 0
    BY DEF Init, BlankRow
  <2> QED
    BY <2>1, <2>2, FS_EmptySet
<1>2. IInv /\ PrintInv /\ [Next]_vars => PrintInv'
  <2> SUFFICES ASSUME IInv, PrintInv, [Next]_vars PROVE PrintInv'
    OBVIOUS
  <2>1. ASSUME NEW r \in Requests, NEW a \in Attendees, Arrive(r, a) PROVE PrintInv'
    BY <2>1, ArrivePrint
  <2>2. ASSUME NEW r \in Requests, Continue(r) PROVE PrintInv'
    BY <2>2, OtherStepsPrint, IncrementPrint, ReprintPrint
  <2>3. ASSUME NEW r \in Requests, Crash(r) \/ StoreFails(r) PROVE PrintInv'
    BY <2>3, FailurePrint
  <2>4. CASE UNCHANGED vars
    BY <2>4 DEF vars, PrintInv, Prints, Reprinting, Target
  <2> QED
    BY <2>1, <2>2, <2>3, <2>4 DEF Next
<1>3. IInv /\ PrintInv => PrintedExact
  <2> SUFFICES ASSUME IInv, PrintInv, NEW a \in Attendees
               PROVE  row[a].printed = Cardinality(Prints(a)) /\ reprints[a] <= row[a].printed
    BY DEF PrintedExact
  <2>1. Cardinality(Reprinting(a)) \in Nat
    BY FinitePrints, FS_CardinalityType
  <2>2. reprints[a] \in Nat /\ row[a].printed \in Nat
    BY DEF IInv, TypeOK, Row
  <2> QED
    BY <2>1, <2>2 DEF PrintInv
<1> QED
  BY <1>1, <1>2, <1>3, Invariance, PTL DEF Spec

------------------------------------------------------------------------------
(* Answers.                                                                *)

(* The first statement's answer is about the row it read.                  *)
LEMMA ArriveVerdict ==
  ASSUME IInv, NEW r \in Requests, NEW a \in Attendees, Arrive(r, a)
  PROVE  \A q \in Requests : ans'[q] # ans[q] => TrueVerdict(q)
<1>1. call'[r].att = a
  BY DEF IInv, TypeOK, Arrive, StationRead, UndoRead, PutRead, SyncPull, EditRead, PrintedRead,
         BatchRead, Receive
<1>2. \/ ans' = ans
      \/ row[a].deleted /\ ans' = [ans EXCEPT ![r] = "not_found"]
      \/ ~row[a].deleted /\ row[a].blocked /\ ans' = [ans EXCEPT ![r] = "blocked"]
  BY DEF Arrive, StationRead, UndoRead, PutRead, SyncPull, EditRead, PrintedRead, BatchRead,
         NotFound, Found, Refused, Answer
<1>3. ASSUME ans'[r] # ans[r] PROVE TrueVerdict(r)
  BY <1>1, <1>2, <1>3 DEF IInv, TypeOK, TrueVerdict
<1>4. \A q \in Requests \ {r} : ans'[q] = ans[q]
  BY <1>2 DEF IInv, TypeOK
<1> QED
  BY <1>3, <1>4

(* So is every later one, about the row as the statement finds it.         *)
LEMMA ContinueVerdict ==
  ASSUME IInv, NEW r \in Requests, Continue(r)
  PROVE  \A q \in Requests : ans'[q] # ans[q] => TrueVerdict(q)
<1>0. /\ Target(r) \in Attendees /\ row[Target(r)] \in Row /\ TypeOK /\ ControlOK
      /\ call' = call /\ call'[r].att = Target(r)
  BY TargetRow DEF IInv, Target, Continue, StationUpdate, StationFallback, UndoUpdate, UndoFallback,
         BatchLogCheck, BatchExists, BatchUpdate, BatchLogInsert, SyncPush, Transition, FeedInsert,
         WriteRow, SyncWriteFails, PrintedIncrement, ReprintInsert, Publish
<1>1. \A q \in Requests \ {r} : ans'[q] = ans[q]
  BY <1>0 DEF TypeOK, Continue, StationUpdate, StationFallback, UndoUpdate, UndoFallback,
         BatchLogCheck, BatchExists, BatchUpdate, BatchLogInsert, SyncPush, Transition, FeedInsert,
         WriteRow, SyncWriteFails, PrintedIncrement, ReprintInsert, Publish, Answer
<1> SUFFICES ASSUME ans'[r] # ans[r] PROVE TrueVerdict(r)
  BY <1>1
<1>2. CASE StationUpdate(r)
  <2>1. PICK point \in {r, NULL} : row' = [row EXCEPT ![Target(r)] = StationSet(row[Target(r)], r, point)]
    BY <1>2 DEF StationUpdate
  <2>2. StationGuard(row[Target(r)]) /\ ans'[r] = "checked_in"
    BY <1>0, <1>2 DEF TypeOK, StationUpdate, Answer
  <2>3. StationSet(row[Target(r)], r, point).status
    BY <1>0 DEF StationSet, Row
  <2>4. row'[Target(r)].status
    BY <1>0, <2>1, <2>3 DEF TypeOK
  <2> QED
    BY <1>0, <2>2, <2>4 DEF TrueVerdict, StationGuard
<1>3. CASE StationFallback(r)
  <2>1. \/ row[Target(r)].deleted /\ ans'[r] = "not_found"
        \/ ~row[Target(r)].deleted /\ row[Target(r)].status /\ ans'[r] = "already_checked_in"
        \/ ~row[Target(r)].deleted /\ row[Target(r)].blocked /\ ans'[r] = "blocked"
        \/ StationGuard(row[Target(r)]) /\ tries[r] = MaxAttempts /\ ans'[r] = "conflict"
    BY <1>0, <1>3 DEF TypeOK, StationFallback, Answer
  <2> QED
    BY <1>0, <2>1 DEF TrueVerdict, StationGuard
<1>4. CASE UndoUpdate(r)
  <2>1. ans'[r] = "undone" /\ ~row[Target(r)].deleted
    BY <1>0, <1>4 DEF TypeOK, UndoUpdate, UndoGuard, Answer
  <2>2. CASE UndoGuard(row[Target(r)])
    <3>1. ~UndoSet(row[Target(r)]).status
      BY <1>0 DEF UndoSet, Row
    <3>2. ~row'[Target(r)].status
      BY <1>0, <1>4, <2>2, <3>1 DEF UndoUpdate, TypeOK
    <3> QED
      BY <1>0, <2>1, <3>2 DEF TrueVerdict
  <2>3. CASE ~UndoGuard(row[Target(r)])
    BY <1>0, <1>4, <2>1, <2>3 DEF UndoUpdate, UndoGuard, TrueVerdict
  <2> QED
    BY <2>2, <2>3
<1>5. CASE UndoFallback(r)
  <2>1. /\ pc[r] = "fallback"
        /\ \/ row[Target(r)].deleted /\ ans'[r] = "not_found"
           \/ ~row[Target(r)].deleted /\ ans'[r] = "undone"
    BY <1>0, <1>5 DEF TypeOK, UndoFallback, Answer, At
  <2> QED
    BY <1>0, <2>1 DEF TrueVerdict
<1>6. CASE BatchLogCheck(r) \/ BatchExists(r) \/ SyncPush(r)
  <2>1. \/ call[r].uuid \in log /\ ans'[r] = "duplicate"
        \/ row[Target(r)].deleted /\ ans'[r] = "not_found"
    BY <1>0, <1>6 DEF TypeOK, BatchLogCheck, BatchExists, SyncPush, Answer
  <2> QED
    BY <1>0, <2>1 DEF TrueVerdict
<1>7. CASE BatchUpdate(r)
  <2>1. CASE BatchGuard(row[Target(r)])
    <3>1. PICK point \in {r, NULL} : row' = [row EXCEPT ![Target(r)] = BatchSet(row[Target(r)], r, point)]
      BY <1>7, <2>1 DEF BatchUpdate
    <3>2. BatchSet(row[Target(r)], r, point).status
      BY <1>0 DEF BatchSet, Row
    <3>3. row'[Target(r)].status /\ ans'[r] = "created"
      BY <1>0, <1>7, <2>1, <3>1, <3>2 DEF TypeOK, BatchUpdate, Answer
    <3> QED
      BY <1>0, <2>1, <3>3 DEF TrueVerdict, BatchGuard
  <2>2. CASE ~BatchGuard(row[Target(r)])
    <3>1. ans'[r] = "already_exists"
      BY <1>0, <1>7, <2>2 DEF TypeOK, BatchUpdate, Answer
    <3> QED
      BY <1>0, <2>2, <3>1 DEF TrueVerdict, BatchGuard
  <2> QED
    BY <2>1, <2>2
<1>8. CASE PrintedIncrement(r)
  <2>1. \/ row[Target(r)].deleted /\ ans'[r] = "not_found"
        \/ ans'[r] = "ok"
    BY <1>0, <1>8 DEF TypeOK, PrintedIncrement, Answer
  <2> QED
    BY <1>0, <2>1 DEF TrueVerdict
<1>9. CASE WriteRow(r) \/ SyncWriteFails(r)
  <2>1. ans'[r] = "ok"
    BY <1>0, <1>9 DEF TypeOK, WriteRow, SyncWriteFails, Answer
  <2> QED
    BY <2>1 DEF TrueVerdict
<1> QED
  BY <1>2, <1>3, <1>4, <1>5, <1>6, <1>7, <1>8, <1>9
     DEF Continue, BatchLogInsert, Transition, FeedInsert, ReprintInsert, Publish

(* Whatever endpoints run, race and fail, an answer is true of the row at  *)
(* the statement that decides it: the station admits nobody already in,    *)
(* blocked or deleted, the batch endpoint nobody already in or deleted (it *)
(* does admit the blocked), and a refusal names the reason that held then. *)
THEOREM AnswersWereTrue == Spec => VerdictWasTrue
<1>1. IInv /\ [Next]_vars => [\A r \in Requests : ans'[r] # ans[r] => TrueVerdict(r)]_vars
  <2> SUFFICES ASSUME IInv, Next
               PROVE  \A q \in Requests : ans'[q] # ans[q] => TrueVerdict(q)
    OBVIOUS
  <2>1. ASSUME NEW r \in Requests, Crash(r) \/ StoreFails(r)
        PROVE  \A q \in Requests : ans'[q] # ans[q] => TrueVerdict(q)
    BY <2>1 DEF Crash, StoreFails
  <2> QED
    BY <2>1, ArriveVerdict, ContinueVerdict DEF Next
<1> QED
  BY <1>1, Invariance, PTL DEF Spec, VerdictWasTrue

------------------------------------------------------------------------------
(* Every request ends: the half of Answered that does not need fairness.   *)

(* The statements a request may still run, counting its first.             *)
Left(r) ==
  CASE Ended(r)                                 -> 0
    [] pc[r] = "publish"                        -> 1
    [] pc[r] \in {"write", "reprint", "logInsert"} -> 2
    [] pc[r] \in {"feed", "increment"}          -> 3
    [] pc[r] = "transition"                     -> 4
    [] pc[r] = "push"                           -> 5
    [] pc[r] = "fallback" /\ call[r].op = "undo" -> 2
    [] pc[r] = "fallback" /\ call[r].op # "undo" -> 2 * (MaxAttempts - tries[r]) + 2
    [] pc[r] = "update"                         -> 2 * (MaxAttempts - tries[r]) + 1
    [] pc[r] = "exists"                         -> 6
    [] pc[r] = "logCheck"                       -> 7
    [] pc[r] = "new"                            -> 8

(* No request runs more than eight statements, none is left exactly when   *)
(* it has ended, and each step of the system takes one request nearer to   *)
(* its end and leaves the others where they are.                           *)
FewStatements == \A r \in Requests : Left(r) \in 0..8 /\ (Left(r) = 0 <=> Ended(r))
StatementsRunOut ==
  [][\E r \in Requests : /\ Left(r)' < Left(r)
                         /\ \A q \in Requests \ {r} : Left(q)' = Left(q)]_vars

LEMMA LeftBounded == ASSUME IInv PROVE FewStatements
<1> SUFFICES ASSUME NEW r \in Requests PROVE Left(r) \in 0..8 /\ (Left(r) = 0 <=> Ended(r))
  BY DEF FewStatements
<1>1. pc[r] \in Steps /\ tries[r] \in 0..2 /\ (pc[r] = "update" => tries[r] < 2)
  BY DEF IInv, TypeOK, ControlOK, MaxAttempts
<1> QED
  BY <1>1 DEF Left, Ended, Steps, MaxAttempts

(* Requests other than the one that steps stand still.                     *)
LEMMA OthersStay ==
  ASSUME IInv, NEW r \in Requests, NEW q \in Requests \ {r},
         \/ \E a \in Attendees : Arrive(r, a)
         \/ Continue(r) \/ Crash(r) \/ StoreFails(r)
  PROVE  Left(q)' = Left(q)
<1>1. /\ pc \in [Requests -> Steps] /\ tries \in [Requests -> 0..MaxAttempts]
      /\ call \in [Requests -> Call]
  BY DEF IInv, TypeOK
<1>2. pc'[q] = pc[q] /\ tries'[q] = tries[q] /\ call'[q] = call[q]
  <2>1. CASE \E a \in Attendees : Arrive(r, a)
    BY <1>1, <2>1 DEF Arrive, StationRead, UndoRead, PutRead, SyncPull, EditRead, PrintedRead,
                      BatchRead, Receive, NotFound, Refused, Found, Goto
  <2>2. CASE Continue(r)
    BY <1>1, <2>2 DEF Continue, StationUpdate, StationFallback, UndoUpdate, UndoFallback,
         BatchLogCheck, BatchExists, BatchUpdate, BatchLogInsert, SyncPush, Transition, FeedInsert,
         WriteRow, SyncWriteFails, PrintedIncrement, ReprintInsert, Publish, Goto
  <2>3. CASE Crash(r) \/ StoreFails(r)
    BY <1>1, <2>3 DEF Crash, StoreFails, Goto
  <2> QED
    BY <2>1, <2>2, <2>3
<1> QED
  BY <1>2 DEF Left, Ended

LEMMA ArriveSteps ==
  ASSUME IInv, NEW r \in Requests, NEW a \in Attendees, Arrive(r, a)
  PROVE  Left(r)' < Left(r)
<1>1. /\ pc[r] = "new" /\ tries' = tries /\ tries[r] = 0
      /\ pc'[r] \in {"update", "logCheck", "push", "transition", "write", "increment", "done"}
  BY DEF IInv, TypeOK, ControlOK, Arrive, StationRead, UndoRead, PutRead, SyncPull, EditRead,
         PrintedRead, BatchRead, Receive, NotFound, Refused, Found, Goto
<1>2. Left(r) = 8
  BY <1>1 DEF Left, Ended
<1>3. Left(r)' \in 0..7
  BY <1>1 DEF Left, Ended, MaxAttempts
<1> QED
  BY <1>2, <1>3

LEMMA ContinueSteps ==
  ASSUME IInv, NEW r \in Requests, Continue(r)
  PROVE  Left(r)' < Left(r)
<1>1. /\ pc \in [Requests -> Steps] /\ tries \in [Requests -> 0..2] /\ call' = call
  BY DEF IInv, TypeOK, MaxAttempts, Continue, StationUpdate, StationFallback, UndoUpdate, UndoFallback,
         BatchLogCheck, BatchExists, BatchUpdate, BatchLogInsert, SyncPush, Transition, FeedInsert,
         WriteRow, SyncWriteFails, PrintedIncrement, ReprintInsert, Publish
<1>2. CASE StationUpdate(r)
  <2>1. /\ pc[r] = "update" /\ tries[r] \in 0..1 /\ tries'[r] = tries[r] + 1
        /\ pc'[r] \in {"publish", "fallback"} /\ call[r].op = "station"
    BY <1>1, <1>2 DEF StationUpdate, At, Goto, IInv, ControlOK, MaxAttempts
  <2> QED
    BY <1>1, <2>1 DEF Left, Ended, MaxAttempts
<1>3. CASE StationFallback(r)
  <2>1. /\ pc[r] = "fallback" /\ tries'[r] = tries[r] /\ tries[r] \in 0..2
        /\ pc'[r] \in {"done", "update"} /\ call[r].op = "station"
    BY <1>1, <1>3 DEF StationFallback, At, Goto
  <2> QED
    BY <1>1, <2>1 DEF Left, Ended, MaxAttempts
<1>4. CASE UndoUpdate(r)
  <2>1. /\ pc[r] = "update" /\ tries[r] \in 0..1
        /\ pc'[r] \in {"publish", "fallback"} /\ call[r].op = "undo"
    BY <1>1, <1>4 DEF UndoUpdate, At, Goto, IInv, ControlOK, MaxAttempts
  <2> QED
    BY <1>1, <2>1 DEF Left, Ended, MaxAttempts
<1>5. CASE UndoFallback(r)
  <2>1. pc[r] = "fallback" /\ pc'[r] \in {"publish", "done"} /\ call[r].op = "undo"
    BY <1>1, <1>5 DEF UndoFallback, At, Goto
  <2> QED
    BY <1>1, <2>1 DEF Left, Ended
<1>6. CASE BatchUpdate(r)
  <2>1. pc[r] = "update" /\ tries[r] \in 0..1 /\ pc'[r] = "logInsert"
    BY <1>1, <1>6 DEF BatchUpdate, At, Goto, IInv, ControlOK, MaxAttempts
  <2> QED
    BY <1>1, <2>1 DEF Left, Ended, MaxAttempts
<1>7. CASE BatchLogCheck(r) \/ BatchExists(r) \/ BatchLogInsert(r)
  <2>1. /\ tries'[r] \in 0..2
        /\ \/ pc[r] = "logCheck" /\ pc'[r] \in {"done", "exists"}
           \/ pc[r] = "exists" /\ pc'[r] \in {"done", "update"}
           \/ pc[r] = "logInsert" /\ pc'[r] \in {"publish", "done"}
    BY <1>1, <1>7 DEF BatchLogCheck, BatchExists, BatchLogInsert, At, Goto
  <2> QED
    BY <1>1, <2>1 DEF Left, Ended, MaxAttempts
<1>8. CASE SyncPush(r) \/ Transition(r) \/ FeedInsert(r) \/ WriteRow(r) \/ SyncWriteFails(r)
  <2>1. \/ pc[r] = "push" /\ pc'[r] \in {"transition", "done"}
        \/ pc[r] = "transition" /\ pc'[r] \in {"feed", "write", "publish", "done"}
        \/ pc[r] = "feed" /\ pc'[r] \in {"write", "publish", "done"}
        \/ pc[r] = "write" /\ pc'[r] \in {"publish", "done"}
    BY <1>1, <1>8 DEF SyncPush, Transition, FeedInsert, WriteRow, SyncWriteFails, At, Goto
  <2> QED
    BY <1>1, <2>1 DEF Left, Ended
<1>9. CASE PrintedIncrement(r) \/ ReprintInsert(r) \/ Publish(r)
  <2>1. \/ pc[r] = "increment" /\ pc'[r] \in {"reprint", "done"}
        \/ pc[r] = "reprint" /\ pc'[r] \in {"publish", "done"}
        \/ pc[r] = "publish" /\ pc'[r] = "done"
    BY <1>1, <1>9 DEF PrintedIncrement, ReprintInsert, Publish, At, Goto
  <2> QED
    BY <1>1, <2>1 DEF Left, Ended
<1> QED
  BY <1>2, <1>3, <1>4, <1>5, <1>6, <1>7, <1>8, <1>9 DEF Continue

LEMMA FailureSteps ==
  ASSUME IInv, NEW r \in Requests, Crash(r) \/ StoreFails(r)
  PROVE  Left(r)' < Left(r)
<1>1. pc \in [Requests -> Steps] /\ ~Ended(r) /\ pc'[r] = "failed"
  BY DEF IInv, TypeOK, Crash, StoreFails, Goto
<1>2. Left(r) \in 0..8 /\ Left(r) # 0
  BY <1>1, LeftBounded DEF FewStatements
<1>3. Left(r)' = 0
  BY <1>1 DEF Left, Ended
<1> QED
  BY <1>2, <1>3

(* Whatever races and fails, no request runs for ever: the measure bounds  *)
(* the statements of each, the station's retry among them.                 *)
THEOREM HandlersEnd == Spec => []FewStatements /\ StatementsRunOut
<1>1. ASSUME IInv, Next
      PROVE  \E r \in Requests : /\ Left(r)' < Left(r)
                                 /\ \A q \in Requests \ {r} : Left(q)' = Left(q)
  <2>1. PICK r \in Requests : \/ \E a \in Attendees : Arrive(r, a)
                              \/ Continue(r) \/ Crash(r) \/ StoreFails(r)
    BY <1>1 DEF Next
  <2>2. Left(r)' < Left(r)
    BY <1>1, <2>1, ArriveSteps, ContinueSteps, FailureSteps
  <2> QED
    BY <1>1, <2>1, <2>2, OthersStay
<1>2. IInv /\ [Next]_vars
        => [\E r \in Requests : /\ Left(r)' < Left(r)
                                /\ \A q \in Requests \ {r} : Left(q)' = Left(q)]_vars
  BY <1>1
<1> QED
  BY <1>2, LeftBounded, Invariance, PTL DEF Spec, StatementsRunOut

------------------------------------------------------------------------------
(* Announcements.                                                          *)

(* What announces: the legacy paths that stay silent left out.             *)
AnnouncedOps == GuardedOps \cup {"info", "delete", "sync"}

(* Without the legacy paths that stay silent, and with statements that do  *)
(* not fail, whatever the monitor shows has been announced, is going to    *)
(* be, or its announcement was lost with a publish or a process.           *)
THEOREM NeverSilent ==
  ASSUME Ops \subseteq AnnouncedOps, "store" \notin Faults
  PROVE  Spec => []NothingSilent
<1>1. Init => NothingSilent
  BY DEF Init, NothingSilent
<1>2. IInv /\ NothingSilent /\ [Next]_vars => NothingSilent'
  <2> SUFFICES ASSUME IInv, NothingSilent, [Next]_vars PROVE NothingSilent'
    OBVIOUS
  <2>1. ASSUME NEW r \in Requests, NEW a \in Attendees, Arrive(r, a) PROVE NothingSilent'
    <3>1. won' = won /\ unannounced' = unannounced /\ dropped' = dropped /\ pc[r] = "new"
      BY <2>1 DEF Arrive, StationRead, UndoRead, PutRead, SyncPull, EditRead, PrintedRead, BatchRead,
                  Receive
    <3>2. \A q \in Requests \ {r} : call'[q] = call[q] /\ pc'[q] = pc[q]
      BY <2>1 DEF IInv, TypeOK, Arrive, StationRead, UndoRead, PutRead, SyncPull, EditRead,
                  PrintedRead, BatchRead, Receive, NotFound, Refused, Found, Goto
    <3> QED
      BY <3>1, <3>2 DEF NothingSilent, Owes, Target
  <2>2. ASSUME NEW r \in Requests, Continue(r), ~Publish(r) PROVE NothingSilent'
    <3>1. call' = call /\ dropped' = dropped
      BY <2>2 DEF Continue, StationUpdate, StationFallback, UndoUpdate, UndoFallback, BatchLogCheck,
                  BatchExists, BatchUpdate, BatchLogInsert, SyncPush, Transition, FeedInsert, WriteRow,
                  SyncWriteFails, PrintedIncrement, ReprintInsert
    <3>2. \A q \in Requests \ {r} : won'[q] = won[q] /\ pc'[q] = pc[q]
      BY <2>2 DEF IInv, TypeOK, Continue, StationUpdate, StationFallback, UndoUpdate, UndoFallback,
                  BatchLogCheck, BatchExists, BatchUpdate, BatchLogInsert, SyncPush, Transition,
                  FeedInsert, WriteRow, SyncWriteFails, PrintedIncrement, ReprintInsert, Goto
    <3>3. unannounced' \in {unannounced, unannounced \cup {Target(r)}}
      BY <2>2 DEF Continue, StationUpdate, StationFallback, UndoUpdate, UndoFallback, BatchLogCheck,
                  BatchExists, BatchUpdate, BatchLogInsert, SyncPush, Transition, FeedInsert, WriteRow,
                  SyncWriteFails, PrintedIncrement, ReprintInsert, Visible
    <3>4. Owes(r) \/ unannounced' # unannounced => Owes(r)'
      <4>0. call[r].op \in AnnouncedOps /\ pc \in [Requests -> Steps]
        BY <2>2, TargetRow DEF IInv, TypeOK
      <4>1. CASE StationUpdate(r) \/ StationFallback(r)
        BY <4>0, <4>1 DEF StationUpdate, StationFallback, At, Goto, Owes
      <4>2. CASE UndoUpdate(r) \/ UndoFallback(r)
        BY <4>0, <4>2 DEF UndoUpdate, UndoFallback, At, Goto, Owes
      <4>3. CASE BatchLogCheck(r) \/ BatchExists(r) \/ BatchLogInsert(r)
        BY <4>0, <4>3 DEF BatchLogCheck, BatchExists, BatchLogInsert, At, Goto, Owes
      <4>4. CASE BatchUpdate(r)
        BY <4>0, <4>4 DEF IInv, TypeOK, BatchUpdate, At, Goto, Owes
      <4>5. CASE SyncPush(r) \/ FeedInsert(r) \/ SyncWriteFails(r)
        BY <4>0, <4>5 DEF IInv, ControlOK, SyncPush, FeedInsert, SyncWriteFails, At, Goto, Owes
      <4>6. CASE Transition(r)
        BY <4>0, <4>6 DEF IInv, TypeOK, ControlOK, Transition, Goto, Owes
      <4>7. CASE WriteRow(r)
        <5>1. call[r].op \in {"info", "delete", "sync"}
          BY <4>0, <4>7 DEF IInv, ControlOK, WriteRow, LegacyOps, EditOps, AnnouncedOps, GuardedOps,
                            ScanOps
        <5> QED
          BY <4>0, <4>7, <5>1 DEF WriteRow, PublishesWrite, Goto, Owes
      <4>8. CASE PrintedIncrement(r) \/ ReprintInsert(r)
        BY <4>0, <4>8 DEF IInv, ControlOK, PrintedIncrement, ReprintInsert, At, Goto, Owes
      <4> QED
        BY <2>2, <4>1, <4>2, <4>3, <4>4, <4>5, <4>6, <4>7, <4>8 DEF Continue
    <3>5. \A q \in Requests : Owes(q) => Owes(q)'
      BY <3>2, <3>4 DEF Owes
    <3>6. \A q \in Requests : Target(q)' = Target(q)
      BY <3>1 DEF Target
    <3> SUFFICES ASSUME NEW b \in unannounced', ~dropped'
                 PROVE  \E q \in Requests : Target(q)' = b /\ Owes(q)'
      BY Zenon DEF NothingSilent
    <3>7. CASE b \in unannounced
      <4>1. PICK q \in Requests : Target(q) = b /\ Owes(q)
        BY <3>1, <3>7, Zenon DEF NothingSilent
      <4> QED
        BY <3>5, <3>6, <4>1
    <3>8. CASE b \notin unannounced
      BY <3>3, <3>4, <3>6, <3>8
    <3> QED
      BY <3>7, <3>8
  <2>3. ASSUME NEW r \in Requests, Publish(r) PROVE NothingSilent'
    <3>1. CASE unannounced' = {}
      BY <3>1 DEF NothingSilent
    <3>2. CASE dropped' = TRUE
      BY <3>2 DEF NothingSilent
    <3> QED
      BY <2>3, <3>1, <3>2 DEF Publish
  <2>4. ASSUME NEW r \in Requests, Crash(r) PROVE NothingSilent'
    <3>1. \A q \in Requests : q # r => (Owes(q) => Owes(q)')
      BY <2>4 DEF IInv, TypeOK, Crash, Goto, Owes
    <3>2. call' = call /\ unannounced' = unannounced /\ (Owes(r) \/ dropped => dropped')
      BY <2>4, Zenon DEF Crash
    <3> QED
      BY <3>1, <3>2, Zenon DEF NothingSilent, Target
  <2>5. ASSUME NEW r \in Requests, StoreFails(r) PROVE NothingSilent'
    BY <2>5 DEF StoreFails
  <2>6. CASE UNCHANGED vars
    BY <2>6 DEF vars, NothingSilent, Owes, Target
  <2> QED
    BY <2>1, <2>2, <2>3, <2>4, <2>5, <2>6 DEF Next
<1> QED
  BY <1>1, <1>2, Invariance, PTL DEF Spec

------------------------------------------------------------------------------
(* The guarded endpoints: station, batch and undo (and printed).           *)

GuardedInv ==
  /\ FeedMirrorsStatus
  /\ OneScanPerRow
  /\ \A a \in Attendees : ~row[a].deleted
  /\ \A r \in Requests :
       /\ pc[r] \in {"update", "logCheck", "exists", "increment"} => ans[r] = "none"
       /\ pc[r] = "fallback" => ans[r] = IF call[r].op = "undo" THEN "undone" ELSE "none"

LEMMA AppendAlternates ==
  ASSUME NEW f \in Seq(FeedRow), NEW x \in FeedRow, Alternates(f),
         x.action = IF EndsInCheckin(f) THEN "undo" ELSE "checkin"
  PROVE  /\ Alternates(Append(f, x))
         /\ EndsInCheckin(Append(f, x)) <=> x.action = "checkin"
         /\ Append(f, x)[Len(Append(f, x))] = x
<1> DEFINE g == Append(f, x)
<1>1. /\ Len(g) = Len(f) + 1 /\ Len(f) \in Nat /\ DOMAIN g = 1..Len(f) + 1 /\ DOMAIN f = 1..Len(f)
      /\ g[Len(f) + 1] = x
      /\ \A i \in 1..Len(f) : g[i] = f[i]
      /\ g # << >>
  OBVIOUS
<1>2. EndsInCheckin(g) <=> x.action = "checkin"
  BY <1>1 DEF EndsInCheckin
<1>3. ASSUME NEW i \in DOMAIN g
      PROVE  IF i = 1 THEN g[i].action = "checkin" ELSE g[i].action # g[i - 1].action
  <2>1. CASE i \in 1..Len(f)
    <3>1. i # 1 => i - 1 \in 1..Len(f)
      BY <1>1, <2>1
    <3> QED
      BY <1>1, <2>1, <3>1 DEF Alternates
  <2>2. CASE i = Len(f) + 1 /\ Len(f) = 0
    <3>1. f = << >>
      BY <2>2
    <3> QED
      BY <1>1, <2>2, <3>1 DEF EndsInCheckin
  <2>3. CASE i = Len(f) + 1 /\ Len(f) # 0
    <3>1. f # << >>
      BY <2>3
    <3>2. Len(f) \in 1..Len(f) /\ i - 1 = Len(f) /\ i # 1
      BY <1>1, <2>3
    <3>3. g[i] = x /\ g[i - 1] = f[Len(f)]
      BY <1>1, <2>3, <3>2
    <3>4. f[Len(f)] \in FeedRow
      BY <1>1, <3>2
    <3>5. f[Len(f)].action \in {"checkin", "undo"}
      BY <3>4 DEF FeedRow
    <3> QED
      BY <3>1, <3>2, <3>3, <3>5 DEF EndsInCheckin
  <2> QED
    BY <1>1, <2>1, <2>2, <2>3
<1>4. Alternates(g)
  BY <1>3 DEF Alternates
<1> QED
  BY <1>1, <1>2, <1>4

(* A statement that writes a row and its feed row together.                *)
LEMMA GuardedWrite ==
  ASSUME IInv, GuardedInv, NEW r \in Requests, NEW b \in Attendees, NEW w \in Row,
         NEW action \in {"checkin", "undo"},
         row' = [row EXCEPT ![b] = w],
         feed' = [feed EXCEPT ![b] = Append(@, [action |-> action, req |-> r])],
         row[b].status <=> action = "undo",
         w.status <=> action = "checkin",
         ~w.deleted,
         w.at = (IF w.status THEN r ELSE NULL), w.by = w.at,
         w.device \in {w.at, NULL}, w.point \in {w.at, NULL}
  PROVE  FeedMirrorsStatus' /\ OneScanPerRow' /\ \A a \in Attendees : ~row'[a].deleted
<1> DEFINE x == [action |-> action, req |-> r]
<1>1. feed[b] \in Seq(FeedRow) /\ x \in FeedRow
  BY DEF IInv, TypeOK, FeedRow
<1>2. Alternates(feed[b]) /\ x.action = IF EndsInCheckin(feed[b]) THEN "undo" ELSE "checkin"
  BY DEF GuardedInv, FeedMirrorsStatus
<1>3. /\ feed'[b] = Append(feed[b], x) /\ row'[b] = w
      /\ \A a \in Attendees \ {b} : feed'[a] = feed[a] /\ row'[a] = row[a]
  BY DEF IInv, TypeOK
<1>4. Alternates(feed'[b]) /\ (EndsInCheckin(feed'[b]) <=> action = "checkin")
      /\ feed'[b][Len(feed'[b])].req = r
  BY <1>1, <1>2, <1>3, AppendAlternates
<1>5. FeedMirrorsStatus'
  <2>1. ASSUME NEW a \in Attendees
        PROVE  Alternates(feed'[a]) /\ (row'[a].status <=> EndsInCheckin(feed'[a]))
    BY <1>3, <1>4 DEF GuardedInv, FeedMirrorsStatus
  <2> QED
    BY <2>1 DEF FeedMirrorsStatus, Alternates, EndsInCheckin
<1>6. OneScanPerRow'
  BY <1>3, <1>4 DEF GuardedInv, OneScanPerRow
<1> QED
  BY <1>3, <1>5, <1>6 DEF GuardedInv

LEMMA GuardedArrive ==
  ASSUME Ops \subseteq GuardedOps, IInv, GuardedInv, NEW r \in Requests, NEW a \in Attendees,
         Arrive(r, a)
  PROVE  GuardedInv' /\ row' = row
         /\ (ans' = ans \/ (ans[r] = "none" /\ \E v \in {"not_found", "blocked"} : ans' = [ans EXCEPT ![r] = v]))
<1>1. row' = row /\ feed' = feed
  BY DEF Arrive, StationRead, UndoRead, PutRead, SyncPull, EditRead, PrintedRead, BatchRead, Receive
<1>2. /\ \A q \in Requests \ {r} : call'[q] = call[q] /\ pc'[q] = pc[q] /\ ans'[q] = ans[q]
      /\ ans[r] = "none"
      /\ ans' = ans \/ \E v \in {"not_found", "blocked"} : ans' = [ans EXCEPT ![r] = v]
      /\ pc'[r] # "done" => ans' = ans
      /\ pc'[r] # "fallback"
  BY DEF IInv, TypeOK, ControlOK, Arrive, StationRead, UndoRead, PutRead, SyncPull, EditRead,
         PrintedRead, BatchRead, Receive, NotFound, Refused, Found, Goto, Answer
<1>3. FeedMirrorsStatus'
  BY <1>1 DEF GuardedInv, FeedMirrorsStatus, Alternates, EndsInCheckin
<1>4. OneScanPerRow'
  BY <1>1 DEF GuardedInv, OneScanPerRow
<1>5. \A q \in Requests :
        /\ pc'[q] \in {"update", "logCheck", "exists", "increment"} => ans'[q] = "none"
        /\ pc'[q] = "fallback" => ans'[q] = IF call'[q].op = "undo" THEN "undone" ELSE "none"
  BY <1>2 DEF GuardedInv
<1> QED
  BY <1>1, <1>2, <1>3, <1>4, <1>5 DEF GuardedInv

(* Only these statements are left when the legacy endpoints are not used.  *)
LEMMA GuardedSteps ==
  ASSUME Ops \subseteq GuardedOps, IInv, NEW r \in Requests, Continue(r)
  PROVE  \/ StationUpdate(r) \/ StationFallback(r) \/ UndoUpdate(r) \/ UndoFallback(r)
         \/ BatchLogCheck(r) \/ BatchExists(r) \/ BatchUpdate(r) \/ BatchLogInsert(r)
         \/ PrintedIncrement(r) \/ ReprintInsert(r) \/ Publish(r)
<1>1. call[r].op \in {"station", "batch", "undo", "printed"}
  BY TargetRow DEF GuardedOps, ScanOps
<1>2. ~SyncPush(r) /\ ~SyncWriteFails(r)
  BY <1>1 DEF SyncPush, SyncWriteFails, At
<1>3. ~Transition(r) /\ ~FeedInsert(r) /\ ~WriteRow(r)
  BY <1>1 DEF IInv, ControlOK, Transition, FeedInsert, WriteRow, LegacyOps, EditOps
<1> QED
  BY <1>2, <1>3 DEF Continue

LEMMA GuardedRows ==
  ASSUME Ops \subseteq GuardedOps, IInv, GuardedInv, NEW r \in Requests, Continue(r)
  PROVE  FeedMirrorsStatus' /\ OneScanPerRow' /\ \A a \in Attendees : ~row'[a].deleted
<1> DEFINE b == Target(r)
<1>0. b \in Attendees /\ row[b] \in Row /\ ~row[b].deleted
  BY TargetRow DEF GuardedInv
<1>1. CASE row' = row /\ feed' = feed
  <2>1. FeedMirrorsStatus'
    BY <1>1 DEF GuardedInv, FeedMirrorsStatus, Alternates, EndsInCheckin
  <2>2. OneScanPerRow'
    BY <1>1 DEF GuardedInv, OneScanPerRow
  <2> QED
    BY <1>1, <2>1, <2>2 DEF GuardedInv
<1>2. CASE StationUpdate(r) /\ StationGuard(row[b])
  <2>1. PICK point \in {r, NULL} : row' = [row EXCEPT ![b] = StationSet(row[b], r, point)]
    BY <1>2 DEF StationUpdate
  <2>2. feed' = [feed EXCEPT ![b] = Append(@, [action |-> "checkin", req |-> r])]
    BY <1>2 DEF StationUpdate, AppendFeed
  <2>3. /\ StationSet(row[b], r, point).status = TRUE
        /\ StationSet(row[b], r, point).deleted = row[b].deleted
        /\ StationSet(row[b], r, point).at = r /\ StationSet(row[b], r, point).by = r
        /\ StationSet(row[b], r, point).device = NULL
        /\ StationSet(row[b], r, point).point = point
    BY <1>0 DEF StationSet, Row
  <2>4. StationSet(row[b], r, point) \in Row
    BY <1>0, SetsAreRows
  <2> QED
    BY <1>0, <1>2, <2>1, <2>2, <2>3, <2>4, GuardedWrite DEF StationGuard
<1>3. CASE UndoUpdate(r) /\ UndoGuard(row[b])
  <2>1. row' = [row EXCEPT ![b] = UndoSet(row[b])]
    BY <1>3 DEF UndoUpdate
  <2>2. feed' = [feed EXCEPT ![b] = Append(@, [action |-> "undo", req |-> r])]
    BY <1>3 DEF UndoUpdate, AppendFeed
  <2>3. /\ UndoSet(row[b]) \in Row /\ ~UndoSet(row[b]).status /\ ~UndoSet(row[b]).deleted
        /\ UndoSet(row[b]).at = NULL /\ UndoSet(row[b]).by = NULL
        /\ UndoSet(row[b]).device = NULL /\ UndoSet(row[b]).point = NULL
    BY <1>0, SetsAreRows DEF UndoSet, Row
  <2> QED
    BY <1>0, <1>3, <2>1, <2>2, <2>3, GuardedWrite DEF UndoGuard
<1>4. CASE BatchUpdate(r) /\ BatchGuard(row[b])
  <2>1. PICK point \in {r, NULL} : row' = [row EXCEPT ![b] = BatchSet(row[b], r, point)]
    BY <1>4 DEF BatchUpdate
  <2>2. feed' = [feed EXCEPT ![b] = Append(@, [action |-> "checkin", req |-> r])]
    BY <1>4 DEF BatchUpdate, AppendFeed
  <2>3. /\ BatchSet(row[b], r, point).status = TRUE
        /\ BatchSet(row[b], r, point).deleted = row[b].deleted
        /\ BatchSet(row[b], r, point).at = r /\ BatchSet(row[b], r, point).by = r
        /\ BatchSet(row[b], r, point).device = r
        /\ BatchSet(row[b], r, point).point = point
    BY <1>0 DEF BatchSet, Row
  <2>4. BatchSet(row[b], r, point) \in Row
    BY <1>0, SetsAreRows
  <2> QED
    BY <1>0, <1>4, <2>1, <2>2, <2>3, <2>4, GuardedWrite DEF BatchGuard
<1>5. CASE PrintedIncrement(r)
  <2>1. feed' = feed /\ row' = [row EXCEPT ![b].printed = @ + 1]
    BY <1>0, <1>5 DEF PrintedIncrement
  <2>2. \A a \in Attendees :
          /\ row'[a].status = row[a].status /\ row'[a].at = row[a].at /\ row'[a].by = row[a].by
          /\ row'[a].device = row[a].device /\ row'[a].point = row[a].point
          /\ row'[a].deleted = row[a].deleted
    <3> DEFINE w == [row[b] EXCEPT !.printed = @ + 1]
    <3>1. /\ w.status = row[b].status /\ w.at = row[b].at /\ w.by = row[b].by
          /\ w.device = row[b].device /\ w.point = row[b].point /\ w.deleted = row[b].deleted
      BY <1>0 DEF Row
    <3>2. row'[b] = w /\ \A a \in Attendees \ {b} : row'[a] = row[a]
      BY <1>0, <2>1 DEF IInv, TypeOK
    <3> QED
      BY <3>1, <3>2
  <2>3. FeedMirrorsStatus'
    <3>1. \A a \in Attendees : Alternates(feed[a]) /\ (row'[a].status <=> EndsInCheckin(feed[a]))
      BY <2>2, Zenon DEF GuardedInv, FeedMirrorsStatus
    <3> QED
      BY <2>1, <3>1 DEF FeedMirrorsStatus, Alternates, EndsInCheckin
  <2>4. OneScanPerRow'
    BY <2>1, <2>2 DEF GuardedInv, OneScanPerRow
  <2> QED
    BY <2>2, <2>3, <2>4 DEF GuardedInv
<1> QED
  BY <1>1, <1>2, <1>3, <1>4, <1>5, GuardedSteps
     DEF StationUpdate, StationFallback, UndoUpdate, UndoFallback, BatchLogCheck, BatchExists,
         BatchUpdate, BatchLogInsert, ReprintInsert, Publish

LEMMA GuardedAnswers ==
  ASSUME Ops \subseteq GuardedOps, IInv, GuardedInv, NEW r \in Requests, Continue(r)
  PROVE  \A q \in Requests :
           /\ pc'[q] \in {"update", "logCheck", "exists", "increment"} => ans'[q] = "none"
           /\ pc'[q] = "fallback" => ans'[q] = IF call'[q].op = "undo" THEN "undone" ELSE "none"
<1>1. call' = call /\ ~row[Target(r)].deleted /\ pc \in [Requests -> Steps] /\ ans \in [Requests -> Answers]
  BY TargetRow DEF IInv, TypeOK, GuardedInv, Continue, StationUpdate, StationFallback, UndoUpdate,
         UndoFallback, BatchLogCheck, BatchExists, BatchUpdate, BatchLogInsert, SyncPush, Transition,
         FeedInsert, WriteRow, SyncWriteFails, PrintedIncrement, ReprintInsert, Publish
<1>2. \A q \in Requests \ {r} : pc'[q] = pc[q] /\ ans'[q] = ans[q]
  BY <1>1, GuardedSteps DEF StationUpdate, StationFallback, UndoUpdate, UndoFallback, BatchLogCheck,
         BatchExists, BatchUpdate, BatchLogInsert, PrintedIncrement, ReprintInsert, Publish, Goto, Answer
<1>3. /\ pc'[r] \in {"update", "logCheck", "exists", "increment"} => ans'[r] = "none"
      /\ pc'[r] = "fallback" => ans'[r] = IF call'[r].op = "undo" THEN "undone" ELSE "none"
  BY <1>1, GuardedSteps DEF GuardedInv, StationUpdate, StationFallback, UndoUpdate, UndoFallback,
         BatchLogCheck, BatchExists, BatchUpdate, BatchLogInsert, PrintedIncrement, ReprintInsert,
         Publish, Goto, Answer, At
<1> QED
  BY <1>1, <1>2, <1>3 DEF GuardedInv

LEMMA GuardedInvariance == ASSUME Ops \subseteq GuardedOps PROVE Spec => [](IInv /\ GuardedInv)
<1>1. Init => GuardedInv
  <2> SUFFICES ASSUME Init PROVE GuardedInv
    OBVIOUS
  <2>1. \A a \in Attendees :
          /\ ~row[a].status /\ row[a].at = NULL /\ row[a].by = NULL /\ row[a].device = NULL
          /\ row[a].point = NULL /\ ~row[a].deleted /\ feed[a] = << >>
    BY DEF Init, BlankRow
  <2>2. FeedMirrorsStatus /\ OneScanPerRow
    BY <2>1 DEF FeedMirrorsStatus, OneScanPerRow, Alternates, EndsInCheckin
  <2> QED
    BY <2>1, <2>2 DEF Init, GuardedInv
<1>2. IInv /\ GuardedInv /\ [Next]_vars => GuardedInv'
  <2> SUFFICES ASSUME IInv, GuardedInv, [Next]_vars PROVE GuardedInv'
    OBVIOUS
  <2>1. ASSUME NEW r \in Requests, NEW a \in Attendees, Arrive(r, a) PROVE GuardedInv'
    BY <2>1, GuardedArrive
  <2>2. ASSUME NEW r \in Requests, Continue(r) PROVE GuardedInv'
    BY <2>2, GuardedRows, GuardedAnswers DEF GuardedInv
  <2>3. ASSUME NEW r \in Requests, Crash(r) \/ StoreFails(r) PROVE GuardedInv'
    <3>1. /\ row' = row /\ feed' = feed /\ ans' = ans /\ call' = call
          /\ pc' = [pc EXCEPT ![r] = "failed"]
      BY <2>3 DEF Crash, StoreFails, Goto
    <3>2. FeedMirrorsStatus'
      BY <3>1 DEF GuardedInv, FeedMirrorsStatus, Alternates, EndsInCheckin
    <3>3. OneScanPerRow'
      BY <3>1 DEF GuardedInv, OneScanPerRow
    <3> QED
      BY <3>1, <3>2, <3>3 DEF GuardedInv, IInv, TypeOK
  <2>4. CASE UNCHANGED vars
    BY <2>4 DEF vars, GuardedInv, FeedMirrorsStatus, Alternates, EndsInCheckin, OneScanPerRow
  <2> QED
    BY <2>1, <2>2, <2>3, <2>4 DEF Next
<1> QED
  BY <1>1, <1>2, Invariance, PTL DEF Spec

(* With the guarded endpoints only, the feed alternates and its last row   *)
(* agrees with checkin_status, in every order of statements and crashes.   *)
THEOREM FeedFaithful == ASSUME Ops \subseteq GuardedOps PROVE Spec => []FeedMirrorsStatus
  BY GuardedInvariance, PTL DEF GuardedInv

(* ... so that nobody is admitted twice without an undo in between: the    *)
(* guarantee of the station endpoint, which only the full-row writers of   *)
(* the legacy endpoints break.                                             *)
THEOREM NobodyAdmittedTwice == ASSUME Ops \subseteq GuardedOps PROVE Spec => []NoDoubleCheckin
<1>1. GuardedInv => NoDoubleCheckin
  BY DEF GuardedInv, FeedMirrorsStatus, Alternates, NoDoubleCheckin
<1> QED
  BY <1>1, GuardedInvariance, PTL

(* ... and a row's metadata is that of the one scan that admitted.         *)
THEOREM ScanUnmixed == ASSUME Ops \subseteq GuardedOps PROVE Spec => []OneScanPerRow
  BY GuardedInvariance, PTL DEF GuardedInv

(* The scans that took effect, and the rows of the feed: each is the work  *)
(* of one request that won, and no request has two.                        *)
Admits(r) == won[r] /\ call[r].op \in ScanOps
RowFits(a, x) ==
  /\ x.req \in Requests /\ won[x.req] /\ Target(x.req) = a
  /\ IF x.action = "undo" THEN call[x.req].op = "undo" ELSE call[x.req].op \in ScanOps
FeedAuthored ==
  /\ \A r \in Requests : Admits(r) =>
       \E i \in DOMAIN feed[Target(r)] : feed[Target(r)][i] = [action |-> "checkin", req |-> r]
  /\ \A a \in Attendees : \A i \in DOMAIN feed[a] : RowFits(a, feed[a][i])
  /\ \A a \in Attendees : \A i, j \in DOMAIN feed[a] : feed[a][i].req = feed[a][j].req => i = j

(* Two scans that both admitted an attendee, a queued item and its resend  *)
(* among them, have an undo somebody asked for between them.               *)
AgainOnlyAfterUndo ==
  \A q, r \in Requests : q # r /\ Admits(q) /\ Admits(r) /\ Target(q) = Target(r) =>
    LET f == feed[Target(q)] IN
    \E i, k, j \in DOMAIN f :
      /\ i < k /\ k < j /\ {f[i].req, f[j].req} = {q, r}
      /\ f[k].action = "undo" /\ won[f[k].req] /\ call[f[k].req].op = "undo"

LEMMA AuthorsKept ==
  ASSUME Ops \subseteq GuardedOps, IInv, FeedAuthored, UNCHANGED feed,
         \A r \in Requests : won[r] => won'[r] /\ call'[r] = call[r],
         \A r \in Requests : Admits(r)' => Admits(r)
  PROVE  FeedAuthored'
<1>1. ASSUME NEW r \in Requests, Admits(r)' PROVE Admits(r) /\ Target(r)' = Target(r)
  BY <1>1 DEF Admits, Target
<1>2. ASSUME NEW a \in Attendees, NEW i \in DOMAIN feed[a] PROVE RowFits(a, feed[a][i])'
  <2>1. RowFits(a, feed[a][i])
    BY DEF FeedAuthored
  <2> QED
    BY <2>1 DEF RowFits, Target
<1> QED
  BY <1>1, <1>2 DEF FeedAuthored

LEMMA AuthorAppends ==
  ASSUME IInv, FeedAuthored, NEW r \in Requests, NEW b \in Attendees, NEW action \in {"checkin", "undo"},
         Target(r) = b, UNCHANGED call, ~won[r], won' = [won EXCEPT ![r] = TRUE],
         feed' = [feed EXCEPT ![b] = Append(@, [action |-> action, req |-> r])],
         IF action = "undo" THEN call[r].op = "undo" ELSE call[r].op \in ScanOps
  PROVE  FeedAuthored'
<1> DEFINE x == [action |-> action, req |-> r]
<1>1. /\ feed[b] \in Seq(FeedRow) /\ won \in [Requests -> BOOLEAN] /\ feed' \in [Attendees -> Seq(FeedRow)]
      /\ feed'[b] = Append(feed[b], x) /\ \A a \in Attendees \ {b} : feed'[a] = feed[a]
  BY DEF IInv, TypeOK, FeedRow
<1> DEFINE n == Len(feed[b])
<1>2. /\ n \in Nat /\ DOMAIN feed[b] = 1..n /\ DOMAIN feed'[b] = 1..(n + 1) /\ feed'[b][n + 1] = x
      /\ \A i \in 1..n : feed'[b][i] = feed[b][i]
  BY <1>1
<1> HIDE DEF n
<1>3. \A a \in Attendees : \A i \in DOMAIN feed[a] : i \in DOMAIN feed'[a] /\ feed'[a][i] = feed[a][i]
  BY <1>1, <1>2
<1>4. \A q \in Requests : Target(q)' = Target(q) /\ (won'[q] <=> won[q] \/ q = r)
  BY <1>1 DEF Target
<1>5. ASSUME NEW q \in Requests, Admits(q)'
      PROVE  \E i \in DOMAIN feed'[Target(q)] : feed'[Target(q)][i] = [action |-> "checkin", req |-> q]
  <2>1. CASE q = r
    <3>1. action = "checkin"
      BY <1>5, <2>1 DEF Admits, ScanOps
    <3> QED
      BY <1>2, <2>1, <3>1
  <2>2. CASE q # r
    <3>1. Admits(q) /\ Target(q) \in Attendees
      BY <1>4, <1>5, <2>2 DEF Admits, IInv, ControlOK, Target
    <3> QED
      BY <1>3, <3>1 DEF FeedAuthored
  <2> QED
    BY <2>1, <2>2
<1>6. ASSUME NEW a \in Attendees, NEW i \in DOMAIN feed'[a]
      PROVE  \/ i \in DOMAIN feed[a] /\ feed'[a][i] = feed[a][i]
             \/ a = b /\ i = n + 1 /\ feed'[a][i] = x
  BY <1>1, <1>2
<1>7. ASSUME NEW a \in Attendees, NEW i \in DOMAIN feed'[a] PROVE RowFits(a, feed[a][i])'
  <2>1. CASE i \in DOMAIN feed[a] /\ feed'[a][i] = feed[a][i]
    <3>1. RowFits(a, feed[a][i])
      BY <2>1 DEF FeedAuthored
    <3> QED
      BY <1>4, <2>1, <3>1 DEF RowFits
  <2>2. CASE a = b /\ i = n + 1 /\ feed'[a][i] = x
    BY <1>4, <2>2 DEF RowFits
  <2> QED
    BY <1>6, <2>1, <2>2
<1>8. ASSUME NEW a \in Attendees, NEW i \in DOMAIN feed'[a], NEW j \in DOMAIN feed'[a],
             feed'[a][i].req = feed'[a][j].req
      PROVE  i = j
  <2>1. \A k \in DOMAIN feed[a] : feed[a][k].req # r
    BY DEF FeedAuthored, RowFits
  <2> QED
    BY <1>6, <1>8, <2>1 DEF FeedAuthored
<1> QED
  BY <1>4, <1>5, <1>7, <1>8 DEF FeedAuthored

LEMMA FeedAuthors ==
  ASSUME Ops \subseteq GuardedOps
  PROVE  IInv /\ FeedAuthored /\ [Next]_vars => FeedAuthored'
<1> SUFFICES ASSUME IInv, FeedAuthored, [Next]_vars PROVE FeedAuthored'
  OBVIOUS
<1>0. won \in [Requests -> BOOLEAN] /\ call \in [Requests -> Call]
  BY DEF IInv, TypeOK
<1>1. ASSUME NEW r \in Requests, NEW a \in Attendees, Arrive(r, a) PROVE FeedAuthored'
  <2>1. /\ feed' = feed /\ won' = won /\ ~won[r]
        /\ \A q \in Requests \ {r} : call'[q] = call[q]
    BY <1>0, <1>1 DEF IInv, ControlOK, Arrive, StationRead, UndoRead, PutRead, SyncPull, EditRead,
              PrintedRead, BatchRead, Receive
  <2> QED
    BY <2>1, AuthorsKept DEF Admits
<1>2. ASSUME NEW r \in Requests, Continue(r) PROVE FeedAuthored'
  <2>0. Target(r) \in Attendees /\ call' = call
    BY <1>2, TargetRow DEF Continue, StationUpdate, StationFallback, UndoUpdate, UndoFallback,
         BatchLogCheck, BatchExists, BatchUpdate, BatchLogInsert, SyncPush, Transition, FeedInsert,
         WriteRow, SyncWriteFails, PrintedIncrement, ReprintInsert, Publish
  <2>1. CASE feed' = feed /\ (won' = won \/ PrintedIncrement(r))
    <3>1. \A q \in Requests : (won[q] => won'[q]) /\ (Admits(q)' => Admits(q))
      BY <1>0, <2>0, <2>1 DEF PrintedIncrement, At, Admits, ScanOps
    <3> QED
      BY <2>0, <2>1, <3>1, AuthorsKept
  <2>2. CASE /\ StationUpdate(r) \/ BatchUpdate(r) \/ UndoUpdate(r)
             /\ ~(feed' = feed /\ won' = won)
    <3>1. ~won[r]
      BY <2>2 DEF StationUpdate, BatchUpdate, UndoUpdate, At, IInv, ControlOK
    <3>2. \E action \in {"checkin", "undo"} :
            /\ won' = [won EXCEPT ![r] = TRUE]
            /\ feed' = [feed EXCEPT ![Target(r)] = Append(@, [action |-> action, req |-> r])]
            /\ IF action = "undo" THEN call[r].op = "undo" ELSE call[r].op \in ScanOps
      BY <2>2 DEF StationUpdate, BatchUpdate, UndoUpdate, At, AppendFeed, ScanOps
    <3> QED
      BY <2>0, <3>1, <3>2, AuthorAppends
  <2> QED
    BY <1>2, <2>1, <2>2, GuardedSteps
       DEF StationUpdate, StationFallback, UndoUpdate, UndoFallback, BatchLogCheck, BatchExists,
           BatchUpdate, BatchLogInsert, PrintedIncrement, ReprintInsert, Publish
<1>3. ASSUME NEW r \in Requests, Crash(r) \/ StoreFails(r) PROVE FeedAuthored'
  BY <1>3, AuthorsKept DEF Crash, StoreFails, Admits
<1>4. CASE UNCHANGED vars
  BY <1>4, AuthorsKept DEF vars, Admits
<1> QED
  BY <1>1, <1>2, <1>3, <1>4 DEF Next

(* ... and a queued item whose resend is applied again, for want of a log  *)
(* row, was undone in between by a request of its own: nothing else makes  *)
(* a second check-in of it.                                                *)
THEOREM ReplayNeedsUndo == ASSUME Ops \subseteq GuardedOps PROVE Spec => []AgainOnlyAfterUndo
<1>1. Init => FeedAuthored
  BY DEF Init, FeedAuthored, Admits
<1>2. IInv /\ GuardedInv /\ FeedAuthored => AgainOnlyAfterUndo
  <2> SUFFICES ASSUME IInv, GuardedInv, FeedAuthored, NEW q \in Requests, NEW r \in Requests, q # r,
                      Admits(q), Admits(r), Target(q) = Target(r)
               PROVE  \E i, k, j \in DOMAIN feed[Target(q)] :
                        /\ i < k /\ k < j /\ {feed[Target(q)][i].req, feed[Target(q)][j].req} = {q, r}
                        /\ feed[Target(q)][k].action = "undo" /\ won[feed[Target(q)][k].req]
                        /\ call[feed[Target(q)][k].req].op = "undo"
    BY DEF AgainOnlyAfterUndo
  <2>1. Target(q) \in Attendees
    BY DEF Admits, ScanOps, IInv, ControlOK, BlankCall, Target
  <2>2. PICK f : f = feed[Target(q)]
    OBVIOUS
  <2>3. f \in Seq(FeedRow) /\ Alternates(f) /\ \A k \in DOMAIN f : RowFits(Target(q), f[k])
    BY <2>1, <2>2 DEF IInv, TypeOK, GuardedInv, FeedMirrorsStatus, FeedAuthored
  <2>4. PICK x \in DOMAIN f : f[x] = [action |-> "checkin", req |-> q]
    BY <2>2 DEF FeedAuthored
  <2>5. PICK y \in DOMAIN f : f[y] = [action |-> "checkin", req |-> r]
    BY <2>2 DEF FeedAuthored
  <2>6. ASSUME NEW i \in DOMAIN f, NEW j \in DOMAIN f, i < j, f[i].action = "checkin", f[j].action = "checkin"
        PROVE  i + 1 \in DOMAIN f /\ i + 1 < j /\ f[i + 1].action = "undo"
    <3>1. i + 1 \in DOMAIN f /\ i + 1 # 1 /\ (i + 1) - 1 = i /\ i + 1 <= j
      BY <2>3, <2>6
    <3>2. f[i + 1].action # f[i].action /\ f[i + 1].action \in {"checkin", "undo"}
      <4>1. f[i + 1].action # f[(i + 1) - 1].action
        BY <2>3, <3>1 DEF Alternates
      <4>2. f[i + 1] \in FeedRow
        BY <2>3, <3>1
      <4> QED
        BY <3>1, <4>1, <4>2 DEF FeedRow
    <3> QED
      BY <2>3, <2>6, <3>1, <3>2
  <2>7. \E i, k, j \in DOMAIN f :
          /\ i < k /\ k < j /\ {f[i].req, f[j].req} = {q, r} /\ f[k].action = "undo"
    <3>1. x # y /\ x \in Int /\ y \in Int
      BY <2>3, <2>4, <2>5
    <3>2. f[x].action = "checkin" /\ f[y].action = "checkin" /\ f[x].req = q /\ f[y].req = r
      BY <2>4, <2>5
    <3>3. CASE x < y
      <4>1. x + 1 \in DOMAIN f /\ x + 1 < y /\ f[x + 1].action = "undo" /\ x < x + 1
        BY <2>6, <3>1, <3>2, <3>3
      <4> QED
        BY <3>2, <4>1
    <3>4. CASE y < x
      <4>1. y + 1 \in DOMAIN f /\ y + 1 < x /\ f[y + 1].action = "undo" /\ y < y + 1
        BY <2>6, <3>1, <3>2, <3>4
      <4>2. {f[y].req, f[x].req} = {q, r}
        BY <3>2
      <4> QED
        BY <4>1, <4>2
    <3> QED
      BY <3>1, <3>3, <3>4
  <2> QED
    BY <2>2, <2>3, <2>7 DEF RowFits
<1> QED
  BY <1>1, <1>2, FeedAuthors, GuardedInvariance, Invariance, PTL DEF Spec

(* Each of these statements is one step of the atomic ledger, or none.     *)
LEMMA LedgerTell ==
  ASSUME IInv, NEW r \in Requests, NEW v \in Answers, ans[r] = "none",
         ans' = [ans EXCEPT ![r] = v], Verdict(v) # "none"
  PROVE  Ledger!Tell(r, Verdict(v))
<1>1. [q \in Requests |-> Verdict(ans[q])][r] = "none"
  BY DEF Verdict
<1>2. [q \in Requests |-> Verdict(ans'[q])]
        = [[q \in Requests |-> Verdict(ans[q])] EXCEPT ![r] = Verdict(v)]
  BY DEF IInv, TypeOK
<1> QED
  BY <1>1, <1>2 DEF Ledger!Tell

(* A checked-in row carries a user, and no other row does.                 *)
LEMMA HeldIffCheckedIn ==
  ASSUME IInv, GuardedInv, NEW a \in Attendees
  PROVE  row[a].status <=> row[a].by # NULL
<1>1. CASE ~row[a].status
  BY <1>1 DEF GuardedInv, OneScanPerRow
<1>2. CASE row[a].status
  <2>1. feed[a] \in Seq(FeedRow) /\ feed[a] # << >>
    BY <1>2 DEF IInv, TypeOK, GuardedInv, FeedMirrorsStatus, EndsInCheckin
  <2>2. Len(feed[a]) \in 1..Len(feed[a])
    BY <2>1
  <2>3. feed[a][Len(feed[a])] \in FeedRow
    BY <2>1, <2>2
  <2>4. row[a].by = feed[a][Len(feed[a])].req
    BY <1>2 DEF GuardedInv, OneScanPerRow
  <2> QED
    BY <1>2, <2>3, <2>4, NullAssumption DEF FeedRow
<1> QED
  BY <1>1, <1>2

LEMMA LedgerContinue ==
  ASSUME Ops \subseteq GuardedOps, IInv, GuardedInv, NEW r \in Requests, Continue(r)
  PROVE  Ledger!LedgerNext \/ UNCHANGED Ledger!ledgerVars
<1> DEFINE b == Target(r)
<1>0. /\ b \in Attendees /\ row[b] \in Row /\ ~row[b].deleted /\ TypeOK
      /\ row[b].status <=> row[b].by # NULL
  BY TargetRow, HeldIffCheckedIn DEF GuardedInv, IInv
<1> DEFINE holder == [a \in Attendees |-> row[a].by]
<1>a. ASSUME UNCHANGED <<row, ans>> PROVE UNCHANGED Ledger!ledgerVars
  BY <1>a DEF Ledger!ledgerVars
<1>b. ASSUME NEW v \in {"not_found", "conflict", "blocked", "duplicate", "ok"}, ans[r] = "none",
             ans' = [ans EXCEPT ![r] = v], \A a \in Attendees : row'[a].by = row[a].by
      PROVE  Ledger!LedgerNext
  <2>1. Ledger!Tell(r, "refused")
    BY <1>b, <1>0, LedgerTell DEF Answers, Verdict
  <2> QED
    BY <1>b, <2>1 DEF Ledger!LedgerNext, Ledger!Refuse
<1>c. ASSUME NEW v \in {"already_checked_in", "already_exists"}, ans[r] = "none",
             ans' = [ans EXCEPT ![r] = v], row' = row, row[b].status
      PROVE  Ledger!LedgerNext
  <2>1. Ledger!Tell(r, "already")
    BY <1>c, <1>0, LedgerTell DEF Answers, Verdict
  <2> QED
    BY <1>0, <1>c, <2>1 DEF Ledger!LedgerNext, Ledger!Decline
<1>d. ASSUME NEW v \in {"checked_in", "created"}, ans[r] = "none", ans' = [ans EXCEPT ![r] = v],
             NEW w, row' = [row EXCEPT ![b] = w], w.by = r, ~row[b].status
      PROVE  Ledger!LedgerNext
  <2>1. Ledger!Tell(r, "admitted")
    BY <1>d, <1>0, LedgerTell DEF Answers, Verdict
  <2>2. [a \in Attendees |-> row'[a].by] = [holder EXCEPT ![b] = r]
    BY <1>0, <1>d DEF TypeOK
  <2> QED
    BY <1>0, <1>d, <2>1, <2>2 DEF Ledger!LedgerNext, Ledger!Admit
<1>e. ASSUME ans[r] = "none", ans' = [ans EXCEPT ![r] = "undone"],
             [a \in Attendees |-> row'[a].by] = [holder EXCEPT ![b] = NULL]
      PROVE  Ledger!LedgerNext
  <2>1. Ledger!Tell(r, "cleared")
    BY <1>e, <1>0, LedgerTell DEF Answers, Verdict
  <2> QED
    BY <1>0, <1>e, <2>1 DEF Ledger!LedgerNext, Ledger!Clear
<1>1. CASE StationUpdate(r)
  <2>1. CASE StationGuard(row[b])
    <3>1. PICK point \in {r, NULL} : row' = [row EXCEPT ![b] = StationSet(row[b], r, point)]
      BY <1>1, <2>1 DEF StationUpdate
    <3>2. StationSet(row[b], r, point).by = r
      BY <1>0 DEF StationSet, Row
    <3>3. ans[r] = "none" /\ ans' = [ans EXCEPT ![r] = "checked_in"] /\ ~row[b].status
      BY <1>1, <2>1 DEF GuardedInv, StationUpdate, StationGuard, At, Answer
    <3> QED
      BY <1>d, <3>1, <3>2, <3>3
  <2>2. CASE ~StationGuard(row[b])
    BY <1>1, <1>a, <2>2 DEF StationUpdate
  <2> QED
    BY <2>1, <2>2
<1>2. CASE StationFallback(r)
  <2>1. ans[r] = "none" /\ row' = row
    BY <1>2 DEF GuardedInv, StationFallback, At
  <2>2. \/ ans' = ans
        \/ \E v \in {"blocked", "conflict"} : ans' = [ans EXCEPT ![r] = v]
        \/ row[b].status /\ ans' = [ans EXCEPT ![r] = "already_checked_in"]
    BY <1>0, <1>2 DEF StationFallback, Answer
  <2> QED
    BY <1>a, <1>b, <1>c, <2>1, <2>2
<1>3. CASE UndoUpdate(r)
  <2>1. ans[r] = "none" /\ ans' = [ans EXCEPT ![r] = "undone"]
    BY <1>0, <1>3 DEF GuardedInv, UndoUpdate, At, Answer
  <2>2. CASE UndoGuard(row[b])
    <3>1. row' = [row EXCEPT ![b] = UndoSet(row[b])] /\ UndoSet(row[b]).by = NULL
      BY <1>0, <1>3, <2>2 DEF UndoUpdate, UndoSet, Row
    <3>2. [a \in Attendees |-> row'[a].by] = [holder EXCEPT ![b] = NULL]
      BY <1>0, <3>1 DEF TypeOK
    <3> QED
      BY <1>e, <2>1, <3>2
  <2>3. CASE ~UndoGuard(row[b])
    <3>1. row' = row /\ row[b].by = NULL
      BY <1>0, <1>3, <2>3 DEF UndoUpdate, UndoGuard
    <3>2. [a \in Attendees |-> row'[a].by] = [holder EXCEPT ![b] = NULL]
      BY <1>0, <3>1
    <3> QED
      BY <1>e, <2>1, <3>2
  <2> QED
    BY <2>2, <2>3
<1>4. CASE UndoFallback(r)
  <2>1. ans[r] = "undone" /\ row' = row /\ ans' = [ans EXCEPT ![r] = "undone"]
    BY <1>0, <1>4 DEF GuardedInv, UndoFallback, At, Answer
  <2>2. ans' = ans
    BY <1>0, <2>1 DEF TypeOK
  <2> QED
    BY <1>a, <2>1, <2>2
<1>5. CASE BatchLogCheck(r) \/ BatchExists(r)
  <2>1. ans[r] = "none" /\ row' = row
        /\ (ans' = ans \/ ans' = [ans EXCEPT ![r] = "duplicate"])
    BY <1>0, <1>5 DEF GuardedInv, BatchLogCheck, BatchExists, At, Answer
  <2> QED
    BY <1>a, <1>b, <2>1
<1>6. CASE BatchUpdate(r)
  <2>0. ans[r] = "none"
    BY <1>6 DEF GuardedInv, BatchUpdate, At
  <2>1. CASE BatchGuard(row[b])
    <3>1. PICK point \in {r, NULL} : row' = [row EXCEPT ![b] = BatchSet(row[b], r, point)]
      BY <1>6, <2>1 DEF BatchUpdate
    <3>2. BatchSet(row[b], r, point).by = r
      BY <1>0 DEF BatchSet, Row
    <3>3. ans' = [ans EXCEPT ![r] = "created"] /\ ~row[b].status
      BY <1>6, <2>1 DEF BatchUpdate, BatchGuard, Answer
    <3> QED
      BY <1>d, <2>0, <3>1, <3>2, <3>3
  <2>2. CASE ~BatchGuard(row[b])
    <3>1. row' = row /\ ans' = [ans EXCEPT ![r] = "already_exists"] /\ row[b].status
      BY <1>0, <1>6, <2>2 DEF BatchUpdate, BatchGuard, Answer
    <3> QED
      BY <1>c, <2>0, <3>1
  <2> QED
    BY <2>1, <2>2
<1>7. CASE PrintedIncrement(r)
  <2>1. ans[r] = "none" /\ ans' = [ans EXCEPT ![r] = "ok"]
    BY <1>0, <1>7 DEF GuardedInv, PrintedIncrement, At, Answer
  <2>2. row' = [row EXCEPT ![b].printed = @ + 1]
    BY <1>0, <1>7 DEF PrintedIncrement
  <2>3. [row[b] EXCEPT !.printed = @ + 1].by = row[b].by
    BY <1>0 DEF Row
  <2>4. \A a \in Attendees : row'[a].by = row[a].by
    BY <1>0, <2>2, <2>3 DEF TypeOK
  <2> QED
    BY <1>b, <2>1, <2>4
<1>8. CASE BatchLogInsert(r) \/ ReprintInsert(r) \/ Publish(r)
  BY <1>8, <1>a DEF BatchLogInsert, ReprintInsert, Publish
<1> QED
  BY <1>1, <1>2, <1>3, <1>4, <1>5, <1>6, <1>7, <1>8, GuardedSteps

(* The guarded endpoints implement the atomic ledger, for every number of  *)
(* attendees and requests: each attendee is held by at most one request,   *)
(* and each answer was true at one instant of its request.                 *)
THEOREM ImplementsLedger == ASSUME Ops \subseteq GuardedOps PROVE Spec => AtomicLedger
<1>1. Init => Ledger!LedgerInit
  <2> SUFFICES ASSUME Init PROVE Ledger!LedgerInit
    OBVIOUS
  <2>1. \A a \in Attendees : row[a].by = NULL
    BY DEF Init, BlankRow
  <2>2. \A r \in Requests : Verdict(ans[r]) = "none"
    BY DEF Init, Verdict
  <2> QED
    BY <2>1, <2>2 DEF Ledger!LedgerInit
<1>2. IInv /\ GuardedInv /\ [Next]_vars => [Ledger!LedgerNext]_(Ledger!ledgerVars)
  <2> SUFFICES ASSUME IInv, GuardedInv, [Next]_vars
               PROVE  Ledger!LedgerNext \/ UNCHANGED Ledger!ledgerVars
    OBVIOUS
  <2>a. ASSUME UNCHANGED <<row, ans>> PROVE UNCHANGED Ledger!ledgerVars
    BY <2>a DEF Ledger!ledgerVars
  <2>1. ASSUME NEW r \in Requests, NEW a \in Attendees, Arrive(r, a)
        PROVE  Ledger!LedgerNext \/ UNCHANGED Ledger!ledgerVars
    <3>1. CASE ans' = ans
      BY <2>1, <2>a, <3>1, GuardedArrive
    <3>2. CASE ans[r] = "none" /\ \E v \in {"not_found", "blocked"} : ans' = [ans EXCEPT ![r] = v]
      <4>1. Ledger!Tell(r, "refused") /\ row' = row
        BY <2>1, <3>2, GuardedArrive, LedgerTell DEF Answers, Verdict
      <4> QED
        BY <4>1 DEF Ledger!LedgerNext, Ledger!Refuse
    <3> QED
      BY <2>1, <3>1, <3>2, GuardedArrive
  <2>2. ASSUME NEW r \in Requests, Continue(r)
        PROVE  Ledger!LedgerNext \/ UNCHANGED Ledger!ledgerVars
    BY <2>2, LedgerContinue
  <2>3. ASSUME NEW r \in Requests, Crash(r) \/ StoreFails(r) PROVE UNCHANGED Ledger!ledgerVars
    BY <2>3, <2>a DEF Crash, StoreFails
  <2>4. CASE UNCHANGED vars
    BY <2>4, <2>a DEF vars
  <2> QED
    BY <2>1, <2>2, <2>3, <2>4 DEF Next
<1> QED
  BY <1>1, <1>2, GuardedInvariance, PTL DEF Spec, AtomicLedger, Ledger!LedgerSpec
===============================================================================

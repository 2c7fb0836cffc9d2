-------------------------- MODULE ScanStationProofs --------------------------
(***************************************************************************)
(* Theorems about ScanStation, for every set of stations, codes and scans, *)
(* and every choice of what may happen around the station.                 *)
(***************************************************************************)
EXTENDS ScanStation, FiniteSetTheorems, TLAPS

(* What a submission is known to have done before it is where it is.       *)
StepsOK ==
  \A j \in submissions :
    /\ j.step # "lookup" => j.code \in Registered
    /\ j.step \in {"lookup", "post"} => j.outcome = "none"
    /\ j.step = "print" => j.outcome = "allowed"

(* The check-ins of a code whose badge has not been printed yet.           *)
Owing(c) ==
  {j \in submissions : j.code = c /\ j.outcome = "allowed" /\ j.step \in {"answer", "print"}}

ScansCovered ==
  /\ IsFiniteSet(submissions)
  /\ \A c \in Codes : autoPrints[c] + Cardinality(Owing(c)) <= checkins[c]

(* Until the tab moves, busyRef is set exactly while a submission is out.  *)
BusyMeansOne ==
  ~moved => /\ \A j, k \in submissions : j = k
            /\ flowBusy <=> submissions # {}

(* What the proofs need of the state's type.                               *)
FlowSteps == {"lookup", "post", "answer", "print", "mark"}
IsSubmission(j) ==
  j \in [id : {j.id}, code : Codes, station : {j.station}, print : {j.print},
         printer : {j.printer}, fonts : {j.fonts}, step : FlowSteps, outcome : CardKinds]

BooksOK ==
  /\ \A j \in submissions : IsSubmission(j)
  /\ registry \in [Registered -> {"out", "in", "blocked"}]
  /\ checkins \in [Codes -> Nat] /\ autoPrints \in [Codes -> Nat]
  /\ moved \in BOOLEAN

FlowInv == BooksOK /\ StepsOK /\ ScansCovered /\ DismissalOwned /\ BusyMeansOne

------------------------------------------------------------------------------
(* The steps of the page by what they do to the submissions: nothing, a    *)
(* new one, or the end or the advance of one.                              *)
Quiet == /\ UNCHANGED <<flowVars, submissions, checkins, autoPrints, moved>>
         /\ registry' \in [Registered -> {"out", "in", "blocked"}]

Cleared == /\ ResetFlow /\ UNCHANGED <<submissions, registry, checkins, autoPrints>> /\ moved'

Begins == \E c \in Codes, step \in {"lookup", "post"} :
            /\ step = "post" => c \in Registered
            /\ Submit(c, step) /\ UNCHANGED <<registry, checkins, autoPrints, moved>>

LEMMA HandleCodeKinds ==
  ASSUME NEW c \in Codes, HandleCode(c), UNCHANGED <<registry, checkins, autoPrints, moved>>, BooksOK
  PROVE  Quiet \/ Begins
<1>1. CASE Submit(c, "lookup")
  BY <1>1 DEF Begins
<1>2. CASE UNCHANGED <<flowVars, submissions>>
  BY <1>2 DEF Quiet, BooksOK
<1> QED
  BY <1>1, <1>2 DEF HandleCode, DropBusy

LEMMA StepKinds ==
  ASSUME BooksOK, [StationNext]_stationVars
  PROVE  \/ \E j \in submissions : FlowStep(j)
         \/ Dismiss \/ Cleared \/ Begins \/ Quiet
<1> USE DEF stationVars, agentVars, pollVars, flowVars, backendVars, pageVars, boundVars
<1>1. CASE \E s \in Stations : Navigate(s)
  BY <1>1 DEF Navigate, Turn, Cleared
<1>2. ASSUME NEW c \in Codes, PhysicalScan(c) PROVE Quiet
  BY <1>2 DEF PhysicalScan, Quiet, BooksOK
<1>3. ASSUME NEW c \in Codes, WedgeEnter(c) PROVE Quiet \/ Begins
  BY <1>3, HandleCodeKinds DEF WedgeEnter
<1>4. ASSUME NEW c \in Codes, PickAttendee(c) PROVE Begins
  BY <1>4 DEF PickAttendee, Begins
<1>5. ASSUME PollDelivers PROVE Quiet \/ Begins
  <2>1. CASE scanPoll = NoCode
    BY <1>5, <2>1 DEF PollDelivers, Quiet, BooksOK
  <2>2. CASE scanPoll \in Codes /\ HandleCode(scanPoll)
    BY <1>5, <2>2, HandleCodeKinds DEF PollDelivers
  <2> QED
    BY <1>5, <2>1, <2>2 DEF PollDelivers
<1>6. CASE PollTick \/ PollAnswers \/ StrayPollAnswers \/ FontsSettle \/ AgentTurns \/ GatePoll
           \/ WindowFocus \/ ConnectionTurns \/ ConnectionSettles
  BY <1>6 DEF PollTick, PollAnswers, StrayPollAnswers, FontsSettle, AgentTurns, GatePoll, WindowFocus,
              LearnPrinter, ConnectionTurns, ConnectionSettles, Turn, Quiet, BooksOK
<1>7. ASSUME NEW m \in Modes, NEW p \in BOOLEAN, SettingsArrive(m, p) PROVE Quiet
  BY <1>7 DEF SettingsArrive, Turn, Quiet, BooksOK
<1>8. ASSUME NEW c \in Registered, NEW to \in {"out", "in", "blocked"}, Elsewhere(c, to) PROVE Quiet
  BY <1>8 DEF Elsewhere, Turn, Quiet, BooksOK
<1>9. CASE UNCHANGED stationVars
  BY <1>9 DEF Quiet, BooksOK
<1> QED
  BY <1>1, <1>2, <1>3, <1>4, <1>5, <1>6, <1>7, <1>8, <1>9 DEF StationNext

------------------------------------------------------------------------------
LEMMA FlowInit == StationInit => FlowInv
<1> SUFFICES ASSUME StationInit PROVE FlowInv
  OBVIOUS
<1>1. BooksOK /\ StepsOK /\ DismissalOwned /\ BusyMeansOne
  BY DEF StationInit, BooksOK, StepsOK, DismissalOwned, BusyMeansOne
<1>2. \A c \in Codes : Owing(c) = {}
  BY DEF StationInit, Owing
<1>3. ScansCovered
  BY <1>2, FS_EmptySet DEF StationInit, ScansCovered
<1> QED
  BY <1>1, <1>3 DEF FlowInv

LEMMA QuietKeeps == FlowInv /\ Quiet => FlowInv'
<1> SUFFICES ASSUME FlowInv, Quiet PROVE FlowInv'
  OBVIOUS
<1>1. BooksOK' /\ StepsOK'
  BY DEF FlowInv, Quiet, BooksOK, StepsOK, IsSubmission
<1>2. DismissalOwned' /\ BusyMeansOne'
  BY DEF FlowInv, Quiet, flowVars, DismissalOwned, BusyMeansOne
<1>3. ScansCovered'
  BY DEF FlowInv, Quiet, ScansCovered, Owing
<1> QED
  BY <1>1, <1>2, <1>3 DEF FlowInv

LEMMA ResetKeeps == FlowInv /\ (Cleared \/ Dismiss) => FlowInv'
<1> SUFFICES ASSUME FlowInv, Cleared \/ Dismiss PROVE FlowInv'
  OBVIOUS
<1>1. UNCHANGED <<submissions, registry, checkins, autoPrints>>
  BY DEF Cleared, Dismiss, backendVars
<1>2. BooksOK' /\ StepsOK'
  BY <1>1 DEF FlowInv, BooksOK, StepsOK, IsSubmission, Cleared, Dismiss, boundVars
<1>3. DismissalOwned' /\ BusyMeansOne'
  BY <1>1 DEF FlowInv, Cleared, ResetFlow, Dismiss, boundVars, DismissalOwned, BusyMeansOne
<1>4. ScansCovered'
  BY <1>1 DEF FlowInv, ScansCovered, Owing
<1> QED
  BY <1>2, <1>3, <1>4 DEF FlowInv

LEMMA BeginKeeps == FlowInv /\ Begins => FlowInv'
<1> SUFFICES ASSUME FlowInv, NEW c \in Codes, NEW step \in {"lookup", "post"},
                    step = "post" => c \in Registered, Submit(c, step),
                    UNCHANGED <<registry, checkins, autoPrints, moved>>
             PROVE  FlowInv'
  BY DEF Begins
<1> DEFINE new == [id |-> scans + 1, code |-> c, station |-> atStation, print |-> scanSettings.print,
                   printer |-> printerReady, fonts |-> fontsReady, step |-> step, outcome |-> "none"]
<1>1. submissions' = submissions \cup {new}
  BY DEF Submit
<1>2. BooksOK'
  BY <1>1 DEF FlowInv, BooksOK, IsSubmission, FlowSteps, CardKinds
<1>3. StepsOK'
  BY <1>1 DEF FlowInv, StepsOK
<1>4. DismissalOwned' /\ BusyMeansOne'
  BY <1>1 DEF FlowInv, Submit, DismissalOwned, BusyMeansOne
<1>5. \A d \in Codes : Owing(d)' = Owing(d)
  BY <1>1 DEF Owing
<1>6. IsFiniteSet(submissions')
  BY <1>1, FS_AddElement DEF FlowInv, ScansCovered
<1>7. ScansCovered'
  BY <1>5, <1>6 DEF FlowInv, ScansCovered
<1> QED
  BY <1>2, <1>3, <1>4, <1>7 DEF FlowInv

(* What one answer does: it ends its submission or moves it one step on.   *)
Ended(j) ==
  /\ submissions' = submissions \ {j} /\ flowBusy' = FALSE
  /\ \/ flowStatus' = "verdict" /\ dismissTimer' = TRUE
     \/ flowStatus' = "idle"

Advanced(j, step, outcome) ==
  /\ submissions' = (submissions \ {j}) \cup {[j EXCEPT !.step = step, !.outcome = outcome]}
  /\ UNCHANGED flowVars

Kept(j) == /\ UNCHANGED <<registry, checkins, autoPrints>>
           /\ \/ Ended(j)
              \/ j.step = "lookup" /\ j.code \in Registered /\ Advanced(j, "post", "none")
              \/ j.step = "answer" /\ j.outcome = "allowed" /\ Advanced(j, "print", "allowed")

Committed(j) ==
  /\ j.step = "post" /\ autoPrints' = autoPrints
  /\ \/ /\ registry[j.code] = "out" /\ Advanced(j, "answer", "allowed")
        /\ registry' = [registry EXCEPT ![j.code] = "in"]
        /\ checkins' = [checkins EXCEPT ![j.code] = @ + 1]
     \/ \E o \in {"already_checked_in", "no_access"} :
          Advanced(j, "answer", o) /\ UNCHANGED <<registry, checkins>>

Printed(j) ==
  /\ j.step = "print" /\ UNCHANGED <<registry, checkins>>
  /\ autoPrints' = [autoPrints EXCEPT ![j.code] = @ + 1] \/ autoPrints' = autoPrints
  /\ Ended(j) \/ Advanced(j, "mark", j.outcome)

LEMMA AnswerKinds ==
  ASSUME FlowInv, NEW j \in submissions, FlowStep(j)
  PROVE  moved' = moved /\ (Kept(j) \/ Committed(j) \/ Printed(j))
<1> USE DEF Ended, ShowVerdict, Advance, Advanced
<1>1. CASE RequestFails(j)
  BY <1>1 DEF RequestFails, Turn, Kept, FlowInv, BooksOK
<1>2. CASE LookupAnswers(j) /\ UNCHANGED boundVars
  BY <1>2 DEF LookupAnswers, boundVars, Kept
<1>3. CASE CheckinCommits(j) /\ UNCHANGED boundVars
  <2>1. j.step = "post" /\ j.code \in Registered
    BY <1>3 DEF CheckinCommits, FlowInv, StepsOK
  <2>2. registry[j.code] \in {"out", "in", "blocked"}
    BY <2>1 DEF FlowInv, BooksOK
  <2> QED
    BY <1>3, <2>1, <2>2 DEF CheckinCommits, boundVars, Committed
<1>4. CASE AnswerArrives(j) /\ UNCHANGED boundVars
  BY <1>4 DEF AnswerArrives, Prints, boundVars, backendVars, Kept
<1>5. CASE AgentPrints(j) /\ UNCHANGED boundVars
  BY <1>5 DEF AgentPrints, boundVars, Printed
<1>6. CASE MarkAnswers(j) /\ UNCHANGED boundVars
  BY <1>6 DEF MarkAnswers, boundVars, backendVars, Kept
<1> QED
  BY <1>1, <1>2, <1>3, <1>4, <1>5, <1>6 DEF FlowStep

LEMMA AnswerKeepsPage ==
  ASSUME FlowInv, NEW j \in submissions, FlowStep(j)
  PROVE  BooksOK' /\ StepsOK' /\ DismissalOwned' /\ BusyMeansOne'
<1>1. moved' = moved /\ (Kept(j) \/ Committed(j) \/ Printed(j))
  BY AnswerKinds
<1>2. IsSubmission(j) /\ j.code \in Codes
  BY DEF FlowInv, BooksOK, IsSubmission
<1>3. Ended(j) \/ \E step \in FlowSteps, outcome \in CardKinds : Advanced(j, step, outcome)
  BY <1>1, <1>2 DEF Kept, Committed, Printed, IsSubmission, FlowSteps, CardKinds
<1>4. ASSUME NEW step \in FlowSteps, NEW outcome \in CardKinds, Advanced(j, step, outcome)
      PROVE  \E k : /\ IsSubmission(k) /\ submissions' = (submissions \ {j}) \cup {k}
                    /\ k.code = j.code /\ k.step = step /\ k.outcome = outcome
  <2> DEFINE k == [j EXCEPT !.step = step, !.outcome = outcome]
  <2>1. IsSubmission(k) /\ k.code = j.code /\ k.step = step /\ k.outcome = outcome
    BY <1>2 DEF IsSubmission
  <2> QED
    BY <1>4, <2>1 DEF Advanced
<1>5. \A k \in submissions' : IsSubmission(k)
  BY <1>3, <1>4 DEF Ended, FlowInv, BooksOK
<1>6. registry' \in [Registered -> {"out", "in", "blocked"}]
  BY <1>1 DEF Kept, Committed, Printed, FlowInv, BooksOK
<1>7. checkins' \in [Codes -> Nat] /\ autoPrints' \in [Codes -> Nat]
  BY <1>1 DEF Kept, Committed, Printed, FlowInv, BooksOK
<1>8. BooksOK'
  BY <1>1, <1>5, <1>6, <1>7 DEF BooksOK, FlowInv
<1>9. StepsOK'
  <2>1. CASE Ended(j)
    BY <2>1 DEF Ended, FlowInv, StepsOK
  <2>2. CASE Kept(j) /\ ~Ended(j)
    BY <1>4, <2>2 DEF Kept, FlowSteps, CardKinds, FlowInv, StepsOK
  <2>3. CASE Committed(j)
    BY <1>4, <2>3 DEF Committed, FlowSteps, CardKinds, FlowInv, StepsOK
  <2>4. CASE Printed(j) /\ ~Ended(j)
    BY <1>2, <1>4, <2>4 DEF Printed, FlowSteps, IsSubmission, FlowInv, StepsOK
  <2> QED
    BY <1>1, <2>1, <2>2, <2>3, <2>4
<1>10. DismissalOwned'
  <2>1. CASE Ended(j)
    BY <2>1 DEF Ended, DismissalOwned
  <2>2. CASE flowStatus' = flowStatus /\ dismissTimer' = dismissTimer
    BY <2>2 DEF FlowInv, DismissalOwned
  <2> QED
    BY <1>3, <2>1, <2>2 DEF Advanced, flowVars
<1>11. BusyMeansOne'
  <2>1. CASE Ended(j)
    BY <1>1, <2>1 DEF Ended, FlowInv, BusyMeansOne
  <2>2. ASSUME NEW step \in FlowSteps, NEW outcome \in CardKinds, Advanced(j, step, outcome)
        PROVE  BusyMeansOne'
    BY <1>1, <2>2 DEF Advanced, flowVars, FlowInv, BusyMeansOne
  <2> QED
    BY <1>3, <2>1, <2>2
<1> QED
  BY <1>8, <1>9, <1>10, <1>11

LEMMA CardinalityOfOneMore ==
  ASSUME NEW S, NEW k, IsFiniteSet(S)
  PROVE  /\ IsFiniteSet(S \cup {k}) /\ Cardinality(S \cup {k}) \in Nat
         /\ Cardinality(S \cup {k}) <= Cardinality(S) + 1
<1>1. Cardinality(S \cup {k}) = IF k \in S THEN Cardinality(S) ELSE Cardinality(S) + 1
  BY FS_AddElement
<1>2. IsFiniteSet(S \cup {k}) /\ Cardinality(S) \in Nat
  BY FS_AddElement, FS_CardinalityType
<1> QED
  BY <1>1, <1>2

LEMMA AnswerCovers ==
  ASSUME FlowInv, NEW j \in submissions, FlowStep(j)
  PROVE  ScansCovered'
<1>1. Kept(j) \/ Committed(j) \/ Printed(j)
  BY AnswerKinds
<1>2. /\ IsFiniteSet(submissions) /\ IsSubmission(j) /\ j.code \in Codes
      /\ checkins \in [Codes -> Nat] /\ autoPrints \in [Codes -> Nat]
      /\ \A c \in Codes : autoPrints[c] + Cardinality(Owing(c)) <= checkins[c]
  BY DEF FlowInv, BooksOK, IsSubmission, ScansCovered
<1>3. \A c : IsFiniteSet(Owing(c)) /\ Cardinality(Owing(c)) \in Nat
  <2>1. \A c : Owing(c) \subseteq submissions
    BY DEF Owing
  <2> QED
    BY <1>2, <2>1, FS_Subset, FS_CardinalityType
<1>4. ASSUME NEW step \in FlowSteps, NEW outcome \in CardKinds, Advanced(j, step, outcome)
      PROVE  \E k : /\ submissions' = (submissions \ {j}) \cup {k}
                    /\ k.code = j.code /\ k.step = step /\ k.outcome = outcome
  <2> DEFINE k == [j EXCEPT !.step = step, !.outcome = outcome]
  <2>1. k.code = j.code /\ k.step = step /\ k.outcome = outcome
    BY <1>2 DEF IsSubmission
  <2> QED
    BY <1>4, <2>1 DEF Advanced
<1>5. IsFiniteSet(submissions')
  <2>1. Ended(j) \/ \E k : submissions' = (submissions \ {j}) \cup {k}
    BY <1>1 DEF Kept, Committed, Printed, Advanced, Ended
  <2>2. IsFiniteSet(submissions \ {j})
    BY <1>2, FS_RemoveElement
  <2>3. \A k : IsFiniteSet((submissions \ {j}) \cup {k})
    BY <2>2, FS_AddElement
  <2> QED
    BY <2>1, <2>2, <2>3 DEF Ended
<1>6. SUFFICES ASSUME NEW c \in Codes
               PROVE  autoPrints'[c] + Cardinality(Owing(c)') <= checkins'[c]
  BY <1>5 DEF ScansCovered
<1>7. CASE Kept(j)
  <2>1. CASE j.outcome = "allowed" /\ j.step = "answer" /\ Advanced(j, "print", "allowed")
    <3>1. PICK k : /\ submissions' = (submissions \ {j}) \cup {k}
                   /\ k.code = j.code /\ k.step = "print" /\ k.outcome = "allowed"
      BY <1>4, <2>1 DEF FlowSteps, CardKinds
    <3>2. CASE c = j.code
      <4>1. j \in Owing(c) /\ Owing(c)' = (Owing(c) \ {j}) \cup {k}
        BY <2>1, <3>1, <3>2 DEF Owing
      <4> DEFINE rest == Owing(c) \ {j}
      <4>2. IsFiniteSet(rest) /\ Cardinality(rest) = Cardinality(Owing(c)) - 1
        BY <1>3, <4>1, FS_RemoveElement
      <4>3. IsFiniteSet(rest \cup {k}) /\ Cardinality(rest \cup {k}) \in Nat
            /\ Cardinality(rest \cup {k}) <= Cardinality(rest) + 1
        BY <4>2, CardinalityOfOneMore
      <4>4. Cardinality(Owing(c)') <= Cardinality(Owing(c)) /\ Cardinality(Owing(c)') \in Nat
        BY <1>3, <4>1, <4>2, <4>3
      <4> QED
        BY <1>2, <1>3, <1>7, <4>4 DEF Kept
    <3>3. CASE c # j.code
      <4>1. Owing(c)' = Owing(c)
        BY <3>1, <3>3 DEF Owing
      <4> QED
        BY <1>2, <1>7, <4>1 DEF Kept
    <3> QED
      BY <3>2, <3>3
  <2>2. CASE Ended(j) \/ Advanced(j, "post", "none")
    <3>1. Owing(c)' \subseteq Owing(c)
      <4>1. CASE Ended(j)
        BY <4>1 DEF Ended, Owing
      <4>2. CASE Advanced(j, "post", "none")
        <5>1. PICK k : /\ submissions' = (submissions \ {j}) \cup {k}
                       /\ k.step = "post"
          BY <1>4, <4>2 DEF FlowSteps, CardKinds
        <5> QED
          BY <5>1 DEF Owing
      <4> QED
        BY <2>2, <4>1, <4>2
    <3>2. Cardinality(Owing(c)') <= Cardinality(Owing(c)) /\ Cardinality(Owing(c)') \in Nat
      BY <1>3, <3>1, FS_Subset, FS_CardinalityType
    <3> QED
      BY <1>2, <1>3, <1>7, <3>2 DEF Kept
  <2> QED
    BY <1>7, <2>1, <2>2 DEF Kept
<1>8. CASE Committed(j)
  <2>1. CASE /\ Advanced(j, "answer", "allowed") /\ c = j.code
             /\ checkins' = [checkins EXCEPT ![j.code] = @ + 1]
    <3>1. PICK k : submissions' = (submissions \ {j}) \cup {k}
      BY <2>1 DEF Advanced
    <3>2. Owing(c)' \subseteq Owing(c) \cup {k}
      BY <3>1 DEF Owing
    <3>3. Cardinality(Owing(c)') <= Cardinality(Owing(c)) + 1 /\ Cardinality(Owing(c)') \in Nat
      <4>1. /\ IsFiniteSet(Owing(c) \cup {k})
            /\ Cardinality(Owing(c) \cup {k}) <= Cardinality(Owing(c)) + 1
        BY <1>3, CardinalityOfOneMore
      <4>2. Cardinality(Owing(c) \cup {k}) \in Nat
        BY <4>1, FS_CardinalityType
      <4>3. Cardinality(Owing(c)') <= Cardinality(Owing(c) \cup {k}) /\ Cardinality(Owing(c)') \in Nat
        BY <3>2, <4>1, FS_Subset, FS_CardinalityType
      <4> QED
        BY <1>3, <4>1, <4>2, <4>3
    <3> QED
      BY <1>2, <1>3, <1>8, <2>1, <3>3 DEF Committed
  <2>2. CASE /\ Advanced(j, "answer", "allowed") /\ c # j.code
             /\ checkins' = [checkins EXCEPT ![j.code] = @ + 1]
    <3>1. PICK k : submissions' = (submissions \ {j}) \cup {k} /\ k.code = j.code
      BY <1>4, <2>2 DEF FlowSteps, CardKinds
    <3>2. Owing(c)' = Owing(c)
      BY <2>2, <3>1 DEF Owing
    <3> QED
      BY <1>2, <1>8, <2>2, <3>2 DEF Committed
  <2>3. CASE \E o \in {"already_checked_in", "no_access"} :
               Advanced(j, "answer", o) /\ UNCHANGED <<registry, checkins>>
    <3>1. PICK k : submissions' = (submissions \ {j}) \cup {k} /\ k.outcome # "allowed"
      BY <1>4, <2>3 DEF FlowSteps, CardKinds
    <3>2. Owing(c)' = Owing(c)
      BY <1>8, <3>1 DEF Committed, Owing
    <3> QED
      BY <1>2, <1>8, <2>3, <3>2 DEF Committed
  <2> QED
    BY <1>8, <2>1, <2>2, <2>3 DEF Committed
<1>9. CASE Printed(j)
  <2>1. j.outcome = "allowed" /\ j.step = "print"
    BY <1>9 DEF Printed, FlowInv, StepsOK
  <2>2. Owing(c)' \subseteq Owing(c) \ {j}
    <3>1. CASE Ended(j)
      BY <3>1 DEF Ended, Owing
    <3>2. CASE Advanced(j, "mark", j.outcome)
      <4>1. PICK k : submissions' = (submissions \ {j}) \cup {k} /\ k.step = "mark"
        BY <1>4, <2>1, <3>2 DEF FlowSteps, CardKinds
      <4> QED
        BY <4>1 DEF Owing
    <3> QED
      BY <1>9, <3>1, <3>2 DEF Printed
  <2>3. /\ IsFiniteSet(Owing(c) \ {j})
        /\ Cardinality(Owing(c) \ {j}) = Cardinality(Owing(c)) - (IF c = j.code THEN 1 ELSE 0)
    <3>1. j \in Owing(c) <=> c = j.code
      BY <2>1 DEF Owing
    <3> QED
      BY <1>3, <3>1, FS_RemoveElement
  <2>4. /\ Cardinality(Owing(c)') <= Cardinality(Owing(c)) - (IF c = j.code THEN 1 ELSE 0)
        /\ Cardinality(Owing(c)') \in Nat
    BY <2>2, <2>3, FS_Subset, FS_CardinalityType
  <2>5. autoPrints'[c] <= autoPrints[c] + (IF c = j.code THEN 1 ELSE 0) /\ autoPrints'[c] \in Nat
    BY <1>2, <1>9 DEF Printed
  <2> QED
    BY <1>2, <1>3, <1>9, <2>4, <2>5 DEF Printed
<1> QED
  BY <1>1, <1>7, <1>8, <1>9

(* The station's flow keeps its bookkeeping: who owns the busy flag, the  *)
(* timer and the print, and which prints a check-in has paid for.         *)
THEOREM FlowInvariance == StationSpec => []FlowInv
<1>1. FlowInv /\ [StationNext]_stationVars => FlowInv'
  <2> SUFFICES ASSUME FlowInv, [StationNext]_stationVars PROVE FlowInv'
    OBVIOUS
  <2>1. \/ \E j \in submissions : FlowStep(j)
        \/ Dismiss \/ Cleared \/ Begins \/ Quiet
    BY StepKinds DEF FlowInv
  <2> QED
    BY <2>1, AnswerKeepsPage, AnswerCovers, ResetKeeps, BeginKeeps, QuietKeeps DEF FlowInv
<1> QED
  BY FlowInit, <1>1, PTL DEF StationSpec

(* At most one badge is printed for a check-in the station committed,      *)
(* whatever is lost, repeated or changed around it.                        *)
THEOREM OneBadgePerCheckin == StationSpec => []PrintsMatchCheckins
<1>1. FlowInv => PrintsMatchCheckins
  <2> SUFFICES ASSUME FlowInv, NEW c \in Codes PROVE autoPrints[c] <= checkins[c]
    BY DEF PrintsMatchCheckins
  <2>1. Owing(c) \subseteq submissions /\ IsFiniteSet(submissions)
    BY DEF Owing, FlowInv, ScansCovered
  <2>2. Cardinality(Owing(c)) \in Nat
    BY <2>1, FS_Subset, FS_CardinalityType
  <2> QED
    BY <2>2 DEF FlowInv, BooksOK, ScansCovered
<1> QED
  BY <1>1, FlowInvariance, PTL

(* Every verdict goes away by itself, and no timer of an earlier verdict   *)
(* can wipe a scan that is being resolved.                                 *)
THEOREM VerdictsDismissed == StationSpec => []DismissalOwned
  BY FlowInvariance, PTL DEF FlowInv

(* Until the tab moves to another station, its scans are handled one by    *)
(* one: busyRef and the idle state that enables the inputs never part.     *)
THEOREM FlowIsSerial == StationSpec => []OneInFlight
<1>1. FlowInv => OneInFlight
  BY DEF FlowInv, BusyMeansOne, OneInFlight
<1> QED
  BY <1>1, FlowInvariance, PTL

------------------------------------------------------------------------------
(* The rest of the state's type.                                           *)
StationFlags ==
  /\ agentAlive \in BOOLEAN /\ printerReady \in BOOLEAN /\ fontsReady \in BOOLEAN
  /\ rawOnline \in BOOLEAN /\ pageOnline \in BOOLEAN /\ offlineCard \in BOOLEAN
  /\ flowBusy \in BOOLEAN /\ dismissTimer \in BOOLEAN
StationPage ==
  /\ atStation \in Stations /\ scanSettings \in Settings
  /\ scanBuffer \in Codes \cup {NoCode}
  /\ scanPoll \in {"idle", "asked", NoCode} \cup Codes /\ strayPolls \in Nat
  /\ scans \in 0..MaxScans /\ turns \in 0..MaxTurns
StationFlow ==
  /\ flowStatus \in {"idle", "resolving", "verdict"} /\ verdictCard \in Card
  /\ submissions \subseteq Submission
StationRest == StationFlags /\ StationPage /\ StationFlow

LEMMA NoCardTyped == NoCard \in Card
<1>1. (CHOOSE s \in Stations : TRUE) \in Stations
  BY StationAssumption
<1> QED
  BY <1>1 DEF NoCard, Card, CardKinds, PrintNotes

LEMMA CleanupTyped ==
  ASSUME StationPage, PollCleanup
  PROVE  scanPoll' \in {"idle", "asked", NoCode} \cup Codes /\ strayPolls' \in Nat
<1>1. CASE Polling'
  BY <1>1 DEF PollCleanup, pollVars, StationPage
<1>2. CASE ~Polling'
  BY <1>2 DEF PollCleanup, StationPage
<1> QED
  BY <1>1, <1>2

LEMMA SubmitTyped ==
  ASSUME StationRest, NEW c \in Codes, NEW step \in {"lookup", "post"}, Submit(c, step)
  PROVE  /\ StationFlow' /\ flowBusy' \in BOOLEAN /\ dismissTimer' \in BOOLEAN /\ scans' \in 0..MaxScans
<1> DEFINE new == [id |-> scans + 1, code |-> c, station |-> atStation, print |-> scanSettings.print,
                   printer |-> printerReady, fonts |-> fontsReady, step |-> step, outcome |-> "none"]
<1>1. scans' \in 0..MaxScans /\ scans + 1 \in 1..MaxScans
  BY StationAssumption DEF Submit, StationRest, StationPage
<1>2. scanSettings.print \in BOOLEAN /\ printerReady \in BOOLEAN /\ fontsReady \in BOOLEAN
      /\ atStation \in Stations
  BY DEF StationRest, StationPage, StationFlags, Settings
<1>3. new \in Submission
  BY <1>1, <1>2 DEF Submission, CardKinds
<1>4. /\ submissions' = submissions \cup {new} /\ flowBusy' = TRUE /\ dismissTimer' = FALSE
      /\ flowStatus' = "resolving" /\ verdictCard' = NoCard
  BY DEF Submit
<1> QED
  BY <1>1, <1>3, <1>4, NoCardTyped DEF StationRest, StationFlow

LEMMA HandleCodeTyped ==
  ASSUME StationRest, NEW c \in Codes, HandleCode(c)
  PROVE  /\ StationFlow' /\ flowBusy' \in BOOLEAN /\ dismissTimer' \in BOOLEAN /\ scans' \in 0..MaxScans
         /\ offlineCard' \in BOOLEAN
<1>1. offlineCard' \in BOOLEAN
  BY Zenon DEF HandleCode
<1>2. CASE Submit(c, "lookup")
  BY <1>1, <1>2, SubmitTyped
<1>3. CASE UNCHANGED <<flowVars, submissions, scans>>
  BY <1>1, <1>3 DEF flowVars, StationRest, StationFlags, StationPage, StationFlow
<1> QED
  BY <1>2, <1>3 DEF HandleCode, DropBusy

LEMMA VerdictTyped ==
  ASSUME StationRest, NEW j \in submissions, NEW kind \in CardKinds, NEW note \in PrintNotes,
         ShowVerdict(j, kind, note)
  PROVE  StationFlow' /\ flowBusy' \in BOOLEAN /\ dismissTimer' \in BOOLEAN
  BY DEF ShowVerdict, StationRest, StationFlow, Submission, Card

LEMMA AdvanceTyped ==
  ASSUME StationRest, NEW j \in submissions, NEW step \in {"post", "answer", "print", "mark"},
         NEW outcome \in CardKinds, Advance(j, step, outcome)
  PROVE  StationFlow' /\ flowBusy' \in BOOLEAN /\ dismissTimer' \in BOOLEAN
<1>1. [j EXCEPT !.step = step, !.outcome = outcome] \in Submission
  BY DEF StationRest, StationFlow, Submission
<1> QED
  BY <1>1 DEF Advance, flowVars, StationRest, StationFlow, StationFlags

LEMMA FlowStepTyped ==
  ASSUME FlowInv, StationRest, NEW j \in submissions, FlowStep(j)
  PROVE  StationRest'
<1>0. /\ j.outcome \in CardKinds /\ j \in Submission
      /\ {"none", "allowed", "no_access", "not_registered", "already_checked_in"} \subseteq CardKinds
      /\ {"none", "error", "markFailed", "fontsPending"} \subseteq PrintNotes
  BY DEF StationRest, StationFlow, Submission, CardKinds, PrintNotes
<1>1. /\ UNCHANGED <<atStation, agentVars, pageVars, offlineCard, scans>>
      /\ scanPoll' \in {"idle", "asked", NoCode} \cup Codes /\ strayPolls' \in Nat
  BY CleanupTyped DEF FlowStep, StationRest
<1>2. turns' \in 0..MaxTurns
  BY StationAssumption DEF FlowStep, RequestFails, Turn, boundVars, StationRest, StationPage
<1>3. StationFlow' /\ flowBusy' \in BOOLEAN /\ dismissTimer' \in BOOLEAN
  <2>1. CASE RequestFails(j)
    <3>1. flowBusy' \in BOOLEAN
      BY <2>1, Zenon DEF RequestFails
    <3> QED
      BY <2>1, <3>1, NoCardTyped DEF RequestFails, StationRest, StationFlow, StationFlags
  <2>2. CASE LookupAnswers(j)
    BY <1>0, <2>2, VerdictTyped, AdvanceTyped DEF LookupAnswers
  <2>3. CASE CheckinCommits(j)
    <3>1. registry[j.code] \in {"out", "in", "blocked"}
      BY <2>3 DEF CheckinCommits, FlowInv, StepsOK, BooksOK
    <3>2. PICK outcome \in CardKinds : Advance(j, "answer", outcome)
      <4>1. CASE registry[j.code] = "out"
        BY <1>0, <2>3, <4>1 DEF CheckinCommits
      <4>2. CASE registry[j.code] = "in"
        BY <1>0, <2>3, <4>2 DEF CheckinCommits
      <4>3. CASE registry[j.code] = "blocked"
        BY <1>0, <2>3, <4>3 DEF CheckinCommits
      <4> QED
        BY <3>1, <4>1, <4>2, <4>3
    <3> QED
      BY <3>2, AdvanceTyped
  <2>4. CASE AnswerArrives(j)
    BY <1>0, <2>4, VerdictTyped, AdvanceTyped DEF AnswerArrives
  <2>5. CASE AgentPrints(j)
    BY <1>0, <2>5, VerdictTyped, AdvanceTyped DEF AgentPrints
  <2>6. CASE MarkAnswers(j)
    BY <1>0, <2>6, VerdictTyped DEF MarkAnswers
  <2> QED
    BY <2>1, <2>2, <2>3, <2>4, <2>5, <2>6 DEF FlowStep
<1> QED
  BY <1>1, <1>2, <1>3 DEF StationRest, StationFlags, StationPage, agentVars, pageVars

LEMMA ScanStepsTyped ==
  ASSUME StationRest,
         \/ \E c \in Codes : PhysicalScan(c) \/ WedgeEnter(c) \/ PickAttendee(c)
         \/ PollTick \/ PollAnswers \/ StrayPollAnswers \/ PollDelivers
  PROVE  StationRest'
<1> USE DEF StationRest, StationFlags, StationPage, StationFlow
<1>1. ASSUME NEW c \in Codes, WedgeEnter(c) PROVE StationRest'
  BY <1>1, HandleCodeTyped DEF WedgeEnter, agentVars, pageVars, boundVars
<1>2. CASE PollDelivers
  <2>1. CASE scanPoll = NoCode
    BY <1>2, <2>1 DEF PollDelivers, agentVars, flowVars, pageVars, boundVars
  <2>2. CASE scanPoll # NoCode
    <3>1. scanPoll \in Codes /\ HandleCode(scanPoll)
      BY <1>2, <2>2 DEF PollDelivers
    <3> QED
      BY <1>2, <3>1, HandleCodeTyped DEF PollDelivers, agentVars, pageVars, boundVars
  <2> QED
    BY <2>1, <2>2
<1>3. ASSUME NEW c \in Codes, PickAttendee(c) PROVE StationRest'
  <2>1. /\ StationFlow' /\ flowBusy' \in BOOLEAN /\ dismissTimer' \in BOOLEAN /\ scans' \in 0..MaxScans
    BY <1>3, SubmitTyped DEF PickAttendee
  <2>2. scanPoll' \in {"idle", "asked", NoCode} \cup Codes /\ strayPolls' \in Nat
    BY <1>3, CleanupTyped DEF PickAttendee
  <2> QED
    BY <1>3, <2>1, <2>2 DEF PickAttendee, agentVars, pageVars, boundVars
<1>4. ASSUME NEW c \in Codes, PhysicalScan(c) PROVE StationRest'
  BY <1>4 DEF PhysicalScan, pollVars, flowVars, pageVars, boundVars
<1>5. CASE PollTick \/ PollAnswers \/ StrayPollAnswers
  BY <1>5 DEF PollTick, PollAnswers, StrayPollAnswers, Consume, agentVars, flowVars, pageVars, boundVars
<1> QED
  BY <1>1, <1>2, <1>3, <1>4, <1>5

LEMMA AroundTyped ==
  ASSUME FlowInv, StationRest,
         \/ Dismiss
         \/ \E s \in Stations : Navigate(s)
         \/ \E m \in Modes, p \in BOOLEAN : SettingsArrive(m, p)
         \/ FontsSettle \/ AgentTurns \/ GatePoll \/ WindowFocus
         \/ ConnectionTurns \/ ConnectionSettles
         \/ \E c \in Registered, to \in {"out", "in", "blocked"} : Elsewhere(c, to)
         \/ UNCHANGED stationVars
  PROVE  StationRest'
<1> USE DEF StationRest, StationFlags, StationPage, StationFlow
<1>1. /\ scanBuffer' = scanBuffer /\ submissions' = submissions /\ scans' = scans
      /\ atStation' \in Stations
  BY DEF Dismiss, Navigate, SettingsArrive, FontsSettle, AgentTurns, GatePoll, WindowFocus, LearnPrinter,
         ConnectionTurns, ConnectionSettles, Elsewhere, stationVars, agentVars
<1>2. scanSettings' \in Settings
  <2>1. ASSUME NEW m \in Modes, NEW p \in BOOLEAN, SettingsArrive(m, p) PROVE scanSettings' \in Settings
    <3>1. [loaded |-> TRUE, mode |-> m, print |-> p] \in Settings
      BY DEF Settings
    <3>2. scanSettings' = [loaded |-> TRUE, mode |-> m, print |-> p]
      BY <2>1 DEF SettingsArrive
    <3> QED
      BY <3>1, <3>2
  <2>2. CASE ~\E m \in Modes, p \in BOOLEAN : SettingsArrive(m, p)
    <3>1. scanSettings' = scanSettings
      BY <2>2 DEF Dismiss, Navigate, FontsSettle, AgentTurns, GatePoll, WindowFocus, LearnPrinter,
                  ConnectionTurns, ConnectionSettles, Elsewhere, stationVars, pageVars
    <3> QED
      BY <3>1
  <2> QED
    BY <2>1, <2>2
<1>3. scanPoll' \in {"idle", "asked", NoCode} \cup Codes /\ strayPolls' \in Nat
  BY CleanupTyped
     DEF Dismiss, Navigate, SettingsArrive, FontsSettle, AgentTurns, GatePoll, WindowFocus, LearnPrinter,
         ConnectionTurns, ConnectionSettles, Elsewhere, stationVars, pollVars
<1>4. turns' \in 0..MaxTurns
  BY StationAssumption
     DEF Dismiss, Navigate, SettingsArrive, FontsSettle, AgentTurns, GatePoll, WindowFocus, LearnPrinter,
         ConnectionTurns, ConnectionSettles, Elsewhere, stationVars, boundVars, Turn
<1>5. flowStatus' \in {"idle", "resolving", "verdict"} /\ verdictCard' \in Card
  BY NoCardTyped
     DEF Dismiss, Navigate, ResetFlow, SettingsArrive, FontsSettle, AgentTurns, GatePoll, WindowFocus,
         LearnPrinter, ConnectionTurns, ConnectionSettles, Elsewhere, stationVars, flowVars
<1>6. /\ flowBusy' = flowBusy \/ flowBusy' = FALSE
      /\ dismissTimer' = dismissTimer \/ dismissTimer' = FALSE
  BY DEF Dismiss, Navigate, ResetFlow, SettingsArrive, FontsSettle, AgentTurns, GatePoll, WindowFocus,
         LearnPrinter, ConnectionTurns, ConnectionSettles, Elsewhere, stationVars, flowVars
<1>7. /\ fontsReady' = fontsReady \/ fontsReady' = TRUE
      /\ printerReady' = printerReady \/ printerReady' = agentAlive
      /\ pageOnline' = pageOnline \/ pageOnline' = rawOnline
  BY DEF Dismiss, Navigate, SettingsArrive, FontsSettle, AgentTurns, GatePoll, WindowFocus, LearnPrinter,
         ConnectionTurns, ConnectionSettles, Elsewhere, stationVars, pageVars
<1>8. /\ agentAlive' = agentAlive \/ agentAlive' = ~agentAlive
      /\ rawOnline' = rawOnline \/ rawOnline' = ~rawOnline
      /\ offlineCard' = offlineCard \/ offlineCard' = (offlineCard /\ ~rawOnline)
  BY DEF Dismiss, Navigate, SettingsArrive, FontsSettle, AgentTurns, GatePoll, WindowFocus, LearnPrinter,
         ConnectionTurns, ConnectionSettles, Elsewhere, stationVars, pageVars, agentVars
<1>9. agentAlive' \in BOOLEAN /\ rawOnline' \in BOOLEAN /\ offlineCard' \in BOOLEAN
  BY <1>8, Zenon
<1> QED
  BY <1>1, <1>2, <1>3, <1>4, <1>5, <1>6, <1>7, <1>9

(* Every variable of the station keeps to its type.                        *)
THEOREM StationTypeCorrect == StationSpec => []StationTypeOK
<1>1. StationInit => StationRest
  <2>1. StationInit => StationFlags
    BY Zenon DEF StationInit, StationFlags
  <2>2. StationInit => StationPage /\ StationFlow
    BY StationAssumption, NoCardTyped
       DEF StationInit, StationPage, StationFlow, Settings, DefaultSettings
  <2> QED
    BY <2>1, <2>2 DEF StationRest
<1>2. FlowInv /\ StationRest /\ [StationNext]_stationVars => StationRest'
  BY FlowStepTyped, ScanStepsTyped, AroundTyped DEF StationNext
<1>3. FlowInv /\ StationRest => StationTypeOK
  BY DEF FlowInv, BooksOK, StationRest, StationFlags, StationPage, StationFlow, StationTypeOK
<1> QED
  BY <1>1, <1>2, <1>3, FlowInvariance, PTL DEF StationSpec
==============================================================================

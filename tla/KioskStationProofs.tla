-------------------------- MODULE KioskStationProofs --------------------------
(***************************************************************************)
(* Theorems about KioskStation, for every set of guests and of strangers   *)
(* and every number of scans, presses and failures.                        *)
(***************************************************************************)
EXTENDS KioskStation, FiniteSetTheorems, TLAPS

(* The submissions and the presses of Print that may still print a badge.  *)
Owed(g) == {j \in kioskJobs : /\ j.code = g
                              /\ j.step = "print" \/ (j.step = "answered" /\ j.outcome = "allowed")}
Asked(g) == {r \in reprints : r.who = g /\ r.step = "print"}

KioskBooks ==
  /\ kioskJobs \subseteq KioskJob /\ reprints \subseteq Reprint /\ kioskMount \in Nat
  /\ kiosk \in [status : {"idle", "resolving", "verdict"},
                verdict : {"none", "allowed", "already", "not_found"},
                who : Guests \cup {NoGuest}, pending : BOOLEAN]
  /\ admitted \in [Guests -> Nat] /\ badges \in [Guests -> Nat] /\ presses \in [Guests -> Nat]
  /\ IsFiniteSet(kioskJobs) /\ IsFiniteSet(reprints)
  /\ \A j \in kioskJobs : j.step # "lookup" => j.code \in Guests
  /\ kiosk.verdict = "allowed" => kiosk.who \in Guests

BadgesCovered ==
  \A g \in Guests : badges[g] + Cardinality(Owed(g)) + Cardinality(Asked(g)) <= admitted[g] + presses[g]

(* printBusyRef is set exactly while a press of this mount is in flight.   *)
PressOwned ==
  /\ \A r \in reprints : r.mount <= kioskMount
  /\ \A r, q \in reprints : Mounted(r) /\ Mounted(q) => r = q
  /\ printBusy <=> \E r \in reprints : Mounted(r)
  /\ PendingOwned

KioskInv == KioskBooks /\ BadgesCovered /\ PressOwned

------------------------------------------------------------------------------
LEMMA CountOneMore ==
  ASSUME NEW S, NEW k, IsFiniteSet(S)
  PROVE  /\ IsFiniteSet(S \cup {k}) /\ Cardinality(S \cup {k}) \in Nat
         /\ Cardinality(S \cup {k}) <= Cardinality(S) + 1
<1>1. Cardinality(S \cup {k}) = IF k \in S THEN Cardinality(S) ELSE Cardinality(S) + 1
  BY FS_AddElement
<1>2. IsFiniteSet(S \cup {k}) /\ Cardinality(S) \in Nat
  BY FS_AddElement, FS_CardinalityType
<1> QED
  BY <1>1, <1>2

LEMMA CountOneLess ==
  ASSUME NEW S, NEW k \in S, IsFiniteSet(S)
  PROVE  /\ IsFiniteSet(S \ {k}) /\ Cardinality(S \ {k}) \in Nat
         /\ Cardinality(S \ {k}) + 1 = Cardinality(S)
<1>1. IsFiniteSet(S \ {k}) /\ Cardinality(S \ {k}) = Cardinality(S) - 1
  BY FS_RemoveElement
<1>2. Cardinality(S \ {k}) \in Nat /\ Cardinality(S) \in Nat
  BY <1>1, FS_CardinalityType
<1> QED
  BY <1>1, <1>2

(* Replacing a member by another adds none that was not there.             *)
LEMMA CountReplaced ==
  ASSUME NEW S, NEW T, NEW j \in S, NEW k, IsFiniteSet(S), T \subseteq (S \ {j}) \cup {k}
  PROVE  IsFiniteSet(T) /\ Cardinality(T) \in Nat /\ Cardinality(T) <= Cardinality(S)
<1>1. IsFiniteSet(S \ {j}) /\ Cardinality(S \ {j}) \in Nat /\ Cardinality(S \ {j}) + 1 = Cardinality(S)
  BY CountOneLess
<1>2. IsFiniteSet((S \ {j}) \cup {k}) /\ Cardinality((S \ {j}) \cup {k}) \in Nat
      /\ Cardinality((S \ {j}) \cup {k}) <= Cardinality(S \ {j}) + 1
  BY <1>1, CountOneMore
<1>3. IsFiniteSet(T) /\ Cardinality(T) <= Cardinality((S \ {j}) \cup {k}) /\ Cardinality(T) \in Nat
  BY <1>2, FS_Subset, FS_CardinalityType
<1> QED
  BY <1>1, <1>2, <1>3

LEMMA DebtsFinite ==
  ASSUME KioskBooks, NEW g
  PROVE  /\ IsFiniteSet(Owed(g)) /\ Cardinality(Owed(g)) \in Nat
         /\ IsFiniteSet(Asked(g)) /\ Cardinality(Asked(g)) \in Nat
<1>1. Owed(g) \subseteq kioskJobs /\ Asked(g) \subseteq reprints
  BY DEF Owed, Asked
<1> QED
  BY <1>1, FS_Subset, FS_CardinalityType DEF KioskBooks

------------------------------------------------------------------------------
LEMMA KioskStarts == KioskInit => KioskInv
<1> SUFFICES ASSUME KioskInit PROVE KioskInv
  OBVIOUS
<1>1. KioskBooks
  BY FS_EmptySet DEF KioskInit, KioskBooks, Idle
<1>2. \A g \in Guests : Owed(g) = {} /\ Asked(g) = {}
  BY DEF KioskInit, Owed, Asked
<1>3. BadgesCovered
  BY <1>2, FS_EmptySet DEF KioskInit, BadgesCovered
<1>4. PressOwned
  BY DEF KioskInit, PressOwned, PendingOwned, Idle
<1> QED
  BY <1>1, <1>3, <1>4 DEF KioskInv

(* What the steps of a submission do to the page.                          *)
Shown(j) ==
  /\ UNCHANGED <<kioskPageVars, kioskPrintVars>>
  /\ \/ UNCHANGED kiosk
     \/ kiosk' = Idle
     \/ \E v \in {"none", "allowed", "already", "not_found"} :
          /\ kiosk' = [status |-> "verdict", verdict |-> v, pending |-> FALSE,
                       who |-> IF j.code \in Guests THEN j.code ELSE NoGuest]
          /\ v = "allowed" => j.code \in Guests

JobGone(j) == kioskJobs' = kioskJobs \ {j}
Moved(j, step, outcome) ==
  kioskJobs' = (kioskJobs \ {j}) \cup {[j EXCEPT !.step = step, !.outcome = outcome]}

JobOnly(j) == /\ UNCHANGED <<admitted, badges>>
              /\ \/ JobGone(j)
                 \/ j.code \in Guests /\ Moved(j, "post", "none")
                 \/ j.step = "answered" /\ j.outcome = "allowed" /\ Moved(j, "print", "allowed")
JobCommits(j) ==
  /\ j.step = "post" /\ UNCHANGED badges
  /\ \/ Moved(j, "answered", "already") /\ UNCHANGED admitted
     \/ Moved(j, "answered", "allowed") /\ admitted' = [admitted EXCEPT ![j.code] = @ + 1]
JobPrints(j) ==
  /\ j.step = "print" /\ UNCHANGED admitted
  /\ UNCHANGED badges \/ badges' = [badges EXCEPT ![j.code] = @ + 1]
  /\ JobGone(j) \/ Moved(j, "mark", "allowed")

LEMMA JobKinds ==
  ASSUME KioskInv, NEW j \in kioskJobs, KioskStep(j)
  PROVE  Shown(j) /\ (JobOnly(j) \/ JobCommits(j) \/ JobPrints(j))
<1> USE DEF KioskVerdict, KioskAdvance, Shown, JobGone, Moved
<1>1. j \in KioskJob /\ (j.step # "lookup" => j.code \in Guests)
  BY DEF KioskInv, KioskBooks
<1>2. UNCHANGED <<kioskPageVars, kioskPrintVars>>
  BY DEF KioskStep
<1>3. CASE KioskLookup(j)
  BY <1>1, <1>2, <1>3 DEF KioskLookup, kioskWorld, JobOnly
<1>4. CASE KioskCommit(j)
  BY <1>1, <1>2, <1>4 DEF KioskCommit, JobCommits
<1>5. CASE KioskAnswered(j)
  BY <1>1, <1>2, <1>5 DEF KioskAnswered, kioskWorld, JobOnly, KioskJob
<1>6. CASE KioskPrint(j)
  BY <1>1, <1>2, <1>6 DEF KioskPrint, JobPrints
<1>7. CASE KioskMark(j)
  BY <1>1, <1>2, <1>7 DEF KioskMark, kioskWorld, JobOnly
<1>8. CASE KioskFails(j)
  BY <1>1, <1>2, <1>8 DEF KioskFails, kioskWorld, JobOnly
<1> QED
  BY <1>3, <1>4, <1>5, <1>6, <1>7, <1>8 DEF KioskStep

LEMMA MovedJob ==
  ASSUME NEW j \in KioskJob, NEW step \in {"post", "answered", "print", "mark"},
         NEW outcome \in {"none", "allowed", "already"}, Moved(j, step, outcome)
  PROVE  \E k \in KioskJob : /\ kioskJobs' = (kioskJobs \ {j}) \cup {k}
                             /\ k.code = j.code /\ k.step = step /\ k.outcome = outcome
<1> DEFINE k == [j EXCEPT !.step = step, !.outcome = outcome]
<1>1. k \in KioskJob /\ k.code = j.code /\ k.step = step /\ k.outcome = outcome
  BY DEF KioskJob
<1> QED
  BY <1>1 DEF Moved

LEMMA JobKeepsBooks ==
  ASSUME KioskInv, NEW j \in kioskJobs, KioskStep(j)
  PROVE  KioskBooks' /\ PressOwned'
<1>1. Shown(j) /\ (JobOnly(j) \/ JobCommits(j) \/ JobPrints(j))
  BY JobKinds
<1>2. j \in KioskJob /\ (j.step # "lookup" => j.code \in Guests)
  BY DEF KioskInv, KioskBooks
<1>3. JobGone(j) \/ \E k \in KioskJob : kioskJobs' = (kioskJobs \ {j}) \cup {k} /\ k.code \in Guests
  <2>1. \/ JobGone(j)
        \/ \E step \in {"post", "answered", "print", "mark"}, outcome \in {"none", "allowed", "already"} :
             j.code \in Guests /\ Moved(j, step, outcome)
    BY <1>1, <1>2 DEF JobOnly, JobCommits, JobPrints
  <2> QED
    BY <1>2, <2>1, MovedJob
<1>4. /\ kioskJobs' \subseteq KioskJob /\ IsFiniteSet(kioskJobs')
      /\ \A k \in kioskJobs' : k.step # "lookup" => k.code \in Guests
  <2>1. IsFiniteSet(kioskJobs \ {j}) /\ \A k : IsFiniteSet((kioskJobs \ {j}) \cup {k})
    <3>1. IsFiniteSet(kioskJobs \ {j})
      BY FS_RemoveElement DEF KioskInv, KioskBooks
    <3> QED
      BY <3>1, FS_AddElement
  <2>2. IsFiniteSet(kioskJobs')
    BY <1>3, <2>1 DEF JobGone
  <2> QED
    BY <1>3, <2>2 DEF JobGone, KioskInv, KioskBooks
<1>5. admitted' \in [Guests -> Nat] /\ badges' \in [Guests -> Nat]
  BY <1>1 DEF JobOnly, JobCommits, JobPrints, KioskInv, KioskBooks
<1>6. /\ kiosk' \in [status : {"idle", "resolving", "verdict"},
                     verdict : {"none", "allowed", "already", "not_found"},
                     who : Guests \cup {NoGuest}, pending : BOOLEAN]
      /\ kiosk'.verdict = "allowed" => kiosk'.who \in Guests
      /\ kiosk' = kiosk \/ kiosk'.pending = FALSE
  <2>1. CASE kiosk' = kiosk
    BY <2>1 DEF KioskInv, KioskBooks
  <2>2. CASE kiosk' = Idle
    BY <2>2 DEF Idle
  <2>3. CASE \E v \in {"none", "allowed", "already", "not_found"} :
               /\ kiosk' = [status |-> "verdict", verdict |-> v, pending |-> FALSE,
                            who |-> IF j.code \in Guests THEN j.code ELSE NoGuest]
               /\ v = "allowed" => j.code \in Guests
    BY <2>3
  <2> QED
    BY <1>1, <2>1, <2>2, <2>3 DEF Shown
<1>7. UNCHANGED <<reprints, printBusy, presses, kioskMount>>
  BY <1>1 DEF Shown, kioskPageVars, kioskPrintVars
<1> QED
  BY <1>4, <1>5, <1>6, <1>7 DEF KioskInv, KioskBooks, PressOwned, PendingOwned, Mounted

LEMMA JobKeepsCover ==
  ASSUME KioskInv, NEW j \in kioskJobs, KioskStep(j)
  PROVE  BadgesCovered'
<1>1. Shown(j) /\ (JobOnly(j) \/ JobCommits(j) \/ JobPrints(j))
  BY JobKinds
<1>2. j \in KioskJob /\ (j.step # "lookup" => j.code \in Guests)
  BY DEF KioskInv, KioskBooks
<1> SUFFICES ASSUME NEW g \in Guests
             PROVE  badges'[g] + Cardinality(Owed(g)') + Cardinality(Asked(g)') <= admitted'[g] + presses'[g]
  BY DEF BadgesCovered
<1>3. /\ IsFiniteSet(Owed(g)) /\ Cardinality(Owed(g)) \in Nat /\ Cardinality(Asked(g)) \in Nat
      /\ badges[g] \in Nat /\ admitted[g] \in Nat /\ presses[g] \in Nat
      /\ badges[g] + Cardinality(Owed(g)) + Cardinality(Asked(g)) <= admitted[g] + presses[g]
  BY DebtsFinite DEF KioskInv, KioskBooks, BadgesCovered
<1>4. Asked(g)' = Asked(g) /\ presses' = presses
  BY <1>1 DEF Shown, kioskPrintVars, Asked
<1>5. CASE JobOnly(j)
  <2>1. Cardinality(Owed(g)') \in Nat /\ Cardinality(Owed(g)') <= Cardinality(Owed(g))
    <3>1. CASE JobGone(j)
      <4>1. Owed(g)' \subseteq Owed(g)
        BY <3>1 DEF JobGone, Owed
      <4> QED
        BY <1>3, <4>1, FS_Subset, FS_CardinalityType
    <3>2. CASE Moved(j, "post", "none")
      <4>1. PICK k : kioskJobs' = (kioskJobs \ {j}) \cup {k} /\ k.step = "post"
        BY <1>2, <3>2, MovedJob
      <4>2. Owed(g)' \subseteq Owed(g)
        BY <4>1 DEF Owed
      <4> QED
        BY <1>3, <4>2, FS_Subset, FS_CardinalityType
    <3>3. CASE j.step = "answered" /\ j.outcome = "allowed" /\ Moved(j, "print", "allowed")
      <4>1. PICK k : kioskJobs' = (kioskJobs \ {j}) \cup {k} /\ k.code = j.code
        BY <1>2, <3>3, MovedJob
      <4>2. CASE j.code = g
        <5>1. j \in Owed(g) /\ Owed(g)' \subseteq (Owed(g) \ {j}) \cup {k}
          BY <3>3, <4>1, <4>2 DEF Owed
        <5> QED
          BY <1>3, <5>1, CountReplaced
      <4>3. CASE j.code # g
        <5>1. Owed(g)' = Owed(g)
          BY <4>1, <4>3 DEF Owed
        <5> QED
          BY <1>3, <5>1
      <4> QED
        BY <4>2, <4>3
    <3> QED
      BY <1>5, <3>1, <3>2, <3>3 DEF JobOnly
  <2> QED
    BY <1>3, <1>4, <1>5, <2>1 DEF JobOnly
<1>6. CASE JobCommits(j)
  <2>1. CASE Moved(j, "answered", "already") /\ UNCHANGED admitted
    <3>1. PICK k : kioskJobs' = (kioskJobs \ {j}) \cup {k} /\ k.step = "answered" /\ k.outcome = "already"
      BY <1>2, <2>1, MovedJob
    <3>2. Owed(g)' = Owed(g)
      BY <1>6, <3>1 DEF JobCommits, Owed
    <3> QED
      BY <1>3, <1>4, <1>6, <2>1, <3>2 DEF JobCommits
  <2>2. CASE Moved(j, "answered", "allowed") /\ admitted' = [admitted EXCEPT ![j.code] = @ + 1]
    <3>1. PICK k : kioskJobs' = (kioskJobs \ {j}) \cup {k} /\ k.code = j.code
      BY <1>2, <2>2, MovedJob
    <3>2. CASE j.code = g
      <4>1. Owed(g)' \subseteq Owed(g) \cup {k}
        BY <3>1 DEF Owed
      <4>2. Cardinality(Owed(g)') \in Nat /\ Cardinality(Owed(g)') <= Cardinality(Owed(g)) + 1
        <5>1. /\ IsFiniteSet(Owed(g) \cup {k}) /\ Cardinality(Owed(g) \cup {k}) \in Nat
              /\ Cardinality(Owed(g) \cup {k}) <= Cardinality(Owed(g)) + 1
          BY <1>3, CountOneMore
        <5>2. Cardinality(Owed(g)') <= Cardinality(Owed(g) \cup {k}) /\ Cardinality(Owed(g)') \in Nat
          BY <4>1, <5>1, FS_Subset, FS_CardinalityType
        <5> QED
          BY <1>3, <5>1, <5>2
      <4>3. admitted'[g] = admitted[g] + 1
        BY <2>2, <3>2 DEF KioskInv, KioskBooks
      <4> QED
        BY <1>3, <1>4, <1>6, <4>2, <4>3 DEF JobCommits
    <3>3. CASE j.code # g
      <4>1. Owed(g)' = Owed(g)
        BY <3>1, <3>3 DEF Owed
      <4>2. admitted'[g] = admitted[g]
        BY <2>2, <3>3 DEF KioskInv, KioskBooks
      <4> QED
        BY <1>3, <1>4, <1>6, <4>1, <4>2 DEF JobCommits
    <3> QED
      BY <3>2, <3>3
  <2> QED
    BY <1>6, <2>1, <2>2 DEF JobCommits
<1>7. CASE JobPrints(j)
  <2>1. Owed(g)' \subseteq Owed(g) \ {j}
    <3>1. CASE JobGone(j)
      BY <3>1 DEF JobGone, Owed
    <3>2. CASE Moved(j, "mark", "allowed")
      <4>1. PICK k : kioskJobs' = (kioskJobs \ {j}) \cup {k} /\ k.step = "mark"
        BY <1>2, <3>2, MovedJob
      <4> QED
        BY <4>1 DEF Owed
    <3> QED
      BY <1>7, <3>1, <3>2 DEF JobPrints
  <2>2. CASE j.code = g
    <3>1. j \in Owed(g)
      BY <1>7, <2>2 DEF JobPrints, Owed
    <3>2. /\ IsFiniteSet(Owed(g) \ {j}) /\ Cardinality(Owed(g) \ {j}) \in Nat
          /\ Cardinality(Owed(g) \ {j}) + 1 = Cardinality(Owed(g))
      BY <1>3, <3>1, CountOneLess
    <3>3. Cardinality(Owed(g)') <= Cardinality(Owed(g) \ {j}) /\ Cardinality(Owed(g)') \in Nat
      BY <2>1, <3>2, FS_Subset, FS_CardinalityType
    <3>4. badges'[g] \in Nat /\ badges'[g] <= badges[g] + 1
      BY <1>3, <1>7, <2>2 DEF JobPrints, KioskInv, KioskBooks
    <3> QED
      BY <1>3, <1>4, <1>7, <3>2, <3>3, <3>4 DEF JobPrints
  <2>3. CASE j.code # g
    <3>1. Owed(g)' \subseteq Owed(g)
      BY <2>1
    <3>2. Cardinality(Owed(g)') <= Cardinality(Owed(g)) /\ Cardinality(Owed(g)') \in Nat
      BY <1>3, <3>1, FS_Subset, FS_CardinalityType
    <3>3. badges'[g] = badges[g]
      BY <1>7, <2>3 DEF JobPrints, KioskInv, KioskBooks
    <3> QED
      BY <1>3, <1>4, <1>7, <3>2, <3>3 DEF JobPrints
  <2> QED
    BY <2>2, <2>3
<1> QED
  BY <1>1, <1>5, <1>6, <1>7

LEMMA ReprintKeeps ==
  ASSUME KioskInv, NEW r \in reprints, ReprintStep(r)
  PROVE  KioskInv'
<1>1. r \in Reprint /\ r.who \in Guests /\ r.step \in {"print", "mark"}
  BY DEF KioskInv, KioskBooks, Reprint
<1>2. UNCHANGED <<kioskMount, kioskJobs, presses, admitted>>
  BY DEF ReprintStep, kioskPageVars
<1>3. \/ ReprintSettles(r)
      \/ \E k \in Reprint : /\ reprints' = (reprints \ {r}) \cup {k} /\ UNCHANGED <<printBusy, kiosk>>
                            /\ k.who = r.who /\ k.mount = r.mount /\ k.step = "mark"
  <2> DEFINE k == [r EXCEPT !.step = "mark"]
  <2>1. k \in Reprint /\ k.who = r.who /\ k.mount = r.mount /\ k.step = "mark"
    BY <1>1 DEF Reprint
  <2> QED
    BY <2>1 DEF ReprintStep
<1>4. reprints' \subseteq Reprint /\ IsFiniteSet(reprints')
  <2>1. IsFiniteSet(reprints \ {r})
    BY FS_RemoveElement DEF KioskInv, KioskBooks
  <2>2. \A k : IsFiniteSet((reprints \ {r}) \cup {k})
    BY <2>1, FS_AddElement
  <2> QED
    BY <1>3, <2>1, <2>2 DEF ReprintSettles, KioskInv, KioskBooks
<1>5. badges' = badges \/ (r.step = "print" /\ badges' = [badges EXCEPT ![r.who] = @ + 1])
  BY <1>1 DEF ReprintStep
<1>6. badges' \in [Guests -> Nat]
  BY <1>1, <1>5 DEF KioskInv, KioskBooks
<1>7. /\ kiosk' \in [status : {"idle", "resolving", "verdict"},
                     verdict : {"none", "allowed", "already", "not_found"},
                     who : Guests \cup {NoGuest}, pending : BOOLEAN]
      /\ kiosk'.verdict = kiosk.verdict /\ kiosk'.who = kiosk.who
      /\ kiosk' = kiosk \/ kiosk'.pending = FALSE
  <2>1. kiosk' = kiosk \/ kiosk' = [kiosk EXCEPT !.pending = FALSE]
    BY <1>3 DEF ReprintSettles
  <2>2. kiosk \in [status : {"idle", "resolving", "verdict"},
                   verdict : {"none", "allowed", "already", "not_found"},
                   who : Guests \cup {NoGuest}, pending : BOOLEAN]
    BY DEF KioskInv, KioskBooks
  <2> QED
    BY <2>1, <2>2
<1>8. KioskBooks'
  BY <1>2, <1>4, <1>6, <1>7 DEF KioskInv, KioskBooks
<1>9. PressOwned'
  <2>1. CASE ReprintSettles(r) /\ Mounted(r)
    <3>1. reprints' = reprints \ {r} /\ printBusy' = FALSE /\ kiosk'.pending = FALSE
      BY <1>7, <2>1 DEF ReprintSettles, KioskInv, KioskBooks
    <3>2. \A q \in reprints' : ~Mounted(q)'
      BY <1>2, <2>1, <3>1 DEF KioskInv, PressOwned, Mounted
    <3> QED
      BY <1>2, <3>1, <3>2 DEF KioskInv, PressOwned, PendingOwned
  <2>2. CASE ReprintSettles(r) /\ ~Mounted(r)
    <3>1. reprints' = reprints \ {r} /\ UNCHANGED <<printBusy, kiosk>>
      BY <2>2 DEF ReprintSettles
    <3> QED
      BY <1>2, <2>2, <3>1 DEF KioskInv, PressOwned, PendingOwned, Mounted
  <2>3. ASSUME NEW k \in Reprint, reprints' = (reprints \ {r}) \cup {k}, UNCHANGED <<printBusy, kiosk>>,
               k.who = r.who, k.mount = r.mount
        PROVE  PressOwned'
    BY <1>2, <2>3 DEF KioskInv, PressOwned, PendingOwned, Mounted
  <2> QED
    BY <1>3, <2>1, <2>2, <2>3
<1>10. BadgesCovered'
  <2> SUFFICES ASSUME NEW g \in Guests
               PROVE  badges'[g] + Cardinality(Owed(g)') + Cardinality(Asked(g)') <= admitted'[g] + presses'[g]
    BY DEF BadgesCovered
  <2>1. /\ IsFiniteSet(Asked(g)) /\ Cardinality(Asked(g)) \in Nat /\ Cardinality(Owed(g)) \in Nat
        /\ badges[g] \in Nat /\ admitted[g] \in Nat /\ presses[g] \in Nat
        /\ badges[g] + Cardinality(Owed(g)) + Cardinality(Asked(g)) <= admitted[g] + presses[g]
    BY DebtsFinite DEF KioskInv, KioskBooks, BadgesCovered
  <2>2. Owed(g)' = Owed(g) /\ admitted' = admitted /\ presses' = presses
    BY <1>2 DEF Owed
  <2>3. Asked(g)' \subseteq Asked(g) \ {r}
    BY <1>3 DEF ReprintSettles, Asked
  <2>4. CASE r.who = g /\ r.step = "print"
    <3>1. r \in Asked(g)
      BY <2>4 DEF Asked
    <3>2. /\ IsFiniteSet(Asked(g) \ {r}) /\ Cardinality(Asked(g) \ {r}) \in Nat
          /\ Cardinality(Asked(g) \ {r}) + 1 = Cardinality(Asked(g))
      BY <2>1, <3>1, CountOneLess
    <3>3. Cardinality(Asked(g)') <= Cardinality(Asked(g) \ {r}) /\ Cardinality(Asked(g)') \in Nat
      BY <2>3, <3>2, FS_Subset, FS_CardinalityType
    <3>4. badges'[g] \in Nat /\ badges'[g] <= badges[g] + 1
      BY <1>5, <2>1, <2>4 DEF KioskInv, KioskBooks
    <3> QED
      BY <2>1, <2>2, <3>2, <3>3, <3>4
  <2>5. CASE ~(r.who = g /\ r.step = "print")
    <3>1. Asked(g)' \subseteq Asked(g)
      BY <2>3
    <3>2. Cardinality(Asked(g)') <= Cardinality(Asked(g)) /\ Cardinality(Asked(g)') \in Nat
      BY <2>1, <3>1, FS_Subset, FS_CardinalityType
    <3>3. badges'[g] = badges[g]
      BY <1>5, <2>5 DEF KioskInv, KioskBooks
    <3> QED
      BY <2>1, <2>2, <3>2, <3>3
  <2> QED
    BY <2>4, <2>5
<1> QED
  BY <1>8, <1>9, <1>10 DEF KioskInv

LEMMA SubmitKeeps ==
  ASSUME KioskInv, NEW c \in KioskCodes, KioskScan(c) \/ KioskPick(c)
  PROVE  KioskInv'
<1>1. PICK step \in {"lookup", "post"} : KioskSubmit(c, step) /\ (step = "post" => c \in Guests)
  BY DEF KioskScan, KioskPick
<1> DEFINE new == [code |-> c, mount |-> kioskMount, step |-> step, outcome |-> "none"]
<1>2. /\ kioskJobs' = kioskJobs \cup {new} /\ kiosk' = [Idle EXCEPT !.status = "resolving"]
      /\ UNCHANGED <<kioskMount, reprints, printBusy, presses, admitted, badges>>
  BY <1>1 DEF KioskSubmit, kioskPageVars, kioskPrintVars, kioskWorld
<1>3. new \in KioskJob /\ (new.step # "lookup" => new.code \in Guests)
  BY <1>1 DEF KioskInv, KioskBooks, KioskJob
<1>4. IsFiniteSet(kioskJobs')
  BY <1>2, FS_AddElement DEF KioskInv, KioskBooks
<1>5. /\ kiosk' \in [status : {"idle", "resolving", "verdict"},
                     verdict : {"none", "allowed", "already", "not_found"},
                     who : Guests \cup {NoGuest}, pending : BOOLEAN]
      /\ kiosk'.verdict = "none" /\ kiosk'.pending = FALSE
  BY <1>2 DEF Idle
<1>6. KioskBooks'
  BY <1>2, <1>3, <1>4, <1>5 DEF KioskInv, KioskBooks
<1>7. PressOwned'
  BY <1>2, <1>5 DEF KioskInv, PressOwned, PendingOwned, Mounted
<1>8. \A g : Owed(g)' = Owed(g) /\ Asked(g)' = Asked(g)
  BY <1>1, <1>2 DEF Owed, Asked
<1>9. BadgesCovered'
  BY <1>2, <1>8 DEF KioskInv, BadgesCovered
<1> QED
  BY <1>6, <1>7, <1>9 DEF KioskInv

LEMMA PressKeeps == KioskInv /\ PressPrint => KioskInv'
<1> SUFFICES ASSUME KioskInv, PressPrint PROVE KioskInv'
  OBVIOUS
<1>0. PICK new : new = [who |-> kiosk.who, mount |-> kioskMount, step |-> "print"]
  OBVIOUS
<1>1. /\ reprints' = reprints \cup {new} /\ kiosk' = [kiosk EXCEPT !.pending = TRUE] /\ printBusy' = TRUE
      /\ presses' = [presses EXCEPT ![kiosk.who] = @ + 1] /\ ~printBusy
      /\ UNCHANGED <<kioskMount, kioskJobs, admitted, badges>>
  BY <1>0 DEF PressPrint, kioskPageVars, kioskWorld
<1>2. kiosk.who \in Guests
  BY DEF PressPrint, KioskInv, KioskBooks
<1>3. new \in Reprint /\ new.mount = kioskMount /\ new.who = kiosk.who
  BY <1>0, <1>2 DEF Reprint, KioskInv, KioskBooks
<1>4. IsFiniteSet(reprints') /\ presses' \in [Guests -> Nat]
  <2>1. IsFiniteSet(reprints) /\ presses \in [Guests -> Nat]
    BY DEF KioskInv, KioskBooks
  <2>2. IsFiniteSet(reprints \cup {new})
    BY <2>1, FS_AddElement
  <2> QED
    BY <1>1, <1>2, <2>1, <2>2
<1>5. /\ kiosk' \in [status : {"idle", "resolving", "verdict"},
                     verdict : {"none", "allowed", "already", "not_found"},
                     who : Guests \cup {NoGuest}, pending : BOOLEAN]
      /\ kiosk'.who = kiosk.who
  BY <1>1 DEF KioskInv, KioskBooks
<1>6. KioskBooks'
  BY <1>1, <1>2, <1>3, <1>4, <1>5 DEF KioskInv, KioskBooks
<1>7. PressOwned'
  <2>1. \A q \in reprints : ~Mounted(q)
    BY <1>1 DEF KioskInv, PressOwned
  <2>2. \A q \in reprints' : Mounted(q)' <=> q = new
    BY <1>1, <1>3, <2>1 DEF Mounted
  <2>3. (\A q \in reprints' : q.mount <= kioskMount')
    BY <1>1, <1>3 DEF KioskInv, KioskBooks, PressOwned
  <2>4. new \in reprints' /\ new.who = kiosk'.who
    BY <1>1, <1>3, <1>5
  <2>5. Mounted(new)'
    BY <2>2, <2>4
  <2>6. PendingOwned'
    BY <2>4, <2>5 DEF PendingOwned
  <2> QED
    BY <1>1, <2>2, <2>3, <2>4, <2>6 DEF PressOwned
<1>8. BadgesCovered'
  <2> SUFFICES ASSUME NEW g \in Guests
               PROVE  badges'[g] + Cardinality(Owed(g)') + Cardinality(Asked(g)') <= admitted'[g] + presses'[g]
    BY DEF BadgesCovered
  <2>1. /\ IsFiniteSet(Asked(g)) /\ Cardinality(Asked(g)) \in Nat /\ Cardinality(Owed(g)) \in Nat
        /\ badges[g] \in Nat /\ admitted[g] \in Nat /\ presses[g] \in Nat
        /\ badges[g] + Cardinality(Owed(g)) + Cardinality(Asked(g)) <= admitted[g] + presses[g]
    BY DebtsFinite DEF KioskInv, KioskBooks, BadgesCovered
  <2>2. Owed(g)' = Owed(g)
    BY <1>1 DEF Owed
  <2>3. CASE g = kiosk.who
    <3>1. Asked(g)' \subseteq Asked(g) \cup {new}
      BY <1>1 DEF Asked
    <3>2. /\ IsFiniteSet(Asked(g) \cup {new}) /\ Cardinality(Asked(g) \cup {new}) \in Nat
          /\ Cardinality(Asked(g) \cup {new}) <= Cardinality(Asked(g)) + 1
      BY <2>1, CountOneMore
    <3>3. Cardinality(Asked(g)') <= Cardinality(Asked(g) \cup {new}) /\ Cardinality(Asked(g)') \in Nat
      BY <3>1, <3>2, FS_Subset, FS_CardinalityType
    <3>4. presses'[g] = presses[g] + 1
      BY <1>1, <2>3 DEF KioskInv, KioskBooks
    <3> QED
      BY <1>1, <2>1, <2>2, <3>2, <3>3, <3>4
  <2>4. CASE g # kiosk.who
    <3>1. Asked(g)' = Asked(g)
      BY <1>1, <1>3, <2>4 DEF Asked
    <3>2. presses'[g] = presses[g]
      BY <1>1, <2>4 DEF KioskInv, KioskBooks
    <3> QED
      BY <1>1, <2>1, <2>2, <3>1, <3>2
  <2> QED
    BY <2>3, <2>4
<1> QED
  BY <1>6, <1>7, <1>8 DEF KioskInv

LEMMA RestKeeps ==
  ASSUME KioskInv,
         \/ KioskDismiss \/ SelfDismiss \/ DonePressed \/ AnswerPrinter \/ HealthPoll
         \/ KioskAgentTurns \/ KioskOnlineTurns \/ UNCHANGED kioskVars
         \/ \E page \in {"run", "self"} : KioskRemount(page)
  PROVE  KioskInv'
<1>1. UNCHANGED <<kioskJobs, reprints, presses, admitted, badges>>
  BY DEF KioskDismiss, SelfDismiss, DonePressed, KioskClear, AnswerPrinter, HealthPoll, KioskAgentTurns,
         KioskOnlineTurns, KioskRemount, kioskVars, kioskFlowVars, kioskPrintVars, kioskWorld
<1>2. kiosk' = kiosk \/ kiosk' = Idle
  BY DEF KioskDismiss, SelfDismiss, DonePressed, KioskClear, AnswerPrinter, HealthPoll, KioskAgentTurns,
         KioskOnlineTurns, KioskRemount, kioskVars, kioskFlowVars
<1>3. \/ UNCHANGED <<kioskMount, printBusy>>
      \/ kioskMount' = kioskMount + 1 /\ printBusy' = FALSE /\ kiosk' = Idle
  BY DEF KioskDismiss, SelfDismiss, DonePressed, KioskClear, AnswerPrinter, HealthPoll, KioskAgentTurns,
         KioskOnlineTurns, KioskRemount, kioskVars, kioskPageVars, kioskPrintVars
<1>4. KioskBooks'
  <2>1. kioskMount' \in Nat
    BY <1>3 DEF KioskInv, KioskBooks
  <2>2. CASE kiosk' = kiosk
    BY <1>1, <2>1, <2>2 DEF KioskInv, KioskBooks
  <2>3. CASE kiosk' = Idle
    <3>1. kiosk'.verdict = "none"
      BY <2>3 DEF Idle
    <3>2. kiosk' \in [status : {"idle", "resolving", "verdict"},
                      verdict : {"none", "allowed", "already", "not_found"},
                      who : Guests \cup {NoGuest}, pending : BOOLEAN]
      BY <2>3 DEF Idle
    <3> QED
      BY <1>1, <2>1, <3>1, <3>2 DEF KioskInv, KioskBooks
  <2> QED
    BY <1>2, <2>2, <2>3
<1>5. BadgesCovered'
  <2>1. \A g : Owed(g)' = Owed(g) /\ Asked(g)' = Asked(g)
    BY <1>1 DEF Owed, Asked
  <2> QED
    BY <1>1, <2>1 DEF KioskInv, BadgesCovered
<1>6. PressOwned'
  <2>1. CASE UNCHANGED <<kioskMount, printBusy>>
    BY <1>1, <1>2, <2>1 DEF KioskInv, PressOwned, PendingOwned, Mounted, Idle
  <2>2. CASE kioskMount' = kioskMount + 1 /\ printBusy' = FALSE /\ kiosk' = Idle
    <3>1. \A r \in reprints : r.mount \in Nat /\ r.mount <= kioskMount /\ kioskMount \in Nat
      BY DEF KioskInv, KioskBooks, PressOwned, Reprint
    <3>2. \A r \in reprints' : r.mount <= kioskMount' /\ ~Mounted(r)'
      BY <1>1, <2>2, <3>1 DEF Mounted
    <3> QED
      BY <2>2, <3>2 DEF PressOwned, PendingOwned, Idle
  <2> QED
    BY <1>3, <2>1, <2>2
<1> QED
  BY <1>4, <1>5, <1>6 DEF KioskInv

(* The kiosk keeps its books: jobs under way, verdict, pending flag, and  *)
(* the prints that check-ins and presses have paid for.                   *)
THEOREM KioskInvariance == KioskSpec => []KioskInv
<1>1. KioskInv /\ [KioskNext]_kioskVars => KioskInv'
  <2> SUFFICES ASSUME KioskInv, [KioskNext]_kioskVars PROVE KioskInv'
    OBVIOUS
  <2>1. CASE \E c \in KioskCodes : KioskScan(c) \/ KioskPick(c)
    BY <2>1, SubmitKeeps
  <2>2. CASE \E j \in kioskJobs : KioskStep(j)
    BY <2>2, JobKeepsBooks, JobKeepsCover DEF KioskInv
  <2>3. CASE \E r \in reprints : ReprintStep(r)
    BY <2>3, ReprintKeeps
  <2>4. CASE PressPrint
    BY <2>4, PressKeeps
  <2>5. CASE \/ KioskDismiss \/ SelfDismiss \/ DonePressed \/ AnswerPrinter \/ HealthPoll
             \/ KioskAgentTurns \/ KioskOnlineTurns \/ UNCHANGED kioskVars
             \/ \E page \in {"run", "self"} : KioskRemount(page)
    BY <2>5, RestKeeps
  <2> QED
    BY <2>1, <2>2, <2>3, <2>4, <2>5 DEF KioskNext
<1> QED
  BY KioskStarts, <1>1, PTL DEF KioskSpec

(* Every badge the kiosk prints is covered by a check-in it committed or   *)
(* by a press of Print, across retries, lost answers and remounts.         *)
THEOREM NoFreeBadge == KioskSpec => []BadgesEarned
<1>1. KioskInv => BadgesEarned
  <2> SUFFICES ASSUME KioskInv, NEW g \in Guests PROVE badges[g] <= admitted[g] + presses[g]
    BY DEF BadgesEarned
  <2>1. Cardinality(Owed(g)) \in Nat /\ Cardinality(Asked(g)) \in Nat
    BY DebtsFinite DEF KioskInv
  <2> QED
    BY <2>1 DEF KioskInv, KioskBooks, BadgesCovered
<1> QED
  BY <1>1, KioskInvariance, PTL

(* A pending print belongs to a call that will still answer to this mount  *)
(* and to the attendee whose verdict is on the screen.                     *)
THEOREM PendingHasOwner == KioskSpec => []PendingOwned
<1>1. KioskInv => PendingOwned
  BY DEF KioskInv, PressOwned
<1> QED
  BY <1>1, KioskInvariance, PTL

------------------------------------------------------------------------------
(* The rest of the state's type: flags, page, printer and counters.        *)
KioskFlags ==
  /\ kioskPage \in {"run", "self"} /\ printOnCheckin \in BOOLEAN /\ kioskBusy \in BOOLEAN
  /\ kioskTimer \in BOOLEAN /\ printBusy \in BOOLEAN /\ agentUp \in BOOLEAN
  /\ healthSeen \in BOOLEAN /\ kioskOnline \in BOOLEAN
KioskRooms ==
  /\ printerData \in {"asked", "failed", "known"} /\ guestIn \subseteq Guests
  /\ kioskScans \in 0..MaxKioskScans /\ kioskTurns \in 0..MaxKioskTurns

LEMMA JobFlagsKeep ==
  ASSUME KioskInv, KioskFlags, KioskRooms, NEW j \in kioskJobs, KioskStep(j)
  PROVE  KioskFlags' /\ KioskRooms'
<1>1. /\ UNCHANGED <<kioskPageVars, kioskPrintVars, kioskEnvVars, kioskScans>>
      /\ \/ KioskLookup(j) \/ KioskCommit(j) \/ KioskAnswered(j)
         \/ KioskPrint(j) \/ KioskMark(j) \/ KioskFails(j)
  BY DEF KioskStep
<1>2. kioskBusy' = kioskBusy \/ kioskBusy' = FALSE
  BY <1>1 DEF KioskLookup, KioskCommit, KioskAnswered, KioskPrint, KioskMark, KioskFails, KioskAdvance,
              KioskVerdict
<1>3. kioskTimer' \in BOOLEAN
  <2>1. ASSUME NEW verdict, KioskVerdict(j, verdict) PROVE kioskTimer' \in BOOLEAN
    <3>1. CASE Mounted(j)
      BY <2>1, <3>1, Zenon DEF KioskVerdict
    <3>2. CASE ~Mounted(j)
      BY <2>1, <3>2 DEF KioskVerdict, KioskFlags
    <3> QED
      BY <3>1, <3>2
  <2>2. ASSUME UNCHANGED kioskTimer PROVE kioskTimer' \in BOOLEAN
    BY <2>2 DEF KioskFlags
  <2> QED
    BY <1>1, <2>1, <2>2
       DEF KioskLookup, KioskCommit, KioskAnswered, KioskPrint, KioskMark, KioskFails, KioskAdvance
<1>4. guestIn' \subseteq Guests
  <2>1. j.step # "lookup" => j.code \in Guests
    BY DEF KioskInv, KioskBooks
  <2> QED
    BY <1>1, <2>1 DEF KioskLookup, KioskCommit, KioskAnswered, KioskPrint, KioskMark, KioskFails,
                      kioskWorld, KioskRooms
<1>5. kioskTurns' \in 0..MaxKioskTurns
  BY <1>1, KioskAssumption
     DEF KioskLookup, KioskCommit, KioskAnswered, KioskPrint, KioskMark, KioskFails, KioskTurn, KioskRooms
<1> QED
  BY <1>1, <1>2, <1>3, <1>4, <1>5 DEF KioskFlags, KioskRooms, kioskPageVars, kioskPrintVars, kioskEnvVars

LEMMA PageFlagsKeep ==
  ASSUME KioskFlags, KioskRooms,
         \/ \E c \in KioskCodes : KioskScan(c) \/ KioskPick(c)
         \/ PressPrint \/ \E r \in reprints : ReprintStep(r)
         \/ KioskDismiss \/ SelfDismiss \/ DonePressed \/ UNCHANGED kioskVars
  PROVE  KioskFlags' /\ KioskRooms'
<1>1. UNCHANGED <<kioskPageVars, kioskEnvVars, guestIn, kioskTurns>>
  BY DEF KioskScan, KioskPick, KioskSubmit, PressPrint, ReprintStep, KioskDismiss, SelfDismiss, DonePressed,
         KioskClear, kioskWorld, kioskVars
<1>2. /\ kioskBusy' = kioskBusy \/ kioskBusy' = TRUE
      /\ kioskTimer' = kioskTimer \/ kioskTimer' = FALSE
  BY DEF KioskScan, KioskPick, KioskSubmit, PressPrint, ReprintStep, KioskDismiss, SelfDismiss, DonePressed,
         KioskClear, kioskFlowVars, kioskVars
<1>3. printBusy' = printBusy \/ printBusy' = TRUE \/ printBusy' = FALSE
  BY DEF KioskScan, KioskPick, KioskSubmit, PressPrint, ReprintStep, ReprintSettles, KioskDismiss,
         SelfDismiss, DonePressed, KioskClear, kioskPrintVars, kioskVars
<1>4. kioskScans' \in 0..MaxKioskScans
  BY KioskAssumption
     DEF KioskScan, KioskPick, KioskSubmit, PressPrint, ReprintStep, KioskDismiss, SelfDismiss, DonePressed,
         KioskClear, kioskVars, KioskRooms
<1> QED
  BY <1>1, <1>2, <1>3, <1>4 DEF KioskFlags, KioskRooms, kioskPageVars, kioskEnvVars

LEMMA AroundFlagsKeep ==
  ASSUME KioskFlags, KioskRooms,
         \/ AnswerPrinter \/ HealthPoll \/ KioskAgentTurns \/ KioskOnlineTurns
         \/ \E page \in {"run", "self"} : KioskRemount(page)
  PROVE  KioskFlags' /\ KioskRooms'
<1>1. UNCHANGED <<printOnCheckin, guestIn, kioskScans>> /\ kioskPage' \in {"run", "self"}
  BY DEF AnswerPrinter, HealthPoll, KioskAgentTurns, KioskOnlineTurns, KioskRemount, kioskPageVars,
         kioskWorld, KioskFlags
<1>2. /\ kioskBusy' = kioskBusy \/ kioskBusy' = FALSE
      /\ kioskTimer' = kioskTimer \/ kioskTimer' = FALSE
      /\ printBusy' = printBusy \/ printBusy' = FALSE
  BY DEF AnswerPrinter, HealthPoll, KioskAgentTurns, KioskOnlineTurns, KioskRemount, kioskFlowVars,
         kioskPrintVars
<1>3. printerData' \in {"asked", "failed", "known"}
  BY DEF AnswerPrinter, HealthPoll, KioskAgentTurns, KioskOnlineTurns, KioskRemount, KioskRooms
<1>4. kioskTurns' \in 0..MaxKioskTurns
  BY KioskAssumption
     DEF AnswerPrinter, HealthPoll, KioskAgentTurns, KioskOnlineTurns, KioskRemount, KioskTurn, KioskRooms
<1>5. agentUp' \in BOOLEAN /\ healthSeen' \in BOOLEAN /\ kioskOnline' \in BOOLEAN
  BY Zenon DEF AnswerPrinter, HealthPoll, KioskAgentTurns, KioskOnlineTurns, KioskRemount, KioskFlags
<1> QED
  BY <1>1, <1>2, <1>3, <1>4, <1>5 DEF KioskFlags, KioskRooms

(* Every variable of the kiosk keeps to its type.                          *)
THEOREM KioskTypeCorrect == KioskSpec => []KioskTypeOK
<1>1. KioskInit => KioskFlags /\ KioskRooms
  <2>1. KioskInit => KioskFlags
    BY Zenon DEF KioskInit, KioskFlags
  <2>2. KioskInit => KioskRooms
    BY KioskAssumption DEF KioskInit, KioskRooms
  <2> QED
    BY <2>1, <2>2
<1>2. KioskInv /\ KioskFlags /\ KioskRooms /\ [KioskNext]_kioskVars => KioskFlags' /\ KioskRooms'
  BY JobFlagsKeep, PageFlagsKeep, AroundFlagsKeep DEF KioskNext
<1>3. KioskInv /\ KioskFlags /\ KioskRooms => KioskTypeOK
  BY DEF KioskInv, KioskBooks, KioskFlags, KioskRooms, KioskTypeOK
<1> QED
  BY <1>1, <1>2, <1>3, KioskInvariance, PTL DEF KioskSpec
==============================================================================

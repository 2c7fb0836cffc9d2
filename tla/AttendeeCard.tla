------------------------------ MODULE AttendeeCard ------------------------------
(***************************************************************************)
(* The attendee card of the panel's phone layout                           *)
(* (panel/src/features/attendees/AttendeeCard.tsx, CheckInConfirmSheet.tsx *)
(* and AttendeeSearchList.tsx): manual check-in behind a confirmation      *)
(* sheet, a toast that offers to undo it, undo, block and unblock.         *)
(*                                                                         *)
(* Callbacks given with a request run only while the component that sent   *)
(* it is mounted.  The sheet is mounted only while the card shows an       *)
(* attendee who is neither checked in nor blocked; the card is not keyed   *)
(* by its attendee, so that a change to an attendee whose detail is still  *)
(* cached, and who can be checked in too, leaves the sheet as it is.       *)
(***************************************************************************)
EXTENDS Naturals

CONSTANTS
  CardPeople,    \* attendees the search list leads to
  MaxCardTurns   \* bounds the requests and what others do meanwhile

NoPerson == "nobody"
ASSUME CardAssumption == NoPerson \notin CardPeople /\ MaxCardTurns \in Nat

VARIABLES
  people,       \* the backend: who checked each attendee in, and who is blocked
  cardOf,       \* the attendee in the URL
  detail,       \* each attendee as last fetched; "loading" when not in the cache
  cardDialogs,  \* the dialogs whose open flag is set
  sheetRefused, \* blockedOutcome
  cardCalls,    \* per mutation of what is mounted, its request in flight
  orphans,      \* requests in flight whose callbacks are gone
  undoToasts,   \* the attendees toasts offer to undo, and whether this card gave them
  cardTurns     \* counter of the bound
cardVars == <<people, cardOf, detail, cardDialogs, sheetRefused, cardCalls, orphans, undoToasts,
              cardTurns>>

Mutations == {"checkin", "undo", "block", "unblock"}
Person == [by : {"nobody", "card", "other"}, blocked : BOOLEAN]
Outcomes == {"none", "checked_in", "already_checked_in", "blocked"}
Details == {"loading", "out", "in", "blocked"}
(* "moved": the card has changed its attendee since the request was sent.  *)
CardCall == [who : CardPeople \cup {NoPerson}, moved : BOOLEAN, applied : BOOLEAN, outcome : Outcomes]
NoCall == [who |-> NoPerson, moved |-> FALSE, applied |-> FALSE, outcome |-> "none"]

CardTypeOK ==
  /\ people \in [CardPeople -> Person] /\ cardOf \in CardPeople
  /\ detail \in [CardPeople -> Details]
  /\ cardDialogs \subseteq {"sheet", "undo", "block"} /\ sheetRefused \in BOOLEAN
  /\ cardCalls \in [Mutations -> CardCall] /\ orphans \subseteq Mutations \X CardPeople
  /\ undoToasts \subseteq CardPeople \X BOOLEAN
  /\ cardTurns \in 0..MaxCardTurns

CardInit ==
  /\ people = [a \in CardPeople |-> [by |-> "nobody", blocked |-> FALSE]]
  /\ cardOf \in CardPeople /\ detail = [a \in CardPeople |-> "loading"]
  /\ cardDialogs = {} /\ sheetRefused = FALSE
  /\ cardCalls = [m \in Mutations |-> NoCall] /\ orphans = {} /\ undoToasts = {}
  /\ cardTurns = 0

CardTurn == cardTurns < MaxCardTurns /\ cardTurns' = cardTurns + 1
MutationPending(m) == cardCalls[m].who # NoPerson
CardShows == detail[cardOf]
SheetMounted == CardShows = "out"
DialogShown(d) == /\ d \in cardDialogs
            /\ CASE d = "sheet" -> SheetMounted
                 [] d = "undo" -> CardShows = "in"
                 [] d = "block" -> CardShows # "loading"
NothingShown == \A d \in cardDialogs : ~DialogShown(d)

(* The requests of what is unmounted go on without it: whoever is mounted  *)
(* next has nothing pending.                                               *)
StillToApply(ms) == {<<m, cardCalls[m].who>> : m \in {n \in ms : MutationPending(n) /\ ~cardCalls[n].applied}}
Disown(ms) ==
  /\ cardCalls' = [m \in Mutations |->
       IF m \in ms THEN NoCall
       ELSE [cardCalls[m] EXCEPT !.moved = MutationPending(m) /\ (@ \/ cardOf' # cardOf)]]
  /\ orphans' = orphans \cup StillToApply(ms)
(* The sheet forgets its verdict when it closes and when it is unmounted.  *)
SheetEffects ==
  /\ sheetRefused' = (sheetRefused /\ "sheet" \in cardDialogs' /\ SheetMounted')
  /\ Disown(IF SheetMounted' THEN {} ELSE {"checkin"})

StatusOf(a) == IF people[a].blocked THEN "blocked" ELSE IF people[a].by = "nobody" THEN "out" ELSE "in"

DetailArrives ==
  /\ CardShows # StatusOf(cardOf) /\ detail' = [detail EXCEPT ![cardOf] = StatusOf(cardOf)]
  /\ UNCHANGED <<people, cardOf, cardDialogs, undoToasts, cardTurns>>
  /\ SheetEffects

(* A detail nothing shows is dropped after a while.                        *)
DetailCollected(a) ==
  /\ a # cardOf /\ detail[a] # "loading" /\ detail' = [detail EXCEPT ![a] = "loading"]
  /\ UNCHANGED <<people, cardOf, cardDialogs, sheetRefused, cardCalls, orphans, undoToasts, cardTurns>>

(* Another search result, or a jump in the history, which no dialog stops. *)
SwitchCard(a) ==
  /\ a # cardOf /\ cardOf' = a /\ CardTurn
  /\ UNCHANGED <<people, detail, cardDialogs, undoToasts>>
  /\ SheetEffects

(* The card is closed, and opened again later.                             *)
ReopenCard(a) ==
  /\ cardOf' = a /\ cardDialogs' = {} /\ sheetRefused' = FALSE /\ CardTurn
  /\ Disown(Mutations) /\ undoToasts' = {<<t[1], FALSE>> : t \in undoToasts}
  /\ UNCHANGED <<people, detail>>

OpenDialog(d) ==
  /\ NothingShown
  /\ CASE d = "sheet" -> CardShows = "out" [] d = "undo" -> CardShows = "in"
       [] d = "block" -> CardShows \in {"out", "in"}
  /\ cardDialogs' = cardDialogs \cup {d}
  /\ UNCHANGED <<people, cardOf, detail, undoToasts, cardTurns>>
  /\ SheetEffects

(* Mutant: the sheet can be closed while its call is pending.            *)
SheetNotHeld(d) == d = "sheet" /\ sheetRefused

(* The sheet is held open while its check-in is pending; the undo and the  *)
(* block dialog are not.                                                   *)
SheetHeld(d) == d = "sheet" /\ MutationPending("checkin")
CloseDialog(d) ==
  /\ DialogShown(d) /\ ~SheetHeld(d)
  /\ cardDialogs' = cardDialogs \ {d}
  /\ UNCHANGED <<people, cardOf, detail, undoToasts, cardTurns>>
  /\ SheetEffects

CardSends(m, who) ==
  /\ CardTurn
  /\ cardCalls' = [cardCalls EXCEPT ![m] = [NoCall EXCEPT !.who = who, !.moved = who # cardOf]]
  /\ orphans' = orphans \cup StillToApply({m})
  /\ UNCHANGED <<people, cardOf, detail, cardDialogs, sheetRefused>>
CardPress(m) == ~MutationPending(m) /\ CardSends(m, cardOf) /\ UNCHANGED undoToasts

ConfirmCheckin == DialogShown("sheet") /\ ~sheetRefused /\ CardPress("checkin")
ConfirmUndo    == DialogShown("undo") /\ CardPress("undo")
ConfirmBlock   == DialogShown("block") /\ CardPress("block")
PressUnblock   == CardShows = "blocked" /\ CardPress("unblock")
(* The toast outlives the card: its undo is of the card that gave it, and  *)
(* takes the place of one that card has pending.                           *)
TapUndoToast(t) ==
  /\ t \in undoToasts /\ undoToasts' = undoToasts \ {t}
  /\ IF t[2] THEN CardSends("undo", t[1])
     ELSE /\ CardTurn /\ orphans' = orphans \cup {<<"undo", t[1]>>}
          /\ UNCHANGED <<people, cardOf, detail, cardDialogs, sheetRefused, cardCalls>>

CheckinOutcome(p) ==
  IF p.blocked THEN "blocked" ELSE IF p.by = "nobody" THEN "checked_in" ELSE "already_checked_in"
AppliedTo(m, p) ==
  CASE m = "checkin" -> IF CheckinOutcome(p) = "checked_in" THEN [p EXCEPT !.by = "card"] ELSE p
    [] m = "undo" -> [p EXCEPT !.by = "nobody"]
    [] m \in {"block", "unblock"} -> [p EXCEPT !.blocked = (m = "block")]

CallApplies(m) ==
  /\ MutationPending(m) /\ ~cardCalls[m].applied
  /\ LET a == cardCalls[m].who IN
     /\ people' = [people EXCEPT ![a] = AppliedTo(m, people[a])]
     /\ cardCalls' = [cardCalls EXCEPT ![m].applied = TRUE,
          ![m].outcome = IF m = "checkin" THEN CheckinOutcome(people[a]) ELSE "none"]
  /\ UNCHANGED <<cardOf, detail, cardDialogs, sheetRefused, orphans, undoToasts, cardTurns>>

OrphanApplies(o) ==
  /\ o \in orphans /\ orphans' = orphans \ {o}
  /\ people' = [people EXCEPT ![o[2]] = AppliedTo(o[1], @)]
  /\ UNCHANGED <<cardOf, detail, cardDialogs, sheetRefused, cardCalls, undoToasts, cardTurns>>

(* A success runs the callbacks of the call; a failure, or an answer lost, *)
(* is shown in place.                                                      *)
CallAnswers(m, ok) ==
  /\ MutationPending(m) /\ (ok => cardCalls[m].applied)
  /\ cardCalls' = [cardCalls EXCEPT ![m] = NoCall]
  /\ LET call == cardCalls[m]
         checkedIn == ok /\ call.outcome \in {"checked_in", "already_checked_in"} IN
     IF m # "checkin"
     THEN /\ cardDialogs' = IF ok THEN cardDialogs \ {m} ELSE cardDialogs
          /\ UNCHANGED <<sheetRefused, undoToasts>>
     ELSE /\ sheetRefused' = (IF checkedIn THEN FALSE ELSE sheetRefused \/ ok)
          /\ cardDialogs' = IF checkedIn THEN cardDialogs \ {"sheet"} ELSE cardDialogs
          /\ undoToasts' = IF checkedIn THEN undoToasts \cup {<<call.who, TRUE>>} ELSE undoToasts
  /\ UNCHANGED <<people, cardOf, detail, orphans, cardTurns>>

ToastExpires(t) ==
  /\ t \in undoToasts /\ undoToasts' = undoToasts \ {t}
  /\ UNCHANGED <<people, cardOf, detail, cardDialogs, sheetRefused, cardCalls, orphans, cardTurns>>

OtherActs(a) ==
  /\ CardTurn
  /\ people' \in {[people EXCEPT ![a].by = "other"], [people EXCEPT ![a].by = "nobody"],
                  [people EXCEPT ![a].blocked = ~@]}
  /\ people[a].by # "nobody" => people'[a].by # "other"
  /\ UNCHANGED <<cardOf, detail, cardDialogs, sheetRefused, cardCalls, orphans, undoToasts>>

CardNext ==
  \/ DetailArrives
  \/ \E d \in {"sheet", "undo", "block"} : OpenDialog(d) \/ CloseDialog(d)
  \/ ConfirmCheckin \/ ConfirmUndo \/ ConfirmBlock \/ PressUnblock
  \/ \E t \in undoToasts : TapUndoToast(t) \/ ToastExpires(t)
  \/ \E m \in Mutations : CallApplies(m) \/ \E ok \in BOOLEAN : CallAnswers(m, ok)
  \/ \E o \in orphans : OrphanApplies(o)
  \/ \E a \in CardPeople : SwitchCard(a) \/ ReopenCard(a) \/ DetailCollected(a) \/ OtherActs(a)

CardSpec == CardInit /\ [][CardNext]_cardVars

------------------------------------------------------------------------------
(* A toast is only ever for a check-in whose sheet is still open when the  *)
(* answer comes: nothing the operator backed out of is announced or        *)
(* offered for undo.  The attendee it offers to undo is the one whose      *)
(* check-in was confirmed on that sheet, and is on the card, unless the    *)
(* card was changed under the open sheet to another attendee who could be  *)
(* checked in and whose detail was cached.                                 *)
ToastsWereConfirmed ==
  [][\A a \in CardPeople : <<a, TRUE>> \in undoToasts' \ undoToasts =>
       /\ "sheet" \in cardDialogs /\ SheetMounted
       /\ cardCalls["checkin"].who = a
       /\ cardOf = a \/ cardCalls["checkin"].moved]_cardVars

==============================================================================

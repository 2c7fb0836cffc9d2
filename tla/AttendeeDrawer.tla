----------------------------- MODULE AttendeeDrawer -----------------------------
(***************************************************************************)
(* The panel's attendee drawer (panel/src/features/attendees/              *)
(* AttendeeDrawer.tsx and EditAttendeeForm.tsx): one attendee's fields     *)
(* edited and saved, zone grants added and removed, the code regenerated,  *)
(* the attendee deleted, the badge printed again.                          *)
(*                                                                         *)
(* A mutation object of the query library watches only the last request    *)
(* sent through it; reset() stops the watching, not the request.  What an  *)
(* answer does to the page therefore depends on whether it is watched (the *)
(* pending flag, callbacks given with the call) or not (callbacks given    *)
(* with the mutation, which always run).                                   *)
(***************************************************************************)
EXTENDS Naturals, FiniteSets

CONSTANTS
  FieldValues,      \* what the edited field may hold
  GrantRows,        \* zone grants of the attendee, present or added later
  MaxDrawerEdits,   \* bounds the keystrokes
  MaxDrawerCalls    \* bounds the requests

Confirms == {"regenerate", "delete"}
NoGrant == "no grant"
ASSUME DrawerAssumption ==
  /\ FieldValues # {} /\ NoGrant \notin GrantRows
  /\ MaxDrawerEdits \in Nat /\ MaxDrawerCalls \in Nat

VARIABLES
  drawer,        \* "view", "edit" or "closed"
  editForm,      \* value, baseline, version (editVersionRef), watched (isPending)
  patches,       \* PATCH requests in flight
  storedField,   \* the backend: the field, and whether the attendee is deleted
  attendeeGone,
  shownField,    \* the attendee as last fetched
  grants, chips, \* zone grants in the backend, and as last fetched
  removing,      \* pendingRemovalIds
  removals,      \* DELETE requests of grants in flight
  watchedRemoval,\* the one removeZoneAccess watches
  confirms,      \* the two confirm dialogs: open, error, session, watched
  confirmCalls,  \* their requests in flight
  reprintDialog, \* "closed", "open" or "printing"
  drawerEdits, drawerCalls  \* counters of the bounds

formVars    == <<editForm, patches, storedField, shownField>>
grantVars   == <<grants, chips, removing, removals, watchedRemoval>>
confirmVars == <<attendeeGone, confirms, confirmCalls>>
drawerVars  == <<drawer, formVars, grantVars, confirmVars, reprintDialog,
                 drawerEdits, drawerCalls>>

CallIds == 1..MaxDrawerCalls
Patch == [id : CallIds, version : 0..MaxDrawerEdits, value : FieldValues, step : {"sent", "applied"}]
ConfirmDialog == [open : BOOLEAN, error : BOOLEAN, session : 0..MaxDrawerCalls,
                  watched : CallIds \cup {0}]
ConfirmCall == [id : CallIds, kind : Confirms, session : 0..MaxDrawerCalls]

DrawerTypeOK ==
  /\ drawer \in {"view", "edit", "closed"}
  /\ editForm \in [value : FieldValues, baseline : FieldValues,
                   version : 0..MaxDrawerEdits, watched : CallIds \cup {0}]
  /\ patches \subseteq Patch /\ {storedField, shownField} \subseteq FieldValues
  /\ {grants, chips, removing, removals} \subseteq SUBSET GrantRows
  /\ watchedRemoval \in GrantRows \cup {NoGrant} /\ attendeeGone \in BOOLEAN
  /\ confirms \in [Confirms -> ConfirmDialog] /\ confirmCalls \subseteq ConfirmCall
  /\ reprintDialog \in {"closed", "open", "printing"}
  /\ drawerEdits \in 0..MaxDrawerEdits /\ drawerCalls \in 0..MaxDrawerCalls

DrawerInit ==
  /\ drawer = "view" /\ attendeeGone = FALSE
  /\ storedField = (CHOOSE v \in FieldValues : TRUE) /\ shownField = storedField
  /\ editForm = [value |-> storedField, baseline |-> storedField, version |-> 0, watched |-> 0]
  /\ patches = {}
  /\ grants \in SUBSET GrantRows /\ chips = grants
  /\ removing = {} /\ removals = {} /\ watchedRemoval = NoGrant
  /\ confirms = [k \in Confirms |-> [open |-> FALSE, error |-> FALSE, session |-> 0, watched |-> 0]]
  /\ confirmCalls = {} /\ reprintDialog = "closed"
  /\ drawerEdits = 0 /\ drawerCalls = 0

DrawerCall == drawerCalls < MaxDrawerCalls /\ drawerCalls' = drawerCalls + 1
DialogOpen == reprintDialog # "closed" \/ \E k \in Confirms : confirms[k].open
Viewing == drawer = "view" /\ ~DialogOpen

------------------------------------------------------------------------------
(* EditAttendeeForm.                                                       *)

OpenEdit ==
  /\ Viewing /\ drawer' = "edit"
  /\ editForm' = [editForm EXCEPT !.value = shownField, !.baseline = shownField, !.watched = 0]
  /\ UNCHANGED <<patches, storedField, shownField, grantVars, confirmVars, reprintDialog,
                 drawerEdits, drawerCalls>>

(* A keystroke: the version moves on and the mutation is reset.            *)
UpdateField(v) ==
  /\ drawer = "edit" /\ v # editForm.value
  /\ drawerEdits < MaxDrawerEdits /\ drawerEdits' = drawerEdits + 1
  /\ editForm' = [editForm EXCEPT !.value = v, !.version = drawerEdits + 1, !.watched = 0]
  /\ UNCHANGED <<drawer, patches, storedField, shownField, grantVars, confirmVars,
                 reprintDialog, drawerCalls>>

SubmitEdit ==
  /\ drawer = "edit" /\ editForm.value # editForm.baseline /\ editForm.watched = 0
  /\ DrawerCall
  /\ editForm' = [editForm EXCEPT !.watched = drawerCalls + 1]
  /\ patches' = patches \cup {[id |-> drawerCalls + 1, version |-> editForm.version,
                               value |-> editForm.value, step |-> "sent"]}
  /\ UNCHANGED <<drawer, storedField, shownField, grantVars, confirmVars, reprintDialog, drawerEdits>>

PatchApplies(p) ==
  /\ p.step = "sent" /\ ~attendeeGone
  /\ storedField' = p.value
  /\ patches' = (patches \ {p}) \cup {[p EXCEPT !.step = "applied"]}
  /\ UNCHANGED <<drawer, editForm, shownField, grantVars, confirmVars, reprintDialog,
                 drawerEdits, drawerCalls>>

(* Mutant: an answer resets the form whatever was typed since.           *)
AnswersAnyEdit(p) == p.version <= editForm.version

AnswersThisEdit(p) == p.version = editForm.version

PatchSucceeds(p) ==
  /\ p.step = "applied" /\ patches' = patches \ {p}
  /\ IF drawer = "edit" /\ AnswersThisEdit(p)
     THEN /\ drawer' = "view"
          /\ editForm' = [editForm EXCEPT !.value = p.value, !.baseline = p.value, !.watched = 0]
     ELSE UNCHANGED <<drawer, editForm>>
  /\ UNCHANGED <<storedField, shownField, grantVars, confirmVars, reprintDialog,
                 drawerEdits, drawerCalls>>

PatchFails(p) ==
  /\ patches' = patches \ {p}
  /\ editForm' = [editForm EXCEPT !.watched = IF @ = p.id THEN 0 ELSE @]
  /\ UNCHANGED <<drawer, storedField, shownField, grantVars, confirmVars, reprintDialog,
                 drawerEdits, drawerCalls>>

CancelEdit ==
  /\ drawer = "edit" /\ editForm.watched = 0 /\ drawer' = "view"
  /\ UNCHANGED <<formVars, grantVars, confirmVars, reprintDialog, drawerEdits, drawerCalls>>

DetailRefetched ==
  /\ shownField # storedField /\ shownField' = storedField
  /\ UNCHANGED <<drawer, editForm, patches, storedField, grantVars, confirmVars, reprintDialog,
                 drawerEdits, drawerCalls>>

------------------------------------------------------------------------------
(* Zone grants.                                                            *)

AddGrant(r) ==
  /\ Viewing /\ r \notin grants \cup chips \cup removing \cup removals /\ DrawerCall
  /\ grants' = grants \cup {r}
  /\ UNCHANGED <<drawer, formVars, chips, removing, removals, watchedRemoval, confirmVars,
                 reprintDialog, drawerEdits>>

(* Mutant: one id is tracked instead of a set.                           *)
MarkRemovingLast(r) == removing' = {r}

MarkRemoving(r) == removing' = removing \cup {r}
RemoveGrant(r) ==
  /\ Viewing /\ r \in chips \ removing /\ DrawerCall
  /\ MarkRemoving(r)
  /\ removals' = removals \cup {r} /\ watchedRemoval' = r
  /\ UNCHANGED <<drawer, formVars, grants, chips, confirmVars, reprintDialog, drawerEdits>>

(* The grant is deleted, or the request fails.                             *)
RemovalSettles(r) ==
  /\ r \in removals /\ removals' = removals \ {r}
  /\ removing' = IF watchedRemoval = r THEN removing \ {r} ELSE removing
  /\ \/ grants' = grants \ {r}
     \/ UNCHANGED grants
  /\ UNCHANGED <<drawer, formVars, chips, watchedRemoval, confirmVars, reprintDialog,
                 drawerEdits, drawerCalls>>

GrantsRefetched ==
  /\ chips # grants /\ chips' = grants
  /\ UNCHANGED <<drawer, formVars, grants, removing, removals, watchedRemoval, confirmVars,
                 reprintDialog, drawerEdits, drawerCalls>>

------------------------------------------------------------------------------
(* Regenerate, delete, reprint.                                            *)

OpenConfirm(k) ==
  /\ Viewing /\ confirms' = [confirms EXCEPT ![k].open = TRUE, ![k].error = FALSE]
  /\ UNCHANGED <<drawer, formVars, grantVars, attendeeGone, confirmCalls, reprintDialog,
                 drawerEdits, drawerCalls>>

PressConfirm(k) ==
  /\ confirms[k].open /\ confirms[k].watched = 0 /\ DrawerCall
  /\ confirms' = [confirms EXCEPT ![k].error = FALSE, ![k].watched = drawerCalls + 1]
  /\ confirmCalls' = confirmCalls \cup
       {[id |-> drawerCalls + 1, kind |-> k, session |-> confirms[k].session]}
  /\ UNCHANGED <<drawer, formVars, grantVars, attendeeGone, reprintDialog, drawerEdits>>

(* Closing is never blocked: it starts a new session of the dialog.        *)
CloseConfirm(k) ==
  /\ drawer # "closed" /\ confirms[k].open /\ confirms[k].session < MaxDrawerCalls
  /\ confirms' = [confirms EXCEPT ![k] = [open |-> FALSE, error |-> FALSE,
                                           session |-> @.session + 1, watched |-> 0]]
  /\ UNCHANGED <<drawer, formVars, grantVars, attendeeGone, confirmCalls, reprintDialog,
                 drawerEdits, drawerCalls>>

OfThisSession(c) == c.session = confirms[c.kind].session

ConfirmAnswers(c) ==
  /\ c \in confirmCalls /\ confirmCalls' = confirmCalls \ {c}
  /\ LET k == c.kind
         released == IF confirms[k].watched = c.id THEN 0 ELSE confirms[k].watched
         Done(ok) ==
           /\ confirms' = [confirms EXCEPT ![k].watched = released,
                             ![k].open = @ /\ ~(ok /\ OfThisSession(c)),
                             ![k].error = @ \/ (~ok /\ OfThisSession(c))]
           /\ drawer' = IF ok /\ k = "delete" /\ OfThisSession(c) THEN "closed" ELSE drawer
     IN \/ ~attendeeGone /\ attendeeGone' = (k = "delete") /\ \E heard \in BOOLEAN : Done(heard)
        \/ UNCHANGED attendeeGone /\ Done(FALSE)
  /\ UNCHANGED <<formVars, grantVars, reprintDialog, drawerEdits, drawerCalls>>

OpenReprint == Viewing /\ reprintDialog' = "open" /\ UNCHANGED drawerCalls
PrintAgain  == reprintDialog = "open" /\ reprintDialog' = "printing" /\ DrawerCall
(* Sent, sent but not marked, timed out or failed.                         *)
ReprintSettles == /\ reprintDialog = "printing" /\ reprintDialog' \in {"closed", "open"}
                  /\ UNCHANGED drawerCalls
CancelReprint == reprintDialog = "open" /\ reprintDialog' = "closed" /\ UNCHANGED drawerCalls
ReprintAgain ==
  /\ drawer # "closed" /\ (OpenReprint \/ PrintAgain \/ ReprintSettles \/ CancelReprint)
  /\ UNCHANGED <<drawer, formVars, grantVars, confirmVars, drawerEdits>>

(* The sheet's own close is refused only while the form's save is watched. *)
CloseDrawer ==
  /\ drawer # "closed" /\ ~DialogOpen /\ editForm.watched = 0
  /\ drawer' = "closed"
  /\ UNCHANGED <<formVars, grantVars, confirmVars, reprintDialog, drawerEdits, drawerCalls>>

DrawerNext ==
  \/ OpenEdit \/ SubmitEdit \/ CancelEdit \/ DetailRefetched
  \/ \E v \in FieldValues : UpdateField(v)
  \/ \E p \in patches : PatchApplies(p) \/ PatchSucceeds(p) \/ PatchFails(p)
  \/ \E r \in GrantRows : AddGrant(r) \/ RemoveGrant(r) \/ RemovalSettles(r)
  \/ GrantsRefetched
  \/ \E k \in Confirms : OpenConfirm(k) \/ PressConfirm(k) \/ CloseConfirm(k)
  \/ \E c \in confirmCalls : ConfirmAnswers(c)
  \/ ReprintAgain \/ CloseDrawer

DrawerSpec == DrawerInit /\ [][DrawerNext]_drawerVars

------------------------------------------------------------------------------
(* The answer to a save never replaces what was typed since: it leaves the *)
(* form only when the form still holds what it saved.                      *)
TypingSurvivesSaves ==
  [][patches' # patches => editForm'.value = editForm.value]_drawerVars

(* While a grant's DELETE is in flight its button is off, however many     *)
(* other grants are removed at the same time: no grant is deleted twice.   *)
RemovalsTracked == removals \subseteq removing

==============================================================================

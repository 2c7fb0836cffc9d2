------------------------------ MODULE FontFaces -------------------------------
(***************************************************************************)
(* useEventFontFaces (panel/src/features/badge/zpl): the fonts of an event *)
(* are listed, fetched one by one and added to the document, and a printing*)
(* surface waits for a terminal status before it generates a badge.        *)
(*                                                                         *)
(* The effect's dependencies are enabled, eventId, the list and isError: a *)
(* step that changes one of them cancels the running load and runs the     *)
(* effect again.  A cancelled load still sees its own fetches answered.    *)
(***************************************************************************)
EXTENDS Naturals, FiniteSets

CONSTANTS
  FontsOf,       \* the fonts of each event, by event
  MaxEffects,    \* bounds the changes of the effect's dependencies
  FontFaults     \* which of them happen, a subset of AllFontFaults

FontEvents == DOMAIN FontsOf
AllFonts == UNION {FontsOf[e] : e \in FontEvents}
AllFontFaults == {"toggle", "event", "edit", "list", "bytes"}
ASSUME FontAssumption ==
  FontFaults \subseteq AllFontFaults /\ MaxEffects \in Nat /\ FontEvents # {}

VARIABLES
  fontEvent,     \* the hook's eventId
  fontEnabled,   \* its enabled argument: the dialog that owns it is open
  fontList,      \* fontsQuery.data
  fontListError, \* fontsQuery.isError: the last fetch of the list failed
  faceStatus, families,  \* what the hook returns
  loadedList,    \* loadedSignatureRef
  processed,     \* processedFontsRef: the outcome per font
  everLoaded,    \* hasLoadedForEventRef
  loads,         \* the loadDelta calls that have not returned
  effects        \* counter of the bound

fontVars == <<fontEvent, fontEnabled, fontList, fontListError, faceStatus, families,
              loadedList, processed, everLoaded, loads, effects>>

NoList == {"no list"}
Load == [id : 0..MaxEffects, todo : SUBSET AllFonts, all : SUBSET AllFonts, live : BOOLEAN]
Unprocessed == [f \in AllFonts |-> "new"]

FontsTypeOK ==
  /\ fontEvent \in FontEvents
  /\ {fontEnabled, fontListError, everLoaded} \subseteq BOOLEAN
  /\ fontList \in (SUBSET AllFonts) \cup {NoList}
  /\ loadedList \in (SUBSET AllFonts) \cup {NoList}
  /\ faceStatus \in {"idle", "loading", "ready", "error"}
  /\ families \subseteq AllFonts
  /\ processed \in [AllFonts -> {"new", "ok", "failed"}]
  /\ loads \subseteq Load /\ effects \in 0..MaxEffects

FontsInit ==
  /\ fontEvent = CHOOSE e \in FontEvents : TRUE
  /\ fontEnabled = TRUE
  /\ fontList = NoList /\ fontListError = FALSE
  /\ faceStatus = "idle" /\ families = {}
  /\ loadedList = NoList /\ processed = Unprocessed /\ everLoaded = FALSE
  /\ loads = {} /\ effects = 0

------------------------------------------------------------------------------
LoadedOf(all, outcome) == {f \in all : outcome[f] = "ok"}
FinalStatus(all, outcome) == IF LoadedOf(all, outcome) = all THEN "ready" ELSE "error"
Cancelled == {[l EXCEPT !.live = FALSE] : l \in loads}

StartLoad ==
  LET todo == {f \in fontList' : processed'[f] = "new"} IN
  /\ everLoaded' = TRUE
  /\ loadedList' = fontList'
  /\ IF todo = {}
     THEN /\ faceStatus' = FinalStatus(fontList', processed')
          /\ families' = LoadedOf(fontList', processed')
          /\ loads' = Cancelled
     ELSE /\ faceStatus' = "loading" /\ UNCHANGED families
          /\ loads' = Cancelled \cup {[id |-> effects, todo |-> todo, all |-> fontList', live |-> TRUE]}

(* The load effect, after its cleanup, when the event stays the same.      *)
LoadFontsEffect ==
  /\ UNCHANGED processed
  /\ IF ~fontEnabled' \/ (fontListError' /\ everLoaded)
          \/ (~fontListError' /\ fontList' \in {NoList, loadedList})
     THEN loads' = Cancelled /\ UNCHANGED <<faceStatus, families, loadedList, everLoaded>>
     ELSE IF fontListError'
     THEN /\ loads' = Cancelled /\ faceStatus' = "error" /\ families' = {}
          /\ UNCHANGED <<loadedList, everLoaded>>
     ELSE StartLoad

Effect == effects < MaxEffects /\ effects' = effects + 1

(* The dialog that owns the hook is closed, or opened again.               *)
ToggleEnabled ==
  /\ "toggle" \in FontFaults /\ Effect
  /\ fontEnabled' = ~fontEnabled
  /\ UNCHANGED <<fontEvent, fontList, fontListError>>
  /\ LoadFontsEffect

(* The reset effect comes first; the new event's list is not there yet.    *)
SwitchEvent(e) ==
  /\ "event" \in FontFaults /\ e # fontEvent /\ Effect
  /\ fontEvent' = e /\ fontList' = NoList /\ fontListError' = FALSE
  /\ faceStatus' = "idle" /\ families' = {}
  /\ loadedList' = NoList /\ processed' = Unprocessed /\ everLoaded' = FALSE
  /\ loads' = Cancelled
  /\ UNCHANGED fontEnabled

ListArrives(fonts) ==
  /\ fontEnabled
  /\ fontList = NoList \/ fontListError \/ "edit" \in FontFaults
  /\ fonts # fontList \/ fontListError
  /\ Effect
  /\ fontList' = fonts /\ fontListError' = FALSE
  /\ UNCHANGED <<fontEvent, fontEnabled>>
  /\ LoadFontsEffect

(* The first fetch of the list fails, or a background refetch: react-query *)
(* keeps the data it has.                                                  *)
ListFails ==
  /\ fontEnabled /\ "list" \in FontFaults /\ ~fontListError /\ Effect
  /\ fontListError' = TRUE
  /\ UNCHANGED <<fontEvent, fontEnabled, fontList>>
  /\ LoadFontsEffect

------------------------------------------------------------------------------
(* One font of a load is fetched and parsed, or fails.                     *)

(* Mutant: a cancelled load still sets the state.                        *)
FontLoadsAnyway(l, f) ==
  /\ f \in l.todo
  /\ /\ processed' = [processed EXCEPT ![f] = "ok"]
     /\ IF l.todo = {f}
             THEN /\ loads' = loads \ {l}
                  /\ families' = LoadedOf(l.all, processed')
                  /\ faceStatus' = FinalStatus(l.all, processed')
             ELSE /\ loads' = (loads \ {l}) \cup {[l EXCEPT !.todo = @ \ {f}]}
                  /\ UNCHANGED <<families, faceStatus>>
  /\ UNCHANGED <<fontEvent, fontEnabled, fontList, fontListError, loadedList, everLoaded, effects>>

FontLoads(l, f) ==
  /\ f \in l.todo
  /\ IF ~l.live
     THEN loads' = loads \ {l} /\ UNCHANGED <<processed, families, faceStatus>>
     ELSE /\ processed' = [processed EXCEPT ![f] = "ok"]
          /\ IF l.todo = {f}
             THEN /\ loads' = loads \ {l}
                  /\ families' = LoadedOf(l.all, processed')
                  /\ faceStatus' = FinalStatus(l.all, processed')
             ELSE /\ loads' = (loads \ {l}) \cup {[l EXCEPT !.todo = @ \ {f}]}
                  /\ UNCHANGED <<families, faceStatus>>
  /\ UNCHANGED <<fontEvent, fontEnabled, fontList, fontListError, loadedList, everLoaded, effects>>

(* The catch clause does not look at the cancellation.                     *)
FontFails(l, f) ==
  /\ f \in l.todo /\ "bytes" \in FontFaults
  /\ processed' = [processed EXCEPT ![f] = "failed"]
  /\ IF l.todo = {f}
     THEN /\ loads' = loads \ {l}
          /\ IF l.live THEN /\ families' = LoadedOf(l.all, processed')
                            /\ faceStatus' = FinalStatus(l.all, processed')
                       ELSE UNCHANGED <<families, faceStatus>>
     ELSE /\ loads' = (loads \ {l}) \cup {[l EXCEPT !.todo = @ \ {f}]}
          /\ UNCHANGED <<families, faceStatus>>
  /\ UNCHANGED <<fontEvent, fontEnabled, fontList, fontListError, loadedList, everLoaded, effects>>

FontsNext ==
  \/ ToggleEnabled
  \/ \E e \in FontEvents : SwitchEvent(e)
  \/ \E fonts \in SUBSET FontsOf[fontEvent] : ListArrives(fonts)
  \/ ListFails
  \/ \E l \in loads : \E f \in l.todo : FontLoads(l, f) \/ FontFails(l, f)

FontsSpec == FontsInit /\ [][FontsNext]_fontVars

------------------------------------------------------------------------------
(* "ready" is the truth about the document: every font of the list the     *)
(* hook last loaded was added, for this event, whatever loads of earlier   *)
(* lists and events are still being answered.                              *)
ReadyIsComplete ==
  faceStatus = "ready" => families = loadedList /\ families \subseteq FontsOf[fontEvent]

==============================================================================

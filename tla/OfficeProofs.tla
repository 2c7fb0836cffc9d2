------------------------------ MODULE OfficeProofs ------------------------------
(***************************************************************************)
(* Theorems about the screens of MCOffice other than the badge editor,     *)
(* whose own are in BadgeEditorProofs: fonts, preview, attendee drawer,    *)
(* card and list, the import, zones, codes and staff.                      *)
(***************************************************************************)
EXTENDS MCOffice, BadgeEditorProofs, FiniteSetTheorems, SequenceTheorems,
        WellFoundedInduction

------------------------------------------------------------------------------
(* Badge fonts (FontFaces).                                                *)

(* What a running load would report is about the list the hook loaded      *)
(* last, and that list is of the event on the screen.                      *)
FontLists ==
  /\ fontList # NoList => fontList \subseteq FontsOf[fontEvent]
  /\ \A l \in loads : l.live => l.all = loadedList /\ l.all \subseteq FontsOf[fontEvent]
FontInv == FontsTypeOK /\ FontLists /\ ReadyIsComplete

LEMMA FontStarts == FontsInit => FontInv
<1> SUFFICES ASSUME FontsInit PROVE FontInv
  OBVIOUS
<1>1. fontEvent \in FontEvents
  BY FontAssumption DEF FontsInit
<1>2. processed \in [AllFonts -> {"new", "ok", "failed"}]
  BY DEF FontsInit, Unprocessed
<1>3. fontEnabled = TRUE /\ fontListError = FALSE /\ everLoaded = FALSE
  BY DEF FontsInit
<1>4. /\ fontList = NoList /\ loadedList = NoList /\ faceStatus = "idle" /\ families = {}
      /\ loads = {} /\ effects = 0
  BY DEF FontsInit
<1>5. 0 \in 0..MaxEffects
  BY FontAssumption
<1> QED
  BY <1>1, <1>2, <1>3, <1>4, <1>5 DEF FontInv, FontsTypeOK, FontLists, ReadyIsComplete

LEMMA FontOutcome ==
  ASSUME NEW all, NEW outcome
  PROVE  /\ LoadedOf(all, outcome) \subseteq all
         /\ FinalStatus(all, outcome) \in {"ready", "error"}
         /\ FinalStatus(all, outcome) = "ready" => LoadedOf(all, outcome) = all
  BY DEF LoadedOf, FinalStatus

LEMMA CancelledTyped ==
  ASSUME loads \subseteq Load
  PROVE  Cancelled \subseteq Load /\ \A l \in Cancelled : ~l.live
<1> SUFFICES ASSUME NEW l \in loads
             PROVE  [l EXCEPT !.live = FALSE] \in Load /\ ~[l EXCEPT !.live = FALSE].live
  BY DEF Cancelled
<1> QED
  BY DEF Load

(* The load effect cancels what was running, and what it starts is about   *)
(* the list that is there now.                                             *)
LEMMA LoadEffectKeeps ==
  ASSUME FontInv, Effect, LoadFontsEffect, fontEvent' = fontEvent, fontEnabled' \in BOOLEAN,
         fontListError' \in BOOLEAN, fontList' \in (SUBSET AllFonts) \cup {NoList},
         fontList' # NoList => fontList' \subseteq FontsOf[fontEvent]
  PROVE  FontInv'
<1> USE DEF FontInv, FontsTypeOK, FontLists
<1>0. effects' \in 0..MaxEffects
  BY FontAssumption DEF Effect
<1>1. Cancelled \subseteq Load /\ \A l \in Cancelled : ~l.live
  BY CancelledTyped
<1> DEFINE Cancels == /\ loads' = Cancelled /\ loadedList' = loadedList /\ everLoaded' = everLoaded
                      /\ processed' = processed
                      /\ \/ faceStatus' = faceStatus /\ families' = families
                         \/ faceStatus' = "error" /\ families' = {}
<1>2. CASE Cancels
  BY <1>0, <1>1, <1>2 DEF ReadyIsComplete
<1>3. CASE StartLoad /\ fontList' \notin {NoList, loadedList}
  <2>0. processed' = processed
    BY DEF LoadFontsEffect
  <2> DEFINE todo == {f \in fontList' : processed'[f] = "new"}
  <2>1. loadedList' = fontList' /\ everLoaded' = TRUE /\ fontList' \subseteq AllFonts
    BY <1>3 DEF StartLoad
  <2>2. CASE todo = {}
    <3>1. /\ faceStatus' = FinalStatus(fontList', processed')
          /\ families' = LoadedOf(fontList', processed') /\ loads' = Cancelled
      BY <1>3, <2>2 DEF StartLoad
    <3> QED
      BY <1>0, <1>1, <1>3, <2>0, <2>1, <3>1, FontOutcome DEF ReadyIsComplete
  <2>3. CASE todo # {}
    <3> DEFINE new == [id |-> effects, todo |-> todo, all |-> fontList', live |-> TRUE]
    <3>1. faceStatus' = "loading" /\ families' = families /\ loads' = Cancelled \cup {new}
      BY <1>3, <2>3 DEF StartLoad
    <3>2. new \in Load
      BY <2>1 DEF Load
    <3>3. new.all = fontList'
      OBVIOUS
    <3> HIDE DEF new
    <3> QED
      BY <1>0, <1>1, <1>3, <2>0, <2>1, <3>1, <3>2, <3>3 DEF ReadyIsComplete
  <2> QED
    BY <2>2, <2>3
<1>4. Cancels \/ (StartLoad /\ fontList' \notin {NoList, loadedList})
  BY DEF LoadFontsEffect
<1> QED
  BY <1>2, <1>3, <1>4

LEMMA FontPageKeeps ==
  ASSUME FontInv,
         \/ ToggleEnabled \/ ListFails
         \/ \E e \in FontEvents : SwitchEvent(e)
         \/ \E fonts \in SUBSET FontsOf[fontEvent] : ListArrives(fonts)
  PROVE  FontInv'
<1>1. CASE ToggleEnabled \/ ListFails
  BY <1>1, LoadEffectKeeps DEF ToggleEnabled, ListFails, FontInv, FontsTypeOK, FontLists
<1>2. ASSUME NEW fonts \in SUBSET FontsOf[fontEvent], ListArrives(fonts) PROVE FontInv'
  <2>1. fonts \subseteq AllFonts
    BY DEF AllFonts, FontInv, FontsTypeOK
  <2> QED
    BY <1>2, <2>1, LoadEffectKeeps DEF ListArrives, FontInv, FontsTypeOK, FontLists
<1>3. ASSUME NEW e \in FontEvents, SwitchEvent(e) PROVE FontInv'
  <2>1. Cancelled \subseteq Load /\ \A l \in Cancelled : ~l.live
    BY CancelledTyped DEF FontInv, FontsTypeOK
  <2>2. Unprocessed \in [AllFonts -> {"new", "ok", "failed"}]
    BY DEF Unprocessed
  <2>3. /\ fontEvent' \in FontEvents /\ fontEnabled' = fontEnabled /\ fontListError' = FALSE
        /\ everLoaded' = FALSE /\ fontList' = NoList /\ loadedList' = NoList
        /\ faceStatus' = "idle" /\ families' = {} /\ processed' = Unprocessed /\ loads' = Cancelled
    BY <1>3 DEF SwitchEvent
  <2>4. effects' \in 0..MaxEffects
    BY <1>3, FontAssumption DEF SwitchEvent, Effect, FontInv, FontsTypeOK
  <2> QED
    BY <2>1, <2>2, <2>3, <2>4 DEF FontInv, FontsTypeOK, FontLists, ReadyIsComplete
<1> QED
  BY <1>1, <1>2, <1>3

(* A font that is answered ends its load or leaves it the rest; the load   *)
(* that ends while it counts sets the state from its own list.             *)
LEMMA FontAnswersKeep ==
  ASSUME FontInv, NEW l \in loads, NEW f \in l.todo, FontLoads(l, f) \/ FontFails(l, f)
  PROVE  FontInv'
<1> USE DEF FontInv, FontsTypeOK
<1> DEFINE rest == [l EXCEPT !.todo = l.todo \ {f}]
<1>1. l \in Load /\ f \in AllFonts
  BY DEF Load
<1>2. rest \in Load /\ rest.live = l.live /\ rest.all = l.all
  BY <1>1 DEF Load
<1> HIDE DEF rest
<1>3. loads' \subseteq loads \cup {rest}
  BY DEF FontLoads, FontFails, rest
<1>4. processed' \in [AllFonts -> {"new", "ok", "failed"}]
  BY <1>1 DEF FontLoads, FontFails
<1>5. UNCHANGED <<fontEvent, fontEnabled, fontList, fontListError, loadedList, everLoaded, effects>>
  BY DEF FontLoads, FontFails
<1>6. \/ faceStatus' = faceStatus /\ families' = families
      \/ /\ l.live /\ families' = LoadedOf(l.all, processed')
         /\ faceStatus' = FinalStatus(l.all, processed')
  BY DEF FontLoads, FontFails
<1>7. l.all \subseteq AllFonts
  BY <1>1 DEF Load
<1>8. FontLists'
  BY <1>2, <1>3, <1>5 DEF FontLists
<1>9. ReadyIsComplete'
  BY <1>5, <1>6, FontOutcome DEF FontLists, ReadyIsComplete
<1>10. faceStatus' \in {"idle", "loading", "ready", "error"} /\ families' \subseteq AllFonts
  BY <1>6, <1>7, FontOutcome
<1> QED
  BY <1>2, <1>3, <1>4, <1>5, <1>8, <1>9, <1>10

(* A printing surface is told "ready" only when every font of the list     *)
(* loaded last is in the document, whatever loads of earlier lists and     *)
(* events are still being answered.                                        *)
THEOREM FontsAreComplete == FontsSpec => [](FontsTypeOK /\ ReadyIsComplete)
<1>1. FontInv /\ UNCHANGED fontVars => FontInv'
  BY DEF FontInv, FontsTypeOK, FontLists, ReadyIsComplete, fontVars
<1>2. FontInv /\ [FontsNext]_fontVars => FontInv'
  BY <1>1, FontPageKeeps, FontAnswersKeep DEF FontsNext
<1>3. FontInv => FontsTypeOK /\ ReadyIsComplete
  BY DEF FontInv
<1> QED
  BY FontStarts, <1>2, <1>3, PTL DEF FontsSpec

------------------------------------------------------------------------------
(* Badge preview and test print (BadgePreview).                            *)

Generation == [status : {"loading", "ready", "error"}, of : Label]

PagesTyped == basePage \in [Guests -> Versions] /\ foundPage \in [Guests -> Versions] /\ picked \in Label
RosterTyped ==
  /\ roster \in [Guests -> Versions] /\ {baseOk, baseWhole} \subseteq BOOLEAN
  /\ previewTurns \in 0..MaxPreviewTurns /\ \A g \in Guests : roster[g] <= previewTurns + 1
DialogTyped ==
  /\ {hasFonts, sending} \subseteq BOOLEAN
  /\ dialog \in {"closed", "preview", "print"} /\ fontState \in {"loading", "ready", "error"}
  /\ generation \in Generation /\ genRuns \subseteq [of : Label, live : BOOLEAN]
PrintTyped ==
  /\ plotters \subseteq Plotters /\ chosen \in Plotters \cup {Nobody}
  /\ jobs \subseteq Job /\ doneJobs \in 0..MaxPreviewPrints /\ previewSession \in Nat

(* While a dialog is open, a run of the generator that counts, and a label *)
(* that is ready, are of the attendee on the screen.                       *)
LabelCurrent ==
  /\ dialog # "closed" /\ generation.status = "ready" => generation.of = Shown
  /\ \A r \in genRuns : r.live => r.of = Shown /\ dialog # "closed"
(* A printer is chosen only while the test print is open, from the list.   *)
ChoiceListed ==
  /\ dialog # "print" => chosen = Nobody
  /\ chosen # Nobody => chosen \in plotters
PreviewInv ==
  /\ PagesTyped /\ RosterTyped /\ DialogTyped /\ PrintTyped
  /\ LabelCurrent /\ ChoiceListed /\ JobsMatchScreen

LEMMA SampleTyped == Sample \in Label
  BY PreviewAssumption DEF Sample, Label, Versions

LEMMA FreshTyped ==
  ASSUME NEW base \in [Guests -> Versions], NEW found \in [Guests -> Versions], NEW pick \in Label
  PROVE  FreshIn(base, found, pick) \in Label
<1>1. CASE pick.guest = Nobody
  BY <1>1, SampleTyped DEF FreshIn
<1>2. CASE pick.guest # Nobody
  <2>1. pick.guest \in Guests
    BY <1>2 DEF Label
  <2>2. \A v \in Versions : [pick EXCEPT !.version = v] \in Label
    BY DEF Label
  <2>3. base[pick.guest] \in Versions /\ found[pick.guest] \in Versions
    BY <2>1
  <2> QED
    BY <1>2, <2>2, <2>3, SampleTyped DEF FreshIn
<1> QED
  BY <1>1, <1>2

LEMMA ShownTyped == PagesTyped => Shown \in Label
<1> SUFFICES ASSUME PagesTyped PROVE Shown \in Label
  OBVIOUS
<1>1. FreshIn(basePage, foundPage, picked) \in Label /\ picked \in Label
  BY FreshTyped DEF PagesTyped
<1>2. FirstGuest \in Label
  <2>1. CASE basePage = Absent
    BY <2>1, SampleTyped DEF FirstGuest
  <2>2. CASE basePage # Absent
    <3>1. \E g \in Guests : basePage[g] > 0
      <4>1. SUFFICES ASSUME \A g \in Guests : ~(basePage[g] > 0) PROVE FALSE
        OBVIOUS
      <4>2. \A g \in Guests : basePage[g] \in Nat
        BY PreviewAssumption DEF PagesTyped, Versions
      <4>3. \A g \in Guests : basePage[g] = 0
        BY <4>1, <4>2
      <4> QED
        BY <2>2, <4>3 DEF PagesTyped, Absent
    <3> DEFINE first == CHOOSE g \in Guests : basePage[g] > 0
    <3>2. first \in Guests
      BY <3>1
    <3>3. FirstGuest = [guest |-> first, version |-> basePage[first]]
      BY <2>2 DEF FirstGuest
    <3> HIDE DEF first
    <3>4. basePage[first] \in Versions
      BY <3>2 DEF PagesTyped
    <3> QED
      BY <3>2, <3>3, <3>4 DEF Label
  <2> QED
    BY <2>1, <2>2
<1> QED
  BY <1>1, <1>2 DEF Shown

LEMMA NextShownTyped == PagesTyped' => (Shown \in Label)'
  BY ShownTyped, PTL

LEMMA PreviewStarts == PreviewInit => PreviewInv
<1> SUFFICES ASSUME PreviewInit PROVE PreviewInv
  OBVIOUS
<1>1. 0 \in Versions /\ 1 \in Versions /\ 0 \in 0..MaxPreviewTurns /\ 0 \in 0..MaxPreviewPrints
  BY PreviewAssumption DEF Versions
<1>2. Absent \in [Guests -> Versions] /\ NoGeneration \in Generation /\ NoGeneration.status = "loading"
  BY <1>1, SampleTyped DEF Absent, Generation, NoGeneration
<1>3. PagesTyped
  BY <1>2, SampleTyped DEF PreviewInit, PagesTyped
<1>4. RosterTyped
  <2>1. roster = [g \in Guests |-> 1] /\ baseOk = FALSE /\ baseWhole = FALSE /\ previewTurns = 0
    BY DEF PreviewInit
  <2>2. \A g \in Guests : roster[g] <= 0 + 1
    BY <2>1
  <2> QED
    BY <1>1, <2>1, <2>2 DEF RosterTyped
<1>5. DialogTyped
  BY <1>2 DEF PreviewInit, DialogTyped
<1>6. PrintTyped
  BY <1>1 DEF PreviewInit, PrintTyped
<1>7. LabelCurrent /\ ChoiceListed /\ JobsMatchScreen
  BY DEF PreviewInit, LabelCurrent, ChoiceListed, JobsMatchScreen
<1> QED
  BY <1>3, <1>4, <1>5, <1>6, <1>7 DEF PreviewInv

(* Whatever made it run, the generation effect leaves no label and no run  *)
(* of another attendee in force.                                           *)
LEMMA GenerateKeeps ==
  ASSUME DialogTyped, LabelCurrent, (Shown \in Label)', Generate,
         {hasFonts', sending'} \subseteq BOOLEAN,
         dialog' \in {"closed", "preview", "print"}, fontState' \in {"loading", "ready", "error"}
  PROVE  DialogTyped' /\ LabelCurrent'
<1> DEFINE old == {[r EXCEPT !.live = FALSE] : r \in genRuns}
           again == <<dialog, fontState, Shown>>' # <<dialog, fontState, Shown>>
           Runs == [of : Label, live : BOOLEAN]
<1>1. genRuns \subseteq Runs /\ generation \in Generation
  BY DEF DialogTyped
<1>2. \A r \in genRuns : [r EXCEPT !.live = FALSE] \in Runs /\ ~[r EXCEPT !.live = FALSE].live
  BY <1>1
<1>3. old \subseteq Runs /\ \A r \in old : ~r.live
  BY <1>2
<1> HIDE DEF old
<1>4. CASE ~again
  <2>1. UNCHANGED <<generation, genRuns>>
    BY <1>4 DEF Generate
  <2>2. dialog' = dialog /\ Shown' = Shown
    BY <1>4
  <2> QED
    BY <1>1, <2>1, <2>2 DEF DialogTyped, LabelCurrent
<1>5. CASE again /\ dialog' = "closed"
  <2>1. generation' = generation /\ genRuns' = old
    BY <1>5 DEF Generate, old
  <2> QED
    BY <1>1, <1>3, <1>5, <2>1 DEF DialogTyped, LabelCurrent
<1>6. CASE again /\ dialog' # "closed" /\ FontsTerminal' /\ ~MissingFont(Shown)'
  <2> DEFINE new == [of |-> Shown', live |-> TRUE]
  <2>1. generation' = NoGeneration /\ genRuns' = old \cup {new}
    BY <1>6 DEF Generate, old
  <2>2. NoGeneration \in Generation /\ NoGeneration.status = "loading"
    BY SampleTyped DEF NoGeneration, Generation
  <2>3. new \in Runs /\ new.of = Shown'
    OBVIOUS
  <2> HIDE DEF new
  <2> QED
    BY <1>3, <1>6, <2>1, <2>2, <2>3 DEF DialogTyped, LabelCurrent
<1>7. CASE again /\ dialog' # "closed" /\ ~(FontsTerminal' /\ ~MissingFont(Shown)')
  <2>1. PICK s \in {"error", "loading"} : generation' = [status |-> s, of |-> Sample]
    BY <1>7 DEF Generate
  <2>2. genRuns' = old
    BY <1>7 DEF Generate, old
  <2>3. generation' \in Generation /\ generation'.status # "ready"
    BY <2>1, SampleTyped DEF Generation
  <2> QED
    BY <1>3, <2>2, <2>3 DEF DialogTyped, LabelCurrent
<1> QED
  BY <1>4, <1>5, <1>6, <1>7

------------------------------------------------------------------------------
LEMMA ListsKeep ==
  ASSUME PreviewInv, BaseFetched \/ \E hits \in SUBSET Guests : SearchFetched(hits)
  PROVE  PreviewInv'
<1> USE DEF PreviewInv
<1>1. \A page : ListedOn(page) \in [Guests -> Versions]
  BY PreviewAssumption DEF ListedOn, RosterTyped, Versions
<1>2. UNCHANGED <<roster, dialog, fontState, hasFonts, printVars, previewTurns>> /\ Generate
  BY DEF BaseFetched, SearchFetched
<1>3. PagesTyped'
  BY <1>1, SampleTyped DEF BaseFetched, SearchFetched, PagesTyped
<1>4. baseOk' \in BOOLEAN /\ baseWhole' \in BOOLEAN
  BY DEF BaseFetched, SearchFetched, RosterTyped
<1>5. RosterTyped'
  BY <1>2, <1>4 DEF RosterTyped
<1>6. DialogTyped' /\ LabelCurrent'
  BY <1>2, <1>3, NextShownTyped, GenerateKeeps DEF DialogTyped, printVars
<1>7. PrintTyped' /\ ChoiceListed' /\ JobsMatchScreen'
  BY <1>2 DEF PrintTyped, ChoiceListed, JobsMatchScreen, printVars
<1> QED
  BY <1>3, <1>5, <1>6, <1>7

LEMMA RosterKeeps ==
  ASSUME PreviewInv, BaseFails \/ \E g \in Guests : PickGuest(g) \/ RosterTurns(g)
  PROVE  PreviewInv'
<1> USE DEF PreviewInv
<1>1. UNCHANGED <<basePage, baseWhole, previewDialogVars, printVars>>
  BY DEF BaseFails, PickGuest, RosterTurns
<1>2. PagesTyped'
  <2>1. ASSUME NEW g \in Guests, PickGuest(g) PROVE PagesTyped'
    <3>1. PICK v \in Versions : picked' \in {Sample, [guest |-> g, version |-> v]}
      BY <2>1 DEF PickGuest, PagesTyped
    <3>2. picked' \in Label
      BY <3>1, SampleTyped DEF Label
    <3> QED
      BY <1>1, <2>1, <3>2 DEF PickGuest, PagesTyped
  <2>2. CASE UNCHANGED <<foundPage, picked>>
    BY <1>1, <2>2 DEF PagesTyped
  <2> QED
    BY <2>1, <2>2 DEF BaseFails, RosterTurns
<1>3. RosterTyped'
  <2>1. ASSUME NEW g \in Guests, RosterTurns(g) PROVE RosterTyped'
    <3>1. PICK v \in {roster[g] + 1, 0} : roster' = [roster EXCEPT ![g] = v]
      BY <2>1 DEF RosterTurns
    <3>2. /\ previewTurns' = previewTurns + 1 /\ previewTurns < MaxPreviewTurns /\ UNCHANGED <<baseOk, baseWhole>>
          /\ roster \in [Guests -> Versions] /\ previewTurns \in 0..MaxPreviewTurns
          /\ \A h \in Guests : roster[h] <= previewTurns + 1
      BY <2>1 DEF RosterTurns, PreviewTurn, RosterTyped
    <3>3. \A h \in Guests : roster[h] \in Nat
      BY <3>2, PreviewAssumption DEF Versions
    <3>4. v \in Versions /\ v <= previewTurns' + 1
      BY <3>1, <3>2, <3>3, PreviewAssumption DEF Versions
    <3>5. roster' \in [Guests -> Versions]
      BY <3>1, <3>2, <3>4
    <3>6. \A h \in Guests : roster'[h] <= previewTurns' + 1
      BY <3>1, <3>2, <3>3, <3>4
    <3>7. previewTurns' \in 0..MaxPreviewTurns
      BY <3>2, PreviewAssumption
    <3> QED
      BY <3>2, <3>5, <3>6, <3>7 DEF RosterTyped
  <2>2. CASE BaseFails
    <3>1. /\ previewTurns' = previewTurns + 1 /\ previewTurns < MaxPreviewTurns /\ baseOk' = FALSE
          /\ UNCHANGED <<roster, baseWhole>>
      BY <2>2 DEF BaseFails, PreviewTurn
    <3>2. previewTurns \in 0..MaxPreviewTurns /\ \A h \in Guests : roster[h] <= previewTurns + 1 /\ roster[h] \in Nat
      BY PreviewAssumption DEF RosterTyped, Versions
    <3>3. previewTurns' \in 0..MaxPreviewTurns /\ \A h \in Guests : roster[h] <= previewTurns' + 1
      BY <3>1, <3>2, PreviewAssumption
    <3> QED
      BY <3>1, <3>3 DEF RosterTyped
  <2>3. ASSUME NEW g \in Guests, PickGuest(g) PROVE RosterTyped'
    BY <2>3 DEF PickGuest, RosterTyped
  <2> QED
    BY <2>1, <2>2, <2>3
<1>4. DialogTyped'
  BY <1>1 DEF DialogTyped, previewDialogVars, printVars
<1>5. Shown' = Shown \/ dialog = "closed"
  BY <1>1 DEF BaseFails, RosterTurns, PickGuest, Shown, FirstGuest
<1>6. LabelCurrent'
  BY <1>1, <1>5 DEF LabelCurrent, previewDialogVars
<1>7. PrintTyped' /\ ChoiceListed' /\ JobsMatchScreen'
  BY <1>1 DEF PrintTyped, ChoiceListed, JobsMatchScreen, printVars, previewDialogVars
<1> QED
  BY <1>2, <1>3, <1>4, <1>6, <1>7

LEMMA DialogStepsKeep ==
  ASSUME PreviewInv,
         \/ ClosePreview \/ \E d \in {"preview", "print"} : OpenPreview(d)
         \/ \E s \in {"ready", "error"} : FontsSettleTo(s)
  PROVE  PreviewInv'
<1> USE DEF PreviewInv
<1>1. UNCHANGED <<rosterVars, plotters, sending, jobs, doneJobs, previewTurns>> /\ Generate
  BY DEF ClosePreview, OpenPreview, FontsSettleTo, printVars
<1>2. PagesTyped' /\ RosterTyped'
  BY <1>1 DEF PagesTyped, RosterTyped, rosterVars
<1>3. dialog' \in {"closed", "preview", "print"} /\ fontState' \in {"loading", "ready", "error"}
  BY DEF ClosePreview, OpenPreview, FontsSettleTo, DialogTyped
<1>4. hasFonts' \in BOOLEAN /\ sending' \in BOOLEAN
  BY <1>1 DEF ClosePreview, OpenPreview, FontsSettleTo, DialogTyped
<1>5. DialogTyped' /\ LabelCurrent'
  BY <1>1, <1>2, <1>3, <1>4, NextShownTyped, GenerateKeeps
<1>6. chosen' \in Plotters \cup {Nobody} /\ ChoiceListed'
  <2>1. CASE ClosePreview
    BY <1>1, <2>1 DEF ClosePreview, ChoiceListed
  <2>2. ASSUME NEW d \in {"preview", "print"}, OpenPreview(d)
        PROVE  chosen' \in Plotters \cup {Nobody} /\ ChoiceListed'
    BY <1>1, <2>2, PreviewAssumption DEF OpenPreview, Preselected, PrintTyped, ChoiceListed
  <2>3. ASSUME NEW s \in {"ready", "error"}, FontsSettleTo(s)
        PROVE  chosen' \in Plotters \cup {Nobody} /\ ChoiceListed'
    BY <2>3 DEF FontsSettleTo, printVars, PrintTyped, ChoiceListed
  <2> QED
    BY <2>1, <2>2, <2>3
<1>7. previewSession' \in Nat
  <2>1. \E n \in {0, 1} : previewSession' = previewSession + n
    <3>1. CASE ClosePreview
      BY <3>1 DEF ClosePreview
    <3>2. previewSession \in Nat
      BY DEF PrintTyped
    <3>3. CASE previewSession' = previewSession
      BY <3>2, <3>3
    <3> QED
      BY <3>1, <3>3 DEF OpenPreview, FontsSettleTo, printVars
  <2> QED
    BY <2>1 DEF PrintTyped
<1>8. PrintTyped' /\ JobsMatchScreen'
  BY <1>1, <1>6, <1>7 DEF PrintTyped, JobsMatchScreen
<1> QED
  BY <1>2, <1>5, <1>6, <1>8

LEMMA GenerationEndsKeeps ==
  ASSUME PreviewInv, NEW r \in genRuns, NEW ok \in BOOLEAN, GenerationEnds(r, ok)
  PROVE  PreviewInv'
<1> USE DEF PreviewInv
<1>1. /\ UNCHANGED <<rosterVars, dialog, fontState, hasFonts, printVars, previewTurns>>
      /\ genRuns' = genRuns \ {r}
  BY DEF GenerationEnds
<1>2. Shown' = Shown
  BY <1>1 DEF Shown, FirstGuest, rosterVars
<1>3. \/ generation' = generation
      \/ /\ r.live /\ generation' \in Generation /\ generation'.of = r.of
  BY DEF GenerationEnds, DialogTyped, Generation
<1>4. DialogTyped' /\ LabelCurrent'
  BY <1>1, <1>2, <1>3 DEF DialogTyped, LabelCurrent, printVars
<1>5. PagesTyped' /\ RosterTyped'
  BY <1>1 DEF PagesTyped, RosterTyped, rosterVars
<1>6. PrintTyped' /\ ChoiceListed' /\ JobsMatchScreen'
  BY <1>1 DEF PrintTyped, ChoiceListed, JobsMatchScreen, printVars
<1> QED
  BY <1>4, <1>5, <1>6

LEMMA PrintStepsKeep ==
  ASSUME PreviewInv,
         \/ SendTestPrint
         \/ \E ps \in SUBSET Plotters : PlottersTurn(ps)
         \/ \E p \in Plotters : ChoosePlotter(p)
         \/ \E j \in jobs : TestPrintSettles(j)
         \/ UNCHANGED previewVars
  PROVE  PreviewInv'
<1> USE DEF PreviewInv
<1>1. UNCHANGED <<rosterVars, previewDialogVars>>
  BY DEF SendTestPrint, PlottersTurn, ChoosePlotter, TestPrintSettles, previewVars
<1>2. Shown' = Shown
  BY <1>1 DEF Shown, FirstGuest, rosterVars
<1>3. sending' \in BOOLEAN
  BY DEF SendTestPrint, PlottersTurn, ChoosePlotter, TestPrintSettles, previewVars, printVars, DialogTyped
<1>4. DialogTyped' /\ LabelCurrent' /\ PagesTyped'
  BY <1>1, <1>2, <1>3 DEF DialogTyped, LabelCurrent, PagesTyped, previewDialogVars, rosterVars
<1>5. RosterTyped'
  <2>1. previewTurns' = previewTurns \/ (previewTurns < MaxPreviewTurns /\ previewTurns' = previewTurns + 1)
    BY DEF SendTestPrint, PlottersTurn, PreviewTurn, ChoosePlotter, TestPrintSettles, previewVars
  <2>2. previewTurns \in 0..MaxPreviewTurns /\ \A h \in Guests : roster[h] <= previewTurns + 1 /\ roster[h] \in Nat
    BY PreviewAssumption DEF RosterTyped, Versions
  <2>3. previewTurns' \in 0..MaxPreviewTurns /\ \A h \in Guests : roster[h] <= previewTurns' + 1
    BY <2>1, <2>2, PreviewAssumption
  <2> QED
    BY <1>1, <2>3 DEF RosterTyped, rosterVars
<1>6. PrintTyped' /\ ChoiceListed' /\ JobsMatchScreen'
  <2>1. CASE SendTestPrint
    <3> DEFINE new == [id |-> doneJobs + 1, of |-> generation.of, shown |-> Shown, to |-> chosen,
                       listed |-> chosen \in plotters, session |-> previewSession]
    <3>1. /\ jobs' = jobs \cup {new} /\ doneJobs' = doneJobs + 1 /\ doneJobs < MaxPreviewPrints
          /\ UNCHANGED <<plotters, chosen, previewSession>>
          /\ dialog = "print" /\ chosen # Nobody /\ generation.status = "ready"
      BY <2>1 DEF SendTestPrint, SendEnabled
    <3>2. generation.of = Shown /\ chosen \in plotters /\ chosen \in Plotters
      BY <3>1 DEF LabelCurrent, ChoiceListed, PrintTyped
    <3>3. generation.of \in Label /\ previewSession \in Nat
      BY DEF DialogTyped, Generation, PrintTyped
    <3>4. doneJobs + 1 \in 1..MaxPreviewPrints /\ doneJobs' \in 0..MaxPreviewPrints
      BY <3>1, PreviewAssumption DEF PrintTyped
    <3>5. new \in Job /\ new.of = new.shown /\ new.listed
      BY <3>2, <3>3, <3>4 DEF Job
    <3> HIDE DEF new
    <3> QED
      BY <1>1, <3>1, <3>4, <3>5 DEF PrintTyped, ChoiceListed, JobsMatchScreen, previewDialogVars
  <2>2. ASSUME NEW ps \in SUBSET Plotters, PlottersTurn(ps)
        PROVE  PrintTyped' /\ ChoiceListed' /\ JobsMatchScreen'
    <3>1. /\ plotters' = ps /\ UNCHANGED <<jobs, doneJobs, previewSession>> /\ dialog' = dialog
          /\ chosen' \in Preselected(ps)
      BY <1>1, <2>2 DEF PlottersTurn, previewDialogVars
    <3>2. chosen' \in Plotters \cup {Nobody} /\ ChoiceListed'
      BY <3>1 DEF Preselected, PrintTyped, ChoiceListed
    <3> QED
      BY <3>1, <3>2 DEF PrintTyped, JobsMatchScreen
  <2>3. ASSUME NEW p \in Plotters, ChoosePlotter(p)
        PROVE  PrintTyped' /\ ChoiceListed' /\ JobsMatchScreen'
    BY <1>1, <2>3 DEF ChoosePlotter, PrintTyped, ChoiceListed, JobsMatchScreen, previewDialogVars
  <2>4. ASSUME NEW j \in jobs, TestPrintSettles(j)
        PROVE  PrintTyped' /\ ChoiceListed' /\ JobsMatchScreen'
    BY <1>1, <2>4 DEF TestPrintSettles, PrintTyped, ChoiceListed, JobsMatchScreen, previewDialogVars
  <2>5. CASE UNCHANGED previewVars
    BY <2>5 DEF previewVars, printVars, previewDialogVars, PrintTyped, ChoiceListed, JobsMatchScreen
  <2> QED
    BY <2>1, <2>2, <2>3, <2>4, <2>5
<1> QED
  BY <1>4, <1>5, <1>6

(* The invariant of the preview and the test print, inductive: a label     *)
(* that is ready, a run of the generator that still counts and every job   *)
(* sent are of the attendee the dialog shows.                              *)
THEOREM PreviewInvariance == PreviewSpec => []PreviewInv
<1>1. PreviewInv /\ [PreviewNext]_previewVars => PreviewInv'
  BY ListsKeep, RosterKeeps, DialogStepsKeep, GenerationEndsKeeps, PrintStepsKeep DEF PreviewNext
<1> QED
  BY PreviewStarts, <1>1, PTL DEF PreviewSpec

(* Every test print is of the attendee that was on the screen and goes to  *)
(* a printer the agent listed, however late a generator run ends.          *)
THEOREM TestPrintsAreShown == PreviewSpec => []JobsMatchScreen
<1>1. PreviewInv => JobsMatchScreen
  BY DEF PreviewInv
<1> QED
  BY PreviewInvariance, <1>1, PTL

------------------------------------------------------------------------------
(* The attendee drawer (AttendeeDrawer).                                   *)

EditForms == [value : FieldValues, baseline : FieldValues,
              version : 0..MaxDrawerEdits, watched : CallIds \cup {0}]

(* The pieces of the state's type, one for each part of the drawer.        *)
FormTyped ==
  /\ drawer \in {"view", "edit", "closed"} /\ editForm \in EditForms /\ patches \subseteq Patch
  /\ {storedField, shownField} \subseteq FieldValues
  /\ drawerEdits \in 0..MaxDrawerEdits /\ drawerCalls \in 0..MaxDrawerCalls
GrantsTyped ==
  /\ {grants, chips, removing, removals} \subseteq SUBSET GrantRows
  /\ watchedRemoval \in GrantRows \cup {NoGrant}
ConfirmsTyped ==
  /\ attendeeGone \in BOOLEAN
  /\ confirms \in [Confirms -> ConfirmDialog] /\ confirmCalls \subseteq ConfirmCall
  /\ reprintDialog \in {"closed", "open", "printing"}

(* A save of the version that is being edited is the one the form waits    *)
(* for, and it holds what the form holds: the next keystroke has a version *)
(* of its own.                                                             *)
SavesKnown ==
  /\ editForm.version <= drawerEdits
  /\ \A p \in patches : p.version <= editForm.version /\ p.id <= drawerCalls
  /\ \A p, q \in patches : p.id = q.id => p = q
  /\ \A p \in patches : p.version = editForm.version =>
       editForm.watched = p.id /\ editForm.value = p.value /\ drawer # "view"

DrawerInv == FormTyped /\ GrantsTyped /\ ConfirmsTyped /\ RemovalsTracked /\ SavesKnown

LEMMA DrawerStarts == DrawerInit => DrawerInv
<1> SUFFICES ASSUME DrawerInit PROVE DrawerInv
  OBVIOUS
<1>1. storedField \in FieldValues /\ shownField = storedField
  BY DrawerAssumption DEF DrawerInit
<1>2. /\ drawer = "view" /\ attendeeGone = FALSE /\ patches = {} /\ grants \subseteq GrantRows /\ chips = grants
      /\ removing = {} /\ removals = {} /\ watchedRemoval = NoGrant /\ confirmCalls = {}
      /\ reprintDialog = "closed" /\ drawerEdits = 0 /\ drawerCalls = 0
      /\ editForm = [value |-> storedField, baseline |-> storedField, version |-> 0, watched |-> 0]
  BY DEF DrawerInit
<1>3. 0 \in 0..MaxDrawerEdits /\ 0 \in 0..MaxDrawerCalls
  BY DrawerAssumption
<1>4. confirms \in [Confirms -> ConfirmDialog]
  BY <1>3 DEF DrawerInit, ConfirmDialog
<1>5. editForm \in EditForms
  BY <1>1, <1>2, <1>3 DEF EditForms
<1>6. FormTyped
  BY <1>1, <1>2, <1>3, <1>5 DEF FormTyped
<1>7. SavesKnown
  BY <1>2 DEF SavesKnown
<1> QED
  BY <1>2, <1>4, <1>6, <1>7 DEF DrawerInv, GrantsTyped, ConfirmsTyped, RemovalsTracked

LEMMA GrantStepsKeep ==
  ASSUME DrawerInv,
         \/ \E r \in GrantRows : AddGrant(r) \/ RemoveGrant(r) \/ RemovalSettles(r)
         \/ GrantsRefetched
  PROVE  DrawerInv'
<1>1. UNCHANGED <<drawer, formVars, confirmVars, reprintDialog, drawerEdits>>
  BY DEF AddGrant, RemoveGrant, RemovalSettles, GrantsRefetched
<1>2. drawerCalls' \in 0..MaxDrawerCalls /\ drawerCalls' >= drawerCalls
  BY DrawerAssumption
     DEF DrawerInv, FormTyped, AddGrant, RemoveGrant, RemovalSettles, GrantsRefetched, DrawerCall
<1>3. GrantsTyped'
  <2>1. ASSUME NEW r \in GrantRows, AddGrant(r) PROVE GrantsTyped'
    BY <2>1 DEF AddGrant, DrawerInv, GrantsTyped
  <2>2. ASSUME NEW r \in GrantRows, RemoveGrant(r) PROVE GrantsTyped'
    BY <2>2 DEF RemoveGrant, MarkRemoving, DrawerInv, GrantsTyped
  <2>3. ASSUME NEW r \in GrantRows, RemovalSettles(r) PROVE GrantsTyped'
    BY <2>3 DEF RemovalSettles, DrawerInv, GrantsTyped
  <2>4. CASE GrantsRefetched
    BY <2>4 DEF GrantsRefetched, DrawerInv, GrantsTyped
  <2> QED
    BY <2>1, <2>2, <2>3, <2>4
<1>4. RemovalsTracked'
  BY DEF DrawerInv, RemovalsTracked, AddGrant, RemoveGrant, MarkRemoving, RemovalSettles, GrantsRefetched
<1>5. SavesKnown'
  <2>1. \A p \in patches : p.id \in Nat
    BY DEF DrawerInv, FormTyped, Patch, CallIds
  <2>2. drawerCalls \in Nat /\ drawerCalls' \in Nat
    BY <1>2, DrawerAssumption DEF DrawerInv, FormTyped
  <2> QED
    BY <1>1, <1>2, <2>1, <2>2 DEF DrawerInv, SavesKnown, formVars
<1> QED
  BY <1>1, <1>2, <1>3, <1>4, <1>5 DEF DrawerInv, FormTyped, ConfirmsTyped, formVars, confirmVars

LEMMA EditStepsKeep ==
  ASSUME DrawerInv,
         \/ OpenEdit \/ SubmitEdit \/ CancelEdit \/ DetailRefetched \/ CloseDrawer
         \/ \E v \in FieldValues : UpdateField(v)
         \/ \E p \in patches : PatchApplies(p) \/ PatchSucceeds(p) \/ PatchFails(p)
  PROVE  DrawerInv' /\ (patches' # patches => editForm'.value = editForm.value)
<1> USE DEF DrawerInv
<1>1. UNCHANGED <<grantVars, confirmVars, reprintDialog>>
  BY DEF OpenEdit, SubmitEdit, CancelEdit, DetailRefetched, CloseDrawer, UpdateField, PatchApplies,
         PatchSucceeds, PatchFails
<1>2. GrantsTyped' /\ ConfirmsTyped' /\ RemovalsTracked'
  BY <1>1 DEF GrantsTyped, ConfirmsTyped, RemovalsTracked, grantVars, confirmVars
<1>3. /\ editForm \in EditForms /\ patches \subseteq Patch /\ storedField \in FieldValues
      /\ shownField \in FieldValues /\ drawerEdits \in 0..MaxDrawerEdits
      /\ drawerCalls \in 0..MaxDrawerCalls /\ drawer \in {"view", "edit", "closed"}
  BY DEF FormTyped
<1>4. /\ \A p \in patches : p.id \in CallIds /\ p.version \in 0..MaxDrawerEdits /\ p.value \in FieldValues
      /\ editForm.value \in FieldValues /\ editForm.baseline \in FieldValues
      /\ editForm.version \in 0..MaxDrawerEdits /\ editForm.watched \in CallIds \cup {0}
  BY <1>3 DEF Patch, EditForms
<1>5. CASE OpenEdit
  <2>1. /\ drawer = "view" /\ drawer' = "edit"
        /\ UNCHANGED <<patches, storedField, shownField, drawerEdits, drawerCalls>>
    BY <1>5 DEF OpenEdit, Viewing
  <2>2. editForm' \in EditForms /\ editForm'.version = editForm.version
    BY <1>3, <1>5 DEF OpenEdit, EditForms
  <2>3. SavesKnown'
    BY <2>1, <2>2 DEF SavesKnown
  <2> QED
    BY <1>2, <1>3, <2>1, <2>2, <2>3 DEF FormTyped
<1>6. CASE SubmitEdit
  <2> DEFINE new == [id |-> drawerCalls + 1, version |-> editForm.version,
                     value |-> editForm.value, step |-> "sent"]
  <2>1. /\ editForm.watched = 0 /\ drawerCalls' = drawerCalls + 1 /\ drawerCalls < MaxDrawerCalls
        /\ drawer = "edit" /\ UNCHANGED <<drawer, storedField, shownField, drawerEdits>>
        /\ patches' = patches \cup {new}
        /\ editForm' = [editForm EXCEPT !.watched = drawerCalls + 1]
    BY <1>6 DEF SubmitEdit, DrawerCall
  <2>2. drawerCalls + 1 \in CallIds /\ drawerCalls' \in 0..MaxDrawerCalls
    BY <1>3, <2>1, DrawerAssumption DEF CallIds
  <2>3. /\ new \in Patch /\ new.id = drawerCalls + 1 /\ new.version = editForm.version
        /\ new.value = editForm.value
    BY <1>4, <2>2 DEF Patch
  <2>4. /\ editForm' \in EditForms /\ editForm'.version = editForm.version
        /\ editForm'.value = editForm.value /\ editForm'.watched = drawerCalls + 1
    BY <1>3, <2>1, <2>2 DEF EditForms
  <2> HIDE DEF new
  <2>5. \A p \in patches : p.id # 0 /\ p.id # drawerCalls + 1 /\ p.id <= drawerCalls + 1
    BY <1>3, <1>4 DEF SavesKnown, CallIds
  <2>6. \A p \in patches : p.version # editForm.version
    BY <2>1, <2>5 DEF SavesKnown
  <2>7. editForm.version <= editForm.version /\ drawerCalls + 1 <= drawerCalls + 1
    BY <1>3, <1>4
  <2>8. SavesKnown'
    BY <2>1, <2>3, <2>4, <2>5, <2>6, <2>7 DEF SavesKnown
  <2> QED
    BY <1>2, <1>3, <2>1, <2>2, <2>3, <2>4, <2>8 DEF FormTyped
<1>7. CASE CancelEdit \/ CloseDrawer
  <2>1. /\ editForm.watched = 0 /\ UNCHANGED <<editForm, patches, storedField, shownField, drawerEdits, drawerCalls>>
        /\ drawer' \in {"view", "closed"}
    BY <1>7 DEF CancelEdit, CloseDrawer, formVars
  <2>2. \A p \in patches : p.version # editForm.version
    BY <1>4, <2>1 DEF SavesKnown, CallIds
  <2>3. SavesKnown'
    BY <2>1, <2>2 DEF SavesKnown
  <2> QED
    BY <1>2, <1>3, <2>1, <2>3 DEF FormTyped
<1>8. CASE DetailRefetched
  BY <1>2, <1>3, <1>8 DEF DetailRefetched, FormTyped, SavesKnown
<1>9. ASSUME NEW v \in FieldValues, UpdateField(v) PROVE DrawerInv' /\ patches' = patches
  <2>1. /\ drawerEdits' = drawerEdits + 1 /\ drawerEdits < MaxDrawerEdits
        /\ UNCHANGED <<drawer, patches, storedField, shownField, drawerCalls>>
        /\ editForm' = [editForm EXCEPT !.value = v, !.version = drawerEdits + 1, !.watched = 0]
    BY <1>9 DEF UpdateField
  <2>2. drawerEdits + 1 \in 0..MaxDrawerEdits
    BY <1>3, <2>1, DrawerAssumption
  <2>3. editForm' \in EditForms /\ editForm'.version = drawerEdits + 1
    BY <1>3, <2>1, <2>2 DEF EditForms
  <2>4. \A p \in patches : p.version < drawerEdits + 1
    BY <1>3, <1>4 DEF SavesKnown
  <2>5. SavesKnown'
    BY <1>3, <1>4, <2>1, <2>3, <2>4 DEF SavesKnown
  <2> QED
    BY <1>2, <1>3, <2>1, <2>2, <2>3, <2>5 DEF FormTyped
<1>10. ASSUME NEW p \in patches, PatchApplies(p) PROVE DrawerInv' /\ editForm' = editForm
  <2> DEFINE k == [p EXCEPT !.step = "applied"]
  <2>1. k \in Patch /\ k.id = p.id /\ k.version = p.version /\ k.value = p.value
    BY <1>3 DEF Patch
  <2>2. /\ patches' = (patches \ {p}) \cup {k} /\ storedField' = p.value
        /\ UNCHANGED <<drawer, editForm, shownField, drawerEdits, drawerCalls>>
    BY <1>10 DEF PatchApplies
  <2> HIDE DEF k
  <2>3. SavesKnown'
    BY <2>1, <2>2 DEF SavesKnown
  <2> QED
    BY <1>2, <1>3, <1>4, <2>1, <2>2, <2>3 DEF FormTyped
<1>11. ASSUME NEW p \in patches, PatchSucceeds(p) PROVE DrawerInv' /\ editForm'.value = editForm.value
  <2>1. patches' = patches \ {p} /\ UNCHANGED <<storedField, shownField, drawerEdits, drawerCalls>>
    BY <1>11 DEF PatchSucceeds
  <2>2. CASE drawer = "edit" /\ AnswersThisEdit(p)
    <3>1. /\ drawer' = "view"
          /\ editForm' = [editForm EXCEPT !.value = p.value, !.baseline = p.value, !.watched = 0]
      BY <1>11, <2>2 DEF PatchSucceeds
    <3>2. /\ editForm' \in EditForms /\ editForm'.version = editForm.version
          /\ editForm'.value = p.value
      BY <1>3, <1>4, <3>1 DEF EditForms
    <3>3. p.value = editForm.value /\ editForm.watched = p.id
      BY <2>2 DEF AnswersThisEdit, SavesKnown
    <3>4. \A q \in patches : q.version = editForm.version => q = p
      BY <3>3 DEF SavesKnown
    <3>5. SavesKnown'
      BY <2>1, <3>2, <3>4 DEF SavesKnown
    <3> QED
      BY <1>2, <1>3, <2>1, <3>1, <3>2, <3>3, <3>5 DEF FormTyped
  <2>3. CASE ~(drawer = "edit" /\ AnswersThisEdit(p))
    <3>1. UNCHANGED <<drawer, editForm>>
      BY <1>11, <2>3 DEF PatchSucceeds
    <3> QED
      BY <1>2, <1>3, <2>1, <3>1 DEF FormTyped, SavesKnown
  <2> QED
    BY <2>2, <2>3
<1>12. ASSUME NEW p \in patches, PatchFails(p) PROVE DrawerInv' /\ editForm'.value = editForm.value
  <2>1. patches' = patches \ {p} /\ UNCHANGED <<drawer, storedField, shownField, drawerEdits, drawerCalls>>
    BY <1>12 DEF PatchFails
  <2>2. PICK w \in {0, editForm.watched} :
          /\ editForm' = [editForm EXCEPT !.watched = w]
          /\ editForm.watched # p.id => w = editForm.watched
    BY <1>12 DEF PatchFails
  <2>3. /\ editForm' \in EditForms /\ editForm'.version = editForm.version
        /\ editForm'.value = editForm.value /\ editForm'.watched = w
    BY <1>3, <1>4, <2>2 DEF EditForms
  <2>4. \A q \in patches' : q.version = editForm.version => editForm'.watched = q.id
    BY <2>1, <2>2, <2>3 DEF SavesKnown
  <2>5. SavesKnown'
    BY <2>1, <2>3, <2>4 DEF SavesKnown
  <2> QED
    BY <1>2, <1>3, <2>1, <2>3, <2>5 DEF FormTyped
<1> QED
  BY <1>5, <1>6, <1>7, <1>8, <1>9, <1>10, <1>11, <1>12
     DEF OpenEdit, SubmitEdit, CancelEdit, CloseDrawer, DetailRefetched, formVars

LEMMA ConfirmStepsKeep ==
  ASSUME DrawerInv,
         \/ \E k \in Confirms : OpenConfirm(k) \/ PressConfirm(k) \/ CloseConfirm(k)
         \/ \E c \in confirmCalls : ConfirmAnswers(c)
         \/ ReprintAgain \/ UNCHANGED drawerVars
  PROVE  DrawerInv' /\ patches' = patches
<1> USE DEF DrawerInv
<1>1. UNCHANGED <<formVars, grantVars, drawerEdits>>
  BY DEF OpenConfirm, PressConfirm, CloseConfirm, ConfirmAnswers, ReprintAgain, drawerVars
<1>2. drawer' \in {drawer, "closed"}
  BY DEF OpenConfirm, PressConfirm, CloseConfirm, ConfirmAnswers, ReprintAgain, drawerVars
<1>3. drawerCalls' \in 0..MaxDrawerCalls /\ drawerCalls' >= drawerCalls
  <2>1. \/ drawerCalls' = drawerCalls
        \/ drawerCalls < MaxDrawerCalls /\ drawerCalls' = drawerCalls + 1
    BY DEF OpenConfirm, PressConfirm, CloseConfirm, ConfirmAnswers, ReprintAgain, OpenReprint,
           PrintAgain, ReprintSettles, CancelReprint, drawerVars, DrawerCall
  <2> QED
    BY <2>1, DrawerAssumption DEF FormTyped
<1>4. FormTyped' /\ GrantsTyped' /\ RemovalsTracked'
  BY <1>1, <1>2, <1>3 DEF FormTyped, GrantsTyped, RemovalsTracked, formVars, grantVars
<1>5. SavesKnown'
  <2>1. \A p \in patches : p.id \in Nat
    BY DEF FormTyped, Patch, CallIds
  <2>2. drawerCalls \in Nat /\ drawerCalls' \in Nat
    BY <1>3, DrawerAssumption DEF FormTyped
  <2> QED
    BY <1>1, <1>2, <1>3, <2>1, <2>2 DEF SavesKnown, formVars
<1>6. ConfirmsTyped'
  <2>0. confirms \in [Confirms -> ConfirmDialog] /\ confirmCalls \subseteq ConfirmCall
    BY DEF ConfirmsTyped
  <2>1. ASSUME NEW k \in Confirms, OpenConfirm(k) PROVE ConfirmsTyped'
    <3>1. [confirms[k] EXCEPT !.open = TRUE, !.error = FALSE] \in ConfirmDialog
      BY <2>0 DEF ConfirmDialog
    <3>2. confirms' = [confirms EXCEPT ![k] = [confirms[k] EXCEPT !.open = TRUE, !.error = FALSE]]
      BY <2>0, <2>1 DEF OpenConfirm
    <3> QED
      BY <2>0, <2>1, <3>1, <3>2 DEF OpenConfirm, ConfirmsTyped
  <2>2. ASSUME NEW k \in Confirms, PressConfirm(k) PROVE ConfirmsTyped'
    <3> DEFINE new == [id |-> drawerCalls + 1, kind |-> k, session |-> confirms[k].session]
    <3>1. drawerCalls + 1 \in CallIds
      BY <2>2, DrawerAssumption DEF PressConfirm, DrawerCall, FormTyped, CallIds
    <3>2. [confirms[k] EXCEPT !.error = FALSE, !.watched = drawerCalls + 1] \in ConfirmDialog
      BY <2>0, <3>1 DEF ConfirmDialog
    <3>3. confirms' = [confirms EXCEPT ![k] = [confirms[k] EXCEPT !.error = FALSE, !.watched = drawerCalls + 1]]
      BY <2>0, <2>2 DEF PressConfirm
    <3>4. new \in ConfirmCall
      BY <2>0, <3>1 DEF ConfirmCall, ConfirmDialog
    <3>5. confirmCalls' = confirmCalls \cup {new} /\ UNCHANGED <<attendeeGone, reprintDialog>>
      BY <2>2 DEF PressConfirm
    <3> HIDE DEF new
    <3> QED
      BY <2>0, <3>2, <3>3, <3>4, <3>5 DEF ConfirmsTyped
  <2>3. ASSUME NEW k \in Confirms, CloseConfirm(k) PROVE ConfirmsTyped'
    <3>1. confirms[k].session + 1 \in 0..MaxDrawerCalls
      BY <2>0, <2>3, DrawerAssumption DEF CloseConfirm, ConfirmDialog
    <3>2. [open |-> FALSE, error |-> FALSE, session |-> confirms[k].session + 1, watched |-> 0] \in ConfirmDialog
      BY <3>1 DEF ConfirmDialog
    <3>3. confirms' = [confirms EXCEPT ![k] = [open |-> FALSE, error |-> FALSE,
                                               session |-> confirms[k].session + 1, watched |-> 0]]
      BY <2>0, <2>3 DEF CloseConfirm
    <3> QED
      BY <2>0, <2>3, <3>2, <3>3 DEF CloseConfirm, ConfirmsTyped
  <2>4. ASSUME NEW c \in confirmCalls, ConfirmAnswers(c) PROVE ConfirmsTyped'
    <3>1. c.kind \in Confirms /\ confirms[c.kind] \in ConfirmDialog
      BY <2>0 DEF ConfirmCall
    <3>2. PICK released \in {0, confirms[c.kind].watched}, open \in BOOLEAN, error \in BOOLEAN :
            confirms' = [confirms EXCEPT ![c.kind] = [confirms[c.kind] EXCEPT !.watched = released,
                                                        !.open = open, !.error = error]]
      <4> DEFINE released == IF confirms[c.kind].watched = c.id THEN 0 ELSE confirms[c.kind].watched
                 open(ok)  == confirms[c.kind].open /\ ~(ok /\ OfThisSession(c))
                 error(ok) == confirms[c.kind].error \/ (~ok /\ OfThisSession(c))
      <4>1. PICK ok \in BOOLEAN :
              confirms' = [confirms EXCEPT ![c.kind] = [confirms[c.kind] EXCEPT !.watched = released,
                                                        !.open = open(ok), !.error = error(ok)]]
        BY <2>0, <2>4, <3>1 DEF ConfirmAnswers
      <4>2. open(ok) \in BOOLEAN /\ error(ok) \in BOOLEAN /\ released \in {0, confirms[c.kind].watched}
        BY <3>1 DEF ConfirmDialog
      <4> HIDE DEF open, error, released
      <4> QED
        BY <4>1, <4>2
    <3>3. [confirms[c.kind] EXCEPT !.watched = released, !.open = open, !.error = error] \in ConfirmDialog
      BY <3>1 DEF ConfirmDialog
    <3>4. confirmCalls' = confirmCalls \ {c} /\ reprintDialog' = reprintDialog /\ attendeeGone' \in BOOLEAN
      BY <2>4 DEF ConfirmAnswers, ConfirmsTyped
    <3> QED
      BY <2>0, <3>1, <3>2, <3>3, <3>4 DEF ConfirmsTyped
  <2>5. CASE ReprintAgain \/ UNCHANGED drawerVars
    BY <2>5 DEF ReprintAgain, OpenReprint, PrintAgain, ReprintSettles, CancelReprint, drawerVars,
                confirmVars, ConfirmsTyped
  <2> QED
    BY <2>1, <2>2, <2>3, <2>4, <2>5
<1> QED
  BY <1>1, <1>4, <1>5, <1>6 DEF formVars

(* The invariant of the drawer, inductive: the grant of a removal under    *)
(* way has its button off, and a save of the version being edited is the   *)
(* one the form waits for and holds what the form holds.                   *)
THEOREM DrawerInvariance == DrawerSpec => []DrawerInv
<1>1. DrawerInv /\ [DrawerNext]_drawerVars => DrawerInv'
  BY GrantStepsKeep, EditStepsKeep, ConfirmStepsKeep DEF DrawerNext
<1> QED
  BY DrawerStarts, <1>1, PTL DEF DrawerSpec

(* A grant being removed has its button off until its own request ends.    *)
THEOREM NoDoubleRemoval == DrawerSpec => []RemovalsTracked
<1>1. DrawerInv => RemovalsTracked
  BY DEF DrawerInv
<1> QED
  BY DrawerInvariance, <1>1, PTL

(* However late a save is answered, it never replaces what was typed since.*)
THEOREM NoTypingLost == DrawerSpec => TypingSurvivesSaves
<1>1. DrawerInv /\ [DrawerNext]_drawerVars
        => [patches' # patches => editForm'.value = editForm.value]_drawerVars
  <2>1. ASSUME \E r \in GrantRows : AddGrant(r) \/ RemoveGrant(r) \/ RemovalSettles(r)
        PROVE  patches' = patches
    BY <2>1 DEF AddGrant, RemoveGrant, RemovalSettles, formVars
  <2>2. GrantsRefetched => patches' = patches
    BY DEF GrantsRefetched, formVars
  <2> QED
    BY <2>1, <2>2, EditStepsKeep, ConfirmStepsKeep DEF DrawerNext
<1> QED
  BY DrawerInvariance, <1>1, PTL DEF DrawerSpec, TypingSurvivesSaves

------------------------------------------------------------------------------
(* The attendee's card (AttendeeCard).                                     *)

(* A check-in the sheet waits for was confirmed on the sheet that is open, *)
(* for the attendee on the card unless the card has moved on: the sheet    *)
(* cannot be closed under it, and unmounting it disowns the call.          *)
LiveOnSheet ==
  MutationPending("checkin") =>
    /\ "sheet" \in cardDialogs /\ SheetMounted
    /\ cardCalls["checkin"].who = cardOf \/ cardCalls["checkin"].moved
CardInv == CardTypeOK /\ LiveOnSheet

LEMMA CardCallsTyped ==
  /\ NoCall \in CardCall /\ NoCall.who = NoPerson
  /\ \A who \in CardPeople, b \in BOOLEAN :
       LET c == [NoCall EXCEPT !.who = who, !.moved = b] IN c \in CardCall /\ c.who = who /\ c.moved = b
  /\ \A c \in CardCall, b \in BOOLEAN :
       LET d == [c EXCEPT !.moved = b] IN d \in CardCall /\ d.who = c.who /\ d.moved = b
  /\ \A c \in CardCall, o \in Outcomes :
       LET d == [c EXCEPT !.applied = TRUE, !.outcome = o] IN
         d \in CardCall /\ d.who = c.who /\ d.moved = c.moved
  BY DEF NoCall, CardCall, Outcomes

LEMMA CardStarts == CardInit => CardInv
<1> SUFFICES ASSUME CardInit PROVE CardInv
  OBVIOUS
<1>1. people \in [CardPeople -> Person] /\ detail \in [CardPeople -> Details]
  BY DEF CardInit, Person, Details
<1>2. cardCalls \in [Mutations -> CardCall] /\ cardCalls["checkin"].who = NoPerson
  BY CardCallsTyped DEF CardInit, Mutations
<1>3. cardTurns \in 0..MaxCardTurns
  BY CardAssumption DEF CardInit
<1>4. LiveOnSheet
  BY <1>2 DEF LiveOnSheet, MutationPending
<1> QED
  BY <1>1, <1>2, <1>3, <1>4 DEF CardInit, CardInv, CardTypeOK

LEMMA CardTurnTyped == CardTypeOK /\ CardTurn => cardTurns' \in 0..MaxCardTurns
  BY CardAssumption DEF CardTypeOK, CardTurn

(* A request whose sender is gone is one of the orphans.                   *)
LEMMA OrphansTyped ==
  ASSUME CardTypeOK, NEW ms \in SUBSET Mutations
  PROVE  StillToApply(ms) \subseteq Mutations \X CardPeople
<1>1. \A m \in ms : MutationPending(m) => cardCalls[m].who \in CardPeople
  BY DEF CardTypeOK, CardCall, MutationPending
<1> QED
  BY <1>1 DEF StillToApply

(* What is left of the calls when some are disowned.                       *)
LEMMA DisownKeeps ==
  ASSUME CardTypeOK, NEW ms \in SUBSET Mutations, Disown(ms)
  PROVE  /\ cardCalls' \in [Mutations -> CardCall] /\ orphans' \subseteq Mutations \X CardPeople
         /\ cardCalls'["checkin"].who # NoPerson =>
              /\ "checkin" \notin ms /\ MutationPending("checkin")
              /\ cardCalls'["checkin"].who = cardCalls["checkin"].who
              /\ cardOf' # cardOf \/ cardCalls["checkin"].moved => cardCalls'["checkin"].moved
<1> DEFINE moved(m) == MutationPending(m) /\ (cardCalls[m].moved \/ cardOf' # cardOf)
           call(m) == [cardCalls[m] EXCEPT !.moved = moved(m)]
<1>1. \A m \in Mutations : cardCalls[m] \in CardCall
  BY DEF CardTypeOK
<1>2. \A m \in Mutations : moved(m) \in BOOLEAN
  BY <1>1 DEF MutationPending, CardCall
<1> HIDE DEF moved
<1>3. \A m \in Mutations : call(m) \in CardCall /\ call(m).who = cardCalls[m].who /\ call(m).moved = moved(m)
  <2> TAKE m \in Mutations
  <2>1. cardCalls[m] \in CardCall /\ moved(m) \in BOOLEAN
    BY <1>1, <1>2
  <2> QED
    BY <2>1 DEF CardCall
<1>4. cardCalls' = [m \in Mutations |-> IF m \in ms THEN NoCall ELSE call(m)]
  BY DEF Disown, moved
<1> HIDE DEF call
<1>5. cardCalls' \in [Mutations -> CardCall]
  BY <1>3, <1>4, CardCallsTyped
<1>6. orphans' \subseteq Mutations \X CardPeople
  BY OrphansTyped DEF Disown, CardTypeOK
<1>7. cardCalls'["checkin"] = IF "checkin" \in ms THEN NoCall ELSE call("checkin")
  BY <1>4 DEF Mutations
<1>8. ASSUME cardCalls'["checkin"].who # NoPerson
      PROVE  /\ "checkin" \notin ms /\ MutationPending("checkin")
             /\ cardCalls'["checkin"].who = cardCalls["checkin"].who
             /\ cardCalls'["checkin"].moved = moved("checkin")
  <2>1. "checkin" \notin ms
    BY <1>7, <1>8, CardCallsTyped
  <2> QED
    BY <1>3, <1>7, <1>8, <2>1 DEF MutationPending, Mutations
<1>9. MutationPending("checkin") /\ (cardOf' # cardOf \/ cardCalls["checkin"].moved) => moved("checkin")
  BY DEF moved
<1> QED
  BY <1>5, <1>6, <1>8, <1>9

LEMMA CardPageKeeps ==
  ASSUME CardInv,
         \/ DetailArrives
         \/ \E d \in {"sheet", "undo", "block"} : OpenDialog(d) \/ CloseDialog(d)
         \/ \E a \in CardPeople : SwitchCard(a)
  PROVE  CardInv' /\ undoToasts' = undoToasts
<1>1. UNCHANGED <<people, undoToasts>> /\ SheetEffects /\ cardOf' \in CardPeople
  BY DEF DetailArrives, OpenDialog, CloseDialog, SwitchCard, CardInv, CardTypeOK
<1>2. detail' \in [CardPeople -> Details]
  BY DEF DetailArrives, OpenDialog, CloseDialog, SwitchCard, StatusOf, CardInv, CardTypeOK, Details
<1>3. cardDialogs' \subseteq {"sheet", "undo", "block"}
  BY DEF DetailArrives, OpenDialog, CloseDialog, SwitchCard, CardInv, CardTypeOK
<1>4. cardTurns' \in 0..MaxCardTurns
  BY CardTurnTyped DEF DetailArrives, OpenDialog, CloseDialog, SwitchCard, CardInv, CardTypeOK
<1>5. sheetRefused' \in BOOLEAN
  BY <1>1 DEF SheetEffects, CardInv, CardTypeOK
<1> DEFINE ms == IF SheetMounted' THEN {} ELSE {"checkin"}
<1>6. ms \in SUBSET Mutations /\ ("checkin" \notin ms => SheetMounted') /\ Disown(ms)
  BY <1>1 DEF Mutations, SheetEffects
<1> HIDE DEF ms
<1>7. /\ cardCalls' \in [Mutations -> CardCall] /\ orphans' \subseteq Mutations \X CardPeople
      /\ cardCalls'["checkin"].who # NoPerson =>
           /\ "checkin" \notin ms /\ MutationPending("checkin")
           /\ cardCalls'["checkin"].who = cardCalls["checkin"].who
           /\ cardOf' # cardOf \/ cardCalls["checkin"].moved => cardCalls'["checkin"].moved
  BY <1>6, DisownKeeps DEF CardInv
<1>8. MutationPending("checkin") => "sheet" \in cardDialogs'
  BY DEF DetailArrives, OpenDialog, CloseDialog, SheetHeld, SwitchCard, CardInv, LiveOnSheet
<1>9. LiveOnSheet'
  <2> SUFFICES ASSUME MutationPending("checkin")'
               PROVE  /\ "sheet" \in cardDialogs' /\ SheetMounted'
                      /\ cardCalls'["checkin"].who = cardOf' \/ cardCalls'["checkin"].moved
    BY DEF LiveOnSheet
  <2>1. cardCalls'["checkin"].who # NoPerson
    BY DEF MutationPending
  <2> QED
    BY <1>6, <1>7, <1>8, <2>1 DEF CardInv, LiveOnSheet
<1> QED
  BY <1>1, <1>2, <1>3, <1>4, <1>5, <1>7, <1>9 DEF CardInv, CardTypeOK

LEMMA ReopenCardKeeps ==
  ASSUME CardInv, NEW a \in CardPeople, ReopenCard(a)
  PROVE  CardInv' /\ \A b \in CardPeople : <<b, TRUE>> \notin undoToasts'
<1>1. Mutations \in SUBSET Mutations /\ Disown(Mutations) /\ "checkin" \in Mutations
  BY DEF ReopenCard, Mutations
<1>2. /\ cardCalls' \in [Mutations -> CardCall] /\ orphans' \subseteq Mutations \X CardPeople
      /\ cardCalls'["checkin"].who = NoPerson
  BY <1>1, DisownKeeps DEF CardInv
<1>3. undoToasts' \subseteq CardPeople \X {FALSE}
  <2>1. \A t \in undoToasts : t[1] \in CardPeople
    BY DEF CardInv, CardTypeOK
  <2>2. undoToasts' = {<<t[1], FALSE>> : t \in undoToasts}
    BY DEF ReopenCard
  <2>3. ASSUME NEW u \in undoToasts' PROVE u \in CardPeople \X {FALSE}
    <3>1. PICK t \in undoToasts : u = <<t[1], FALSE>>
      BY <2>2, <2>3
    <3> QED
      BY <2>1, <3>1
  <2> QED
    BY <2>3
<1>4. cardTurns' \in 0..MaxCardTurns
  BY CardTurnTyped DEF ReopenCard, CardInv
<1>5. UNCHANGED <<people, detail>> /\ cardOf' = a /\ cardDialogs' = {} /\ sheetRefused' = FALSE
  BY DEF ReopenCard
<1>6. LiveOnSheet'
  BY <1>2 DEF LiveOnSheet, MutationPending
<1> QED
  BY <1>2, <1>3, <1>4, <1>5, <1>6 DEF CardInv, CardTypeOK

LEMMA DetailCollectedKeeps ==
  ASSUME CardInv, NEW a \in CardPeople, DetailCollected(a)
  PROVE  CardInv' /\ undoToasts' = undoToasts
<1>1. detail' = [detail EXCEPT ![a] = "loading"] /\ a # cardOf
      /\ UNCHANGED <<people, cardOf, cardDialogs, sheetRefused, cardCalls, orphans, undoToasts, cardTurns>>
  BY DEF DetailCollected
<1>2. detail' \in [CardPeople -> Details] /\ detail'[cardOf] = detail[cardOf]
  BY <1>1 DEF CardInv, CardTypeOK, Details
<1>3. LiveOnSheet'
  BY <1>1, <1>2 DEF CardInv, LiveOnSheet, MutationPending, SheetMounted, CardShows
<1> QED
  BY <1>1, <1>2, <1>3 DEF CardInv, CardTypeOK

LEMMA CardSendsKeeps ==
  ASSUME CardInv, NEW m \in Mutations, NEW who \in CardPeople, CardSends(m, who),
         m = "checkin" => DialogShown("sheet"), undoToasts' \subseteq undoToasts
  PROVE  CardInv'
<1> DEFINE moved == who # cardOf
           call == [NoCall EXCEPT !.who = who, !.moved = moved]
<1>1. cardCalls \in [Mutations -> CardCall] /\ "checkin" \in Mutations
  BY DEF CardInv, CardTypeOK, Mutations
<1>2. call \in CardCall /\ call.who = who /\ call.moved = moved
  BY CardCallsTyped
<1>3. cardCalls' = [cardCalls EXCEPT ![m] = call]
  BY DEF CardSends
<1>4. UNCHANGED <<people, cardOf, detail, cardDialogs, sheetRefused>> /\ cardTurns' \in 0..MaxCardTurns
  BY CardTurnTyped DEF CardSends, CardInv
<1>5. orphans' \subseteq Mutations \X CardPeople
  <2>1. {m} \in SUBSET Mutations
    OBVIOUS
  <2> QED
    BY <2>1, OrphansTyped DEF CardSends, CardInv, CardTypeOK
<1>6. who = cardOf \/ call.moved
  BY <1>2
<1> HIDE DEF call
<1>7. LiveOnSheet'
  <2>1. CASE m = "checkin"
    BY <1>1, <1>2, <1>3, <1>4, <1>6, <2>1 DEF LiveOnSheet, MutationPending, SheetMounted, CardShows, DialogShown
  <2>2. CASE m # "checkin"
    <3>1. cardCalls'["checkin"] = cardCalls["checkin"]
      BY <1>1, <1>3, <2>2
    <3> QED
      BY <1>4, <3>1 DEF CardInv, LiveOnSheet, MutationPending, SheetMounted, CardShows
  <2> QED
    BY <2>1, <2>2
<1>8. cardCalls' \in [Mutations -> CardCall]
  BY <1>1, <1>2, <1>3
<1> QED
  BY <1>4, <1>5, <1>7, <1>8 DEF CardInv, CardTypeOK

LEMMA CardPressesKeep ==
  ASSUME CardInv, ConfirmCheckin \/ ConfirmUndo \/ ConfirmBlock \/ PressUnblock
  PROVE  CardInv' /\ undoToasts' = undoToasts
<1>1. cardOf \in CardPeople
  BY DEF CardInv, CardTypeOK
<1>2. PICK m \in Mutations : CardPress(m) /\ (m = "checkin" => DialogShown("sheet"))
  BY DEF ConfirmCheckin, ConfirmUndo, ConfirmBlock, PressUnblock, Mutations
<1> QED
  BY <1>1, <1>2, CardSendsKeeps DEF CardPress

LEMMA TapUndoToastKeeps ==
  ASSUME CardInv, NEW t \in undoToasts, TapUndoToast(t)
  PROVE  CardInv' /\ undoToasts' \subseteq undoToasts
<1>1. t[1] \in CardPeople /\ undoToasts' \subseteq undoToasts
  BY DEF TapUndoToast, CardInv, CardTypeOK
<1>2. CASE t[2]
  <2>1. CardSends("undo", t[1]) /\ "undo" \in Mutations /\ "undo" # "checkin"
    BY <1>2 DEF TapUndoToast, Mutations
  <2> QED
    BY <1>1, <2>1, CardSendsKeeps
<1>3. CASE ~t[2]
  <2>1. CardTurn /\ orphans' = orphans \cup {<<"undo", t[1]>>}
        /\ UNCHANGED <<people, cardOf, detail, cardDialogs, sheetRefused, cardCalls>>
    BY <1>3 DEF TapUndoToast
  <2>2. cardTurns' \in 0..MaxCardTurns
    BY <2>1, CardTurnTyped DEF CardInv
  <2>3. orphans' \subseteq Mutations \X CardPeople
    BY <1>1, <2>1 DEF CardInv, CardTypeOK, Mutations
  <2> QED
    BY <1>1, <2>1, <2>2, <2>3 DEF CardInv, CardTypeOK, LiveOnSheet, MutationPending, SheetMounted, CardShows
<1> QED
  BY <1>2, <1>3

(* What a request does to a person leaves a person.                        *)
LEMMA AppliedToTyped ==
  ASSUME NEW m \in Mutations, NEW p \in Person
  PROVE  AppliedTo(m, p) \in Person
<1>1. /\ [p EXCEPT !.by = "card"] \in Person /\ [p EXCEPT !.by = "nobody"] \in Person
      /\ [p EXCEPT !.blocked = TRUE] \in Person /\ [p EXCEPT !.blocked = FALSE] \in Person
  BY DEF Person
<1>2. CASE m = "checkin"
  BY <1>1, <1>2 DEF AppliedTo
<1>3. CASE m = "undo"
  BY <1>1, <1>3 DEF AppliedTo
<1>4. CASE m = "block"
  BY <1>1, <1>4 DEF AppliedTo
<1>5. CASE m = "unblock"
  BY <1>1, <1>5 DEF AppliedTo
<1> QED
  BY <1>2, <1>3, <1>4, <1>5 DEF Mutations

LEMMA CallAppliesKeeps ==
  ASSUME CardInv, NEW m \in Mutations, CallApplies(m)
  PROVE  CardInv' /\ undoToasts' = undoToasts
<1> DEFINE a == cardCalls[m].who
           o == IF m = "checkin" THEN CheckinOutcome(people[a]) ELSE "none"
           call == [cardCalls[m] EXCEPT !.applied = TRUE, !.outcome = o]
<1>1. /\ cardCalls \in [Mutations -> CardCall] /\ people \in [CardPeople -> Person] /\ cardCalls[m] \in CardCall
      /\ "checkin" \in Mutations
  BY DEF CardInv, CardTypeOK, Mutations
<1>2. a \in CardPeople
  BY <1>1 DEF CallApplies, MutationPending, CardCall
<1>3. people' = [people EXCEPT ![a] = AppliedTo(m, people[a])]
  BY DEF CallApplies
<1>4. people' \in [CardPeople -> Person]
  <2>1. AppliedTo(m, people[a]) \in Person
    BY <1>1, <1>2, AppliedToTyped
  <2> QED
    BY <1>1, <1>3, <2>1
<1>5. o \in Outcomes
  BY DEF CheckinOutcome, Outcomes
<1>6. cardCalls' = [cardCalls EXCEPT ![m] = call]
  BY <1>1 DEF CallApplies
<1> HIDE DEF o
<1>7. call \in CardCall /\ call.who = cardCalls[m].who /\ call.moved = cardCalls[m].moved
  BY <1>1, <1>5, CardCallsTyped
<1> HIDE DEF call
<1>8. UNCHANGED <<cardOf, detail, cardDialogs, sheetRefused, orphans, undoToasts, cardTurns>>
  BY DEF CallApplies
<1>9. LiveOnSheet'
  <2>1. /\ cardCalls'["checkin"].who = cardCalls["checkin"].who
        /\ cardCalls'["checkin"].moved = cardCalls["checkin"].moved
    BY <1>1, <1>6, <1>7
  <2> QED
    BY <1>8, <2>1 DEF CardInv, LiveOnSheet, MutationPending, SheetMounted, CardShows
<1>10. cardCalls' \in [Mutations -> CardCall]
  BY <1>1, <1>6, <1>7
<1> QED
  BY <1>4, <1>8, <1>9, <1>10 DEF CardInv, CardTypeOK

LEMMA OrphanAppliesKeeps ==
  ASSUME CardInv, NEW o \in orphans, OrphanApplies(o)
  PROVE  CardInv' /\ undoToasts' = undoToasts
<1>1. o[1] \in Mutations /\ o[2] \in CardPeople /\ people \in [CardPeople -> Person]
  BY DEF CardInv, CardTypeOK
<1>2. people' = [people EXCEPT ![o[2]] = AppliedTo(o[1], people[o[2]])] /\ orphans' \subseteq orphans
      /\ UNCHANGED <<cardOf, detail, cardDialogs, sheetRefused, cardCalls, undoToasts, cardTurns>>
  BY <1>1 DEF OrphanApplies
<1>3. people' \in [CardPeople -> Person]
  <2>1. AppliedTo(o[1], people[o[2]]) \in Person
    BY <1>1, AppliedToTyped
  <2> QED
    BY <1>1, <1>2, <2>1
<1> QED
  BY <1>2, <1>3 DEF CardInv, CardTypeOK, LiveOnSheet, MutationPending, SheetMounted, CardShows

(* What a toast is about when an answer gives it.                          *)
ToastIsOfSheet(a) ==
  /\ "sheet" \in cardDialogs /\ SheetMounted
  /\ cardCalls["checkin"].who = a /\ (cardOf = a \/ cardCalls["checkin"].moved)

LEMMA CallAnswersKeeps ==
  ASSUME CardInv, NEW m \in Mutations, NEW ok \in BOOLEAN, CallAnswers(m, ok)
  PROVE  /\ CardInv'
         /\ \A a \in CardPeople : <<a, TRUE>> \in undoToasts' \ undoToasts => ToastIsOfSheet(a)
<1>1. /\ cardCalls \in [Mutations -> CardCall] /\ cardCalls[m] \in CardCall /\ "checkin" \in Mutations
      /\ sheetRefused \in BOOLEAN /\ undoToasts \subseteq CardPeople \X BOOLEAN
      /\ cardDialogs \subseteq {"sheet", "undo", "block"}
  BY DEF CardInv, CardTypeOK, Mutations
<1>2. /\ cardCalls' = [cardCalls EXCEPT ![m] = NoCall]
      /\ UNCHANGED <<people, cardOf, detail, orphans, cardTurns>>
  BY DEF CallAnswers
<1>3. cardCalls' \in [Mutations -> CardCall] /\ cardCalls[m].who \in CardPeople
  <2>1. cardCalls[m].who # NoPerson
    BY DEF CallAnswers, MutationPending
  <2>2. cardCalls[m].who \in CardPeople \cup {NoPerson}
    BY <1>1 DEF CardCall
  <2>3. NoCall \in CardCall
    BY CardCallsTyped
  <2> QED
    BY <1>1, <1>2, <2>1, <2>2, <2>3
<1>4. CASE m # "checkin"
  <2>1. cardDialogs' \in {cardDialogs, cardDialogs \ {m}} /\ UNCHANGED <<sheetRefused, undoToasts>>
    BY <1>4 DEF CallAnswers
  <2>2. m # "sheet" /\ cardCalls'["checkin"] = cardCalls["checkin"]
    BY <1>1, <1>2, <1>4 DEF Mutations
  <2>3. LiveOnSheet'
    BY <1>2, <2>1, <2>2 DEF CardInv, LiveOnSheet, MutationPending, SheetMounted, CardShows
  <2> QED
    BY <1>2, <1>3, <2>1, <2>3 DEF CardInv, CardTypeOK
<1>5. CASE m = "checkin"
  <2>1. LiveOnSheet'
    BY <1>1, <1>2, <1>5, CardCallsTyped DEF LiveOnSheet, MutationPending
  <2>2. sheetRefused' \in BOOLEAN /\ cardDialogs' \in {cardDialogs, cardDialogs \ {"sheet"}}
    BY <1>1, <1>5 DEF CallAnswers
  <2>3. undoToasts' \in {undoToasts, undoToasts \cup {<<cardCalls[m].who, TRUE>>}}
    BY <1>5 DEF CallAnswers
  <2>4. undoToasts' \subseteq CardPeople \X BOOLEAN
    <3>1. <<cardCalls[m].who, TRUE>> \in CardPeople \X BOOLEAN
      BY <1>3
    <3> QED
      BY <1>1, <2>3, <3>1
  <2>5. CardInv'
    BY <1>1, <1>2, <1>3, <2>1, <2>2, <2>4 DEF CardInv, CardTypeOK
  <2>6. ToastIsOfSheet(cardCalls[m].who)
    BY <1>5 DEF CardInv, LiveOnSheet, ToastIsOfSheet, CallAnswers
  <2> QED
    BY <2>3, <2>5, <2>6
<1> QED
  BY <1>4, <1>5

LEMMA CardWorldKeeps ==
  ASSUME CardInv, (\E t \in undoToasts : ToastExpires(t)) \/ (\E a \in CardPeople : OtherActs(a)) \/ UNCHANGED cardVars
  PROVE  CardInv' /\ undoToasts' \subseteq undoToasts
<1>1. UNCHANGED <<cardOf, detail, cardDialogs, sheetRefused, cardCalls, orphans>>
  BY DEF ToastExpires, OtherActs, cardVars
<1>2. undoToasts' \subseteq undoToasts /\ cardTurns' \in 0..MaxCardTurns
  BY CardTurnTyped DEF ToastExpires, OtherActs, cardVars, CardInv, CardTypeOK
<1>3. people' \in [CardPeople -> Person]
  <2>1. ASSUME NEW a \in CardPeople, OtherActs(a) PROVE people' \in [CardPeople -> Person]
    <3>1. people \in [CardPeople -> Person] /\ people[a] \in Person
      BY DEF CardInv, CardTypeOK
    <3>2. /\ [people[a] EXCEPT !.by = "other"] \in Person /\ [people[a] EXCEPT !.by = "nobody"] \in Person
          /\ [people[a] EXCEPT !.blocked = ~people[a].blocked] \in Person
      BY <3>1 DEF Person
    <3>3. \/ people' = [people EXCEPT ![a] = [people[a] EXCEPT !.by = "other"]]
          \/ people' = [people EXCEPT ![a] = [people[a] EXCEPT !.by = "nobody"]]
          \/ people' = [people EXCEPT ![a] = [people[a] EXCEPT !.blocked = ~people[a].blocked]]
      BY <2>1, <3>1 DEF OtherActs
    <3> QED
      BY <3>1, <3>2, <3>3
  <2>2. CASE UNCHANGED people
    BY <2>2 DEF CardInv, CardTypeOK
  <2> QED
    BY <2>1, <2>2 DEF ToastExpires, cardVars
<1> QED
  BY <1>1, <1>2, <1>3 DEF CardInv, CardTypeOK, LiveOnSheet, MutationPending, SheetMounted, CardShows

LEMMA CardKeeps ==
  ASSUME CardInv, [CardNext]_cardVars
  PROVE  /\ CardInv'
         /\ \A a \in CardPeople : <<a, TRUE>> \in undoToasts' \ undoToasts => ToastIsOfSheet(a)
<1>1. CASE \/ DetailArrives
           \/ \E d \in {"sheet", "undo", "block"} : OpenDialog(d) \/ CloseDialog(d)
           \/ \E a \in CardPeople : SwitchCard(a)
  BY <1>1, CardPageKeeps
<1>2. CASE ConfirmCheckin \/ ConfirmUndo \/ ConfirmBlock \/ PressUnblock
  BY <1>2, CardPressesKeep
<1>3. ASSUME NEW t \in undoToasts, TapUndoToast(t) PROVE CardInv' /\ undoToasts' \subseteq undoToasts
  BY <1>3, TapUndoToastKeeps
<1>4. ASSUME NEW m \in Mutations, CallApplies(m) PROVE CardInv' /\ undoToasts' = undoToasts
  BY <1>4, CallAppliesKeeps
<1>5. ASSUME NEW m \in Mutations, NEW ok \in BOOLEAN, CallAnswers(m, ok)
      PROVE  /\ CardInv'
             /\ \A a \in CardPeople : <<a, TRUE>> \in undoToasts' \ undoToasts => ToastIsOfSheet(a)
  BY <1>5, CallAnswersKeeps
<1>6. ASSUME NEW o \in orphans, OrphanApplies(o) PROVE CardInv' /\ undoToasts' = undoToasts
  BY <1>6, OrphanAppliesKeeps
<1>7. ASSUME NEW a \in CardPeople, ReopenCard(a)
      PROVE  CardInv' /\ \A b \in CardPeople : <<b, TRUE>> \notin undoToasts'
  BY <1>7, ReopenCardKeeps
<1>8. ASSUME NEW a \in CardPeople, DetailCollected(a) PROVE CardInv' /\ undoToasts' = undoToasts
  BY <1>8, DetailCollectedKeeps
<1>9. CASE (\E t \in undoToasts : ToastExpires(t)) \/ (\E a \in CardPeople : OtherActs(a)) \/ UNCHANGED cardVars
  BY <1>9, CardWorldKeeps
<1> QED
  BY <1>1, <1>2, <1>3, <1>4, <1>5, <1>6, <1>7, <1>8, <1>9 DEF CardNext

(* The invariant of the attendee's card, inductive: a check-in whose       *)
(* answer still counts was confirmed on the sheet that is open.            *)
THEOREM CardInvariance == CardSpec => []CardInv
  BY CardStarts, CardKeeps, PTL DEF CardSpec

(* A toast comes only while the sheet its check-in was confirmed on is     *)
(* open, and offers to undo the attendee confirmed there, who is on the    *)
(* card unless the card was changed under the open sheet.                  *)
THEOREM ToastsAreConfirmed == CardSpec => ToastsWereConfirmed
<1>1. CardInv /\ [CardNext]_cardVars =>
        [\A a \in CardPeople : <<a, TRUE>> \in undoToasts' \ undoToasts =>
           /\ "sheet" \in cardDialogs /\ SheetMounted
           /\ cardCalls["checkin"].who = a
           /\ cardOf = a \/ cardCalls["checkin"].moved]_cardVars
  BY CardKeeps DEF ToastIsOfSheet
<1> QED
  BY CardInvariance, <1>1, PTL DEF CardSpec, ToastsWereConfirmed

------------------------------------------------------------------------------
(* The attendee list and its bulk bar (AttendeeList).                      *)

(* A set of numbers has a least one.                                       *)
LEMMA LeastOf == ASSUME NEW S \in SUBSET Nat, S # {} PROVE \E a \in S : \A b \in S : a <= b
<1> DEFINE less == OpToRel(<, Nat)
<1>1. IsWellFoundedOn(less, Nat)
  BY NatLessThanWellFounded
<1>2. less = {ss \in Nat \X Nat : ss[1] < ss[2]}
  BY DEF OpToRel
<1> HIDE DEF less
<1>3. PICK a \in S : \A b \in S : <<b, a>> \notin less
  BY <1>1, WFMin
<1>4. \A b \in S : ~(b < a)
  BY <1>2, <1>3
<1> QED
  BY <1>3, <1>4

LEMMA PeopleCounted ==
  /\ People \subseteq Nat /\ IsFiniteSet(People)
  /\ \A S \in SUBSET People : IsFiniteSet(S) /\ Cardinality(S) \in Counts
<1>1. Roll \in Nat /\ People \subseteq Nat
  BY ListAssumption DEF People
<1>2. IsFiniteSet(People) /\ Cardinality(People) = Roll
  <2>1. IsFiniteSet(1..Roll) /\ Cardinality(1..Roll) = IF 1 > Roll THEN 0 ELSE Roll - 1 + 1
    BY <1>1, FS_Interval
  <2> QED
    BY <1>1, <2>1 DEF People
<1>3. ASSUME NEW S \in SUBSET People PROVE IsFiniteSet(S) /\ Cardinality(S) \in Counts
  <2>1. IsFiniteSet(S) /\ Cardinality(S) <= Roll
    BY <1>2, FS_Subset
  <2>2. Cardinality(S) \in Nat
    BY <2>1, FS_CardinalityType
  <2> QED
    BY <1>1, <2>1, <2>2 DEF Counts
<1> QED
  BY <1>1, <1>2, <1>3

(* The last page of a list of at most Roll rows is one of the pages.       *)
LEMMA LastPageIsAPage == ASSUME NEW total \in Counts PROVE LastPage(total) \in Pages
<1>1. Roll \in Nat /\ PerPage \in Nat /\ PerPage >= 1 /\ total \in Nat /\ total <= Roll
  BY ListAssumption DEF Counts
<1>2. CASE total = 0
  BY <1>1, <1>2 DEF LastPage, Pages
<1>3. CASE total >= 1
  <2> DEFINE q == (total + PerPage - 1) \div PerPage
  <2>1. q \in Nat /\ q >= 1 /\ PerPage * q <= total + PerPage - 1
    BY <1>1, <1>3
  <2> HIDE DEF q
  <2>2. q <= total
    <3> SUFFICES ASSUME q > total PROVE FALSE
      BY <1>1, <2>1
    <3>1. PICK k \in Nat : q = total + 1 + k
      <4>1. q - total - 1 \in Nat /\ q = total + 1 + (q - total - 1)
        BY <1>1, <2>1
      <4> QED
        BY <4>1
    <3>2. PerPage * q = PerPage * total + PerPage + PerPage * k
      BY <1>1, <3>1
    <3>3. PICK p \in Nat : PerPage = 1 + p
      <4>1. PerPage - 1 \in Nat /\ PerPage = 1 + (PerPage - 1)
        BY <1>1
      <4> QED
        BY <4>1
    <3>4. PerPage * total = total + p * total
      BY <1>1, <3>3
    <3>5. p * total \in Nat /\ PerPage * k \in Nat
      BY <1>1, <3>1, <3>3
    <3> QED
      BY <1>1, <2>1, <3>2, <3>4, <3>5
  <2>3. LastPage(total) = q
    BY <1>1, <1>3 DEF LastPage, q
  <2> QED
    BY <1>1, <2>1, <2>2, <2>3 DEF Pages
<1> QED
  BY <1>1, <1>2, <1>3

------------------------------------------------------------------------------
Sure == {"answered", "nothing", "unheard", "cut"}
Results == {"ok", "unmarked", "timeout", "failed"}
BatchStates == [kind : Kinds \cup {"none"}, of : SUBSET People, left : SUBSET People,
                waits : BOOLEAN, shown : BOOLEAN]
TallyStates == [kind : Kinds \cup {"none"}, of : Nat, done : Nat, failed : Nat, timedOut : Nat,
                unmarked : Nat, stopped : BOOLEAN]

ListTyped ==
  /\ roll \subseteq People /\ arrived \subseteq People /\ pickedRows \subseteq People
  /\ listUrl \in Url /\ fetching \in [on : BOOLEAN, total : 0..Unread]
  /\ listData \in [loaded : BOOLEAN, rows : SUBSET People, total : Counts]
  /\ listTurns \in 0..MaxListTurns

(* The bar on screen shows the batch that runs, in that batch's dialog; a  *)
(* batch the bar lost left no tally behind.                                *)
BatchOnScreen ==
  /\ bulkDialog \in Kinds \cup {"none"} /\ batch \in BatchStates /\ tally \in TallyStates
  /\ batch.shown => bulkDialog = batch.kind /\ tally.kind = batch.kind /\ batch.kind # "none"
  /\ batch.kind # "none" /\ ~batch.shown => tally = NoTally
  /\ tally.kind = "none" => tally = NoTally
  /\ batch.waits => batch.left = {}

(* What the loop may make of a request.                                    *)
Made(fate, result) ==
  /\ fate = "answered" <=> result \in {"ok", "unmarked"}
  /\ fate = "unheard" => result = "timeout"
  /\ fate = "cut" => result = "failed"

(* How many requests of the batch came to that.                            *)
Came(o) == Cardinality({a \in People : outcomes[a] = o})

(* What the tally counted is what happened.                                *)
TallyBooks ==
  /\ tally.done = tally.failed + tally.timedOut + Came("answered")
  /\ tally.done = Came("answered") + Came("nothing") + Came("unheard") + Came("cut")
  /\ Came("unheard") <= tally.timedOut /\ Came("cut") <= tally.failed
  /\ tally.unmarked <= Came("answered")
  /\ tally.done <= tally.of /\ tally.of <= Roll
  /\ ~tally.stopped => tally.of = tally.done + (IF batch.shown THEN Cardinality(batch.left) ELSE 0)

OutcomesTyped ==
  /\ outcomes \in [People -> Fates]
  /\ \A a \in batch.left : outcomes[a] = "none"

ListInv ==
  /\ ListTyped /\ BatchOnScreen /\ OutcomesTyped
  /\ tally.kind # "none" => TallyBooks
  /\ batch.shown /\ tally.stopped => batch.left = {}

LEMMA ListStarts == ListInit => ListInv
<1> SUFFICES ASSUME ListInit PROVE ListInv
  OBVIOUS
<1>1. ListTyped
  BY ListAssumption DEF ListInit, ListTyped, Url, Pages, Unread, NoData, Counts
<1>2. BatchOnScreen /\ ~batch.shown /\ batch.left = {} /\ tally.kind = "none"
  BY DEF ListInit, BatchOnScreen, NoBatch, NoTally, BatchStates, TallyStates
<1>3. OutcomesTyped
  BY <1>2 DEF ListInit, OutcomesTyped, Fates
<1> QED
  BY <1>1, <1>2, <1>3 DEF ListInv

(* Moves of the page leave batch and tally alone, or lose the bar.         *)
LEMMA BarKeeps ==
  ASSUME ListInv, ListTyped', BarEffects \/ UNCHANGED <<bulkDialog, batch, tally>>, UNCHANGED outcomes
  PROVE  ListInv'
<1>1. CASE UNCHANGED <<bulkDialog, batch, tally>>
  <2>1. BatchOnScreen' /\ OutcomesTyped'
    BY <1>1 DEF ListInv, BatchOnScreen, OutcomesTyped
  <2>2. TallyBooks => TallyBooks'
    BY <1>1 DEF TallyBooks, Came
  <2> QED
    BY <1>1, <2>1, <2>2 DEF ListInv
<1>2. CASE bulkDialog' = "none" /\ tally' = NoTally /\ batch' = [batch EXCEPT !.shown = FALSE]
  <2>1. batch \in BatchStates
    BY DEF ListInv, BatchOnScreen
  <2>2. /\ batch' \in BatchStates /\ ~batch'.shown /\ batch'.left = batch.left
        /\ tally' \in TallyStates /\ tally'.kind = "none"
    BY <1>2, <2>1 DEF BatchStates, TallyStates, NoTally
  <2>3. BatchOnScreen' /\ OutcomesTyped'
    BY <1>2, <2>2 DEF ListInv, BatchOnScreen, OutcomesTyped
  <2> QED
    BY <2>2, <2>3 DEF ListInv
<1> QED
  BY <1>1, <1>2 DEF BarEffects

LEMMA GoToTyped ==
  ASSUME ListTyped, NEW url \in Url, GoTo(url), UNCHANGED <<roll, arrived>>, listTurns' \in 0..MaxListTurns
  PROVE  ListTyped' /\ BarEffects
<1>1. NoData \in [loaded : BOOLEAN, rows : SUBSET People, total : Counts]
  BY ListAssumption DEF NoData, Counts
<1>2. [on |-> TRUE, total |-> Unread] \in [on : BOOLEAN, total : 0..Unread]
  BY ListAssumption DEF Unread
<1> QED
  BY <1>1, <1>2 DEF GoTo, ListTyped

LEMMA HitsCounted == ASSUME ListTyped PROVE Hits \subseteq People /\ Cardinality(Hits) \in Counts
<1>1. Hits \subseteq People
  BY DEF Hits, ListTyped
<1> QED
  BY <1>1, PeopleCounted

LEMMA PageMovesKeep ==
  ASSUME ListInv,
         \/ \E page \in Pages : GoToPage(page)
         \/ \E url \in Url : BrowserBack(url)
         \/ UpdateFilter \/ ClampPage
  PROVE  ListInv'
<1>1. /\ ListTyped /\ listUrl \in Url /\ listTurns \in 0..MaxListTurns /\ listData.total \in Counts
      /\ listUrl.filtered \in BOOLEAN
  BY DEF ListInv, ListTyped, Url
<1>2. ListTurn => listTurns' \in 0..MaxListTurns
  BY <1>1, ListAssumption DEF ListTurn
<1>3. 1 \in Pages
  BY ListAssumption DEF Pages
<1>4. \A page \in Pages : [listUrl EXCEPT !.page = page] \in Url
  BY <1>1 DEF Url
<1>5. LastPage(listData.total) \in Pages
  BY <1>1, LastPageIsAPage
<1>6. [page |-> 1, filtered |-> ~listUrl.filtered] \in Url
  BY <1>3 DEF Url
<1>7. PICK url \in Url : GoTo(url) /\ UNCHANGED <<roll, arrived, outcomes>> /\ listTurns' \in 0..MaxListTurns
  <2>1. CASE \E page \in Pages : GoToPage(page)
    BY <1>2, <1>4, <2>1 DEF GoToPage
  <2>2. CASE \E url \in Url : BrowserBack(url)
    BY <1>2, <2>2 DEF BrowserBack
  <2>3. CASE UpdateFilter
    BY <1>2, <1>6, <2>3 DEF UpdateFilter
  <2>4. CASE ClampPage
    BY <1>1, <1>4, <1>5, <2>4 DEF ClampPage
  <2> QED
    BY <2>1, <2>2, <2>3, <2>4
<1> QED
  BY <1>1, <1>7, GoToTyped, BarKeeps

LEMMA FetchesKeep ==
  ASSUME ListInv, CountRead \/ RowsRead \/ RefetchPage PROVE ListInv'
<1>1. /\ ListTyped /\ fetching \in [on : BOOLEAN, total : 0..Unread] /\ listTurns \in 0..MaxListTurns
      /\ Roll \in Nat /\ Unread = Roll + 1
  BY ListAssumption DEF ListInv, ListTyped, Unread
<1>2. Hits \subseteq People /\ Cardinality(Hits) \in 0..Unread
  BY <1>1, HitsCounted DEF Counts
<1>3. CASE CountRead
  <2>1. fetching' \in [on : BOOLEAN, total : 0..Unread]
    BY <1>1, <1>2, <1>3 DEF CountRead
  <2>2. ListTyped'
    BY <1>1, <1>3, <2>1 DEF CountRead, ListTyped
  <2> QED
    BY <1>3, <2>2, BarKeeps DEF CountRead
<1>4. CASE RowsRead
  <2>1. fetching.total = Unread \/ fetching.total \in Counts
    BY <1>1 DEF Counts
  <2>2. PageRows(listUrl.page) \subseteq People
    BY <1>2 DEF PageRows
  <2>3. listData' \in [loaded : BOOLEAN, rows : SUBSET People, total : Counts]
    <3>1. NoData \in [loaded : BOOLEAN, rows : SUBSET People, total : Counts]
      BY <1>1 DEF NoData, Counts
    <3>2. CASE listData' = NoData
      BY <3>1, <3>2
    <3>3. CASE /\ fetching.total # Unread
               /\ listData' = [loaded |-> TRUE, rows |-> PageRows(listUrl.page), total |-> fetching.total]
      BY <2>1, <2>2, <3>3
    <3> QED
      BY <1>4, <3>2, <3>3 DEF RowsRead
  <2>5. fetching' \in [on : BOOLEAN, total : 0..Unread]
    BY <1>1, <1>4 DEF RowsRead
  <2>4. ListTyped'
    BY <1>1, <1>4, <2>3, <2>5 DEF RowsRead, ListTyped
  <2> QED
    BY <1>4, <2>4, BarKeeps DEF RowsRead
<1>5. CASE RefetchPage
  <2>1. listTurns' \in 0..MaxListTurns /\ fetching' \in [on : BOOLEAN, total : 0..Unread]
    BY <1>1, <1>5, ListAssumption DEF RefetchPage, ListTurn
  <2>2. ListTyped'
    BY <1>1, <1>5, <2>1 DEF RefetchPage, ListTyped
  <2> QED
    BY <1>5, <2>2, BarKeeps DEF RefetchPage
<1> QED
  BY <1>3, <1>4, <1>5

LEMMA RowMovesKeep ==
  ASSUME ListInv, ToggleAll \/ \E a \in People : ToggleRow(a) \/ OthersAct(a) PROVE ListInv'
<1>1. /\ ListTyped /\ listTurns \in 0..MaxListTurns /\ pickedRows \subseteq People
      /\ listData.rows \subseteq People /\ roll \subseteq People /\ arrived \subseteq People
  BY DEF ListInv, ListTyped
<1>2. ListTurn => listTurns' \in 0..MaxListTurns
  BY <1>1, ListAssumption DEF ListTurn
<1>3. CASE ToggleAll \/ \E a \in People : ToggleRow(a)
  <2>1. /\ pickedRows' \subseteq People /\ listTurns' \in 0..MaxListTurns /\ BarEffects
        /\ UNCHANGED <<roll, arrived, listUrl, fetching, listData, outcomes>>
    BY <1>1, <1>2, <1>3 DEF ToggleAll, ToggleRow
  <2>2. ListTyped'
    BY <1>1, <2>1 DEF ListTyped
  <2> QED
    BY <2>1, <2>2, BarKeeps
<1>4. CASE \E a \in People : OthersAct(a)
  <2>1. /\ roll' \subseteq People /\ arrived' \subseteq People /\ listTurns' \in 0..MaxListTurns
        /\ UNCHANGED <<listUrl, fetching, listData, pickedRows, bulkDialog, batch, tally, outcomes>>
    BY <1>1, <1>2, <1>4 DEF OthersAct
  <2>2. ListTyped'
    BY <1>1, <2>1 DEF ListTyped
  <2> QED
    BY <2>1, <2>2, BarKeeps
<1> QED
  BY <1>3, <1>4

------------------------------------------------------------------------------
(* The dialogs clear a tally only when no batch is on screen.              *)
LEMMA DialogsKeep ==
  ASSUME ListInv, CloseBulk \/ \E k \in Kinds : OpenBulk(k) PROVE ListInv'
<1>1. /\ tally' = NoTally /\ bulkDialog' \in Kinds \cup {"none"}
      /\ UNCHANGED <<roll, arrived, listUrl, fetching, listData, pickedRows, batch, outcomes, listTurns>>
  BY DEF CloseBulk, CloseAssign, CloseDelete, ClosePrint, OpenBulk
<1>2. BatchOnScreen /\ batch \in BatchStates
  BY DEF ListInv, BatchOnScreen
<1>3. ~batch.shown
  BY <1>2 DEF BatchOnScreen, CloseBulk, CloseAssign, CloseDelete, ClosePrint, OpenBulk, Running
<1>4. NoTally \in TallyStates /\ NoTally.kind = "none"
  BY DEF NoTally, TallyStates
<1>5. ListTyped' /\ OutcomesTyped' /\ BatchOnScreen'
  BY <1>1, <1>2, <1>3, <1>4 DEF ListInv, ListTyped, OutcomesTyped, BatchOnScreen
<1> QED
  BY <1>1, <1>3, <1>4, <1>5 DEF ListInv

LEMMA NobodyCame ==
  ASSUME outcomes' = [a \in People |-> "none"], NEW o \in Sure PROVE Came(o)' = 0
<1>1. {a \in People : outcomes'[a] = o} = {}
  BY DEF Sure
<1> QED
  BY <1>1, FS_EmptySet DEF Came

LEMMA StartBatchKeeps == ASSUME ListInv, StartBatch PROVE ListInv'
<1>1. /\ bulkDialog # "none" /\ batch.kind = "none"
      /\ batch' = [kind |-> bulkDialog, of |-> Selected, left |-> Selected, waits |-> FALSE, shown |-> TRUE]
      /\ tally' = [NoTally EXCEPT !.kind = bulkDialog, !.of = Cardinality(Selected)]
      /\ outcomes' = [a \in People |-> "none"]
      /\ UNCHANGED <<roll, arrived, listUrl, fetching, listData, pickedRows, bulkDialog, listTurns>>
  BY DEF StartBatch
<1>2. ListTyped /\ bulkDialog \in Kinds \cup {"none"} /\ pickedRows \subseteq People
  BY DEF ListInv, ListTyped, BatchOnScreen
<1>3. Selected \subseteq People /\ Cardinality(Selected) \in Nat /\ Cardinality(Selected) <= Roll
  <2>1. Selected \subseteq People
    BY <1>2 DEF Selected
  <2>2. Cardinality(Selected) \in Counts
    BY <2>1, PeopleCounted
  <2> QED
    BY <2>1, <2>2, ListAssumption DEF Counts
<1>4. /\ batch' \in BatchStates /\ batch'.kind = bulkDialog /\ batch'.shown /\ batch'.left = Selected
      /\ tally' \in TallyStates /\ tally'.kind = bulkDialog /\ tally'.of = Cardinality(Selected)
      /\ tally'.done = 0 /\ tally'.failed = 0 /\ tally'.timedOut = 0 /\ tally'.unmarked = 0
      /\ ~tally'.stopped
  BY <1>1, <1>2, <1>3 DEF BatchStates, TallyStates, NoTally
<1>5. BatchOnScreen' /\ OutcomesTyped' /\ ListTyped'
  BY <1>1, <1>2, <1>3, <1>4 DEF BatchOnScreen, OutcomesTyped, ListTyped, Fates
<1>6. Came("answered")' = 0 /\ Came("nothing")' = 0 /\ Came("unheard")' = 0 /\ Came("cut")' = 0
  BY <1>1, NobodyCame DEF Sure
<1>7. TallyBooks'
  BY <1>3, <1>4, <1>6 DEF TallyBooks
<1> QED
  BY <1>4, <1>5, <1>7 DEF ListInv

(* One more attendee of the batch came to its outcome.                     *)
LEMMA OneMoreCame ==
  ASSUME outcomes \in [People -> Fates], NEW a \in People, outcomes[a] = "none",
         NEW fate \in Sure, outcomes' = [outcomes EXCEPT ![a] = fate], NEW o \in Sure
  PROVE  Came(o) \in Nat /\ Came(o)' = IF o = fate THEN Came(o) + 1 ELSE Came(o)
<1> DEFINE before == {b \in People : outcomes[b] = o}
           after  == {b \in People : outcomes'[b] = o}
<1>1. IsFiniteSet(before) /\ Cardinality(before) \in Nat /\ a \notin before
  BY PeopleCounted, ListAssumption DEF Counts, Sure
<1>2. after = IF o = fate THEN before \cup {a} ELSE before
  BY DEF Sure
<1>3. Came(o) = Cardinality(before) /\ Came(o)' = Cardinality(after)
  BY DEF Came
<1> HIDE DEF before, after
<1>4. Cardinality(before \cup {a}) = Cardinality(before) + 1
  BY <1>1, FS_AddElement
<1> QED
  BY <1>1, <1>2, <1>3, <1>4

LEMMA BatchStepKeeps ==
  ASSUME ListInv, NEW fate \in Sure, NEW result \in Results, BatchStep(fate, result) PROVE ListInv'
<1>1. /\ batch.left # {} /\ batch' = [batch EXCEPT !.left = @ \ {NextOf}]
      /\ outcomes' = [outcomes EXCEPT ![NextOf] = fate] /\ Made(fate, result)
      /\ CountOutcome(result) /\ batch.kind # "none" /\ roll' \subseteq roll
      /\ UNCHANGED <<arrived, listUrl, fetching, listData, pickedRows, bulkDialog, listTurns>>
  BY DEF BatchStep, AssignOne, DeleteOne, PrintOne, Made, Results, Sure
<1>2. /\ ListTyped /\ BatchOnScreen /\ OutcomesTyped /\ batch \in BatchStates /\ tally \in TallyStates
      /\ batch.left \subseteq People
  BY DEF ListInv, BatchOnScreen, BatchStates
<1>3. NextOf \in batch.left
  <2>1. \E a \in batch.left : \A b \in batch.left : a <= b
    BY <1>1, <1>2, PeopleCounted, LeastOf
  <2> QED
    BY <2>1 DEF NextOf
<1>4. PICK a \in People : a = NextOf
  BY <1>2, <1>3
<1>5. outcomes[a] = "none" /\ outcomes \in [People -> Fates] /\ a \in batch.left
  BY <1>2, <1>3, <1>4 DEF OutcomesTyped
<1>6. /\ batch' \in BatchStates /\ batch'.left = batch.left \ {a} /\ batch'.kind = batch.kind
      /\ batch'.shown = batch.shown
  BY <1>1, <1>2, <1>4 DEF BatchStates
<1>7. ListTyped'
  BY <1>1, <1>2 DEF ListTyped
<1>8. OutcomesTyped'
  BY <1>1, <1>2, <1>4, <1>6 DEF OutcomesTyped, Fates, Sure
<1>9. CASE ~batch.shown
  <2>1. tally' = tally /\ tally = NoTally /\ tally.kind = "none"
    BY <1>1, <1>2, <1>9 DEF CountOutcome, BatchOnScreen, NoTally
  <2>2. BatchOnScreen'
    BY <1>1, <1>2, <1>6, <1>9, <2>1 DEF BatchOnScreen
  <2> QED
    BY <1>6, <1>7, <1>8, <1>9, <2>1, <2>2 DEF ListInv
<1>10. CASE batch.shown
  <2>1. /\ tally.kind = batch.kind /\ TallyBooks /\ ~tally.stopped
    BY <1>1, <1>2, <1>10 DEF ListInv, BatchOnScreen, TallyStates
  <2>2. tally' = [tally EXCEPT !.done = @ + 1,
                   !.failed = IF result = "failed" THEN @ + 1 ELSE @,
                   !.timedOut = IF result = "timeout" THEN @ + 1 ELSE @,
                   !.unmarked = IF result = "unmarked" THEN @ + 1 ELSE @]
    BY <1>1, <1>10 DEF CountOutcome
  <2>3. /\ tally' \in TallyStates /\ tally'.kind = tally.kind /\ tally'.of = tally.of
        /\ tally'.stopped = tally.stopped /\ tally'.done = tally.done + 1
        /\ tally'.failed = (IF result = "failed" THEN tally.failed + 1 ELSE tally.failed)
        /\ tally'.timedOut = (IF result = "timeout" THEN tally.timedOut + 1 ELSE tally.timedOut)
        /\ tally'.unmarked = (IF result = "unmarked" THEN tally.unmarked + 1 ELSE tally.unmarked)
    <3> DEFINE f == IF result = "failed" THEN tally.failed + 1 ELSE tally.failed
               t == IF result = "timeout" THEN tally.timedOut + 1 ELSE tally.timedOut
               u == IF result = "unmarked" THEN tally.unmarked + 1 ELSE tally.unmarked
    <3>1. f \in Nat /\ t \in Nat /\ u \in Nat /\ tally.done + 1 \in Nat
      BY <1>2 DEF TallyStates
    <3>2. tally' = [tally EXCEPT !.done = tally.done + 1, !.failed = f, !.timedOut = t, !.unmarked = u]
      BY <1>2, <2>2 DEF TallyStates
    <3> HIDE DEF f, t, u
    <3>3. /\ tally' \in TallyStates /\ tally'.kind = tally.kind /\ tally'.of = tally.of
          /\ tally'.stopped = tally.stopped /\ tally'.done = tally.done + 1
          /\ tally'.failed = f /\ tally'.timedOut = t /\ tally'.unmarked = u
      BY <1>2, <3>1, <3>2 DEF TallyStates
    <3> QED
      BY <3>3 DEF f, t, u
  <2>4. BatchOnScreen'
    BY <1>1, <1>2, <1>6, <1>10, <2>1, <2>3 DEF BatchOnScreen
  <2>5. \A o \in Sure : Came(o) \in Nat /\ Came(o)' = IF o = fate THEN Came(o) + 1 ELSE Came(o)
    BY <1>1, <1>4, <1>5, OneMoreCame
  <2>6. Cardinality(batch.left \ {a}) = Cardinality(batch.left) - 1 /\ Cardinality(batch.left) \in Nat
    <3>1. IsFiniteSet(batch.left) /\ Cardinality(batch.left) \in Nat
      BY <1>2, PeopleCounted, ListAssumption DEF Counts
    <3> QED
      BY <1>5, <3>1, FS_RemoveElement
  <2>7. TallyBooks'
    <3>1. tally.of \in Nat /\ tally.done \in Nat
      BY <1>2 DEF TallyStates
    <3>2. /\ Came("answered") \in Nat /\ Came("nothing") \in Nat /\ Came("unheard") \in Nat
          /\ Came("cut") \in Nat /\ tally.failed \in Nat /\ tally.timedOut \in Nat /\ tally.unmarked \in Nat
      BY <1>2, <2>5 DEF Sure, TallyStates
    <3>3. /\ Came("answered")' = Came("answered") + (IF fate = "answered" THEN 1 ELSE 0)
          /\ Came("nothing")' = Came("nothing") + (IF fate = "nothing" THEN 1 ELSE 0)
          /\ Came("unheard")' = Came("unheard") + (IF fate = "unheard" THEN 1 ELSE 0)
          /\ Came("cut")' = Came("cut") + (IF fate = "cut" THEN 1 ELSE 0)
      BY <2>5, <3>2 DEF Sure
    <3>4. /\ tally'.done = tally'.failed + tally'.timedOut + Came("answered")'
          /\ tally'.done = Came("answered")' + Came("nothing")' + Came("unheard")' + Came("cut")'
          /\ Came("unheard")' <= tally'.timedOut /\ Came("cut")' <= tally'.failed
          /\ tally'.unmarked <= Came("answered")'
      BY <1>1, <2>1, <2>3, <3>1, <3>2, <3>3 DEF TallyBooks, Made, Results, Sure
    <3>5. tally'.of = tally'.done + Cardinality(batch'.left)
      BY <1>6, <1>10, <2>1, <2>3, <2>6, <3>1 DEF TallyBooks
    <3>6. Cardinality(batch'.left) \in Nat /\ tally'.done \in Nat
      BY <1>5, <1>6, <2>3, <2>6, <3>1, FS_EmptySet, PeopleCounted, ListAssumption DEF BatchStates, Counts
    <3>7. tally'.done <= tally'.of /\ tally'.of <= Roll
      BY <2>1, <2>3, <3>1, <3>5, <3>6 DEF TallyBooks
    <3> QED
      BY <1>6, <1>10, <3>4, <3>5, <3>7 DEF TallyBooks
  <2>8. ~tally'.stopped
    BY <2>1, <2>3
  <2> QED
    BY <1>7, <1>8, <2>4, <2>7, <2>8 DEF ListInv
<1> QED
  BY <1>9, <1>10

LEMMA PrintStopsKeeps == ASSUME ListInv, PrintStops PROVE ListInv'
<1>1. /\ batch.kind = "print" /\ batch' = [batch EXCEPT !.left = {}]
      /\ tally' = (IF batch.shown THEN [tally EXCEPT !.stopped = TRUE] ELSE tally)
      /\ UNCHANGED <<roll, arrived, listUrl, fetching, listData, pickedRows, bulkDialog, outcomes, listTurns>>
  BY DEF PrintStops
<1>2. ListTyped /\ BatchOnScreen /\ OutcomesTyped /\ batch \in BatchStates /\ tally \in TallyStates
  BY DEF ListInv, BatchOnScreen
<1>3. /\ batch' \in BatchStates /\ batch'.left = {} /\ batch'.kind = batch.kind /\ batch'.shown = batch.shown
  BY <1>1, <1>2 DEF BatchStates
<1>4. /\ tally' \in TallyStates /\ tally'.kind = tally.kind /\ tally'.of = tally.of
      /\ tally'.done = tally.done /\ tally'.failed = tally.failed /\ tally'.timedOut = tally.timedOut
      /\ tally'.unmarked = tally.unmarked
      /\ (batch.shown => tally'.stopped) /\ (~batch.shown => tally' = tally)
  BY <1>1, <1>2 DEF TallyStates
<1>5. ListTyped' /\ OutcomesTyped'
  BY <1>1, <1>2, <1>3 DEF ListTyped, OutcomesTyped
<1>6. BatchOnScreen'
  <2>1. tally'.kind = "none" => tally' = NoTally
    BY <1>2, <1>4, <1>1 DEF BatchOnScreen
  <2> QED
    BY <1>1, <1>2, <1>3, <1>4, <2>1 DEF BatchOnScreen
<1>7. tally'.kind # "none" => TallyBooks'
  <2>1. Came("answered")' = Came("answered") /\ Came("nothing")' = Came("nothing")
        /\ Came("unheard")' = Came("unheard") /\ Came("cut")' = Came("cut")
    BY <1>1 DEF Came
  <2>2. tally'.kind # "none" => batch.shown
    BY <1>1, <1>2, <1>4 DEF BatchOnScreen, NoTally
  <2> QED
    BY <1>4, <2>1, <2>2 DEF ListInv, TallyBooks
<1> QED
  BY <1>3, <1>5, <1>6, <1>7 DEF ListInv

LEMMA BatchEndsKeep == ASSUME ListInv, BatchInvalidates \/ BatchEnds PROVE ListInv'
<1>1. /\ ListTyped /\ BatchOnScreen /\ OutcomesTyped /\ batch \in BatchStates /\ tally \in TallyStates
      /\ Roll \in Nat /\ fetching \in [on : BOOLEAN, total : 0..Unread]
  BY ListAssumption DEF ListInv, BatchOnScreen, ListTyped
<1>2. Came("answered")' = Came("answered") /\ Came("nothing")' = Came("nothing")
      /\ Came("unheard")' = Came("unheard") /\ Came("cut")' = Came("cut")
  BY DEF Came, BatchInvalidates, BatchEnds
<1>3. CASE BatchInvalidates
  <2>1. /\ batch' = [batch EXCEPT !.waits = TRUE] /\ fetching' \in {fetching, [on |-> TRUE, total |-> Unread]}
        /\ UNCHANGED <<roll, arrived, listUrl, listData, pickedRows, bulkDialog, tally, outcomes, listTurns>>
    BY <1>3 DEF BatchInvalidates
  <2>2. /\ batch' \in BatchStates /\ batch'.left = batch.left /\ batch'.kind = batch.kind
        /\ batch'.shown = batch.shown
    BY <1>1, <2>1 DEF BatchStates
  <2>6. batch.left = {}
    BY <1>3 DEF BatchInvalidates
  <2>3. fetching' \in [on : BOOLEAN, total : 0..Unread]
    <3>1. [on |-> TRUE, total |-> Unread] \in [on : BOOLEAN, total : 0..Unread]
      BY <1>1 DEF Unread
    <3> QED
      BY <1>1, <2>1, <3>1
  <2>4. ListTyped' /\ OutcomesTyped' /\ BatchOnScreen'
    BY <1>1, <2>1, <2>2, <2>3, <2>6 DEF ListTyped, OutcomesTyped, BatchOnScreen
  <2>5. TallyBooks => TallyBooks'
    BY <1>2, <2>1, <2>2 DEF TallyBooks
  <2> QED
    BY <2>1, <2>2, <2>4, <2>5 DEF ListInv
<1>4. CASE BatchEnds
  <2>1. /\ batch.waits /\ batch' = NoBatch /\ bulkDialog' \in {bulkDialog, "none"}
        /\ UNCHANGED <<roll, arrived, listUrl, fetching, listData, pickedRows, tally, outcomes, listTurns>>
    BY <1>4 DEF BatchEnds
  <2>2. batch' \in BatchStates /\ batch'.left = {} /\ ~batch'.shown /\ batch'.kind = "none"
    BY <2>1 DEF NoBatch, BatchStates
  <2>3. ListTyped' /\ OutcomesTyped' /\ BatchOnScreen'
    BY <1>1, <2>1, <2>2 DEF ListTyped, OutcomesTyped, BatchOnScreen
  <2>4. tally.kind # "none" => TallyBooks'
    <3>1. Cardinality(batch.left) = 0
      BY <1>1, <2>1, FS_EmptySet DEF BatchOnScreen
    <3> QED
      BY <1>2, <2>1, <2>2, <3>1 DEF ListInv, TallyBooks, TallyStates
  <2> QED
    BY <2>1, <2>2, <2>3, <2>4 DEF ListInv
<1> QED
  BY <1>3, <1>4

(* The invariant of the list, inductive: while a batch's bar is on screen  *)
(* its tally is the census of what happened, and what is left of it has    *)
(* no outcome yet.                                                         *)
THEOREM ListInvariance == ListSpec => []ListInv
<1>1. ASSUME ListInv, [ListNext]_listVars PROVE ListInv'
  <2>1. CASE \/ \E page \in Pages : GoToPage(page)
             \/ \E url \in Url : BrowserBack(url)
             \/ UpdateFilter \/ ClampPage
    BY <1>1, <2>1, PageMovesKeep
  <2>2. CASE CountRead \/ RowsRead \/ RefetchPage
    BY <1>1, <2>2, FetchesKeep
  <2>3. CASE ToggleAll \/ \E a \in People : ToggleRow(a) \/ OthersAct(a)
    BY <1>1, <2>3, RowMovesKeep
  <2>4. CASE CloseBulk \/ \E k \in Kinds : OpenBulk(k)
    BY <1>1, <2>4, DialogsKeep
  <2>5. CASE StartBatch
    BY <1>1, <2>5, StartBatchKeeps
  <2>6. CASE PrintStops
    BY <1>1, <2>6, PrintStopsKeeps
  <2>7. CASE BatchInvalidates \/ BatchEnds
    BY <1>1, <2>7, BatchEndsKeep
  <2>8. CASE \E fate \in Fates \ {"none"}, result \in {"ok", "unmarked", "timeout", "failed"} :
               BatchStep(fate, result)
    BY <1>1, <2>8, BatchStepKeeps DEF Results, Fates, Sure
  <2>9. CASE UNCHANGED listVars
    <3>1. ListTyped'
      BY <1>1, <2>9 DEF listVars, ListInv, ListTyped
    <3> QED
      BY <1>1, <2>9, <3>1, BarKeeps DEF listVars
  <2> QED
    BY <1>1, <2>1, <2>2, <2>3, <2>4, <2>5, <2>6, <2>7, <2>8, <2>9 DEF ListNext
<1> QED
  BY <1>1, ListStarts, PTL DEF ListSpec

(* The bulk print dialog tells the truth for a selection of any size: it   *)
(* says sent of the badges the agent acknowledged and of no other, and a   *)
(* badge that outlived the wait for it is never among the failed.          *)
THEOREM BulkTallyHonest == ListSpec => []TallyHonest
<1>1. ListInv => TallyHonest
  <2> SUFFICES ASSUME ListInv, tally.kind = "print", batch.kind = "none"
               PROVE  /\ Sent(tally) = With({"answered"})
                      /\ With({"unheard"}) <= tally.timedOut
                      /\ With({"cut"}) <= tally.failed /\ tally.failed <= With({"cut", "nothing"})
    BY DEF TallyHonest
  <2>1. TallyBooks /\ ~batch.shown /\ tally \in TallyStates
    BY DEF ListInv, BatchOnScreen
  <2> DEFINE cut == {a \in People : outcomes[a] = "cut"}
             nil == {a \in People : outcomes[a] = "nothing"}
  <2>2. /\ IsFiniteSet(cut) /\ IsFiniteSet(nil) /\ cut \cap nil = {}
        /\ \A o \in Sure : Came(o) \in Nat
    <3>1. \A S \in SUBSET People : IsFiniteSet(S) /\ Cardinality(S) \in Nat
      BY PeopleCounted, ListAssumption DEF Counts
    <3> QED
      BY <3>1 DEF Came
  <2>3. Cardinality(cut \cup nil) = Cardinality(cut) + Cardinality(nil) - Cardinality(cut \cap nil)
    BY <2>2, FS_Union
  <2>4. Cardinality(cut \cap nil) = 0
    BY <2>2, FS_EmptySet
  <2>5. Cardinality(cut) = Came("cut") /\ Cardinality(nil) = Came("nothing")
    BY DEF Came
  <2>6. With({"cut", "nothing"}) = Cardinality(cut \cup nil)
    <3>1. {a \in People : outcomes[a] \in {"cut", "nothing"}} = cut \cup nil
      OBVIOUS
    <3> QED
      BY <3>1 DEF With
  <2>7. ASSUME NEW o PROVE With({o}) = Came(o)
    <3>1. {a \in People : outcomes[a] \in {o}} = {a \in People : outcomes[a] = o}
      OBVIOUS
    <3> QED
      BY <3>1 DEF With, Came
  <2> HIDE DEF cut, nil
  <2>8. Sent(tally) = tally.done - tally.failed - tally.timedOut
    <3>1. ~tally.stopped => tally.of = tally.done + 0
      BY <2>1 DEF TallyBooks
    <3>2. tally.of \in Nat /\ tally.done \in Nat /\ tally.stopped \in BOOLEAN
      BY <2>1 DEF TallyStates
    <3> QED
      BY <3>1, <3>2 DEF Sent
  <2>9. /\ Came("answered") \in Nat /\ Came("nothing") \in Nat /\ Came("unheard") \in Nat
        /\ Came("cut") \in Nat /\ tally.failed \in Nat /\ tally.timedOut \in Nat /\ tally.done \in Nat
    BY <2>1, <2>2 DEF Sure, TallyStates
  <2>10. /\ Sent(tally) = Came("answered") /\ Came("unheard") <= tally.timedOut
         /\ Came("cut") <= tally.failed /\ tally.failed <= Came("cut") + Came("nothing")
    BY <2>1, <2>8, <2>9 DEF TallyBooks
  <2>11. With({"cut", "nothing"}) = Came("cut") + Came("nothing")
    BY <2>3, <2>4, <2>5, <2>6, <2>9
  <2> QED
    BY <2>7, <2>10, <2>11
<1> QED
  BY <1>1, ListInvariance, PTL

LEMMA ListTypes == ListInv => ListTypeOK
<1> SUFFICES ASSUME ListInv PROVE ListTypeOK
  OBVIOUS
<1>1. ListTyped /\ BatchOnScreen /\ OutcomesTyped /\ tally \in TallyStates /\ Roll \in Nat
  BY ListAssumption DEF ListInv, BatchOnScreen
<1>2. /\ tally.of \in Counts /\ tally.done \in Counts /\ tally.failed \in Counts
      /\ tally.timedOut \in Counts /\ tally.unmarked \in Counts
  <2>1. CASE tally.kind = "none"
    BY <1>1, <2>1 DEF BatchOnScreen, NoTally, Counts
  <2>2. CASE tally.kind # "none"
    <3>1. \A o \in Sure : Came(o) \in Nat
      BY PeopleCounted, ListAssumption DEF Came, Counts
    <3>2. /\ Came("answered") \in Nat /\ Came("nothing") \in Nat /\ Came("unheard") \in Nat
          /\ Came("cut") \in Nat
      BY <3>1 DEF Sure
    <3>3. /\ tally.of \in Nat /\ tally.done \in Nat /\ tally.failed \in Nat /\ tally.timedOut \in Nat
          /\ tally.unmarked \in Nat
      BY <1>1 DEF TallyStates
    <3>4. tally.done <= Roll /\ tally.of <= Roll
      BY <1>1, <2>2, <3>3 DEF ListInv, TallyBooks
    <3>5. tally.failed <= tally.done /\ tally.timedOut <= tally.done /\ tally.unmarked <= tally.done
      BY <2>2, <3>2, <3>3 DEF ListInv, TallyBooks
    <3> QED
      BY <1>1, <3>3, <3>4, <3>5 DEF Counts
  <2> QED
    BY <2>1, <2>2
<1>3. tally \in [kind : Kinds \cup {"none"}, of : Counts, done : Counts, failed : Counts,
                timedOut : Counts, unmarked : Counts, stopped : BOOLEAN]
  BY <1>1, <1>2 DEF TallyStates
<1> QED
  BY <1>1, <1>3 DEF ListTypeOK, ListTyped, BatchOnScreen, BatchStates, OutcomesTyped

------------------------------------------------------------------------------
(* The attendee import (ImportWizard).                                     *)

(* The rows of the chunks before one.                                      *)
BeforeChunk(c) == {r \in RowIds : r <= ChunkSize * (c - 1)}

LEMMA ChunkFollows ==
  ASSUME NEW c \in Nat \ {0}
  PROVE  /\ BeforeChunk(c + 1) = BeforeChunk(c) \cup ChunkRows(c)
         /\ BeforeChunk(c) \cap ChunkRows(c) = {}
<1>1. ChunkSize \in Nat /\ ChunkSize >= 1 /\ c - 1 \in Nat /\ (c + 1) - 1 = c
  BY ImportAssumption
<1>2. ChunkSize * c = ChunkSize * (c - 1) + ChunkSize /\ ChunkSize * (c - 1) \in Nat /\ ChunkSize * c \in Nat
  BY <1>1
<1>3. ChunkSize * ((c + 1) - 1) = ChunkSize * c
  BY <1>1
<1>4. \A r \in RowIds : r \in Nat /\ (r <= ChunkSize * (c - 1) => r <= ChunkSize * c)
  BY <1>1, <1>2, ImportAssumption DEF RowIds
<1>5. \A r \in RowIds : r <= ChunkSize * ((c + 1) - 1)
                           <=> r <= ChunkSize * (c - 1) \/ (ChunkSize * (c - 1) < r /\ r <= ChunkSize * c)
  BY <1>2, <1>3, <1>4
<1>6. \A r \in RowIds : ~(r <= ChunkSize * (c - 1) /\ ChunkSize * (c - 1) < r)
  BY <1>2, <1>4
<1> QED
  BY <1>5, <1>6 DEF BeforeChunk, ChunkRows

(* Nothing comes before the first chunk, which has rows.                   *)
LEMMA FirstChunk == BeforeChunk(1) = {} /\ 1 \in Chunks
<1>1. Rows \in Nat /\ Rows >= 1 /\ ChunkSize \in Nat /\ ChunkSize >= 1
  BY ImportAssumption
<1>2. ChunkSize * (1 - 1) = 0 /\ ChunkSize * 1 = ChunkSize
  BY <1>1
<1>3. 1 \in RowIds /\ 1 \in ChunkRows(1)
  BY <1>1, <1>2 DEF RowIds, ChunkRows
<1>4. BeforeChunk(1) = {}
  BY <1>1, <1>2 DEF BeforeChunk, RowIds
<1> QED
  BY <1>3, <1>4 DEF Chunks

(* A chunk of a sheet that has rows is a chunk; one that has none ends it. *)
LEMMA SentChunk ==
  ASSUME NEW c \in Nat \ {0}, NEW built, SentRows(c, built) # {}
  PROVE  c \in Chunks
<1>1. PICK r \in RowIds : r \in ChunkRows(c)
  BY DEF SentRows, ChunkRows
<1>2. PICK m \in Nat : ChunkSize = 1 + m
  <2>1. ChunkSize \in Nat /\ ChunkSize - 1 \in Nat /\ ChunkSize = 1 + (ChunkSize - 1)
    BY ImportAssumption
  <2> QED
    BY <2>1
<1>3. ChunkSize * (c - 1) = (c - 1) + m * (c - 1) /\ m * (c - 1) \in Nat
  <2>1. c - 1 \in Nat
    OBVIOUS
  <2>2. (1 + m) * (c - 1) = (c - 1) + m * (c - 1) /\ m * (c - 1) \in Nat
    BY <1>2, <2>1
  <2> QED
    BY <1>2, <2>2
<1>4. ChunkSize * (c - 1) < r /\ r <= Rows /\ Rows \in Nat /\ r \in Nat
  BY <1>1, ImportAssumption DEF ChunkRows, RowIds
<1>5. c - 1 < r
  BY <1>3, <1>4
<1>6. c \in RowIds
  BY <1>4, <1>5 DEF RowIds
<1> QED
  BY <1>1, <1>6 DEF Chunks

LEMMA SheetSent ==
  ASSUME NEW c \in Nat \ {0}, NEW built, SentRows(c, built) = {}
  PROVE  BeforeChunk(c) \cap RowsOf(built) = RowsOf(built)
<1> DEFINE k == ChunkSize * (c - 1)
<1>1. k \in Nat /\ ChunkSize * c = k + ChunkSize /\ ChunkSize \in Nat /\ ChunkSize >= 1
  <2>1. ChunkSize \in Nat /\ ChunkSize >= 1 /\ c - 1 \in Nat
    BY ImportAssumption
  <2> QED
    BY <2>1
<1> SUFFICES ASSUME NEW r \in RowsOf(built), r > k PROVE FALSE
  <2>1. \A r \in RowsOf(built) : r \in RowIds /\ r \in Nat
    BY ImportAssumption DEF RowsOf, RowIds
  <2> QED
    BY <1>1, <2>1 DEF BeforeChunk
<1> HIDE DEF k
<1>2. r \in RowIds /\ r \in Nat /\ r <= Rows /\ Rows \in Nat /\ PreviewRows \in Nat
  BY ImportAssumption DEF RowsOf, RowIds
<1>3. k + 1 \in RowIds /\ k + 1 <= r /\ k < k + 1 /\ k + 1 <= ChunkSize * c
  BY <1>1, <1>2 DEF RowIds
<1>4. k + 1 \in RowsOf(built)
  BY <1>1, <1>2, <1>3 DEF RowsOf
<1>5. k + 1 \in ChunkRows(c)
  BY <1>3 DEF ChunkRows, k
<1> QED
  BY <1>4, <1>5 DEF SentRows

------------------------------------------------------------------------------
WizardStates == [step : 1..3, file : Files \cup {NoFile}, encoding : Encodings, rows : Sheet]

StepOneTyped ==
  /\ wizardOpen \in BOOLEAN /\ rowsKept \in BOOLEAN /\ picking \in BOOLEAN /\ encChanging \in BOOLEAN /\ fullParsing \in BOOLEAN
  /\ session \in 0..MaxParses /\ encToken \in 0..MaxParses /\ parsesSent \in 0..MaxParses
  /\ encToken <= parsesSent /\ wizard \in WizardStates /\ parses \subseteq Parse

(* A full parse of this session keeps the wizard in step 1 until it ends,  *)
(* and there is one at most.                                               *)
CurrentFull(p) == p.kind = "full" /\ p.session = session
FullParses ==
  /\ \A p \in parses : p.session <= session
  /\ \A p \in parses : CurrentFull(p) => fullParsing /\ wizardOpen /\ wizard.step = 1
  /\ \A p, q \in parses : CurrentFull(p) /\ CurrentFull(q) => p = q

UploadTyped ==
  /\ uploading \in Chunks \cup {0} /\ chunkFailure \in Chunks \cup {0}
  /\ payload \in Sheet /\ imported \in Sheet /\ retriedFrom \in [RowIds -> Sheet]
  /\ rowErrors \in [RowIds -> Problems] /\ answered \subseteq RowIds
  /\ rowSkipped \subseteq RowIds /\ rowDone \subseteq RowIds /\ retryingRows \subseteq RowIds
  /\ bulkCreated \in [RowIds -> Nat] /\ sends \in 0..MaxSends

(* The loop, running or stopped, is past every row that was answered,      *)
(* whatever sheet its chunks are built from.                               *)
LoopAtNext ==
  /\ uploading # 0 => chunkFailure = 0 /\ answered \subseteq BeforeChunk(uploading)
  /\ chunkFailure # 0 => answered \subseteq BeforeChunk(chunkFailure)

(* A row was created by requests that are paid for, and a request under    *)
(* way may create it once more.                                            *)
CreationsPaid ==
  \A r \in RowIds : bulkCreated[r] + (IF uploading # 0 THEN 1 ELSE 0)
                      + (IF r \in retryingRows THEN 1 ELSE 0) <= sends
RowBooks ==
  /\ rowDone \cup Listed \cup rowSkipped = answered
  /\ rowDone \cap (Listed \cup rowSkipped) = {} /\ Listed \cap rowSkipped = {}
  /\ \A r \in retryingRows : rowErrors[r] = "create_failed"
  /\ "lose" \notin ImportFaults =>
       \A r \in RowIds : bulkCreated[r] <= 1 /\ (bulkCreated[r] > 0 => r \in rowDone)

(* As long as no late pick replaced the rows, everything sent is taken     *)
(* from the imported sheet, and the loop has left out none of its rows.    *)
SentFrom ==
  /\ InStep(3) => wizard.rows = imported
  /\ uploading # 0 => payload = imported /\ answered = BeforeChunk(uploading) \cap RowsOf(imported)
  /\ chunkFailure # 0 => answered = BeforeChunk(chunkFailure) \cap RowsOf(imported)
  /\ InStep(3) /\ uploading = 0 /\ chunkFailure = 0 => answered = RowsOf(imported)
  /\ \A r \in retryingRows : retriedFrom[r] = imported
  /\ \A r \in rowDone : bulkCreated[r] > 0
ImportKept == rowsKept => SentFrom

Untouched ==
  /\ answered = {} /\ uploading = 0 /\ chunkFailure = 0 /\ rowSkipped = {} /\ rowDone = {}
  /\ retryingRows = {} /\ rowErrors = [r \in RowIds |-> "none"] /\ bulkCreated = [r \in RowIds |-> 0]
  /\ retriedFrom = [r \in RowIds |-> NoRows] /\ payload = NoRows /\ imported = NoRows

UploadInv == UploadTyped /\ LoopAtNext /\ CreationsPaid /\ RowBooks
ImportInv ==
  /\ StepOneTyped /\ FullParses /\ UploadInv /\ ImportKept
  /\ wizardOpen /\ wizard.step # 3 => Untouched

LEMMA SheetTyped == ASSUME NEW p \in Parse PROVE SheetOf(p) \in Sheet
  BY DEF SheetOf, Parse, Sheet

LEMMA FreshWizardTyped == FreshWizard \in WizardStates /\ FreshWizard.step = 1
<1>1. DefaultEncoding \in Encodings
  BY ImportAssumption DEF DefaultEncoding
<1> QED
  BY <1>1 DEF FreshWizard, WizardStates, NoRows, Sheet

LEMMA UntouchedBooks == ASSUME Untouched, sends \in 0..MaxSends PROVE UploadInv
<1>1. NoRows \in Sheet
  BY DEF NoRows, Sheet
<1>2. UploadTyped
  BY <1>1 DEF Untouched, UploadTyped, Problems
<1>3. \A r \in RowIds : rowErrors[r] = "none" /\ bulkCreated[r] = 0
  BY DEF Untouched
<1>4. Listed = {}
  BY <1>3 DEF Listed
<1>5. RowBooks
  BY <1>3, <1>4 DEF Untouched, RowBooks
<1>6. CreationsPaid
  BY <1>3, ImportAssumption DEF Untouched, CreationsPaid
<1> QED
  BY <1>2, <1>5, <1>6 DEF UploadInv, LoopAtNext, Untouched

LEMMA ImportStarts == ImportInit => ImportInv
<1> SUFFICES ASSUME ImportInit PROVE ImportInv
  OBVIOUS
<1>1. Untouched /\ sends \in 0..MaxSends
  BY ImportAssumption DEF ImportInit, Untouched
<1>2. StepOneTyped
  <2>1. 0 \in 0..MaxParses /\ 0 <= 0
    BY ImportAssumption
  <2>2. /\ wizardOpen = TRUE /\ session = 0 /\ wizard = FreshWizard /\ parses = {} /\ encToken = 0
        /\ picking = FALSE /\ encChanging = FALSE /\ fullParsing = FALSE /\ parsesSent = 0
        /\ rowsKept = TRUE
    BY DEF ImportInit
  <2>3. wizard \in WizardStates /\ parses \subseteq Parse
    BY <2>2, FreshWizardTyped
  <2>4. wizardOpen \in BOOLEAN /\ rowsKept \in BOOLEAN /\ picking \in BOOLEAN /\ encChanging \in BOOLEAN /\ fullParsing \in BOOLEAN
    BY <2>2
  <2> QED
    BY <2>1, <2>2, <2>3, <2>4 DEF StepOneTyped
<1>3. FullParses
  BY DEF ImportInit, FullParses
<1>4. ImportKept
  BY FreshWizardTyped DEF ImportInit, ImportKept, SentFrom, InStep
<1> QED
  BY <1>1, <1>2, <1>3, <1>4, UntouchedBooks DEF ImportInv

(* Step 1 and the ways in and out of it leave the upload as it is.         *)
LEMMA UploadUnmoved ==
  ASSUME UploadInv, UNCHANGED uploadVars
  PROVE  UploadInv' /\ (Untouched => Untouched')
<1>1. UNCHANGED <<uploading, payload, chunkFailure, answered, rowErrors, rowSkipped, rowDone,
                  retryingRows, retriedFrom, imported, bulkCreated, sends>>
  BY DEF uploadVars, chunkVars
<1>2. UploadTyped' /\ LoopAtNext' /\ CreationsPaid'
  BY <1>1 DEF UploadInv, UploadTyped, LoopAtNext, CreationsPaid
<1>3. Listed' = Listed
  BY <1>1 DEF Listed
<1>4. RowBooks'
  BY <1>1, <1>3 DEF UploadInv, RowBooks
<1> QED
  BY <1>1, <1>2, <1>4 DEF UploadInv, Untouched

LEMMA KeptUnmoved ==
  ASSUME ImportKept, UNCHANGED uploadVars, rowsKept' => rowsKept,
         rowsKept' /\ InStep(3)' => InStep(3) /\ wizard'.rows = wizard.rows
  PROVE  ImportKept'
<1>1. UNCHANGED <<uploading, payload, chunkFailure, answered, rowDone, retryingRows, retriedFrom,
                  imported, bulkCreated>>
  BY DEF uploadVars, chunkVars
<1> SUFFICES ASSUME rowsKept' PROVE SentFrom'
  BY DEF ImportKept
<1>2. SentFrom
  BY DEF ImportKept
<1> QED
  BY <1>1, <1>2 DEF SentFrom

LEMMA StartsKeep ==
  ASSUME ImportInv, NEW kind \in {"pick", "encoding", "full"}, NEW f \in Files, NEW e \in Encodings,
         StartParse(kind, f, e), InStep(1),
         picking' \in BOOLEAN, encChanging' \in BOOLEAN, fullParsing' \in BOOLEAN,
         fullParsing => fullParsing',
         kind = "full" => fullParsing' /\ ~fullParsing
  PROVE  ImportInv'
<1> DEFINE new == [kind |-> kind, file |-> f, encoding |-> e, session |-> session, token |-> encToken']
<1>1. /\ parses' = parses \cup {new} /\ parsesSent < MaxParses /\ parsesSent' = parsesSent + 1
      /\ encToken' \in {encToken, encToken + 1} /\ UNCHANGED <<wizardOpen, session, wizard, rowsKept, uploadVars>>
  BY DEF StartParse
<1>2. /\ encToken \in 0..MaxParses /\ parsesSent \in 0..MaxParses /\ encToken <= parsesSent
      /\ session \in 0..MaxParses /\ parses \subseteq Parse
  BY DEF ImportInv, StepOneTyped
<1>3. encToken' \in 0..MaxParses /\ parsesSent' \in 0..MaxParses /\ encToken' <= parsesSent'
  BY <1>1, <1>2, ImportAssumption
<1>4. new \in Parse /\ new.session = session /\ new.kind = kind
  BY <1>2, <1>3 DEF Parse
<1> HIDE DEF new
<1>5. StepOneTyped'
  BY <1>1, <1>2, <1>3, <1>4 DEF ImportInv, StepOneTyped
<1>6. \A p \in parses : kind = "full" => ~CurrentFull(p)
  BY DEF ImportInv, FullParses
<1>7. session <= session
  BY <1>2
<1>8. FullParses'
  BY <1>1, <1>4, <1>6, <1>7 DEF ImportInv, FullParses, CurrentFull, InStep
<1>9. UploadInv' /\ (Untouched => Untouched')
  BY <1>1, UploadUnmoved DEF ImportInv
<1>10. ImportKept'
  BY <1>1, KeptUnmoved DEF ImportInv, InStep
<1> QED
  BY <1>1, <1>5, <1>8, <1>9, <1>10 DEF ImportInv

LEMMA StepOneKeeps ==
  ASSUME ImportInv,
         \/ \E f \in Files, e \in Encodings : FilePick(f, e)
         \/ \E e \in Encodings : EncodingChange(e)
         \/ Continue
  PROVE  ImportInv'
<1>1. /\ wizard \in WizardStates /\ picking \in BOOLEAN /\ encChanging \in BOOLEAN /\ fullParsing \in BOOLEAN
  BY DEF ImportInv, StepOneTyped
<1>2. wizard.encoding \in Encodings /\ (wizard.file # NoFile => wizard.file \in Files)
  BY <1>1 DEF WizardStates
<1>3. ASSUME NEW f \in Files, NEW e \in Encodings, FilePick(f, e) PROVE ImportInv'
  BY <1>1, <1>3, StartsKeep DEF FilePick
<1>4. ASSUME NEW e \in Encodings, EncodingChange(e) PROVE ImportInv'
  BY <1>1, <1>2, <1>4, StartsKeep DEF EncodingChange
<1>5. CASE Continue
  BY <1>1, <1>2, <1>5, StartsKeep DEF Continue, Step1Busy
<1> QED
  BY <1>3, <1>4, <1>5

(* A parse that ends leaves step 1 only if it was the full one, which was  *)
(* the last of its kind.                                                   *)
LEMMA ParsesEndKeep ==
  ASSUME ImportInv, NEW p \in parses, ParseEnds(p) \/ ParseThrows(p)
  PROVE  ImportInv'
<1>1. /\ parses' = parses \ {p} /\ UNCHANGED <<wizardOpen, session, encToken, parsesSent, uploadVars>>
  BY DEF ParseEnds, ParseThrows
<1>2. /\ StepOneTyped /\ FullParses /\ wizard \in WizardStates /\ p \in Parse
      /\ picking \in BOOLEAN /\ encChanging \in BOOLEAN /\ fullParsing \in BOOLEAN
  BY DEF ImportInv, StepOneTyped
<1>3. SheetOf(p) \in Sheet /\ p.file \in Files /\ p.encoding \in Encodings
  BY <1>2, SheetTyped DEF Parse
<1>4. /\ wizard' \in WizardStates /\ (wizard'.step # wizard.step => CurrentFull(p) /\ wizard'.step = 2)
  <2>1. CASE UNCHANGED wizard
    BY <1>2, <2>1
  <2>2. CASE ParseEnds(p) /\ p.session = session /\ p.kind = "pick"
    <3>1. wizard' = [wizard EXCEPT !.file = p.file, !.encoding = p.encoding, !.rows = SheetOf(p)]
      BY <2>2 DEF ParseEnds
    <3> QED
      BY <1>2, <1>3, <3>1 DEF WizardStates
  <2>3. CASE ParseEnds(p) /\ p.session = session /\ p.kind = "encoding"
    <3>1. wizard' = wizard \/ wizard' = [wizard EXCEPT !.encoding = p.encoding, !.rows = SheetOf(p)]
      BY <2>3 DEF ParseEnds
    <3> QED
      BY <1>2, <1>3, <3>1 DEF WizardStates
  <2>4. CASE ParseEnds(p) /\ p.session = session /\ p.kind = "full"
    <3>1. wizard' = wizard \/ wizard' = [wizard EXCEPT !.step = 2, !.rows = SheetOf(p)]
      BY <2>4 DEF ParseEnds
    <3>2. CASE wizard' = wizard
      BY <1>2, <3>2
    <3>3. CASE wizard' = [wizard EXCEPT !.step = 2, !.rows = SheetOf(p)]
      <4>1. 2 \in 1..3
        OBVIOUS
      <4>2. wizard' \in WizardStates /\ wizard'.step = 2
        BY <1>2, <1>3, <3>3, <4>1 DEF WizardStates
      <4> QED
        BY <2>4, <4>2 DEF CurrentFull
    <3> QED
      BY <3>1, <3>2, <3>3
  <2> QED
    BY <1>2, <2>1, <2>2, <2>3, <2>4 DEF ParseEnds, ParseThrows, Parse
<1>5. /\ picking' \in BOOLEAN /\ encChanging' \in BOOLEAN /\ fullParsing' \in BOOLEAN
      /\ fullParsing' = fullParsing \/ CurrentFull(p) \/ ParseThrows(p)
  <2>1. CASE ParseThrows(p)
    <3>1. /\ picking' = (picking /\ ~(p.session = session /\ p.kind = "pick"))
          /\ encChanging' = (encChanging /\ ~(p.session = session /\ p.kind = "encoding" /\ p.token = encToken))
          /\ fullParsing' = (fullParsing /\ ~(p.session = session /\ p.kind = "full"))
      BY <2>1 DEF ParseThrows
    <3> QED
      BY <2>1, <3>1, Zenon
  <2>2. CASE ParseEnds(p) /\ p.session = session /\ p.kind = "pick"
    BY <1>2, <2>2 DEF ParseEnds
  <2>3. CASE ParseEnds(p) /\ p.session = session /\ p.kind = "encoding"
    BY <1>2, <2>3 DEF ParseEnds
  <2>4. CASE ParseEnds(p) /\ p.session = session /\ p.kind = "full"
    BY <1>2, <2>4 DEF ParseEnds, CurrentFull
  <2>5. CASE ParseEnds(p) /\ p.session # session
    BY <1>2, <2>5 DEF ParseEnds
  <2> QED
    BY <1>2, <2>1, <2>2, <2>3, <2>4, <2>5 DEF Parse
<1>6. ~CurrentFull(p) => (fullParsing => fullParsing')
  BY <1>2, <1>5 DEF ParseThrows, CurrentFull
<1>7. rowsKept' \in BOOLEAN /\ (rowsKept' => rowsKept)
      /\ (rowsKept' /\ InStep(3) => wizard'.rows = wizard.rows)
  <2>1. CASE ParseEnds(p)
    <3>1. rowsKept' = (rowsKept /\ (InStep(3) => wizard'.rows = wizard.rows))
      BY <2>1 DEF ParseEnds
    <3> QED
      BY <3>1, Zenon
  <2>2. CASE ParseThrows(p)
    BY <1>2, <2>2 DEF ParseThrows, StepOneTyped
  <2> QED
    BY <2>1, <2>2
<1>8. StepOneTyped'
  BY <1>1, <1>2, <1>4, <1>5, <1>7 DEF StepOneTyped
<1>9. FullParses'
  <2>1. \A q \in parses' : CurrentFull(q)' => CurrentFull(q) /\ ~CurrentFull(p) /\ q \in parses
    BY <1>1, <1>2 DEF FullParses, CurrentFull
  <2>2. \A q \in parses' : CurrentFull(q)' => fullParsing' /\ wizardOpen' /\ wizard'.step = 1
    BY <1>1, <1>2, <1>4, <1>6, <2>1 DEF FullParses
  <2> QED
    BY <1>1, <1>2, <2>1, <2>2 DEF FullParses
<1>10. UploadInv' /\ (Untouched => Untouched')
  BY <1>1, UploadUnmoved DEF ImportInv
<1>11. wizardOpen' /\ wizard'.step # 3 => wizardOpen /\ wizard.step # 3
  BY <1>1, <1>2, <1>4 DEF FullParses
<1>12. InStep(3)' => InStep(3)
  BY <1>1, <1>4 DEF InStep
<1>13. ImportKept'
  BY <1>1, <1>7, <1>12, KeptUnmoved DEF ImportInv
<1> QED
  BY <1>8, <1>9, <1>10, <1>11, <1>13 DEF ImportInv

LEMMA WizardMovesKeep ==
  ASSUME ImportInv, WizardBack \/ CloseWizard \/ UNCHANGED importVars
  PROVE  ImportInv'
<1>1. UNCHANGED <<parses, encToken, parsesSent, rowsKept, uploadVars>>
  BY DEF WizardBack, CloseWizard, importVars, stepOneVars
<1>2. UploadInv' /\ (Untouched => Untouched')
  BY <1>1, UploadUnmoved DEF ImportInv
<1>3. StepOneTyped /\ FullParses /\ wizard \in WizardStates /\ session \in 0..MaxParses /\ parses \subseteq Parse
  BY DEF ImportInv, StepOneTyped
<1>4. ImportKept'
  <2>1. CASE UNCHANGED importVars
    BY <1>1, <2>1, KeptUnmoved DEF importVars, stepOneVars, ImportInv, InStep
  <2>2. CASE WizardBack
    <3>1. wizard'.step = 1
      BY <1>3, <2>2 DEF WizardBack, WizardStates
    <3> QED
      BY <1>1, <3>1, KeptUnmoved DEF ImportInv, InStep
  <2>3. CASE CloseWizard
    <3>1. wizard'.step = 1
      BY <2>3, FreshWizardTyped DEF CloseWizard
    <3> QED
      BY <1>1, <3>1, KeptUnmoved DEF ImportInv, InStep
  <2> QED
    BY <2>1, <2>2, <2>3
<1>5. CASE WizardBack
  <2>1. /\ wizardOpen /\ wizard.step = 2 /\ wizard' = [wizard EXCEPT !.step = 1]
        /\ UNCHANGED <<wizardOpen, session, picking, encChanging, fullParsing>>
    BY <1>5 DEF WizardBack, InStep
  <2>2. wizard' \in WizardStates /\ wizard'.step = 1
    BY <1>3, <2>1 DEF WizardStates
  <2>3. StepOneTyped' /\ FullParses'
    BY <1>1, <1>3, <2>1, <2>2 DEF StepOneTyped, FullParses, CurrentFull
  <2> QED
    BY <1>2, <1>4, <2>1, <2>3 DEF ImportInv
<1>6. CASE CloseWizard
  <2>1. /\ wizardOpen /\ session < MaxParses /\ session' = session + 1 /\ wizardOpen' = (wizard.step # 3)
        /\ wizard' = FreshWizard /\ picking' = FALSE /\ encChanging' = FALSE /\ fullParsing' = FALSE
    BY <1>6 DEF CloseWizard
  <2>2. session' \in 0..MaxParses /\ session \in Nat
    BY <1>3, <2>1, ImportAssumption
  <2>3. wizardOpen' \in BOOLEAN
    BY <2>1
  <2>4. StepOneTyped'
    BY <1>1, <1>3, <2>1, <2>2, <2>3, FreshWizardTyped DEF StepOneTyped
  <2>5. \A p \in parses : p.session \in Nat /\ p.session <= session
    BY <1>3, ImportAssumption DEF FullParses, Parse
  <2>6. \A p \in parses : p.session < session'
    BY <2>1, <2>2, <2>5
  <2>7. \A p \in parses : p.session <= session' /\ p.session # session'
    BY <2>2, <2>5, <2>6
  <2>8. FullParses'
    BY <1>1, <2>7 DEF FullParses, CurrentFull
  <2> QED
    BY <1>2, <1>4, <2>1, <2>4, <2>8 DEF ImportInv
<1>7. CASE UNCHANGED importVars
  BY <1>1, <1>2, <1>3, <1>7, <1>4 DEF importVars, stepOneVars, ImportInv, StepOneTyped, FullParses, CurrentFull
<1> QED
  BY <1>5, <1>6, <1>7

------------------------------------------------------------------------------
(* The chunk the loop is at: none of its rows was answered before.         *)
LEMMA ChunkIsNew ==
  ASSUME UploadInv, uploading # 0
  PROVE  /\ uploading \in Nat \ {0} /\ UploadRows \subseteq RowIds
         /\ UploadRows \cap (rowDone \cup Listed \cup rowSkipped) = {}
         /\ answered \cup UploadRows \subseteq BeforeChunk(uploading + 1)
<1>1. uploading \in Nat \ {0}
  BY ImportAssumption DEF UploadInv, UploadTyped, Chunks, RowIds
<1>2. UploadRows \subseteq ChunkRows(uploading) /\ UploadRows \subseteq RowIds
  BY DEF UploadRows, SentRows, ChunkRows
<1>3. answered \subseteq BeforeChunk(uploading) /\ rowDone \cup Listed \cup rowSkipped = answered
  BY DEF UploadInv, LoopAtNext, RowBooks
<1> QED
  BY <1>1, <1>2, <1>3, ChunkFollows

(* While an upload runs or rows are retried, the wizard is past step 2.    *)
LEMMA UploadsAreOpen ==
  ASSUME ImportInv, uploading # 0 \/ retryingRows # {} \/ InStep(3)
  PROVE  ~(wizardOpen /\ wizard.step # 3)
  BY DEF ImportInv, Untouched, InStep

LEMMA StepOneUnmoved ==
  ASSUME ImportInv, UNCHANGED stepOneVars, UNCHANGED rowsKept
  PROVE  /\ StepOneTyped' /\ FullParses'
         /\ (wizardOpen' /\ wizard'.step # 3) => (wizardOpen /\ wizard.step # 3)
  BY DEF ImportInv, stepOneVars, StepOneTyped, FullParses, CurrentFull

LEMMA CreatedRows ==
  ASSUME bulkCreated \in [RowIds -> Nat], NEW created \in SUBSET RowIds, NEW built, CreateRows(created, built)
  PROVE  /\ bulkCreated' \in [RowIds -> Nat]
         /\ \A r \in RowIds : /\ r \in created /\ OfImported(built) => bulkCreated'[r] = bulkCreated[r] + 1
                              /\ r \notin created => bulkCreated'[r] = bulkCreated[r]
                              /\ bulkCreated'[r] \in {bulkCreated[r], bulkCreated[r] + 1}
  BY DEF CreateRows

LEMMA ImportRowsKeeps == ASSUME ImportInv, ImportRows PROVE ImportInv'
<1>1. /\ wizardOpen /\ wizard.step = 2 /\ sends < MaxSends /\ wizard' = [wizard EXCEPT !.step = 3]
      /\ uploading' = 1 /\ payload' = wizard.rows /\ imported' = wizard.rows /\ sends' = sends + 1
      /\ UNCHANGED <<wizardOpen, session, parses, encToken, picking, encChanging, fullParsing,
                     parsesSent, rowsKept, chunkFailure, answered, rowErrors, rowSkipped, rowDone,
                     retryingRows, retriedFrom, bulkCreated>>
  BY DEF ImportRows, InStep
<1>2. StepOneTyped /\ FullParses /\ UploadInv /\ Untouched /\ wizard \in WizardStates /\ wizard.rows \in Sheet
  BY <1>1 DEF ImportInv, StepOneTyped, WizardStates
<1>3. wizard' \in WizardStates /\ wizard'.step = 3 /\ wizard'.rows = wizard.rows
  <2>1. 3 \in 1..3
    OBVIOUS
  <2> QED
    BY <1>1, <1>2, <2>1 DEF WizardStates
<1>4. StepOneTyped'
  BY <1>1, <1>2, <1>3 DEF StepOneTyped
<1>5. FullParses'
  BY <1>1, <1>2 DEF FullParses, CurrentFull
<1>6. /\ sends \in 0..MaxSends /\ sends' \in 0..MaxSends /\ sends' >= 1 /\ MaxSends \in Nat
      /\ bulkCreated \in [RowIds -> Nat]
  BY <1>1, <1>2, ImportAssumption DEF UploadInv, UploadTyped
<1>7. UploadTyped'
  BY <1>1, <1>2, <1>6, FirstChunk DEF UploadInv, UploadTyped
<1>8. \A r \in RowIds : bulkCreated[r] = 0
  BY <1>2 DEF Untouched
<1>9. LoopAtNext' /\ CreationsPaid'
  BY <1>1, <1>2, <1>6, <1>8 DEF LoopAtNext, CreationsPaid, Untouched
<1>10. Listed' = Listed
  BY <1>1 DEF Listed
<1>11. RowBooks'
  BY <1>1, <1>2, <1>10 DEF UploadInv, RowBooks, Untouched
<1>12. ImportKept'
  BY <1>1, <1>2, <1>3, FirstChunk DEF ImportKept, SentFrom, Untouched, InStep
<1> QED
  BY <1>3, <1>4, <1>5, <1>7, <1>9, <1>11, <1>12 DEF ImportInv, UploadInv

(* An answered chunk: its rows are created and done, or listed.            *)
LEMMA ChunkAnswersKeeps ==
  ASSUME ImportInv, NEW problem \in Refusals, ChunkAnswers(problem)
  PROVE  ImportInv'
<1> DEFINE rows == UploadRows
           made == {r \in rows : problem[r] = "none"}
<1>1. /\ uploading # 0 /\ CreateRows(made, payload) /\ rowDone' = rowDone \cup made
      /\ rowErrors' = [r \in RowIds |-> IF r \in rows THEN problem[r] ELSE rowErrors[r]]
      /\ answered' = answered \cup rows
      /\ UNCHANGED <<stepOneVars, rowsKept, payload, rowSkipped, retryingRows, retriedFrom, imported>>
  BY DEF ChunkAnswers
<1>2. \/ /\ SentRows(uploading + 1, payload) # {} /\ sends < MaxSends
         /\ uploading' = uploading + 1 /\ sends' = sends + 1 /\ UNCHANGED chunkFailure
      \/ /\ uploading' = 0 /\ UNCHANGED sends
         /\ chunkFailure' = IF SentRows(uploading + 1, payload) # {} THEN uploading + 1 ELSE 0
  BY DEF ChunkAnswers
<1>3. /\ UploadInv /\ UploadTyped /\ LoopAtNext /\ CreationsPaid /\ RowBooks
      /\ bulkCreated \in [RowIds -> Nat] /\ rowErrors \in [RowIds -> Problems] /\ sends \in 0..MaxSends
  BY DEF ImportInv, UploadInv, UploadTyped
<1>4. /\ uploading \in Nat \ {0} /\ uploading + 1 \in Nat \ {0} /\ rows \subseteq RowIds
      /\ answered \cup rows \subseteq BeforeChunk(uploading + 1)
      /\ rows \cap (rowDone \cup Listed \cup rowSkipped) = {}
  BY <1>1, <1>3, ChunkIsNew
<1>5. problem \in [rows -> Problems]
  BY DEF Refusals, Problems
<1>6. payload = imported => OfImported(payload)
  BY DEF OfImported
<1>7. rows = SentRows(uploading, payload)
  BY DEF UploadRows
<1> HIDE DEF rows
<1>8. made \subseteq rows /\ made \subseteq RowIds
  BY <1>4
<1>9. /\ bulkCreated' \in [RowIds -> Nat]
      /\ \A r \in RowIds : /\ r \in made /\ OfImported(payload) => bulkCreated'[r] = bulkCreated[r] + 1
                           /\ r \notin made => bulkCreated'[r] = bulkCreated[r]
                           /\ bulkCreated'[r] \in {bulkCreated[r], bulkCreated[r] + 1}
  BY <1>1, <1>3, <1>8, CreatedRows
<1>10. rowErrors' \in [RowIds -> Problems]
  <2>1. \A r \in RowIds : (IF r \in rows THEN problem[r] ELSE rowErrors[r]) \in Problems
    BY <1>3, <1>5
  <2> QED
    BY <1>1, <2>1
<1>11. answered' \subseteq RowIds /\ rowDone' \subseteq RowIds
  BY <1>1, <1>3, <1>4, <1>8 DEF UploadTyped
<1>12. uploading' \in Chunks \cup {0} /\ chunkFailure' \in Chunks \cup {0} /\ sends' \in 0..MaxSends
  <2>1. sends < MaxSends => sends + 1 \in 0..MaxSends
    BY <1>3, ImportAssumption
  <2>2. SentRows(uploading + 1, payload) # {} => uploading + 1 \in Chunks
    BY <1>4, SentChunk
  <2> QED
    BY <1>2, <1>3, <2>1, <2>2 DEF UploadTyped
<1>13. UploadTyped'
  BY <1>1, <1>3, <1>9, <1>10, <1>11, <1>12 DEF UploadTyped
<1>14. LoopAtNext'
  BY <1>1, <1>2, <1>3, <1>4 DEF LoopAtNext
<1>15. CreationsPaid'
  <2>1. sends' = IF uploading' # 0 THEN sends + 1 ELSE sends
    BY <1>2, <1>4
  <2>2. ASSUME NEW r \in RowIds
        PROVE  bulkCreated'[r] + (IF uploading' # 0 THEN 1 ELSE 0)
                 + (IF r \in retryingRows' THEN 1 ELSE 0) <= sends'
    <3>1. bulkCreated'[r] <= bulkCreated[r] + 1 /\ bulkCreated[r] \in Nat /\ bulkCreated'[r] \in Nat
      BY <1>3, <1>9
    <3>2. bulkCreated[r] + 1 + (IF r \in retryingRows THEN 1 ELSE 0) <= sends
      BY <1>1, <1>3 DEF CreationsPaid
    <3>3. retryingRows' = retryingRows /\ sends \in Nat
      BY <1>1, <1>3, ImportAssumption
    <3> QED
      BY <2>1, <3>1, <3>2, <3>3
  <2> QED
    BY <2>2 DEF CreationsPaid
<1>16. \A r \in RowIds : rowErrors'[r] = IF r \in rows THEN problem[r] ELSE rowErrors[r]
  BY <1>1
<1>17. Listed' = Listed \cup (rows \ made)
  BY <1>4, <1>16 DEF Listed
<1>18. RowBooks'
  <2>1. rowDone' \cup Listed' \cup rowSkipped' = answered'
    BY <1>1, <1>3, <1>4, <1>8, <1>17 DEF RowBooks
  <2>2. rowDone' \cap (Listed' \cup rowSkipped') = {} /\ Listed' \cap rowSkipped' = {}
    BY <1>1, <1>3, <1>4, <1>8, <1>17 DEF RowBooks
  <2>3. \A r \in retryingRows' : rowErrors'[r] = "create_failed"
    <3>1. \A r \in retryingRows : r \in RowIds /\ rowErrors[r] = "create_failed"
      BY <1>3 DEF RowBooks, UploadTyped
    <3>2. \A r \in retryingRows : r \in Listed
      BY <3>1 DEF Listed
    <3> QED
      BY <1>1, <1>4, <1>16, <3>1, <3>2
  <2>5. ASSUME "lose" \notin ImportFaults, NEW r \in RowIds
        PROVE  bulkCreated'[r] <= 1 /\ (bulkCreated'[r] > 0 => r \in rowDone')
    <3>1. bulkCreated[r] <= 1 /\ (bulkCreated[r] > 0 => r \in rowDone) /\ bulkCreated[r] \in Nat
      BY <1>3, <2>5 DEF RowBooks
    <3>2. r \in made => bulkCreated[r] = 0
      BY <1>4, <1>8, <3>1
    <3> QED
      BY <1>1, <1>9, <3>1, <3>2
  <2> QED
    BY <2>1, <2>2, <2>3, <2>5 DEF RowBooks
<1>19. UploadInv'
  BY <1>13, <1>14, <1>15, <1>18 DEF UploadInv
<1>20. ImportKept'
  <2> SUFFICES ASSUME rowsKept' PROVE SentFrom'
    BY DEF ImportKept
  <2>1. SentFrom /\ payload = imported /\ answered = BeforeChunk(uploading) \cap RowsOf(imported)
    BY <1>1 DEF ImportInv, ImportKept, SentFrom
  <2>2. rows = ChunkRows(uploading) \cap RowsOf(imported)
    BY <1>7, <2>1 DEF SentRows
  <2>3. answered' = BeforeChunk(uploading + 1) \cap RowsOf(imported)
    <3>1. BeforeChunk(uploading + 1) = BeforeChunk(uploading) \cup ChunkRows(uploading)
      BY <1>4, ChunkFollows
    <3> QED
      BY <1>1, <2>1, <2>2, <3>1
  <2>4. SentRows(uploading + 1, payload) = {} => answered' = RowsOf(imported)
    BY <1>4, <2>1, <2>3, SheetSent
  <2>5. \A r \in rowDone' : bulkCreated'[r] > 0
    <3>1. ASSUME NEW r \in rowDone' PROVE bulkCreated'[r] > 0
      <4>1. r \in RowIds /\ bulkCreated[r] \in Nat /\ bulkCreated'[r] \in Nat
        BY <1>3, <1>9, <1>11
      <4>2. CASE r \in made
        BY <1>6, <1>9, <2>1, <4>1, <4>2
      <4>3. CASE r \notin made
        BY <1>1, <1>9, <2>1, <4>1, <4>3 DEF SentFrom
      <4> QED
        BY <4>2, <4>3
    <3> QED
      BY <3>1
  <2>6. InStep(3)' => wizard'.rows = imported'
    BY <1>1, <2>1 DEF SentFrom, InStep, stepOneVars
  <2>7. /\ uploading' # 0 => payload' = imported' /\ answered' = BeforeChunk(uploading') \cap RowsOf(imported')
        /\ chunkFailure' # 0 => answered' = BeforeChunk(chunkFailure') \cap RowsOf(imported')
        /\ uploading' = 0 /\ chunkFailure' = 0 => answered' = RowsOf(imported')
    <3>1. chunkFailure = 0
      BY <1>1, <1>3 DEF LoopAtNext
    <3> QED
      BY <1>1, <1>2, <1>4, <2>1, <2>3, <2>4, <3>1
  <2>8. \A r \in retryingRows' : retriedFrom'[r] = imported'
    BY <1>1, <2>1 DEF SentFrom
  <2> QED
    BY <2>5, <2>6, <2>7, <2>8 DEF SentFrom
<1> QED
  BY <1>1, <1>19, <1>20, StepOneUnmoved, UploadsAreOpen DEF ImportInv

LEMMA ChunkFailsKeeps == ASSUME ImportInv, ChunkFails PROVE ImportInv'
<1>1. /\ uploading # 0 /\ uploading' = 0 /\ chunkFailure' = uploading
      /\ UNCHANGED <<stepOneVars, rowsKept, payload, answered, rowErrors, rowSkipped, rowDone,
                     retryingRows, retriedFrom, imported, sends>>
  BY DEF ChunkFails
<1>2. /\ UploadInv /\ UploadTyped /\ LoopAtNext /\ CreationsPaid /\ RowBooks
      /\ bulkCreated \in [RowIds -> Nat] /\ sends \in 0..MaxSends
  BY DEF ImportInv, UploadInv, UploadTyped
<1>3. /\ bulkCreated' \in [RowIds -> Nat]
      /\ \A r \in RowIds : bulkCreated'[r] = bulkCreated[r]
                             \/ ("lose" \in ImportFaults /\ bulkCreated'[r] = bulkCreated[r] + 1)
  <2>1. CASE UNCHANGED bulkCreated
    BY <1>2, <2>1
  <2>2. CASE "lose" \in ImportFaults /\ CreateRows(UploadRows, payload)
    <3>1. UploadRows \in SUBSET RowIds
      BY <1>1, <1>2, ChunkIsNew
    <3> QED
      BY <1>2, <2>2, <3>1, CreatedRows
  <2> QED
    BY <2>1, <2>2 DEF ChunkFails
<1>4. UploadTyped' /\ LoopAtNext'
  BY <1>1, <1>2, <1>3 DEF UploadTyped, LoopAtNext
<1>5. CreationsPaid'
  <2>1. ASSUME NEW r \in RowIds
        PROVE  bulkCreated'[r] + 0 + (IF r \in retryingRows THEN 1 ELSE 0) <= sends
    <3>1. bulkCreated[r] + 1 + (IF r \in retryingRows THEN 1 ELSE 0) <= sends
      BY <1>1, <1>2 DEF CreationsPaid
    <3>2. bulkCreated'[r] <= bulkCreated[r] + 1 /\ bulkCreated[r] \in Nat /\ bulkCreated'[r] \in Nat
      BY <1>2, <1>3
    <3>3. sends \in Nat
      BY <1>2, ImportAssumption
    <3> QED
      BY <3>1, <3>2, <3>3
  <2> QED
    BY <1>1, <2>1 DEF CreationsPaid
<1>6. Listed' = Listed
  BY <1>1 DEF Listed
<1>7. RowBooks'
  <2>3. "lose" \notin ImportFaults => \A r \in RowIds : bulkCreated'[r] = bulkCreated[r]
    BY <1>3
  <2> QED
    BY <1>1, <1>2, <1>6, <2>3 DEF RowBooks
<1>8. UploadInv'
  BY <1>4, <1>5, <1>7 DEF UploadInv
<1>9. ImportKept'
  <2> SUFFICES ASSUME rowsKept' PROVE SentFrom'
    BY DEF ImportKept
  <2>1. SentFrom /\ answered = BeforeChunk(uploading) \cap RowsOf(imported)
    BY <1>1 DEF ImportInv, ImportKept, SentFrom
  <2>2. \A r \in rowDone' : bulkCreated'[r] > 0
    <3>1. \A r \in rowDone : /\ r \in RowIds /\ bulkCreated[r] > 0
                             /\ bulkCreated[r] \in Nat /\ bulkCreated'[r] \in Nat
      BY <1>2, <1>3, <2>1 DEF SentFrom, UploadTyped
    <3>2. \A r \in RowIds : bulkCreated'[r] = bulkCreated[r] \/ bulkCreated'[r] = bulkCreated[r] + 1
      BY <1>3
    <3> QED
      BY <1>1, <3>1, <3>2
  <2> QED
    BY <1>1, <2>1, <2>2 DEF SentFrom, InStep, stepOneVars
<1> QED
  BY <1>1, <1>8, <1>9, StepOneUnmoved, UploadsAreOpen DEF ImportInv

LEMMA RetryRemainingKeeps == ASSUME ImportInv, RetryRemaining PROVE ImportInv'
<1>1. /\ InStep(3) /\ uploading = 0 /\ chunkFailure # 0 /\ chunkFailure' = 0
      /\ UNCHANGED <<stepOneVars, rowsKept, answered, rowErrors, rowSkipped, rowDone, retryingRows,
                     retriedFrom, imported, bulkCreated>>
  BY DEF RetryRemaining
<1>2. \/ SentRows(chunkFailure, wizard.rows) = {} /\ UNCHANGED <<uploading, payload, sends>>
      \/ /\ sends < MaxSends /\ sends' = sends + 1
         /\ uploading' = chunkFailure /\ payload' = wizard.rows
  BY DEF RetryRemaining
<1>3. /\ UploadInv /\ UploadTyped /\ LoopAtNext /\ CreationsPaid /\ RowBooks
      /\ bulkCreated \in [RowIds -> Nat] /\ sends \in 0..MaxSends /\ sends \in Nat
  BY ImportAssumption DEF ImportInv, UploadInv, UploadTyped
<1>4. sends' \in 0..MaxSends
  BY <1>2, <1>3, ImportAssumption
<1>5. wizard.rows \in Sheet
  BY DEF ImportInv, StepOneTyped, WizardStates
<1>6. UploadTyped' /\ LoopAtNext'
  BY <1>1, <1>2, <1>3, <1>4, <1>5 DEF UploadTyped, LoopAtNext
<1>7. CreationsPaid'
  <2>1. ASSUME NEW r \in RowIds
        PROVE  bulkCreated[r] + (IF uploading' # 0 THEN 1 ELSE 0) + (IF r \in retryingRows THEN 1 ELSE 0) <= sends'
    <3>1. bulkCreated[r] + 0 + (IF r \in retryingRows THEN 1 ELSE 0) <= sends /\ bulkCreated[r] \in Nat
      BY <1>1, <1>3 DEF CreationsPaid
    <3> QED
      BY <1>1, <1>2, <1>3, <3>1
  <2> QED
    BY <1>1, <2>1 DEF CreationsPaid
<1>8. Listed' = Listed
  BY <1>1 DEF Listed
<1>9. RowBooks'
  BY <1>1, <1>3, <1>8 DEF RowBooks
<1>10. ImportKept'
  <2> SUFFICES ASSUME rowsKept' PROVE SentFrom'
    BY DEF ImportKept
  <2>1. SentFrom /\ wizard.rows = imported /\ answered = BeforeChunk(chunkFailure) \cap RowsOf(imported)
    BY <1>1 DEF ImportInv, ImportKept, SentFrom
  <2>2. SentRows(chunkFailure, wizard.rows) = {} => answered = RowsOf(imported)
    <3>1. chunkFailure \in Nat \ {0}
      BY <1>1, <1>3, ImportAssumption DEF UploadTyped, Chunks, RowIds
    <3> QED
      BY <2>1, <3>1, SheetSent
  <2> QED
    BY <1>1, <1>2, <2>1, <2>2 DEF SentFrom, InStep, stepOneVars
<1>11. UploadInv'
  BY <1>6, <1>7, <1>9 DEF UploadInv
<1> QED
  BY <1>1, <1>10, <1>11, StepOneUnmoved, UploadsAreOpen DEF ImportInv

LEMMA SkipRowKeeps == ASSUME ImportInv, NEW r \in RowIds, SkipRow(r) PROVE ImportInv'
<1>1. /\ InStep(3) /\ rowErrors[r] = "duplicate"
      /\ rowErrors' = [rowErrors EXCEPT ![r] = "none"] /\ rowSkipped' = rowSkipped \cup {r}
      /\ UNCHANGED <<stepOneVars, rowsKept, uploading, payload, chunkFailure, answered, rowDone,
                     retryingRows, retriedFrom, imported, bulkCreated, sends>>
  BY DEF SkipRow, chunkVars
<1>2. /\ UploadInv /\ UploadTyped /\ LoopAtNext /\ CreationsPaid /\ RowBooks
      /\ rowErrors \in [RowIds -> Problems]
  BY DEF ImportInv, UploadInv, UploadTyped
<1>3. rowErrors' \in [RowIds -> Problems]
  BY <1>1, <1>2 DEF Problems
<1>4. UploadTyped' /\ LoopAtNext' /\ CreationsPaid'
  BY <1>1, <1>2, <1>3 DEF UploadTyped, LoopAtNext, CreationsPaid
<1>5. r \in Listed /\ Listed' = Listed \ {r}
  BY <1>1, <1>2 DEF Listed
<1>6. \A s \in retryingRows : s \in RowIds /\ s # r /\ rowErrors'[s] = rowErrors[s]
  BY <1>1, <1>2 DEF RowBooks, UploadTyped
<1>7. RowBooks'
  BY <1>1, <1>2, <1>5, <1>6 DEF RowBooks
<1>8. UploadInv'
  BY <1>4, <1>7 DEF UploadInv
<1>9. ImportKept'
  BY <1>1 DEF ImportInv, ImportKept, SentFrom, InStep, stepOneVars
<1> QED
  BY <1>1, <1>8, <1>9, StepOneUnmoved, UploadsAreOpen DEF ImportInv

LEMMA RetryRowKeeps == ASSUME ImportInv, NEW r \in RowIds, RetryRow(r) PROVE ImportInv'
<1>1. /\ InStep(3) /\ rowErrors[r] = "create_failed" /\ sends < MaxSends
      /\ retryingRows' = retryingRows \cup {r} /\ sends' = sends + 1
      /\ retriedFrom' = [retriedFrom EXCEPT ![r] = wizard.rows]
      /\ UNCHANGED <<stepOneVars, rowsKept, uploading, payload, chunkFailure, answered, rowErrors,
                     rowSkipped, rowDone, imported, bulkCreated>>
  BY DEF RetryRow, chunkVars
<1>2. /\ UploadInv /\ UploadTyped /\ LoopAtNext /\ CreationsPaid /\ RowBooks
      /\ bulkCreated \in [RowIds -> Nat] /\ sends \in 0..MaxSends
      /\ wizard.rows \in Sheet /\ retriedFrom \in [RowIds -> Sheet]
  BY DEF ImportInv, UploadInv, UploadTyped, StepOneTyped, WizardStates
<1>3. sends' \in 0..MaxSends /\ sends \in Nat
  BY <1>1, <1>2, ImportAssumption
<1>4. UploadTyped' /\ LoopAtNext'
  BY <1>1, <1>2, <1>3 DEF UploadTyped, LoopAtNext
<1>5. CreationsPaid'
  <2>1. ASSUME NEW s \in RowIds
        PROVE  bulkCreated[s] + (IF uploading # 0 THEN 1 ELSE 0)
                 + (IF s \in retryingRows' THEN 1 ELSE 0) <= sends'
    <3>1. /\ bulkCreated[s] + (IF uploading # 0 THEN 1 ELSE 0)
               + (IF s \in retryingRows THEN 1 ELSE 0) <= sends
          /\ bulkCreated[s] \in Nat
      BY <1>2 DEF CreationsPaid
    <3> QED
      BY <1>1, <1>3, <3>1
  <2> QED
    BY <1>1, <2>1 DEF CreationsPaid
<1>6. Listed' = Listed
  BY <1>1 DEF Listed
<1>7. RowBooks'
  <2>1. \A s \in retryingRows' : rowErrors'[s] = "create_failed"
    BY <1>1, <1>2 DEF RowBooks
  <2> QED
    BY <1>1, <1>2, <1>6, <2>1 DEF RowBooks
<1>8. UploadInv'
  BY <1>4, <1>5, <1>7 DEF UploadInv
<1>9. ImportKept'
  <2> SUFFICES ASSUME rowsKept' PROVE SentFrom'
    BY DEF ImportKept
  <2>1. SentFrom /\ wizard.rows = imported
    BY <1>1 DEF ImportInv, ImportKept, SentFrom
  <2>2. \A s \in retryingRows' : retriedFrom'[s] = imported
    BY <1>1, <1>2, <2>1 DEF SentFrom, UploadTyped
  <2> QED
    BY <1>1, <2>1, <2>2 DEF SentFrom, InStep, stepOneVars
<1> QED
  BY <1>1, <1>8, <1>9, StepOneUnmoved, UploadsAreOpen DEF ImportInv

LEMMA RetryRowAnswersKeeps ==
  ASSUME ImportInv, NEW r \in RowIds, RetryRowAnswers(r) PROVE ImportInv'
<1>1. /\ r \in retryingRows /\ retryingRows' = retryingRows \ {r}
      /\ retriedFrom' = [retriedFrom EXCEPT ![r] = NoRows]
      /\ UNCHANGED <<stepOneVars, rowsKept, uploading, payload, chunkFailure, answered, rowSkipped,
                     imported, sends>>
  BY DEF RetryRowAnswers, chunkVars
<1>2. /\ UploadInv /\ UploadTyped /\ LoopAtNext /\ CreationsPaid /\ RowBooks
      /\ bulkCreated \in [RowIds -> Nat] /\ rowErrors \in [RowIds -> Problems] /\ sends \in 0..MaxSends
      /\ rowDone \subseteq RowIds /\ retryingRows \subseteq RowIds /\ retriedFrom \in [RowIds -> Sheet]
  BY DEF ImportInv, UploadInv, UploadTyped
<1>3. rowErrors[r] = "create_failed" /\ r \in Listed /\ r \notin rowDone /\ r \notin rowSkipped
  BY <1>1, <1>2 DEF RowBooks, Listed
<1>4. \/ /\ CreateRows({r}, retriedFrom[r]) /\ rowDone' = rowDone \cup {r} /\ rowErrors' = [rowErrors EXCEPT ![r] = "none"]
      \/ "lose" \in ImportFaults /\ CreateRows({r}, retriedFrom[r]) /\ UNCHANGED <<rowDone, rowErrors>>
      \/ \E problem \in Problems \ {"none"} :
           rowErrors' = [rowErrors EXCEPT ![r] = problem] /\ UNCHANGED <<bulkCreated, rowDone>>
  BY DEF RetryRowAnswers
<1>5. /\ bulkCreated' \in [RowIds -> Nat]
      /\ \A s \in RowIds : /\ s # r => bulkCreated'[s] = bulkCreated[s]
                           /\ bulkCreated'[s] \in {bulkCreated[s], bulkCreated[s] + 1}
  <2>1. CASE CreateRows({r}, retriedFrom[r])
    BY <1>2, <2>1, CreatedRows
  <2>2. CASE UNCHANGED bulkCreated
    BY <1>2, <2>2
  <2> QED
    BY <1>4, <2>1, <2>2
<1>6. /\ rowErrors' \in [RowIds -> Problems]
      /\ \A s \in RowIds : s # r => rowErrors'[s] = rowErrors[s]
  <2>1. CASE rowErrors' = [rowErrors EXCEPT ![r] = "none"]
    BY <1>2, <2>1 DEF Problems
  <2>2. CASE \E problem \in Problems \ {"none"} : rowErrors' = [rowErrors EXCEPT ![r] = problem]
    BY <1>2, <2>2
  <2> QED
    BY <1>2, <1>4, <2>1, <2>2
<1>7. rowDone' \subseteq RowIds /\ (rowDone' = rowDone \/ rowDone' = rowDone \cup {r})
  BY <1>2, <1>4
<1>8. retriedFrom' \in [RowIds -> Sheet]
  BY <1>1, <1>2 DEF NoRows, Sheet
<1>9. UploadTyped' /\ LoopAtNext'
  BY <1>8, <1>1, <1>2, <1>5, <1>6, <1>7 DEF UploadTyped, LoopAtNext
<1>10. CreationsPaid'
  <2>1. ASSUME NEW s \in RowIds
        PROVE  bulkCreated'[s] + (IF uploading # 0 THEN 1 ELSE 0)
                 + (IF s \in retryingRows' THEN 1 ELSE 0) <= sends
    <3>1. /\ bulkCreated[s] + (IF uploading # 0 THEN 1 ELSE 0)
               + (IF s \in retryingRows THEN 1 ELSE 0) <= sends
          /\ bulkCreated[s] \in Nat /\ sends \in Nat
      BY <1>2, ImportAssumption DEF CreationsPaid
    <3>2. CASE s = r
      BY <1>1, <1>5, <3>1, <3>2
    <3>3. CASE s # r
      BY <1>1, <1>5, <3>1, <3>3
    <3> QED
      BY <3>2, <3>3
  <2> QED
    BY <1>1, <2>1 DEF CreationsPaid
<1>11. rowDone' \cup Listed' = rowDone \cup Listed /\ rowDone' \cap Listed' = {} /\ Listed' \subseteq Listed
  <2>1. \A s \in RowIds : s # r => (s \in Listed' <=> s \in Listed)
    BY <1>6 DEF Listed
  <2>2. r \in Listed' <=> r \notin rowDone'
    <3>1. CASE rowDone' = rowDone \cup {r} /\ rowErrors' = [rowErrors EXCEPT ![r] = "none"]
      BY <1>2, <3>1 DEF Listed
    <3>2. CASE rowDone' = rowDone /\ rowErrors' = rowErrors
      BY <1>3, <3>2 DEF Listed
    <3>3. CASE rowDone' = rowDone /\ \E problem \in Problems \ {"none"} : rowErrors' = [rowErrors EXCEPT ![r] = problem]
      BY <1>2, <1>3, <3>3 DEF Listed
    <3> QED
      BY <1>4, <3>1, <3>2, <3>3
  <2>3. Listed' \subseteq RowIds /\ Listed \subseteq RowIds
    BY DEF Listed
  <2>4. rowDone \cap Listed = {}
    BY <1>2 DEF RowBooks
  <2> QED
    BY <1>3, <1>7, <2>1, <2>2, <2>3, <2>4
<1>12. RowBooks'
  <2>1. rowDone' \cup Listed' \cup rowSkipped' = answered'
    BY <1>1, <1>2, <1>11 DEF RowBooks
  <2>2. rowDone' \cap (Listed' \cup rowSkipped') = {} /\ Listed' \cap rowSkipped' = {}
    BY <1>1, <1>2, <1>3, <1>7, <1>11 DEF RowBooks
  <2>3. \A s \in retryingRows' : rowErrors'[s] = "create_failed"
    BY <1>1, <1>2, <1>6 DEF RowBooks
  <2>4. ASSUME "lose" \notin ImportFaults, NEW s \in RowIds
        PROVE  bulkCreated'[s] <= 1 /\ (bulkCreated'[s] > 0 => s \in rowDone')
    <3>1. bulkCreated[s] <= 1 /\ (bulkCreated[s] > 0 => s \in rowDone) /\ bulkCreated[s] \in Nat
      BY <1>2, <2>4 DEF RowBooks
    <3>2. CASE s # r
      BY <1>5, <1>7, <3>1, <3>2
    <3>3. CASE s = r
      <4>1. bulkCreated[r] = 0
        BY <1>3, <3>1, <3>3
      <4>2. bulkCreated'[r] \in {0, 1}
        BY <1>5, <4>1
      <4>3. bulkCreated'[r] > 0 => r \in rowDone'
        BY <1>4, <2>4, <4>1
      <4> QED
        BY <3>3, <4>2, <4>3
    <3> QED
      BY <3>2, <3>3
  <2> QED
    BY <2>1, <2>2, <2>3, <2>4 DEF RowBooks
<1>13. UploadInv'
  BY <1>9, <1>10, <1>12 DEF UploadInv
<1>14. ImportKept'
  <2> SUFFICES ASSUME rowsKept' PROVE SentFrom'
    BY DEF ImportKept
  <2>1. SentFrom /\ retriedFrom[r] = imported
    BY <1>1 DEF ImportInv, ImportKept, SentFrom
  <2>2. \A s \in retryingRows' : retriedFrom'[s] = imported
    BY <1>1, <1>2, <2>1 DEF SentFrom
  <2>3. \A s \in rowDone : bulkCreated'[s] > 0
    <3>1. \A s \in rowDone : s \in RowIds /\ s # r /\ bulkCreated[s] > 0
      BY <1>2, <1>3, <2>1 DEF SentFrom
    <3> QED
      BY <1>5, <3>1
  <2>4. r \in rowDone' => bulkCreated'[r] > 0
    <3>1. r \in rowDone' => CreateRows({r}, retriedFrom[r])
      BY <1>3, <1>4
    <3>2. OfImported(retriedFrom[r])
      BY <2>1 DEF OfImported
    <3>3. CreateRows({r}, retriedFrom[r]) => bulkCreated'[r] = bulkCreated[r] + 1 /\ bulkCreated[r] \in Nat
      BY <1>2, <3>2, CreatedRows
    <3> QED
      BY <3>1, <3>3
  <2>5. \A s \in rowDone' : bulkCreated'[s] > 0
    BY <1>7, <2>3, <2>4
  <2> QED
    BY <1>1, <2>1, <2>2, <2>5 DEF SentFrom, InStep, stepOneVars
<1> QED
  BY <1>1, <1>13, <1>14, StepOneUnmoved, UploadsAreOpen DEF ImportInv

(* The invariant of the import, inductive: the rows of the chunks answered *)
(* are filed once, the loop stands past them, every creation was paid for  *)
(* by a request, and what is sent is of the imported sheet until a late    *)
(* pick replaces the rows.                                                 *)
THEOREM ImportInvariance == ImportSpec => []ImportInv
<1>1. ASSUME ImportInv, [ImportNext]_importVars PROVE ImportInv'
  <2>1. CASE WizardBack \/ CloseWizard \/ UNCHANGED importVars
    BY <1>1, <2>1, WizardMovesKeep
  <2>2. CASE \/ \E f \in Files, e \in Encodings : FilePick(f, e)
             \/ \E e \in Encodings : EncodingChange(e)
             \/ Continue
    BY <1>1, <2>2, StepOneKeeps
  <2>3. CASE \E p \in parses : ParseEnds(p) \/ ParseThrows(p)
    BY <1>1, <2>3, ParsesEndKeep
  <2>4. CASE ImportRows
    BY <1>1, <2>4, ImportRowsKeeps
  <2>5. CASE \E problem \in Refusals : ChunkAnswers(problem)
    BY <1>1, <2>5, ChunkAnswersKeeps
  <2>6. CASE ChunkFails
    BY <1>1, <2>6, ChunkFailsKeeps
  <2>7. CASE RetryRemaining
    BY <1>1, <2>7, RetryRemainingKeeps
  <2>8. CASE \E r \in RowIds : SkipRow(r) \/ RetryRow(r) \/ RetryRowAnswers(r)
    BY <1>1, <2>8, SkipRowKeeps, RetryRowKeeps, RetryRowAnswersKeeps
  <2> QED
    BY <1>1, <2>1, <2>2, <2>3, <2>4, <2>5, <2>6, <2>7, <2>8 DEF ImportNext
<1> QED
  BY <1>1, ImportStarts, PTL DEF ImportSpec

(* Every row of an answered chunk is done, listed or skipped, and in one   *)
(* of the three only, for every file length and chunk size; when the loop  *)
(* has nothing left to retry every row was answered, unless a late pick    *)
(* replaced the rows.                                                      *)
THEOREM ImportRowsAccounted == ImportSpec => []RowsAccounted
<1>1. ImportInv => RowsAccounted
  BY DEF ImportInv, ImportKept, SentFrom, UploadInv, RowBooks, RowsAccounted
<1> QED
  BY <1>1, ImportInvariance, PTL

(* With no answer lost, the import creates no row twice, whatever late     *)
(* picks do; and a row it counts as done was created, unless the rows were *)
(* replaced under it.                                                      *)
THEOREM ImportCreatesOnce == ImportSpec => []CreatedOnce
<1>1. ImportInv => CreatedOnce
  BY DEF ImportInv, ImportKept, SentFrom, UploadInv, UploadTyped, RowBooks, CreatedOnce
<1> QED
  BY <1>1, ImportInvariance, PTL

LEMMA ImportTyped == ImportInv => ImportTypeOK
<1> SUFFICES ASSUME ImportInv PROVE ImportTypeOK
  OBVIOUS
<1>1. bulkCreated \in [RowIds -> 0..MaxSends]
  <2>1. bulkCreated \in [RowIds -> Nat] /\ sends \in 0..MaxSends
    BY DEF ImportInv, UploadInv, UploadTyped
  <2>2. \A r \in RowIds : bulkCreated[r] \in 0..MaxSends
    <3>1. \A r \in RowIds : bulkCreated[r] <= sends
      BY <2>1, ImportAssumption DEF ImportInv, UploadInv, CreationsPaid
    <3> QED
      BY <2>1, <3>1, ImportAssumption
  <2> QED
    BY <2>1, <2>2
<1> QED
  BY <1>1 DEF ImportInv, UploadInv, UploadTyped, StepOneTyped, WizardStates, ImportTypeOK

------------------------------------------------------------------------------
(* The columns of an import (ImportMapping).                               *)

(* Once the import was pressed, every column is decided and no two clash.  *)
MappingInv ==
  /\ MappingTypeOK
  /\ mapStep = 3 => ~HasUnsetColumn /\ MappingProblems = {}

LEMMA TargetsTyped == \A h \in Headers : DefaultTarget(h) \in MappingTarget
  BY DEF DefaultTarget, MappingTarget

(* Lowering a name leaves its base and its padding.                        *)
LEMMA LoweredName ==
  ASSUME NEW n \in MapNames
  PROVE  Lowered(n).base = n.base /\ Lowered(n).padded = n.padded
<1>1. Lowered(n).base = n.base
  BY DEF Lowered, MapNames
<1>2. Lowered(n).padded = n.padded
  BY DEF Lowered, MapNames
<1> QED
  BY <1>1, <1>2

(* Normalising keeps the base and, done again, changes nothing.            *)
LEMMA Normalized ==
  ASSUME NEW n \in MapNames
  PROVE  /\ NormalizedName(n) \in MapNames /\ NormalizedName(n).base = n.base
         /\ NormalizedName(n).padded = FALSE /\ NormalizedName(n).upper = FALSE
<1>1. NormalizedName(n) \in MapNames
  BY DEF NormalizedName, Lowered, Trimmed, MapNames
<1>2. NormalizedName(n).base = n.base
  BY DEF NormalizedName, Lowered, Trimmed, MapNames
<1>3. NormalizedName(n).padded = FALSE
  BY DEF NormalizedName, Lowered, Trimmed, MapNames
<1>4. NormalizedName(n).upper = FALSE
  BY DEF NormalizedName, Lowered, Trimmed, MapNames
<1> QED
  BY <1>1, <1>2, <1>3, <1>4

LEMMA NormalizedTwice ==
  ASSUME NEW n \in MapNames
  PROVE  NormalizedName(NormalizedName(n)) = NormalizedName(n)
<1> DEFINE m == NormalizedName(n)
<1>1. m \in MapNames /\ NormalizedName(m) \in MapNames /\ NormalizedName(m).base = m.base
  BY Normalized
<1>2. NormalizedName(m).padded = m.padded
  BY <1>1, Normalized, Zenon
<1>3. NormalizedName(m).upper = m.upper
  BY <1>1, Normalized, Zenon
<1> HIDE DEF m
<1>4. PICK k : k = NormalizedName(m)
  OBVIOUS
<1>5. k \in MapNames /\ k.base = m.base /\ k.padded = m.padded /\ k.upper = m.upper
  BY <1>1, <1>2, <1>3, <1>4
<1>6. k = m
  BY <1>1, <1>5 DEF MapNames
<1> QED
  BY <1>4, <1>6 DEF m

LEMMA MappingKept == ASSUME MappingInv, [MappingNext]_mappingVars PROVE MappingInv'
<1>1. CASE PressImport
  BY <1>1 DEF PressImport, MappingInv, MappingTypeOK, HasUnsetColumn, MappingProblems, Keyed, BlankCustom,
              Shadowing, ValidationKey
<1>2. CASE \E h \in Headers : MappingChange(h)
  <2>1. mapping' \in [Headers -> MappingTarget] /\ mapStep' = 2 /\ sheet' = sheet
    BY <1>2 DEF MappingChange, MappingInv, MappingTypeOK
  <2> QED
    BY <2>1 DEF MappingInv, MappingTypeOK
<1>3. CASE UNCHANGED mappingVars
  BY <1>3 DEF mappingVars, MappingInv, MappingTypeOK, HasUnsetColumn, MappingProblems, Keyed, BlankCustom,
              Shadowing, ValidationKey
<1> QED
  BY <1>1, <1>2, <1>3 DEF MappingNext

(* The invariant of the mapping, inductive: what is imported passed the    *)
(* gate of "Import N rows".                                                *)
THEOREM MappingInvariance == MappingSpec => []MappingInv
<1>1. MappingInit => MappingInv
  <2> SUFFICES ASSUME MappingInit PROVE MappingInv
    OBVIOUS
  <2>1. mapping \in [Headers -> MappingTarget]
    BY TargetsTyped DEF MappingInit
  <2> QED
    BY <2>1 DEF MappingInit, MappingInv, MappingTypeOK
<1> QED
  BY <1>1, MappingKept, PTL DEF MappingSpec

(* Past the gate a custom column has a name of its own, which no folding   *)
(* the backend does turns into a standard field.                           *)
LEMMA PastTheGate ==
  ASSUME MappingInv, mapStep = 3, NEW h \in PayloadHeaders
  PROVE  /\ h \in Headers /\ mapping[h] \in MappingTarget /\ Keyed(mapping[h])
         /\ ~Shadowing(mapping[h]) /\ ValidationKey(mapping[h]) = Trimmed(mapping[h].name)
         /\ \A g \in PayloadHeaders : ValidationKey(mapping[g]) = ValidationKey(mapping[h]) => g = h
<1>1. h \in Headers /\ mapping[h] \in MappingTarget
  BY DEF PayloadHeaders, MappingInv, MappingTypeOK
<1>2. MappingProblems = {}
  BY DEF MappingInv
<1>3. ~BlankCustom(mapping[h]) /\ ~Shadowing(mapping[h])
  BY <1>1, <1>2 DEF MappingProblems
<1>4. \A g \in PayloadHeaders : Keyed(mapping[g]) /\ g \in Headers
  BY <1>2 DEF MappingProblems, Keyed, PayloadHeaders
<1>5. \A g \in PayloadHeaders : ValidationKey(mapping[g]) = ValidationKey(mapping[h]) => g = h
  BY <1>2, <1>4 DEF MappingProblems
<1> QED
  BY <1>1, <1>3, <1>4, <1>5 DEF ValidationKey

(* No column is lost, whatever the file's columns and the names typed: two *)
(* columns never share a key, and a standard field gets its own column.    *)
THEOREM ColumnsKept == MappingSpec => []NoColumnOverwritten
<1>1. MappingInv => NoColumnOverwritten
  <2> SUFFICES ASSUME MappingInv, mapStep = 3
               PROVE  /\ \A g, h \in PayloadHeaders : PayloadKey(g) = PayloadKey(h) => g = h
                      /\ \A h \in Headers, f \in StandardFields : BulkSets(h, f) => h \in MappedTo(f)
                      /\ \A f \in StandardFields, g, h \in Headers : BulkSets(g, f) /\ BulkSets(h, f) => g = h
    BY DEF NoColumnOverwritten
  <2>1. \A g, h \in PayloadHeaders : PayloadKey(g) = PayloadKey(h) => g = h
    BY PastTheGate DEF PayloadKey
  <2>2. ASSUME NEW h \in Headers, NEW f \in StandardFields, BulkSets(h, f) PROVE h \in MappedTo(f)
    <3>1. h \in PayloadHeaders /\ Lowered(mapping[h].name) = Standard(f).name
      BY <2>2 DEF BulkSets, PayloadKey
    <3>2. mapping[h] \in MappingTarget /\ ~Shadowing(mapping[h]) /\ mapping[h].kind \in {"standard", "custom"}
      BY <3>1, PastTheGate DEF PayloadHeaders
    <3>3. CASE mapping[h].kind = "standard"
      <4>1. PICK f2 \in StandardFields : mapping[h] = Standard(f2)
        BY <3>2, <3>3 DEF MappingTarget, Custom, Skip, Unset
      <4>2. Lowered(Standard(f2).name) = Standard(f).name
        BY <3>1, <4>1
      <4>3. f2 = f
        BY <4>2 DEF Lowered, Standard
      <4> QED
        BY <4>1, <4>3 DEF MappedTo
    <3>4. CASE mapping[h].kind = "custom"
      <4>1. PICK n \in MapNames : mapping[h] = Custom(n)
        BY <3>2, <3>4 DEF MappingTarget, Standard, Skip, Unset
      <4>2. Lowered(n) = [base |-> f, padded |-> FALSE, upper |-> FALSE]
        BY <3>1, <4>1 DEF Custom, Standard
      <4>3. Lowered(n).base = f
        BY <4>2
      <4>4. NormalizedName(n).base = f
        BY <4>1, <4>3, LoweredName, Normalized
      <4>5. IsStandardName(NormalizedName(n))
        BY <4>1, <4>4, NormalizedTwice DEF IsStandardName
      <4> QED
        BY <3>2, <3>4, <4>1, <4>5 DEF Shadowing, Custom
    <3> QED
      BY <3>2, <3>3, <3>4
  <2>3. ASSUME NEW f \in StandardFields, NEW g \in Headers, NEW h \in Headers, BulkSets(g, f), BulkSets(h, f)
        PROVE  g = h
    <3>1. mapping[g] = mapping[h] /\ g \in PayloadHeaders /\ h \in PayloadHeaders
      BY <2>2, <2>3 DEF MappedTo, BulkSets
    <3> QED
      BY <2>1, <3>1 DEF PayloadKey
  <2> QED
    BY <2>1, <2>2, <2>3
<1> QED
  BY <1>1, MappingInvariance, PTL

(* Induction over a set of naturals.                                       *)
LEMMA AllNaturals ==
  ASSUME NEW S, 0 \in S, \A n \in Nat : n \in S => n + 1 \in S
  PROVE  Nat \subseteq S
<1> SUFFICES ASSUME Nat \ S # {} PROVE FALSE
  OBVIOUS
<1>1. PICK x \in Nat \ S : \A y \in Nat \ S : x <= y
  BY LeastOf
<1>2. x # 0 /\ x - 1 \in Nat
  OBVIOUS
<1>3. x - 1 \in S
  BY <1>1, <1>2
<1> QED
  BY <1>2, <1>3

(* A loop over n rows has a run: a function from the turns to the states.  *)
Runs(T, base, n, step) ==
  {f \in [0..n -> T] : f[0] = base /\ \A i \in 1..n : f[i] = step[<<f[i - 1], i>>]}

LEMMA LoopRuns ==
  ASSUME NEW T, NEW base \in T, NEW n \in Nat, NEW step \in [T \X (1..n) -> T]
  PROVE  Runs(T, base, n, step) # {}
<1> DEFINE Run(f, m) == f[0] = base /\ \A i \in 1..m : f[i] = step[<<f[i - 1], i>>]
           S == {m \in Nat : m <= n => \E f \in [0..m -> T] : Run(f, m)}
<1>1. 0 \in S
  <2>1. [i \in 0..0 |-> base] \in [0..0 -> T] /\ Run([i \in 0..0 |-> base], 0)
    OBVIOUS
  <2> QED
    BY <2>1
<1>2. ASSUME NEW m \in Nat, m \in S PROVE m + 1 \in S
  <2> SUFFICES ASSUME m + 1 <= n PROVE \E f \in [0..(m + 1) -> T] : Run(f, m + 1)
    OBVIOUS
  <2>1. PICK f \in [0..m -> T] : Run(f, m)
    BY <1>2
  <2>2. PICK e \in T : e = step[<<f[m], m + 1>>]
    OBVIOUS
  <2> DEFINE g == [i \in 0..(m + 1) |-> IF i = m + 1 THEN e ELSE f[i]]
  <2>3. g \in [0..(m + 1) -> T]
    OBVIOUS
  <2>4. \A i \in 0..m : g[i] = f[i]
    OBVIOUS
  <2>5. g[m + 1] = step[<<g[m], m + 1>>]
    <3>1. g[m + 1] = e /\ g[m] = f[m]
      BY <2>4
    <3> HIDE DEF g
    <3> QED
      BY <2>2, <3>1
  <2>6. Run(g, m + 1)
    <3> HIDE DEF g
    <3>1. g[0] = base
      BY <2>1, <2>4
    <3>2. ASSUME NEW i \in 1..(m + 1) PROVE g[i] = step[<<g[i - 1], i>>]
      <4>1. CASE i = m + 1
        BY <2>5, <4>1
      <4>2. CASE i \in 1..m
        BY <2>1, <2>4, <4>2
      <4> QED
        BY <4>1, <4>2
    <3> QED
      BY <3>1, <3>2
  <2> HIDE DEF g, Run
  <2> QED
    BY <2>3, <2>6
<1> HIDE DEF Run, S
<1>3. n \in S
  BY <1>1, <1>2, AllNaturals
<1> QED
  BY <1>3 DEF S, Run, Runs

(* The states of the loop of dedupeByEmail.                                *)
LoopStates == [seen : SUBSET Cells, kept : Seq(Nat)]
Address(h, i) == Folded[sheet[i][h]]

LEMMA RowsTyped ==
  ASSUME MappingTypeOK
  PROVE  /\ Len(sheet) \in Nat /\ DOMAIN sheet = 1..Len(sheet)
         /\ \A i \in 1..Len(sheet), h \in Headers : Address(h, i) \in Cells
<1>1. PICK n \in 0..MaxSheet : sheet \in [1..n -> [Headers -> Cells]]
  BY DEF MappingTypeOK, Sheets
<1>2. n \in Nat
  BY MappingAssumption
<1>3. sheet \in Seq([Headers -> Cells])
  BY <1>1, <1>2
<1>4. Len(sheet) = n
  BY <1>1, <1>2
<1> QED
  BY <1>1, <1>2, <1>4, MappingAssumption DEF Address

LEMMA VisitTyped ==
  ASSUME NEW acc \in LoopStates, NEW i \in Nat, NEW email \in Cells
  PROVE  Visit(acc, i, email) \in LoopStates
  BY DEF Visit, LoopStates

(* The function the code's loop computes exists, so it is that function.   *)
LEMMA VisitedTurns ==
  ASSUME MappingTypeOK, NEW h \in Headers
  PROVE  /\ Visited(h) \in [0..Len(sheet) -> LoopStates]
         /\ Visited(h)[0] = [seen |-> {}, kept |-> <<>>]
         /\ \A i \in 1..Len(sheet) : Visited(h)[i] = Visit(Visited(h)[i - 1], i, Address(h, i))
<1> DEFINE n == Len(sheet)
           base == [seen |-> {}, kept |-> <<>>]
           step == [p \in LoopStates \X (1..n) |-> Visit(p[1], p[2], Address(h, p[2]))]
           Loop(f) == [i \in 0..n |-> IF i = 0 THEN base ELSE Visit(f[i - 1], i, Folded[sheet[i][h]])]
<1>1. n \in Nat /\ \A i \in 1..n : Address(h, i) \in Cells
  BY RowsTyped
<1>2. base \in LoopStates
  BY DEF LoopStates
<1>3. step \in [LoopStates \X (1..n) -> LoopStates]
  BY <1>1, VisitTyped
<1>4. PICK f \in [0..n -> LoopStates] : f[0] = base /\ \A i \in 1..n : f[i] = step[<<f[i - 1], i>>]
  <2> HIDE DEF n, base, step
  <2>1. Runs(LoopStates, base, n, step) # {}
    BY <1>1, <1>2, <1>3, LoopRuns
  <2> QED
    BY <2>1 DEF Runs
<1>5. ASSUME NEW i \in 1..n PROVE f[i] = Visit(f[i - 1], i, Address(h, i))
  <2> HIDE DEF n
  <2>1. f[i - 1] \in LoopStates
    BY <1>1, <1>4
  <2>2. <<f[i - 1], i>> \in LoopStates \X (1..n)
    BY <2>1
  <2>3. step[<<f[i - 1], i>>] = Visit(f[i - 1], i, Address(h, i))
    BY <2>2
  <2> HIDE DEF step
  <2> QED
    BY <1>4, <2>3
<1>6. f = Loop(f)
  <2> HIDE DEF n, base
  <2> QED
    BY <1>1, <1>4, <1>5 DEF Address
<1>7. Visited(h) = CHOOSE g : g = Loop(g)
  BY DEF Visited
<1> HIDE DEF n, base, step, Loop
<1>8. Visited(h) = Loop(Visited(h))
  BY <1>6, <1>7, Zenon
<1>9. Visited(h) = [i \in 0..n |-> IF i = 0 THEN base ELSE Visit(Visited(h)[i - 1], i, Folded[sheet[i][h]])]
  BY <1>8 DEF Loop
<1>10. PICK v : v = Visited(h)
  OBVIOUS
<1>11. v = [i \in 0..n |-> IF i = 0 THEN base ELSE Visit(v[i - 1], i, Folded[sheet[i][h]])]
  BY <1>9, <1>10
<1>12. v[0] = base /\ \A i \in 1..n : v[i] = Visit(v[i - 1], i, Address(h, i))
  BY <1>1, <1>11 DEF Address
<1>13. DOMAIN v = 0..n
  BY <1>11
<1>14. \A i \in 0..n : v[i] \in LoopStates
  <2> DEFINE S == {i \in Nat : i \in 0..n => v[i] \in LoopStates}
  <2>1. 0 \in S
    BY <1>1, <1>2, <1>12
  <2>2. ASSUME NEW i \in Nat, i \in S PROVE i + 1 \in S
    <3> SUFFICES ASSUME i + 1 \in 0..n PROVE v[i + 1] \in LoopStates
      OBVIOUS
    <3>1. i + 1 \in 1..n /\ v[i] \in LoopStates /\ (i + 1) - 1 = i
      BY <1>1, <2>2
    <3>2. v[i + 1] = Visit(v[i], i + 1, Address(h, i + 1))
      BY <1>12, <3>1
    <3> QED
      BY <1>1, <3>1, <3>2, VisitTyped
  <2> HIDE DEF S
  <2>3. Nat \subseteq S
    BY <2>1, <2>2, AllNaturals
  <2> QED
    BY <1>1, <2>3 DEF S
<1>15. v \in [0..n -> LoopStates]
  BY <1>11, <1>13, <1>14
<1> QED
  BY <1>10, <1>12, <1>15 DEF n, base

(* Row j is kept, or it has an address and an earlier kept row has it too. *)
Represented(kept, j, h) ==
  \/ \E k \in DOMAIN kept : kept[k] = j
  \/ /\ Address(h, j) # Blank
     /\ \E k \in DOMAIN kept : kept[k] < j /\ Address(h, kept[k]) = Address(h, j)

(* What the loop of dedupeByEmail has done after i rows.                   *)
Merged(acc, i, h) ==
  /\ acc.seen \subseteq {Address(h, j) : j \in 1..i}
  /\ \A k \in DOMAIN acc.kept : acc.kept[k] \in 1..i
  /\ \A k, l \in DOMAIN acc.kept : k < l => acc.kept[k] < acc.kept[l]
  /\ \A j \in 1..i : Represented(acc.kept, j, h)

LEMMA VisitMerges ==
  ASSUME NEW acc \in LoopStates, NEW i \in Nat, NEW h \in Headers, Merged(acc, i, h)
  PROVE  Merged(Visit(acc, i + 1, Address(h, i + 1)), i + 1, h)
<1> DEFINE a == Address(h, i + 1)
<1>1. acc.seen \subseteq {Address(h, j) : j \in 1..(i + 1)}
  BY DEF Merged
<1>2. CASE a \in acc.seen \ {Blank}
  <2>1. Visit(acc, i + 1, a) = acc
    BY <1>2 DEF Visit
  <2>2. Represented(acc.kept, i + 1, h)
    <3>1. PICK j \in 1..i : Address(h, j) = a
      BY <1>2 DEF Merged
    <3>2. Represented(acc.kept, j, h) /\ \A k \in DOMAIN acc.kept : acc.kept[k] \in 1..i
      BY DEF Merged
    <3>3. \E k \in DOMAIN acc.kept : acc.kept[k] \in 1..i /\ Address(h, acc.kept[k]) = a
      BY <3>1, <3>2 DEF Represented
    <3>4. \A x \in 1..i : x < i + 1
      OBVIOUS
    <3> QED
      BY <1>2, <3>3, <3>4 DEF Represented
  <2>3. \A j \in 1..(i + 1) : Represented(acc.kept, j, h)
    BY <2>2 DEF Merged
  <2>4. \A k \in DOMAIN acc.kept : acc.kept[k] \in 1..(i + 1)
    BY DEF Merged
  <2>5. Merged(acc, i + 1, h)
    BY <1>1, <2>3, <2>4 DEF Merged
  <2> QED
    BY <2>1, <2>5
<1>3. CASE ~(a \in acc.seen \ {Blank})
  <2>1. PICK s, t : s = acc.seen \cup {a} /\ t = Append(acc.kept, i + 1)
    OBVIOUS
  <2>2. Visit(acc, i + 1, a) = [seen |-> s, kept |-> t]
    BY <1>3, <2>1 DEF Visit
  <2>3. acc.kept \in Seq(Nat)
    BY DEF LoopStates
  <2> DEFINE n == Len(acc.kept)
  <2>4. /\ n \in Nat /\ DOMAIN acc.kept = 1..n /\ DOMAIN t = 1..(n + 1) /\ t[n + 1] = i + 1
        /\ \A k \in 1..n : t[k] = acc.kept[k] /\ acc.kept[k] \in 1..i
    BY <2>1, <2>3 DEF Merged
  <2>5. s \subseteq {Address(h, j) : j \in 1..(i + 1)}
    <3>1. a \in {Address(h, j) : j \in 1..(i + 1)}
      OBVIOUS
    <3> QED
      BY <1>1, <2>1, <3>1
  <2> HIDE DEF n
  <2>6. \A k \in DOMAIN t : t[k] \in 1..(i + 1)
    BY <2>4
  <2>7. \A k, l \in DOMAIN t : k < l => t[k] < t[l]
    BY <2>4 DEF Merged
  <2>8. ASSUME NEW j \in 1..(i + 1) PROVE Represented(t, j, h)
    <3>1. CASE j = i + 1
      BY <2>4, <3>1 DEF Represented
    <3>2. CASE j \in 1..i
      <4>1. Represented(acc.kept, j, h)
        BY <3>2 DEF Merged
      <4>2. \A k \in DOMAIN acc.kept : k \in DOMAIN t /\ t[k] = acc.kept[k]
        BY <2>4
      <4> QED
        BY <4>1, <4>2 DEF Represented
    <3> QED
      BY <3>1, <3>2
  <2> QED
    BY <2>2, <2>5, <2>6, <2>7, <2>8 DEF Merged
<1> QED
  BY <1>2, <1>3

(* The loop over the whole sheet.                                          *)
LEMMA SheetMerged ==
  ASSUME MappingTypeOK, NEW h \in Headers
  PROVE  /\ Visited(h)[Len(sheet)] \in LoopStates
         /\ Merged(Visited(h)[Len(sheet)], Len(sheet), h)
<1> DEFINE n == Len(sheet)
<1>1. PICK v : v = Visited(h)
  OBVIOUS
<1>2. /\ n \in Nat /\ v \in [0..n -> LoopStates] /\ v[0] = [seen |-> {}, kept |-> <<>>]
      /\ \A i \in 1..n : v[i] = Visit(v[i - 1], i, Address(h, i))
  BY <1>1, VisitedTurns, RowsTyped
<1> HIDE DEF n
<1> DEFINE S == {i \in Nat : i <= n => Merged(v[i], i, h)}
<1>3. 0 \in S
  <2>1. v[0].seen = {} /\ v[0].kept = <<>>
    BY <1>2
  <2>2. DOMAIN v[0].kept = {}
    BY <2>1
  <2> QED
    BY <2>1, <2>2 DEF Merged
<1>4. ASSUME NEW i \in Nat, i \in S PROVE i + 1 \in S
  <2> SUFFICES ASSUME i + 1 <= n PROVE Merged(v[i + 1], i + 1, h)
    OBVIOUS
  <2>1. v[i] \in LoopStates /\ Merged(v[i], i, h) /\ i + 1 \in 1..n /\ (i + 1) - 1 = i
    BY <1>2, <1>4
  <2>2. v[i + 1] = Visit(v[i], i + 1, Address(h, i + 1))
    BY <1>2, <2>1
  <2> QED
    BY <2>1, <2>2, VisitMerges
<1> HIDE DEF S
<1>5. n \in S
  BY <1>2, <1>3, <1>4, AllNaturals
<1>6. v[n] \in LoopStates /\ Merged(v[n], n, h)
  BY <1>2, <1>5 DEF S
<1> QED
  BY <1>1, <1>6 DEF n

(* The rows dedupeByEmail keeps: each once, in the order of the file.      *)
LEMMA RowsKept ==
  ASSUME MappingTypeOK
  PROVE  /\ OriginalRowIndices \in Seq(1..Len(sheet))
         /\ \A k, l \in DOMAIN OriginalRowIndices : k < l => OriginalRowIndices[k] < OriginalRowIndices[l]
<1>1. CASE MappedTo("email") = {}
  <2>1. OriginalRowIndices = [i \in 1..Len(sheet) |-> i]
    BY <1>1, RowsTyped DEF OriginalRowIndices, Dedupe
  <2>2. PICK o : o = OriginalRowIndices
    OBVIOUS
  <2>3. o = [i \in 1..Len(sheet) |-> i] /\ Len(sheet) \in Nat
    BY <2>1, <2>2, RowsTyped
  <2> QED
    BY <2>2, <2>3
<1>2. CASE MappedTo("email") # {}
  <2>1. PICK h \in Headers : h = CHOOSE g \in MappedTo("email") : TRUE
    BY <1>2 DEF MappedTo
  <2>2. OriginalRowIndices = Visited(h)[Len(sheet)].kept
    BY <1>2, <2>1 DEF OriginalRowIndices, Dedupe
  <2>3. PICK acc : acc = Visited(h)[Len(sheet)]
    OBVIOUS
  <2>4. acc \in LoopStates /\ Merged(acc, Len(sheet), h)
    BY <2>3, SheetMerged
  <2>5. PICK o : o = acc.kept
    OBVIOUS
  <2>6. o \in Seq(Nat) /\ \A k \in DOMAIN o : o[k] \in 1..Len(sheet)
    BY <2>4, <2>5 DEF LoopStates, Merged
  <2>7. o \in Seq(1..Len(sheet))
    BY <2>6
  <2>8. \A k, l \in DOMAIN o : k < l => o[k] < o[l]
    BY <2>4, <2>5 DEF Merged
  <2> QED
    BY <2>2, <2>3, <2>5, <2>7, <2>8
<1> QED
  BY <1>1, <1>2

(* Only a row whose address an earlier kept row has is merged away.        *)
LEMMA OnlyDuplicatesMerged == ASSUME MappingTypeOK PROVE MergesOnlyDuplicates
<1> SUFFICES ASSUME NEW h \in MappedTo("email"), Cardinality(MappedTo("email")) = 1, NEW i \in DOMAIN sheet
             PROVE  \/ \E k \in DOMAIN OriginalRowIndices : OriginalRowIndices[k] = i
                    \/ /\ Folded[sheet[i][h]] # Blank
                       /\ \E k \in DOMAIN OriginalRowIndices :
                            /\ OriginalRowIndices[k] < i
                            /\ Folded[sheet[OriginalRowIndices[k]][h]] = Folded[sheet[i][h]]
  BY DEF MergesOnlyDuplicates
<1>1. IsFiniteSet(MappedTo("email")) /\ h \in Headers
  <2>1. MappedTo("email") \subseteq Headers /\ IsFiniteSet(Headers)
    BY MappingAssumption DEF MappedTo
  <2> QED
    BY <2>1, FS_Subset
<1>2. PICK x : MappedTo("email") = {x}
  BY <1>1, FS_Singleton
<1>3. h = CHOOSE g \in MappedTo("email") : TRUE
  BY <1>2
<1>4. OriginalRowIndices = Visited(h)[Len(sheet)].kept
  BY <1>2, <1>3 DEF OriginalRowIndices, Dedupe
<1>5. Merged(Visited(h)[Len(sheet)], Len(sheet), h) /\ i \in 1..Len(sheet)
  BY <1>1, SheetMerged, RowsTyped
<1>6. Represented(OriginalRowIndices, i, h)
  BY <1>4, <1>5 DEF Merged
<1> QED
  BY <1>6 DEF Represented, Address

(* The smaller of two numbers, for Min of FiniteSetsExt.                   *)
LEMMA SmallerOf ==
  ASSUME NEW a \in Int, NEW b \in Int
  PROVE  Min({a, b}) = IF a <= b THEN a ELSE b
<1>1. \A x \in {a, b} : (\A y \in {a, b} : x <= y) <=> x = IF a <= b THEN a ELSE b
  OBVIOUS
<1> QED
  BY <1>1 DEF Min

(* Integer division, and multiples of a size, as the solver needs them.    *)
LEMMA Division ==
  ASSUME NEW a \in Nat, NEW m \in Nat \ {0}
  PROVE  /\ a \div m \in Nat /\ m * (a \div m) <= a /\ a < m * (a \div m) + m
  BY Z3

LEMMA Multiples ==
  ASSUME NEW a \in Int, NEW b \in Int, NEW m \in Nat \ {0}, a < b
  PROVE  a * m \in Int /\ b * m \in Int /\ a * m + m <= b * m
<1>1. b - a >= 1
  OBVIOUS
<1>2. b = a + (b - a)
  OBVIOUS
<1> QED
  BY Z3

(* The chunks of a sequence: item k of chunk c is one item of it, and each *)
(* item is in one chunk.                                                   *)
LEMMA ChunksHold ==
  ASSUME NEW A, NEW s \in Seq(A), NEW c \in DOMAIN ChunkArray(s), NEW k \in DOMAIN ChunkArray(s)[c]
  PROVE  /\ c \in Nat \ {0} /\ k \in Nat \ {0} /\ k <= ImportChunk
         /\ MapChunkRowToAbsolute(c - 1, k) \in DOMAIN s
         /\ ChunkArray(s)[c][k] = s[MapChunkRowToAbsolute(c - 1, k)]
<1> DEFINE m == ImportChunk
           N == Len(s)
           from == (c - 1) * m + 1
           upto == Min({c * m, N})
<1>1. m \in Nat \ {0} /\ N \in Nat /\ DOMAIN s = 1..N
  BY MappingAssumption
<1>2. c \in 1..((N + m - 1) \div m) /\ ChunkArray(s)[c] = SubSeq(s, from, upto)
  BY DEF ChunkArray
<1> HIDE DEF m, N
<1>3. c \in Nat \ {0} /\ c * m \in Nat /\ (c - 1) * m \in Nat /\ c * m = (c - 1) * m + m
  BY <1>1, <1>2, Division, Z3
<1>4. (c - 1) * m < N
  <2> DEFINE q == (N + m - 1) \div m
  <2>1. q \in Nat /\ m * q <= N + m - 1 /\ c <= q
    BY <1>1, <1>2, Division
  <2> HIDE DEF q
  <2>2. c * m <= q * m /\ q * m = m * q
    BY <1>1, <1>3, <2>1, Multiples
  <2> QED
    BY <1>1, <1>3, <2>1, <2>2
<1>5. upto = IF c * m <= N THEN c * m ELSE N
  BY <1>1, <1>3, SmallerOf
<1>6. from \in 1..(N + 1) /\ upto \in from - 1 .. N /\ upto - from + 1 <= m
  BY <1>1, <1>3, <1>4, <1>5
<1> HIDE DEF from, upto
<1>7. /\ DOMAIN SubSeq(s, from, upto) = 1..(upto - from + 1)
      /\ \A i \in 1..(upto - from + 1) : SubSeq(s, from, upto)[i] = s[from + i - 1]
  BY <1>1, <1>6, SubSeqProperties DEF N
<1>8. k \in 1..(upto - from + 1)
  BY <1>2, <1>7
<1>9. MapChunkRowToAbsolute(c - 1, k) = from + k - 1
  BY <1>3, <1>8 DEF MapChunkRowToAbsolute, from, m
<1> QED
  BY <1>1, <1>2, <1>3, <1>6, <1>7, <1>8, <1>9 DEF m

(* Two numbers made of different chunks or items differ.                   *)
LEMMA ChunksApart ==
  ASSUME NEW c \in Nat \ {0}, NEW d \in Nat \ {0}, NEW k \in 1..ImportChunk, NEW l \in 1..ImportChunk,
         MapChunkRowToAbsolute(c - 1, k) = MapChunkRowToAbsolute(d - 1, l)
  PROVE  c = d /\ k = l
<1> DEFINE m == ImportChunk
<1>1. m \in Nat \ {0} /\ (c - 1) * m + k = (d - 1) * m + l
  BY MappingAssumption DEF MapChunkRowToAbsolute
<1>2. ~(c < d)
  <2> SUFFICES ASSUME c < d PROVE FALSE
    OBVIOUS
  <2>1. (c - 1) * m \in Int /\ (d - 1) * m \in Int /\ (c - 1) * m + m <= (d - 1) * m
    BY <1>1, Multiples
  <2> QED
    BY <1>1, <2>1
<1>3. ~(d < c)
  <2> SUFFICES ASSUME d < c PROVE FALSE
    OBVIOUS
  <2>1. (c - 1) * m \in Int /\ (d - 1) * m \in Int /\ (d - 1) * m + m <= (c - 1) * m
    BY <1>1, Multiples
  <2> QED
    BY <1>1, <2>1
<1>4. c = d
  BY <1>2, <1>3
<1>5. (c - 1) * m \in Int
  BY <1>1
<1> QED
  BY <1>1, <1>4, <1>5

(* The number of an error is the row that was sent, and of that row only.  *)
LEMMA RowsNumbered == ASSUME MappingTypeOK PROVE ErrorsNameTheirRow
<1> DEFINE chunks == ChunkArray(Payload)
           abs(c, k) == MapChunkRowToAbsolute(c - 1, k)
<1>1. PICK o : o = OriginalRowIndices
  OBVIOUS
<1>2. o \in Seq(1..Len(sheet)) /\ Len(sheet) \in Nat /\ \A k, l \in DOMAIN o : k < l => o[k] < o[l]
  BY <1>1, RowsKept, RowsTyped
<1>3. Payload = [k \in 1..Len(o) |-> PayloadRow(o[k])] /\ Len(o) \in Nat
  BY <1>1, <1>2 DEF Payload
<1>4. Payload \in Seq({PayloadRow(i) : i \in 1..Len(sheet)}) /\ DOMAIN Payload = 1..Len(o)
  BY <1>2, <1>3
<1>5. ASSUME NEW c \in DOMAIN chunks, NEW k \in DOMAIN chunks[c]
      PROVE  /\ c \in Nat \ {0} /\ k \in 1..ImportChunk /\ abs(c, k) \in 1..Len(o)
             /\ ReportedRow(c, k) = o[abs(c, k)] /\ chunks[c][k] = PayloadRow(ReportedRow(c, k))
  <2>1. /\ c \in Nat \ {0} /\ k \in Nat \ {0} /\ k <= ImportChunk
        /\ abs(c, k) \in DOMAIN Payload /\ chunks[c][k] = Payload[abs(c, k)]
    BY <1>4, <1>5, ChunksHold
  <2>2. k \in 1..ImportChunk
    BY <2>1, MappingAssumption
  <2>3. ReportedRow(c, k) = o[abs(c, k)]
    BY <1>1 DEF ReportedRow
  <2> HIDE DEF abs, chunks
  <2> QED
    BY <1>3, <1>4, <2>1, <2>2, <2>3
<1> HIDE DEF chunks, abs
<1>6. ASSUME NEW c \in DOMAIN chunks, NEW k \in DOMAIN chunks[c],
             NEW d \in DOMAIN chunks, NEW l \in DOMAIN chunks[d], ReportedRow(c, k) = ReportedRow(d, l)
      PROVE  <<c, k>> = <<d, l>>
  <2>1. /\ abs(c, k) \in 1..Len(o) /\ abs(d, l) \in 1..Len(o) /\ o[abs(c, k)] = o[abs(d, l)]
    BY <1>5, <1>6
  <2>2. abs(c, k) = abs(d, l)
    <3>1. DOMAIN o = 1..Len(o) /\ \A i \in DOMAIN o : o[i] \in Int
      BY <1>2
    <3> QED
      BY <1>2, <2>1, <3>1
  <2> QED
    BY <1>5, <2>2, ChunksApart DEF abs
<1> QED
  BY <1>5, <1>6 DEF ErrorsNameTheirRow, chunks

(* What the wizard imports is what was mapped, whatever the file.          *)
THEOREM ImportIsAsMapped == MappingSpec => []ImportsWhatWasMapped
<1>1. MappingInv => MergesOnlyDuplicates /\ ErrorsNameTheirRow
  BY OnlyDuplicatesMerged, RowsNumbered DEF MappingInv
<1> QED
  BY <1>1, ColumnsKept, MappingInvariance, PTL DEF ImportsWhatWasMapped

------------------------------------------------------------------------------
(* The zones page (ZoneRules).                                             *)

(* What the steps do to the three variables the property is about: an      *)
(* editor reports dirty or busy only while it is on the page.              *)
LEMMA EditorOnPage ==
  ASSUME NeverLockedOut, UNCHANGED <<zoneList, zoneListOk, expanded>>,
         Mounted \/ UNCHANGED <<rulesDirty, rulesBusy>>
  PROVE  NeverLockedOut'
<1>1. CASE Mounted
  BY <1>1 DEF NeverLockedOut, Mounted, ZoneRows
<1>2. CASE UNCHANGED <<rulesDirty, rulesBusy>>
  BY <1>2 DEF NeverLockedOut
<1> QED
  BY <1>1, <1>2

LEMMA ZoneRowKeeps ==
  ASSUME NeverLockedOut,
         \/ EditClauses \/ CancelRules \/ SaveRules
         \/ \E z \in Zones : ToggleRules(z) \/ RulesArrive(z)
  PROVE  NeverLockedOut'
<1>1. ASSUME NEW z \in Zones, ToggleRules(z) PROVE NeverLockedOut'
  <2>1. zoneList' = zoneList /\ zoneListOk' = zoneListOk /\ z \in ZoneRows
    BY <1>1 DEF ToggleRules
  <2>2. expanded' \in {z, NoZone} \/ UNCHANGED <<expanded, rulesDirty, rulesBusy>>
    BY <1>1 DEF ToggleRules
  <2>3. CASE expanded' \in {z, NoZone}
    BY <2>1, <2>3 DEF NeverLockedOut, ZoneRows
  <2> QED
    BY <2>1, <2>2, <2>3, EditorOnPage
<1>2. CASE EditClauses
  BY <1>2, EditorOnPage DEF EditClauses, Editable, EditorShown, zoneQueries
<1>3. CASE CancelRules
  BY <1>3, EditorOnPage DEF CancelRules, Editable, EditorShown, zoneQueries
<1>4. CASE SaveRules
  BY <1>4, EditorOnPage DEF SaveRules, Editable, EditorShown, zoneQueries
<1>5. ASSUME NEW z \in Zones, RulesArrive(z) PROVE NeverLockedOut'
  BY <1>5, EditorOnPage DEF RulesArrive
<1> QED
  BY <1>1, <1>2, <1>3, <1>4, <1>5

LEMMA RuleAnswerKeeps ==
  ASSUME NeverLockedOut, NEW p \in rulePuts, NEW out \in {"ok", "fail", "lost"}, PutAnswers(p, out)
  PROVE  NeverLockedOut'
<1>1. CASE expanded' = NoZone
  BY <1>1 DEF NeverLockedOut
<1>2. CASE expanded' # NoZone
  BY <1>2, EditorOnPage DEF PutAnswers
<1> QED
  BY <1>1, <1>2

LEMMA RulesFailKeeps == ASSUME NeverLockedOut, NEW z \in Zones, RulesFail(z) PROVE NeverLockedOut'
  BY EditorOnPage DEF RulesFail, rowVars

LEMMA ZoneListKeeps == NeverLockedOut /\ (ZonesArrive \/ ZonesFail) => NeverLockedOut'
<1> SUFFICES ASSUME NeverLockedOut, ZonesArrive \/ ZonesFail PROVE NeverLockedOut'
  OBVIOUS
<1>1. CASE ZonesArrive
  BY <1>1 DEF ZonesArrive, NeverLockedOut, rowVars
<1>2. CASE ZonesFail
  BY <1>2 DEF ZonesFail, NeverLockedOut
<1> QED
  BY <1>1, <1>2

(* The dialogs and the other operators leave the page's rows alone.        *)
LEMMA ZoneElsewhereKeeps ==
  ASSUME NeverLockedOut, UNCHANGED <<zoneQueries, rowVars>>
  PROVE  NeverLockedOut'
  BY EditorOnPage DEF zoneQueries, rowVars

(* Opening a zone's rules is never refused because of an editor that went  *)
(* away: what is dirty or busy is a row of the list on the page.           *)
THEOREM PageNotLocked == ZoneSpec => []NeverLockedOut
<1>1. ZoneInit => NeverLockedOut
  BY DEF ZoneInit, NeverLockedOut
<1>2. NeverLockedOut /\ [ZoneNext]_zoneVars => NeverLockedOut'
  <2> SUFFICES ASSUME NeverLockedOut, [ZoneNext]_zoneVars PROVE NeverLockedOut'
    OBVIOUS
  <2>1. CASE \/ EditClauses \/ CancelRules \/ SaveRules
             \/ \E z \in Zones : ToggleRules(z) \/ RulesArrive(z)
    BY <2>1, ZoneRowKeeps
  <2>2. CASE \E p \in rulePuts, out \in {"ok", "fail", "lost"} : PutAnswers(p, out)
    BY <2>2, RuleAnswerKeeps
  <2>3. CASE ZonesArrive \/ ZonesFail
    BY <2>3, ZoneListKeeps
  <2>4. CASE CloseForm \/ SubmitForm \/ FormAnswers \/ ConfirmDelete \/ CloseZoneDelete
    BY <2>4, ZoneElsewhereKeeps DEF CloseForm, SubmitForm, FormAnswers, ConfirmDelete, CloseZoneDelete
  <2>5. CASE \E z \in Zones : OtherEdits(z) \/ OpenDelete(z)
    BY <2>5, ZoneElsewhereKeeps DEF OtherEdits, OpenDelete
  <2>6. CASE \E k \in Zones \cup {"create"} : OpenForm(k)
    BY <2>6, ZoneElsewhereKeeps DEF OpenForm
  <2>7. CASE \E c \in deleteCalls, ok \in BOOLEAN : DeleteAnswers(c, ok)
    BY <2>7, ZoneElsewhereKeeps DEF DeleteAnswers
  <2>8. CASE UNCHANGED zoneVars
    BY <2>8, ZoneElsewhereKeeps DEF zoneVars
  <2>9. CASE \E z \in Zones : RulesFail(z)
    BY <2>9, RulesFailKeeps
  <2> QED
    BY <2>1, <2>2, <2>3, <2>4, <2>5, <2>6, <2>7, <2>8, <2>9 DEF ZoneNext
<1> QED
  BY <1>1, <1>2, PTL DEF ZoneSpec

ZoneEditors == [mount : Nat, ready : BOOLEAN, clauses : Clauses, advanced : SUBSET Categories,
                dirty : BOOLEAN, status : {"idle", "pending", "error"}]

(* A rule set fills an editor: its simple categories, each once, make a    *)
(* list the editor can hold.                                               *)
LEMMA ClausesFit ==
  ASSUME NEW rules
  PROVE  /\ ClausesOf(rules) \in Clauses
         /\ {ClausesOf(rules)[i] : i \in DOMAIN ClausesOf(rules)} = {c \in Categories : rules[c] = "simple"}
<1> DEFINE simple == {c \in Categories : rules[c] = "simple"}
           n == Cardinality(simple)
<1>1. IsFiniteSet(Categories) /\ Cardinality(Categories) <= MaxClauses /\ MaxClauses \in Nat
  BY ZoneAssumption
<1>2. IsFiniteSet(simple) /\ n <= Cardinality(Categories)
  <2>1. simple \in SUBSET Categories
    OBVIOUS
  <2> HIDE DEF simple
  <2> QED
    BY <1>1, <2>1, FS_Subset
<1>3. simple \subseteq Categories
  OBVIOUS
<1>4. ClausesOf(rules) = CHOOSE s \in [1..n -> simple] : {s[i] : i \in DOMAIN s} = simple
  BY DEF ClausesOf
<1> HIDE DEF simple
<1>5. n \in Nat /\ ExistsBijection(1..n, simple) /\ Cardinality(Categories) \in Nat
  BY <1>1, <1>2, FS_CardinalityType
<1>6. n \in 0..MaxClauses
  BY <1>1, <1>2, <1>5
<1> HIDE DEF n
<1>7. PICK s \in [1..n -> simple] : {s[i] : i \in DOMAIN s} = simple
  <2>1. PICK s \in Bijection(1..n, simple) : TRUE
    BY <1>5 DEF ExistsBijection
  <2>2. s \in [1..n -> simple] /\ \A c \in simple : \E i \in 1..n : s[i] = c
    BY <2>1 DEF Bijection, Surjection, Injection
  <2>3. {s[i] : i \in DOMAIN s} = simple
    BY <2>2
  <2> QED
    BY <2>2, <2>3
<1>8. /\ ClausesOf(rules) \in [1..n -> simple]
      /\ {ClausesOf(rules)[i] : i \in DOMAIN ClausesOf(rules)} = simple
  BY <1>4, <1>7
<1>9. ClausesOf(rules) \in [1..n -> Categories \cup {BlankClause}]
  BY <1>3, <1>8
<1> QED
  BY <1>6, <1>8, <1>9 DEF Clauses, simple

LEMMA DerivedFits == ASSUME NEW ed \in ZoneEditors, NEW rules PROVE Derived(ed, rules) \in ZoneEditors
<1>1. ClausesOf(rules) \in Clauses
  BY ClausesFit
<1> QED
  BY <1>1 DEF Derived, ZoneEditors

LEMMA NoEditorFits == NoEditor \in ZoneEditors
<1>1. <<>> \in [1..0 -> Categories \cup {BlankClause}] /\ 0 \in 0..MaxClauses
  BY ZoneAssumption
<1>2. <<>> \in Clauses
  BY <1>1 DEF Clauses
<1> QED
  BY <1>2 DEF NoEditor, ZoneEditors

LEMMA BodyFits == ASSUME NEW ed PROVE Body(ed) \in RuleSet
  BY DEF Body, RuleSet

(* The parts of the type, by who writes them.                              *)
ZoneStoreTyped ==
  /\ zoneThere \subseteq Zones /\ zoneRules \in [Zones -> RuleSet]
  /\ zoneCalls \in 0..MaxZoneCalls /\ zoneTurns \in 0..MaxZoneTurns
RowTyped ==
  /\ zoneList \subseteq Zones /\ ruleFetches \subseteq Zones /\ rulesFailed \subseteq Zones
  /\ ruleCache \in [Zones -> RuleSet \cup {UnreadRules}]
  /\ zoneListOk \in BOOLEAN /\ rulesDirty \in BOOLEAN /\ rulesBusy \in BOOLEAN /\ unsavedHint \in BOOLEAN
  /\ expanded \in Zones \cup {NoZone} /\ ruleEditor \in ZoneEditors
  /\ rulePuts \subseteq [zone : Zones, body : RuleSet, mount : Nat]
ZoneDialogsTyped ==
  /\ deleting \in Zones \cup {NoZone} /\ deleteError \in Zones \cup {NoZone}
  /\ zoneForm \in {"closed", "create"} \cup Zones /\ formCall \in {"idle", "pending", "error"}
  /\ deleteSession \in Nat /\ deleteCalls \subseteq DeleteCall

ZoneInv == ZoneStoreTyped /\ RowTyped /\ ZoneDialogsTyped

LEMMA ZonesStart == ZoneInit => ZoneInv
<1> SUFFICES ASSUME ZoneInit PROVE ZoneInv
  OBVIOUS
<1>1. ZoneStoreTyped
  BY ZoneAssumption DEF ZoneInit, ZoneStoreTyped
<1>2. RowTyped
  BY NoEditorFits DEF ZoneInit, RowTyped
<1>3. ZoneDialogsTyped
  BY DEF ZoneInit, ZoneDialogsTyped
<1> QED
  BY <1>1, <1>2, <1>3 DEF ZoneInv

LEMMA ZoneCounts ==
  ASSUME ZoneStoreTyped
  PROVE  /\ ZoneCall => zoneCalls' \in 0..MaxZoneCalls
         /\ \A f : ZoneTurn(f) => zoneTurns' \in 0..MaxZoneTurns
<1>1. ZoneCall => zoneCalls' \in 0..MaxZoneCalls
  BY ZoneAssumption DEF ZoneCall, ZoneStoreTyped
<1>2. \A f : ZoneTurn(f) => zoneTurns' \in 0..MaxZoneTurns
  BY ZoneAssumption DEF ZoneTurn, ZoneStoreTyped
<1> QED
  BY <1>1, <1>2

(* Mounting, dropping and showing an editor.                               *)
LEMMA EditorMovesTyped ==
  ASSUME RowTyped
  PROVE  /\ \A z : MountEditor(z) => ruleEditor' \in ZoneEditors /\ rulesDirty' = FALSE /\ rulesBusy' = FALSE
                                       /\ (z \in Zones => ruleFetches' \subseteq Zones) /\ rulesFailed' \subseteq Zones
         /\ DropEditor => ruleEditor' \in ZoneEditors /\ ruleFetches' = {} /\ rulesFailed' \subseteq Zones
         /\ \A ed \in ZoneEditors : ShowEditor(ed) =>
              ruleEditor' \in ZoneEditors /\ rulesDirty' \in BOOLEAN /\ rulesBusy' \in BOOLEAN
                /\ unsavedHint' \in BOOLEAN
<1>1. ruleEditor \in ZoneEditors /\ ruleEditor.mount \in Nat /\ ruleEditor.mount + 1 \in Nat
  BY DEF RowTyped, ZoneEditors
<1>2. ASSUME NEW m \in Nat PROVE [NoEditor EXCEPT !.mount = m] \in ZoneEditors
  BY NoEditorFits DEF ZoneEditors
<1>3. ASSUME NEW z PROVE NewEditor(z) \in ZoneEditors
  BY <1>1, <1>2, DerivedFits DEF NewEditor
<1>4. ASSUME NEW z, MountEditor(z)
      PROVE  ruleEditor' \in ZoneEditors /\ rulesDirty' = FALSE /\ rulesBusy' = FALSE
               /\ (z \in Zones => ruleFetches' \subseteq Zones) /\ rulesFailed' \subseteq Zones
  BY <1>3, <1>4 DEF MountEditor, RowTyped
<1>5. DropEditor => ruleEditor' \in ZoneEditors /\ ruleFetches' = {} /\ rulesFailed' \subseteq Zones
  BY <1>1, <1>2 DEF DropEditor, RowTyped
<1>6. ASSUME NEW ed \in ZoneEditors, ShowEditor(ed)
      PROVE  ruleEditor' \in ZoneEditors /\ rulesDirty' \in BOOLEAN /\ rulesBusy' \in BOOLEAN
               /\ unsavedHint' \in BOOLEAN
  <2>1. ed.dirty \in BOOLEAN
    BY DEF ZoneEditors
  <2>2. ruleEditor' = ed /\ rulesDirty' = ed.dirty /\ rulesBusy' = (ed.status = "pending")
        /\ unsavedHint' = (unsavedHint /\ ed.dirty)
    BY <1>6 DEF ShowEditor
  <2>3. rulesBusy' \in BOOLEAN /\ unsavedHint' \in BOOLEAN
    BY <2>2, Zenon
  <2> QED
    BY <2>1, <2>2, <2>3
<1> QED
  BY <1>4, <1>5, <1>6

LEMMA TogglesTyped == ASSUME ZoneInv, NEW z \in Zones, ToggleRules(z) PROVE ZoneInv'
<1>1. UNCHANGED <<zoneThere, zoneRules, zoneList, zoneListOk, ruleCache, rulePuts, zoneForm, formCall,
                  deleting, deleteSession, deleteError, deleteCalls, zoneTurns>>
  BY DEF ToggleRules, zoneBackend, zoneForms, deleteVars
<1>2. RowTyped /\ ZoneStoreTyped
  BY DEF ZoneInv
<1>3. zoneCalls' \in 0..MaxZoneCalls
  BY <1>2, ZoneCounts DEF ToggleRules, ZoneStoreTyped
<1>4. /\ expanded' \in Zones \cup {NoZone} /\ unsavedHint' \in BOOLEAN /\ rulesDirty' \in BOOLEAN
      /\ rulesBusy' \in BOOLEAN /\ ruleEditor' \in ZoneEditors /\ ruleFetches' \subseteq Zones /\ rulesFailed' \subseteq Zones
  <2>1. CASE expanded = z /\ expanded' = NoZone /\ unsavedHint' = FALSE /\ DropEditor /\ UNCHANGED <<rulesDirty, rulesBusy>>
    BY <1>2, <2>1, EditorMovesTyped DEF RowTyped
  <2>2. CASE unsavedHint' = TRUE /\ UNCHANGED <<expanded, rulesDirty, rulesBusy, ruleEditor, ruleFetches, rulesFailed>>
    BY <1>2, <2>2 DEF RowTyped
  <2>3. CASE expanded' = z /\ unsavedHint' = FALSE /\ MountEditor(z)
    BY <1>2, <2>3, EditorMovesTyped
  <2> QED
    BY <2>1, <2>2, <2>3 DEF ToggleRules
<1>5. ZoneStoreTyped' /\ RowTyped' /\ ZoneDialogsTyped'
  BY <1>1, <1>2, <1>3, <1>4 DEF ZoneInv, ZoneStoreTyped, RowTyped, ZoneDialogsTyped
<1> QED
  BY <1>5 DEF ZoneInv

LEMMA EditsTyped == ASSUME ZoneInv, EditClauses \/ CancelRules \/ SaveRules PROVE ZoneInv'
<1>1. UNCHANGED <<zoneThere, zoneRules, zoneList, zoneListOk, ruleCache, ruleFetches, rulesFailed, expanded, zoneForm,
                  formCall, deleting, deleteSession, deleteError, deleteCalls, zoneTurns>>
  BY DEF EditClauses, CancelRules, SaveRules, zoneBackend, zoneQueries, zoneForms, deleteVars
<1>2. RowTyped /\ ZoneStoreTyped /\ ruleEditor \in ZoneEditors
  BY DEF ZoneInv, RowTyped
<1>3. zoneCalls' \in 0..MaxZoneCalls
  BY <1>2, ZoneCounts DEF EditClauses, CancelRules, SaveRules, ZoneStoreTyped
<1>4. PICK ed \in ZoneEditors : ShowEditor(ed)
  <2>1. CASE EditClauses
    <3>1. PICK cs \in Clauses : ShowEditor([ruleEditor EXCEPT !.clauses = cs, !.dirty = TRUE, !.status = "idle"])
      BY <2>1 DEF EditClauses
    <3>2. [ruleEditor EXCEPT !.clauses = cs, !.dirty = TRUE, !.status = "idle"] \in ZoneEditors
      BY <1>2 DEF ZoneEditors
    <3> QED
      BY <3>1, <3>2
  <2>2. CASE CancelRules
    <3>1. PICK ed : ed = Derived(ruleEditor, ruleCache[expanded])
      OBVIOUS
    <3>2. ed \in ZoneEditors
      BY <1>2, <3>1, DerivedFits
    <3>3. [ed EXCEPT !.status = "idle"] \in ZoneEditors
      BY <3>2 DEF ZoneEditors
    <3> QED
      BY <2>2, <3>1, <3>3 DEF CancelRules
  <2>3. CASE SaveRules
    <3>1. [ruleEditor EXCEPT !.status = "pending"] \in ZoneEditors
      BY <1>2 DEF ZoneEditors
    <3> QED
      BY <2>3, <3>1 DEF SaveRules
  <2> QED
    BY <2>1, <2>2, <2>3
<1>5. rulePuts' \subseteq [zone : Zones, body : RuleSet, mount : Nat]
  <2>1. CASE SaveRules
    <3>1. PICK p : p = [zone |-> expanded, body |-> Body(ruleEditor), mount |-> ruleEditor.mount]
      OBVIOUS
    <3>2. expanded \in Zones /\ ruleEditor.mount \in Nat /\ Body(ruleEditor) \in RuleSet
      BY <1>2, <2>1, BodyFits DEF SaveRules, Editable, EditorShown, Mounted, ZoneRows, RowTyped, ZoneEditors
    <3>3. p \in [zone : Zones, body : RuleSet, mount : Nat]
      BY <3>1, <3>2
    <3>4. rulePuts' = rulePuts \cup {p}
      BY <2>1, <3>1 DEF SaveRules
    <3> QED
      BY <1>2, <3>3, <3>4 DEF RowTyped
  <2>2. CASE EditClauses \/ CancelRules
    BY <1>2, <2>2 DEF EditClauses, CancelRules, RowTyped
  <2> QED
    BY <2>1, <2>2
<1>6. ruleEditor' \in ZoneEditors /\ rulesDirty' \in BOOLEAN /\ rulesBusy' \in BOOLEAN /\ unsavedHint' \in BOOLEAN
  BY <1>2, <1>4, EditorMovesTyped
<1>7. ZoneStoreTyped' /\ RowTyped' /\ ZoneDialogsTyped'
  BY <1>1, <1>2, <1>3, <1>5, <1>6 DEF ZoneInv, ZoneStoreTyped, RowTyped, ZoneDialogsTyped
<1> QED
  BY <1>7 DEF ZoneInv

LEMMA PutAnswersTyped ==
  ASSUME ZoneInv, NEW p \in rulePuts, NEW out \in {"ok", "fail", "lost"}, PutAnswers(p, out)
  PROVE  ZoneInv'
<1>1. /\ UNCHANGED <<zoneThere, zoneList, zoneListOk, ruleCache, zoneForm, formCall,
                     deleting, deleteSession, deleteError, deleteCalls, zoneCalls>>
      /\ rulePuts' = rulePuts \ {p}
  BY DEF PutAnswers, zoneForms, deleteVars
<1>2. RowTyped /\ ZoneStoreTyped /\ ruleEditor \in ZoneEditors /\ p.zone \in Zones /\ p.body \in RuleSet
  BY DEF ZoneInv, RowTyped
<1>3. zoneRules' \in [Zones -> RuleSet]
  BY <1>2 DEF PutAnswers, ZoneStoreTyped
<1>4. zoneTurns' \in 0..MaxZoneTurns
  BY <1>2, ZoneCounts DEF PutAnswers, ZoneStoreTyped
<1>5. /\ expanded' \in Zones \cup {NoZone} /\ unsavedHint' \in BOOLEAN /\ rulesDirty' \in BOOLEAN
      /\ rulesBusy' \in BOOLEAN /\ ruleEditor' \in ZoneEditors /\ ruleFetches' \subseteq Zones /\ rulesFailed' \subseteq Zones
  <2>1. CASE expanded' = NoZone /\ rulesDirty' = FALSE /\ rulesBusy' = FALSE /\ unsavedHint' = FALSE /\ DropEditor
    BY <1>2, <2>1, EditorMovesTyped
  <2>2. CASE ShowEditor([ruleEditor EXCEPT !.status = "error"]) /\ UNCHANGED <<expanded, ruleFetches, rulesFailed>>
    <3>1. [ruleEditor EXCEPT !.status = "error"] \in ZoneEditors
      BY <1>2 DEF ZoneEditors
    <3> QED
      BY <1>2, <2>2, <3>1, EditorMovesTyped DEF RowTyped
  <2>3. CASE UNCHANGED <<rulesDirty, rulesBusy, unsavedHint, ruleEditor, expanded, ruleFetches, rulesFailed>>
    BY <1>2, <2>3 DEF RowTyped
  <2> QED
    BY <2>1, <2>2, <2>3 DEF PutAnswers
<1>6. ZoneStoreTyped' /\ RowTyped' /\ ZoneDialogsTyped'
  BY <1>1, <1>2, <1>3, <1>4, <1>5 DEF ZoneInv, ZoneStoreTyped, RowTyped, ZoneDialogsTyped
<1> QED
  BY <1>6 DEF ZoneInv

LEMMA QueriesTyped ==
  ASSUME ZoneInv, ZonesArrive \/ ZonesFail \/ \E z \in Zones : RulesArrive(z) \/ RulesFail(z) PROVE ZoneInv'
<1>1. UNCHANGED <<zoneThere, zoneRules, rulePuts, zoneForm, formCall, deleting, deleteSession, deleteError,
                  deleteCalls, zoneCalls>>
  BY DEF ZonesArrive, ZonesFail, RulesArrive, RulesFail, zoneBackend, zoneForms, deleteVars
<1>2. RowTyped /\ ZoneStoreTyped /\ ruleEditor \in ZoneEditors
  BY DEF ZoneInv, RowTyped
<1>3. zoneTurns' \in 0..MaxZoneTurns
  BY <1>2, ZoneCounts DEF ZonesArrive, ZonesFail, RulesArrive, RulesFail, ZoneStoreTyped
<1>4. RowTyped'
  <2>1. CASE ZonesArrive
    <3>1. /\ zoneList' \subseteq Zones /\ zoneListOk' = TRUE /\ UNCHANGED <<ruleCache, rulePuts>>
      BY <1>2, <2>1 DEF ZonesArrive, ZoneStoreTyped
    <3>2. /\ expanded' \in Zones \cup {NoZone} /\ unsavedHint' \in BOOLEAN /\ rulesDirty' \in BOOLEAN
          /\ rulesBusy' \in BOOLEAN /\ ruleEditor' \in ZoneEditors /\ ruleFetches' \subseteq Zones /\ rulesFailed' \subseteq Zones
      <4>1. CASE expanded' = NoZone /\ rulesDirty' = FALSE /\ rulesBusy' = FALSE /\ unsavedHint' = FALSE /\ DropEditor
        BY <1>2, <4>1, EditorMovesTyped
      <4>2. CASE expanded \in zoneThere /\ MountEditor(expanded) /\ unsavedHint' = FALSE /\ UNCHANGED expanded
        BY <1>2, <4>2, EditorMovesTyped DEF ZoneStoreTyped
      <4>3. CASE UNCHANGED <<expanded, rulesDirty, rulesBusy, unsavedHint, ruleEditor, ruleFetches, rulesFailed>>
        BY <1>2, <4>3 DEF RowTyped
      <4> QED
        BY <2>1, <4>1, <4>2, <4>3 DEF ZonesArrive, rowVars
    <3> QED
      BY <1>2, <3>1, <3>2 DEF RowTyped
  <2>2. CASE ZonesFail
    BY <1>2, <2>2, EditorMovesTyped DEF ZonesFail, RowTyped
  <2>3. CASE \E z \in Zones : RulesArrive(z)
    <3>1. PICK z \in Zones : RulesArrive(z)
      BY <2>3
    <3>2. /\ ruleCache' \in [Zones -> RuleSet \cup {UnreadRules}] /\ ruleFetches' \subseteq Zones
          /\ rulesFailed' \subseteq Zones /\ UNCHANGED <<zoneList, zoneListOk, expanded, rulePuts>>
      BY <1>2, <3>1 DEF RulesArrive, RowTyped, ZoneStoreTyped
    <3>3. /\ ruleEditor' \in ZoneEditors /\ rulesDirty' \in BOOLEAN /\ rulesBusy' \in BOOLEAN
          /\ unsavedHint' \in BOOLEAN
      <4>1. CASE ShowEditor(Derived(ruleEditor, zoneRules[z]))
        BY <1>2, <4>1, DerivedFits, EditorMovesTyped
      <4>2. CASE UNCHANGED <<rulesDirty, rulesBusy, unsavedHint, ruleEditor>>
        BY <1>2, <4>2 DEF RowTyped
      <4> QED
        BY <3>1, <4>1, <4>2 DEF RulesArrive
    <3> QED
      BY <1>2, <3>2, <3>3 DEF RowTyped
  <2>4. ASSUME NEW z \in Zones, RulesFail(z) PROVE RowTyped'
    BY <1>2, <2>4 DEF RulesFail, RowTyped, rowVars
  <2> QED
    BY <2>1, <2>2, <2>3, <2>4
<1>5. ZoneStoreTyped' /\ ZoneDialogsTyped'
  BY <1>1, <1>2, <1>3 DEF ZoneInv, ZoneStoreTyped, ZoneDialogsTyped
<1> QED
  BY <1>4, <1>5 DEF ZoneInv

LEMMA DialogsTypedKeep ==
  ASSUME ZoneInv,
         \/ CloseForm \/ SubmitForm \/ FormAnswers \/ ConfirmDelete \/ CloseZoneDelete \/ UNCHANGED zoneVars
         \/ \E z \in Zones : OtherEdits(z) \/ OpenDelete(z)
         \/ \E k \in Zones \cup {"create"} : OpenForm(k)
         \/ \E c \in deleteCalls, ok \in BOOLEAN : DeleteAnswers(c, ok)
  PROVE  ZoneInv'
<1>1. UNCHANGED <<zoneList, zoneListOk, ruleCache, ruleFetches, rulesFailed, expanded, rulesDirty, rulesBusy, unsavedHint,
                  ruleEditor, rulePuts>>
  BY DEF CloseForm, SubmitForm, FormAnswers, ConfirmDelete, CloseZoneDelete, zoneVars, OtherEdits, OpenDelete,
         OpenForm, DeleteAnswers, zoneQueries, rowVars
<1>2. RowTyped'
  BY <1>1 DEF ZoneInv, RowTyped
<1>3. ZoneStoreTyped /\ ZoneDialogsTyped /\ zoneCalls \in Nat /\ deleteSession \in Nat
  BY ZoneAssumption DEF ZoneInv, ZoneStoreTyped, ZoneDialogsTyped
<1>4. zoneCalls' \in 0..MaxZoneCalls /\ zoneTurns' \in 0..MaxZoneTurns
  BY <1>3, ZoneCounts
     DEF CloseForm, SubmitForm, FormAnswers, ConfirmDelete, CloseZoneDelete, zoneVars, OtherEdits, OpenDelete,
         OpenForm, DeleteAnswers, ZoneStoreTyped
<1>5. zoneThere' \subseteq Zones /\ zoneRules' \in [Zones -> RuleSet]
  <2>1. NoRules \in RuleSet
    BY DEF NoRules, RuleSet
  <2>2. CASE FormAnswers
    BY <1>3, <2>1, <2>2 DEF FormAnswers, ZoneStoreTyped, zoneBackend
  <2>3. CASE \E z \in Zones : OtherEdits(z)
    BY <1>3, <2>3 DEF OtherEdits, ZoneStoreTyped
  <2>4. CASE \E c \in deleteCalls, ok \in BOOLEAN : DeleteAnswers(c, ok)
    BY <1>3, <2>4 DEF DeleteAnswers, ZoneStoreTyped
  <2>5. CASE UNCHANGED zoneBackend
    BY <1>3, <2>5 DEF zoneBackend, ZoneStoreTyped
  <2> QED
    BY <2>2, <2>3, <2>4, <2>5
       DEF CloseForm, SubmitForm, ConfirmDelete, CloseZoneDelete, zoneVars, OpenDelete, OpenForm
<1>6. ZoneDialogsTyped'
  <2>1. CASE CloseForm \/ SubmitForm \/ FormAnswers \/ \E k \in Zones \cup {"create"} : OpenForm(k)
    BY <1>3, <2>1 DEF CloseForm, SubmitForm, FormAnswers, OpenForm, ZoneDialogsTyped, deleteVars, zoneForms
  <2>2. CASE \E z \in Zones : OpenDelete(z) \/ OtherEdits(z)
    BY <1>3, <2>2 DEF OpenDelete, OtherEdits, ZoneDialogsTyped, deleteVars, zoneForms
  <2>3. CASE ConfirmDelete
    <3>1. PICK c : c = [zone |-> deleting, session |-> deleteSession, id |-> zoneCalls]
      OBVIOUS
    <3>2. c \in DeleteCall
      BY <1>3, <2>3, <3>1 DEF ConfirmDelete, DeleteCall, ZoneDialogsTyped
    <3>3. deleteCalls' = deleteCalls \cup {c}
      BY <2>3, <3>1 DEF ConfirmDelete
    <3> QED
      BY <1>3, <2>3, <3>2, <3>3 DEF ConfirmDelete, ZoneDialogsTyped, zoneForms
  <2>4. CASE CloseZoneDelete
    BY <1>3, <2>4 DEF CloseZoneDelete, ZoneDialogsTyped, zoneForms
  <2>5. CASE \E c \in deleteCalls, ok \in BOOLEAN : DeleteAnswers(c, ok)
    BY <1>3, <2>5 DEF DeleteAnswers, ZoneDialogsTyped, DeleteCall, zoneForms
  <2>6. CASE UNCHANGED zoneVars
    BY <1>3, <2>6 DEF zoneVars, ZoneDialogsTyped, deleteVars, zoneForms
  <2> QED
    BY <2>1, <2>2, <2>3, <2>4, <2>5, <2>6
<1>7. ZoneStoreTyped'
  BY <1>4, <1>5 DEF ZoneStoreTyped
<1> QED
  BY <1>2, <1>6, <1>7 DEF ZoneInv

(* The types of the page, as one inductive invariant.                      *)
LEMMA ZonesTyped == ZoneSpec => []ZoneInv
<1>1. ASSUME ZoneInv, [ZoneNext]_zoneVars PROVE ZoneInv'
  <2>1. CASE EditClauses \/ CancelRules \/ SaveRules
    BY <1>1, <2>1, EditsTyped
  <2>2. CASE ZonesArrive \/ ZonesFail \/ \E z \in Zones : RulesArrive(z) \/ RulesFail(z)
    BY <1>1, <2>2, QueriesTyped
  <2>3. CASE \E z \in Zones : ToggleRules(z)
    BY <1>1, <2>3, TogglesTyped
  <2>4. CASE \E p \in rulePuts, out \in {"ok", "fail", "lost"} : PutAnswers(p, out)
    BY <1>1, <2>4, PutAnswersTyped
  <2>5. CASE \/ CloseForm \/ SubmitForm \/ FormAnswers \/ ConfirmDelete \/ CloseZoneDelete \/ UNCHANGED zoneVars
             \/ \E z \in Zones : OtherEdits(z) \/ OpenDelete(z)
             \/ \E k \in Zones \cup {"create"} : OpenForm(k)
             \/ \E c \in deleteCalls, ok \in BOOLEAN : DeleteAnswers(c, ok)
    BY <1>1, <2>5, DialogsTypedKeep
  <2> QED
    BY <1>1, <2>1, <2>2, <2>3, <2>4, <2>5 DEF ZoneNext
<1> QED
  BY <1>1, ZonesStart, PTL DEF ZoneSpec

(* Every variable of the zones page keeps to its type: an editor never     *)
(* holds more clauses than there are categories and edits to make them.    *)
THEOREM ZoneTypeCorrect == ZoneSpec => []ZoneTypeOK
<1>1. ZoneInv => ZoneTypeOK
  BY DEF ZoneInv, ZoneStoreTyped, RowTyped, ZoneDialogsTyped, ZoneEditors, ZoneTypeOK
<1> QED
  BY <1>1, ZonesTyped, PTL

(* An open rule editor does not go stale.  ZoneStale's finding is of a row *)
(* opened on rules read before its last save.                              *)

OpensFresh == \A z \in Zones :
  expanded' = z /\ Mounted' /\ ~(expanded = z /\ Mounted) => ruleCache[z] \in {UnreadRules, zoneRules[z]}
(* Nobody rewrites the rules of the row that stays open.                   *)
LeftAlone == Mounted' => zoneRules'[expanded'] = zoneRules[expanded']

(* What Cancel would go back to is what the zone has, and so is an editor  *)
(* nobody has typed in.                                                    *)
OpenIsFresh ==
  Mounted /\ ruleEditor.ready =>
    /\ ruleCache[expanded] = zoneRules[expanded]
    /\ ~ruleEditor.dirty => Body(ruleEditor) = zoneRules[expanded]

(* An editor filled with a rule set would save that very set.              *)
LEMMA BodyOfDerived ==
  ASSUME NEW ed \in ZoneEditors, NEW rules \in RuleSet
  PROVE  /\ Body(Derived(ed, rules)) = rules
         /\ Body([Derived(ed, rules) EXCEPT !.status = "idle"]) = rules
<1>1. PICK d : d = Derived(ed, rules)
  OBVIOUS
<1>2. d.clauses = ClausesOf(rules) /\ d.advanced = {c \in Categories : rules[c] = "advanced"}
  BY <1>1 DEF Derived, ZoneEditors
<1>3. d \in ZoneEditors
  BY <1>1, DerivedFits
<1>4. [d EXCEPT !.status = "idle"].clauses = d.clauses /\ [d EXCEPT !.status = "idle"].advanced = d.advanced
  BY <1>3 DEF ZoneEditors
<1>5. \A c \in Categories : (\E i \in DOMAIN d.clauses : d.clauses[i] = c) <=> rules[c] = "simple"
  <2>1. {d.clauses[i] : i \in DOMAIN d.clauses} = {c \in Categories : rules[c] = "simple"}
    BY <1>2, ClausesFit
  <2> QED
    BY <2>1
<1>6. rules = [c \in Categories |-> rules[c]] /\ \A c \in Categories : rules[c] \in {"no", "simple", "advanced"}
  BY DEF RuleSet
<1>7. Body(d) = rules
  BY <1>2, <1>5, <1>6 DEF Body
<1>8. Body([d EXCEPT !.status = "idle"]) = Body(d)
  BY <1>4 DEF Body
<1> QED
  BY <1>1, <1>7, <1>8

LEMMA NobodyIsNotMounted == RowTyped => ~(NoZone \in zoneList)
  BY ZoneAssumption DEF RowTyped

(* Opening a row on rules that are not stale.                              *)
LEMMA MountsFresh ==
  ASSUME ZoneInv, OpensFresh, NEW z \in Zones, MountEditor(z), expanded' = z,
         ~(expanded = z /\ Mounted), UNCHANGED <<zoneRules, ruleCache>>
  PROVE  OpenIsFresh'
<1> SUFFICES ASSUME Mounted', ruleEditor'.ready
             PROVE  ruleCache[z] = zoneRules[z] /\ Body(ruleEditor') = zoneRules[z]
  BY DEF OpenIsFresh, Body
<1>1. PICK ed : ed = [NoEditor EXCEPT !.mount = ruleEditor.mount + 1]
  OBVIOUS
<1>2. ed \in ZoneEditors /\ ~ed.ready
  <2>1. ruleEditor.mount + 1 \in Nat
    BY DEF ZoneInv, RowTyped, ZoneEditors
  <2>2. ed \in ZoneEditors
    BY <1>1, <2>1, NoEditorFits DEF ZoneEditors
  <2>3. ~ed.ready
    BY <1>1 DEF NoEditor
  <2> QED
    BY <2>2, <2>3
<1>3. ruleCache[z] # UnreadRules /\ ruleEditor' = Derived(ed, ruleCache[z])
  BY <1>1, <1>2 DEF MountEditor, NewEditor
<1>4. ruleCache[z] = zoneRules[z] /\ zoneRules[z] \in RuleSet
  BY <1>3 DEF OpensFresh, ZoneInv, ZoneStoreTyped
<1> QED
  BY <1>2, <1>3, <1>4, BodyOfDerived

(* A row that stays as it was, with an editor that holds as much.          *)
LEMMA StaysFresh ==
  ASSUME OpenIsFresh, LeftAlone, UNCHANGED <<zoneList, zoneListOk, ruleCache, expanded>>,
         ruleEditor'.ready = ruleEditor.ready,
         \/ ruleEditor'.dirty
         \/ /\ ruleEditor'.dirty = ruleEditor.dirty
            /\ ruleEditor'.clauses = ruleEditor.clauses /\ ruleEditor'.advanced = ruleEditor.advanced
  PROVE  OpenIsFresh'
<1> SUFFICES ASSUME Mounted', ruleEditor'.ready
             PROVE  /\ ruleCache'[expanded'] = zoneRules'[expanded']
                    /\ ~ruleEditor'.dirty => Body(ruleEditor)' = zoneRules'[expanded']
  BY DEF OpenIsFresh
<1>1. Mounted /\ ruleEditor.ready /\ zoneRules'[expanded'] = zoneRules[expanded]
  BY DEF Mounted, ZoneRows, LeftAlone
<1>2. CASE ruleEditor'.dirty
  BY <1>1, <1>2 DEF OpenIsFresh
<1>3. CASE ruleEditor'.clauses = ruleEditor.clauses /\ ruleEditor'.advanced = ruleEditor.advanced
           /\ ruleEditor'.dirty = ruleEditor.dirty
  <2>1. Body(ruleEditor)' = Body(ruleEditor)
    BY <1>3 DEF Body
  <2> QED
    BY <1>1, <1>3, <2>1 DEF OpenIsFresh
<1> QED
  BY <1>2, <1>3

LEMMA RowActionsFresh ==
  ASSUME ZoneInv, OpenIsFresh, OpensFresh, LeftAlone,
         \/ EditClauses \/ CancelRules \/ SaveRules \/ \E z \in Zones : ToggleRules(z)
  PROVE  OpenIsFresh'
<1>1. RowTyped /\ ruleEditor \in ZoneEditors
  BY DEF ZoneInv, RowTyped
<1>2. CASE EditClauses
  <2>1. PICK cs : ruleEditor' = [ruleEditor EXCEPT !.clauses = cs, !.dirty = TRUE, !.status = "idle"]
    BY <1>2 DEF EditClauses, ShowEditor
  <2>2. ruleEditor'.dirty /\ ruleEditor'.ready = ruleEditor.ready
    BY <1>1, <2>1 DEF ZoneEditors
  <2> QED
    BY <1>2, <2>2, StaysFresh DEF EditClauses, zoneQueries
<1>3. CASE SaveRules
  <2>1. ruleEditor' = [ruleEditor EXCEPT !.status = "pending"]
    BY <1>3 DEF SaveRules, ShowEditor
  <2>2. /\ ruleEditor'.dirty = ruleEditor.dirty /\ ruleEditor'.ready = ruleEditor.ready
        /\ ruleEditor'.clauses = ruleEditor.clauses /\ ruleEditor'.advanced = ruleEditor.advanced
    BY <1>1, <2>1 DEF ZoneEditors
  <2> QED
    BY <1>3, <2>2, StaysFresh DEF SaveRules, zoneQueries
<1>4. CASE CancelRules
  <2>1. Mounted /\ ruleEditor.ready /\ expanded \in Zones
    BY <1>1, <1>4 DEF CancelRules, Editable, EditorShown, Mounted, ZoneRows, RowTyped
  <2>2. ruleEditor' = [Derived(ruleEditor, ruleCache[expanded]) EXCEPT !.status = "idle"]
    BY <1>4 DEF CancelRules, ShowEditor
  <2>3. ruleCache[expanded] = zoneRules[expanded] /\ zoneRules[expanded] \in RuleSet
    BY <2>1 DEF OpenIsFresh, ZoneInv, ZoneStoreTyped
  <2>4. UNCHANGED <<zoneRules, ruleCache, expanded>>
    BY <1>4 DEF CancelRules, zoneBackend, zoneQueries
  <2>5. Body(ruleEditor') = zoneRules[expanded]
    BY <1>1, <2>2, <2>3, BodyOfDerived
  <2> QED
    BY <2>3, <2>4, <2>5 DEF OpenIsFresh, Body
<1>5. ASSUME NEW z \in Zones, ToggleRules(z) PROVE OpenIsFresh'
  <2>1. UNCHANGED <<zoneRules, zoneList, zoneListOk, ruleCache>>
    BY <1>5 DEF ToggleRules, zoneBackend
  <2>2. CASE expanded' = NoZone
    BY <1>1, <2>1, <2>2, NobodyIsNotMounted DEF OpenIsFresh, Mounted, ZoneRows
  <2>3. CASE UNCHANGED <<expanded, ruleEditor>>
    BY <2>1, <2>3, StaysFresh
  <2>4. CASE expanded # z /\ expanded' = z /\ MountEditor(z)
    BY <2>1, <2>4, MountsFresh
  <2> QED
    BY <1>5, <2>2, <2>3, <2>4 DEF ToggleRules
<1> QED
  BY <1>2, <1>3, <1>4, <1>5

LEMMA RowAnswersFresh ==
  ASSUME ZoneInv, OpenIsFresh, OpensFresh, LeftAlone,
         \/ \E p \in rulePuts, out \in {"ok", "fail", "lost"} : PutAnswers(p, out)
         \/ \E z \in Zones : RulesArrive(z)
         \/ ZonesArrive \/ ZonesFail
  PROVE  OpenIsFresh'
<1>1. RowTyped /\ ruleEditor \in ZoneEditors
  BY DEF ZoneInv, RowTyped
<1>2. ASSUME NEW p \in rulePuts, NEW out \in {"ok", "fail", "lost"}, PutAnswers(p, out)
      PROVE  OpenIsFresh'
  <2>1. UNCHANGED <<zoneList, zoneListOk, ruleCache>>
    BY <1>2 DEF PutAnswers
  <2>2. CASE expanded' = NoZone
    BY <1>1, <2>1, <2>2, NobodyIsNotMounted DEF OpenIsFresh, Mounted, ZoneRows
  <2>3. CASE expanded' = expanded /\ ruleEditor' \in {ruleEditor, [ruleEditor EXCEPT !.status = "error"]}
    <3>1. /\ ruleEditor'.dirty = ruleEditor.dirty /\ ruleEditor'.ready = ruleEditor.ready
          /\ ruleEditor'.clauses = ruleEditor.clauses /\ ruleEditor'.advanced = ruleEditor.advanced
      BY <1>1, <2>3 DEF ZoneEditors
    <3> QED
      BY <2>1, <2>3, <3>1, StaysFresh
  <2> QED
    BY <1>2, <2>2, <2>3 DEF PutAnswers, ShowEditor
<1>3. ASSUME NEW z \in Zones, RulesArrive(z) PROVE OpenIsFresh'
  <2>1. UNCHANGED <<zoneRules, zoneList, zoneListOk, expanded>> /\ (Mounted' <=> Mounted)
    BY <1>3 DEF RulesArrive, zoneBackend, Mounted, ZoneRows
  <2>2. /\ \A y \in Zones \ {z} : ruleCache'[y] = ruleCache[y]
        /\ ruleCache'[z] = zoneRules[z] /\ zoneRules[z] \in RuleSet
    BY <1>1, <1>3 DEF RulesArrive, RowTyped, ZoneInv, ZoneStoreTyped
  <2>3. Mounted => expanded \in Zones
    BY <1>1 DEF Mounted, ZoneRows, RowTyped
  <2>4. CASE Mounted /\ expanded = z /\ ~ruleEditor.ready
    <3>1. ruleEditor' = Derived(ruleEditor, zoneRules[z])
      BY <1>3, <2>4 DEF RulesArrive, ShowEditor
    <3>2. Body(ruleEditor') = zoneRules[z]
      BY <1>1, <2>2, <3>1, BodyOfDerived
    <3> QED
      BY <2>1, <2>2, <2>4, <3>2 DEF OpenIsFresh, Body
  <2>5. CASE ~(Mounted /\ expanded = z /\ ~ruleEditor.ready)
    <3>1. ruleEditor' = ruleEditor
      BY <1>3, <2>5 DEF RulesArrive
    <3>2. Body(ruleEditor)' = Body(ruleEditor)
      BY <3>1 DEF Body
    <3> QED
      BY <2>1, <2>2, <2>3, <3>1, <3>2 DEF OpenIsFresh
  <2> QED
    BY <2>4, <2>5
<1>4. CASE ZonesArrive
  <2>1. UNCHANGED <<zoneRules, ruleCache>> /\ zoneList' = zoneThere /\ zoneThere \subseteq Zones
    BY <1>4 DEF ZonesArrive, zoneBackend, ZoneInv, ZoneStoreTyped
  <2>2. CASE expanded' = NoZone
    BY <2>1, <2>2, ZoneAssumption DEF OpenIsFresh, Mounted, ZoneRows
  <2>3. CASE expanded \in zoneThere /\ ~Mounted /\ MountEditor(expanded) /\ UNCHANGED expanded
    BY <2>1, <2>3, MountsFresh
  <2>4. CASE Mounted /\ UNCHANGED <<expanded, ruleEditor>>
    <3>1. Body(ruleEditor)' = Body(ruleEditor)
      BY <2>4 DEF Body
    <3> QED
      BY <2>1, <2>4, <3>1 DEF OpenIsFresh
  <2> QED
    BY <1>4, <2>2, <2>3, <2>4 DEF ZonesArrive, rowVars
<1>5. CASE ZonesFail
  BY <1>5 DEF ZonesFail, OpenIsFresh, Mounted, ZoneRows
<1> QED
  BY <1>2, <1>3, <1>4, <1>5

(* A clean editor shows the rules its zone has, unless it was opened on    *)
(* rules that were stale already or they were rewritten under it: typing,  *)
(* cancelling, saves that fail, refetches of the rules and of the list,    *)
(* and saves of other rows answered late do not make it show others.       *)
THEOREM OpenEditorsStayFresh == ZoneSpec /\ [][OpensFresh /\ LeftAlone]_zoneVars => []CleanShowsSaved
<1>1. ZoneInit => OpenIsFresh
  BY DEF ZoneInit, OpenIsFresh, Mounted, ZoneRows
<1>2. ZoneInv /\ OpenIsFresh /\ [ZoneNext]_zoneVars /\ [OpensFresh /\ LeftAlone]_zoneVars => OpenIsFresh'
  <2> SUFFICES ASSUME ZoneInv, OpenIsFresh, [ZoneNext]_zoneVars, [OpensFresh /\ LeftAlone]_zoneVars
               PROVE  OpenIsFresh'
    OBVIOUS
  <2>1. CASE UNCHANGED zoneVars
    <3>1. UNCHANGED <<zoneRules, zoneList, zoneListOk, ruleCache, expanded, ruleEditor>>
      BY <2>1 DEF zoneVars, zoneBackend, zoneQueries, rowVars
    <3> QED
      BY <3>1, StaysFresh DEF LeftAlone
  <2>2. CASE OpensFresh /\ LeftAlone /\ ZoneNext
    <3>1. CASE EditClauses \/ CancelRules \/ SaveRules \/ \E z \in Zones : ToggleRules(z)
      BY <2>2, <3>1, RowActionsFresh
    <3>2. CASE \/ \E p \in rulePuts, out \in {"ok", "fail", "lost"} : PutAnswers(p, out)
               \/ \E z \in Zones : RulesArrive(z)
               \/ ZonesArrive \/ ZonesFail
      BY <2>2, <3>2, RowAnswersFresh
    <3>3. CASE UNCHANGED <<zoneQueries, rowVars>> \/ \E z \in Zones : RulesFail(z)
      <4>1. UNCHANGED <<zoneList, zoneListOk, ruleCache, expanded, ruleEditor>>
        BY <3>3 DEF zoneQueries, rowVars, RulesFail
      <4> QED
        BY <2>2, <4>1, StaysFresh
    <3>4. ZoneNext =>
            \/ EditClauses \/ CancelRules \/ SaveRules \/ \E z \in Zones : ToggleRules(z)
            \/ \E p \in rulePuts, out \in {"ok", "fail", "lost"} : PutAnswers(p, out)
            \/ \E z \in Zones : RulesArrive(z)
            \/ ZonesArrive \/ ZonesFail
            \/ UNCHANGED <<zoneQueries, rowVars>> \/ \E z \in Zones : RulesFail(z)
      BY DEF ZoneNext, OtherEdits, OpenForm, CloseForm, SubmitForm, FormAnswers, OpenDelete, ConfirmDelete,
             CloseZoneDelete, DeleteAnswers
    <3> QED
      BY <2>2, <3>1, <3>2, <3>3, <3>4
  <2> QED
    BY <2>1, <2>2
<1>3. OpenIsFresh => CleanShowsSaved
  BY DEF OpenIsFresh, CleanShowsSaved, EditorShown
<1> QED
  BY <1>1, <1>2, <1>3, ZonesTyped, PTL DEF ZoneSpec

------------------------------------------------------------------------------
(* The staff codes (StaffTokens).                                          *)

(* What the proof needs of the state's type.                               *)
PrintAllState == [open : BOOLEAN, busy : BOOLEAN, at : Nat, known : [Staff -> Nat], asked : Nat,
                  done : BOOLEAN, cards : SUBSET [member : Staff, code : Nat], failed : Nat]
CallShape == [member : Staff, code : Nat, done : BOOLEAN, sheet : BOOLEAN, session : Nat, heard : BOOLEAN]

CodeShapes ==
  /\ liveCode \in [Staff -> Nat] /\ codes \in [Staff -> Nat] /\ codesAsked \in Nat
  /\ codeCalls \subseteq CallShape /\ confirming \in {0} \cup Staff /\ cardSession \in [Staff -> Nat]
  /\ printAll \in PrintAllState

(* The run of Print all and the regenerate dialog exclude each other.      *)
CodeDialogs ==
  /\ printAll.busy => printAll.open
  /\ printAll.open => confirming = 0
  /\ printAll.asked # 0 => printAll.busy /\ printAll.at \in Staff /\ printAll.known[printAll.at] = 0
  /\ printAll.done => printAll.asked # 0

(* One member, not overlapped: the card and the run never both ask, no     *)
(* call was left behind, and what either brings back is the newest code.   *)
CodeCardOK(m) ==
  /\ \A c, d \in codeCalls : c.member = m /\ d.member = m => c = d
  /\ \A c \in codeCalls : c.member = m => /\ c.heard /\ ~printAll.busy /\ codes[m] = 0
                                          /\ c.done => liveCode[m] = c.code
  /\ confirming = m => /\ codes[m] = 0
                       /\ \A c \in codeCalls : c.member = m => c.session = cardSession[m]
  /\ codes[m] \in {0, liveCode[m]}
CodeRunOK(m) ==
  /\ printAll.busy /\ m >= printAll.at => codes[m] = printAll.known[m]
  /\ printAll.at = m /\ printAll.done => liveCode[m] = printAll.asked

CodeMembers == \A m \in Staff \ overlapped : CodeCardOK(m) /\ CodeRunOK(m)

CodesInv == CodeShapes /\ CodeDialogs /\ CodeMembers

(* A run left behind reaches only members known to be at risk.             *)
RunShape == [visit : Nat, ahead : SUBSET Staff, asked : Nat]
RunsLeft == leftRuns \subseteq RunShape /\ \A r \in leftRuns : r.ahead \subseteq overlapped

------------------------------------------------------------------------------
LEMMA NoPrintAllState == NoPrintAll \in PrintAllState
  BY DEF NoPrintAll, PrintAllState

LEMMA StaffAreNumbers == Staff \subseteq Nat \ {0} /\ 1 \in Staff
  BY StaffAssumption DEF Staff

LEMMA CodesStart == StaffInit => CodesInv
<1> SUFFICES ASSUME StaffInit PROVE CodesInv
  OBVIOUS
<1>1. CodeShapes
  BY NoPrintAllState DEF StaffInit, CodeShapes
<1>2. CodeDialogs
  BY DEF StaffInit, CodeDialogs, NoPrintAll
<1>3. CodeMembers
  BY StaffAreNumbers DEF StaffInit, CodeMembers, CodeCardOK, CodeRunOK, NoPrintAll
<1> QED
  BY <1>1, <1>2, <1>3 DEF CodesInv

(* A card asks: only when neither the card nor the run is asking already.  *)
LEMMA CodeAsked ==
  ASSUME CodesInv, NEW m \in Staff, NEW printed \in BOOLEAN, RunGenerate(m, printed), ~CodePending(m),
         m \notin overlapped => codes[m] = 0, ~printAll.open,
         UNCHANGED <<liveCode, codes, confirming, cardSession, printAll, overlapped>>
  PROVE  CodesInv'
<1>1. PICK q : q = [member |-> m, code |-> codesAsked + 1, done |-> FALSE, sheet |-> printed,
                    session |-> cardSession[m], heard |-> TRUE]
  OBVIOUS
<1>2. codeCalls' = codeCalls \cup {q} /\ codesAsked' = codesAsked + 1
  BY <1>1 DEF RunGenerate
<1>3. q \in CallShape /\ q.member = m /\ q.done = FALSE /\ q.session = cardSession[m] /\ q.heard
  BY <1>1 DEF CodesInv, CodeShapes, CallShape
<1>4. CodeShapes' /\ CodeDialogs'
  BY <1>2, <1>3 DEF CodesInv, CodeShapes, CodeDialogs
<1>5. ASSUME NEW k \in Staff \ overlapped PROVE CodeCardOK(k)' /\ CodeRunOK(k)'
  <2>1. CodeCardOK(k) /\ CodeRunOK(k) /\ ~printAll.busy
    BY DEF CodesInv, CodeMembers, CodeDialogs
  <2>2. CASE k = m
    <3>1. \A c \in codeCalls : c.member # m
      BY <2>1, <2>2 DEF CodePending, CodeCardOK
    <3> QED
      BY <1>2, <1>3, <2>1, <2>2, <3>1 DEF CodeCardOK, CodeRunOK
  <2>3. CASE k # m
    BY <1>2, <1>3, <2>1, <2>3 DEF CodeCardOK, CodeRunOK
  <2> QED
    BY <2>2, <2>3
<1> QED
  BY <1>4, <1>5 DEF CodesInv, CodeMembers

LEMMA CodeCardKeeps ==
  ASSUME CodesInv, NEW m \in Staff, PressGenerate(m) \/ PressPrintCard(m)
  PROVE  CodesInv'
<1>1. ~printAll.open /\ confirming = 0 /\ ~CodePending(m) /\ m # 0
  BY StaffAreNumbers DEF PressGenerate, PressPrintCard, ControlsEnabled, Free
<1>2. UNCHANGED <<liveCode, codes, cardSession, printAll, overlapped>>
  BY DEF PressGenerate, PressPrintCard
<1>3. CASE codes[m] = 0 /\ UNCHANGED confirming /\ \E printed \in BOOLEAN : RunGenerate(m, printed)
  BY <1>1, <1>2, <1>3, CodeAsked
<1>4. CASE UNCHANGED <<codesAsked, codeCalls>> /\ (confirming' = confirming \/ (confirming' = m /\ codes[m] = 0))
  <2>1. CodeShapes' /\ CodeDialogs'
    BY <1>1, <1>2, <1>4 DEF CodesInv, CodeShapes, CodeDialogs
  <2>2. ASSUME NEW k \in Staff \ overlapped PROVE CodeCardOK(k)' /\ CodeRunOK(k)'
    BY <1>1, <1>2, <1>4, <2>2 DEF CodesInv, CodeMembers, CodeCardOK, CodeRunOK, CodePending
  <2> QED
    BY <1>2, <2>1, <2>2 DEF CodesInv, CodeMembers
<1> QED
  BY <1>3, <1>4 DEF PressGenerate, PressPrintCard

LEMMA CodeDialogKeeps ==
  ASSUME CodesInv, ConfirmRegenerate \/ DismissRegenerate
  PROVE  CodesInv'
<1>1. confirming \in Staff /\ confirming # 0 /\ ~printAll.open /\ ~printAll.busy
  BY DEF ConfirmRegenerate, DismissRegenerate, CodesInv, CodeShapes, CodeDialogs
<1>2. CASE ConfirmRegenerate
  <2>1. confirming \notin overlapped => codes[confirming] = 0
    BY <1>1 DEF CodesInv, CodeMembers, CodeCardOK
  <2> QED
    BY <1>1, <1>2, <2>1, CodeAsked DEF ConfirmRegenerate
<1>3. CASE DismissRegenerate
  <2>1. UNCHANGED <<liveCode, codesAsked, codes, codeCalls, printAll, overlapped>> /\ confirming' = 0
    BY <1>3 DEF DismissRegenerate, codeBackend
  <2>2. cardSession' \in [Staff -> Nat]
    BY <1>1, <1>3 DEF DismissRegenerate, CodesInv, CodeShapes
  <2>3. CodeShapes' /\ CodeDialogs'
    BY <2>1, <2>2 DEF CodesInv, CodeShapes, CodeDialogs
  <2>4. CodeMembers'
    BY <2>1, StaffAreNumbers DEF CodesInv, CodeMembers, CodeCardOK, CodeRunOK
  <2> QED
    BY <2>3, <2>4 DEF CodesInv
<1> QED
  BY <1>2, <1>3

(* The backend takes a card's new code, and its answer comes back or not.  *)
LEMMA CodeCommitsKeep ==
  ASSUME CodesInv, NEW c \in codeCalls, CodeCommits(c)
  PROVE  CodesInv'
<1>1. PICK q : q = [c EXCEPT !.done = TRUE]
  OBVIOUS
<1>2. /\ c \in CallShape /\ c.member \in Staff /\ q \in CallShape /\ q.member = c.member /\ q.code = c.code
      /\ q.session = c.session /\ q.heard = c.heard
  BY <1>1 DEF CodesInv, CodeShapes, CallShape
<1>3. /\ liveCode' = [liveCode EXCEPT ![c.member] = c.code] /\ codeCalls' = (codeCalls \ {c}) \cup (IF c.heard THEN {q} ELSE {})
      /\ UNCHANGED <<codesAsked, codes, confirming, cardSession, printAll, overlapped>>
  BY <1>1 DEF CodeCommits
<1>4. CodeShapes' /\ CodeDialogs'
  BY <1>2, <1>3 DEF CodesInv, CodeShapes, CodeDialogs, CallShape
<1>5. ASSUME NEW k \in Staff \ overlapped PROVE CodeCardOK(k)' /\ CodeRunOK(k)'
  <2>1. CodeCardOK(k) /\ CodeRunOK(k) /\ liveCode \in [Staff -> Nat] /\ (printAll.done => printAll.busy)
    BY DEF CodesInv, CodeMembers, CodeDialogs, CodeShapes
  <2>2. CASE k = c.member
    <3>1. /\ \A d \in codeCalls : d.member = k => d = c
          /\ c.heard /\ codes[k] = 0 /\ ~printAll.busy /\ ~printAll.done /\ liveCode'[k] = c.code
          /\ confirming = k => c.session = cardSession[k]
      BY <1>3, <2>1, <2>2 DEF CodeCardOK
    <3>2. \A d \in codeCalls' : d.member = k => d = q
      BY <1>3, <3>1
    <3>3. confirming = k => q.session = cardSession[k]
      BY <1>2, <3>1
    <3>4. CodeCardOK(k)'
      BY <1>2, <1>3, <3>1, <3>2, <3>3 DEF CodeCardOK
    <3>5. CodeRunOK(k)'
      BY <1>3, <3>1 DEF CodeRunOK
    <3> QED
      BY <3>4, <3>5
  <2>3. CASE k # c.member
    <3>1. liveCode'[k] = liveCode[k]
      BY <1>3, <2>3 DEF CodesInv, CodeShapes
    <3>2. CodeCardOK(k) /\ CodeRunOK(k)
      BY DEF CodesInv, CodeMembers
    <3> QED
      BY <1>2, <1>3, <2>3, <3>1, <3>2 DEF CodeCardOK, CodeRunOK
  <2> QED
    BY <2>2, <2>3
<1> QED
  BY <1>3, <1>4, <1>5 DEF CodesInv, CodeMembers

LEMMA CodeAnswersKeep ==
  ASSUME CodesInv, NEW c \in codeCalls, CodeAnswers(c) \/ CodeFails(c)
  PROVE  CodesInv'
<1>1. c \in CallShape /\ c.member \in Staff /\ c.code \in Nat
  BY DEF CodesInv, CodeShapes, CallShape
<1>2. /\ codeCalls' = codeCalls \ {c} /\ confirming' \in {0, confirming}
      /\ UNCHANGED <<liveCode, codesAsked, cardSession, printAll, overlapped>>
  BY DEF CodeAnswers, CodeFails, codeBackend
<1>3. codes' = codes \/ codes' = [codes EXCEPT ![c.member] = c.code]
  BY DEF CodeAnswers, CodeFails
<1>4. CodeShapes' /\ CodeDialogs'
  BY <1>1, <1>2, <1>3 DEF CodesInv, CodeShapes, CodeDialogs
<1>5. ASSUME NEW k \in Staff \ overlapped PROVE CodeCardOK(k)' /\ CodeRunOK(k)'
  <2>1. CodeCardOK(k) /\ CodeRunOK(k) /\ codes \in [Staff -> Nat] /\ k # 0
    BY StaffAreNumbers DEF CodesInv, CodeMembers, CodeShapes
  <2>2. CASE codes'[k] = codes[k]
    BY <1>2, <2>1, <2>2 DEF CodeCardOK, CodeRunOK
  <2>3. CASE codes'[k] # codes[k]
    <3>1. k = c.member /\ CodeAnswers(c) /\ c.done /\ codes'[k] = c.code
      BY <1>1, <1>3, <2>1, <2>3 DEF CodeAnswers, CodeFails
    <3>2. liveCode'[k] = c.code /\ ~printAll'.busy /\ \A d \in codeCalls' : d.member # k
      BY <1>2, <2>1, <3>1 DEF CodeCardOK
    <3>3. confirming' # k
      BY <2>1, <3>1 DEF CodeCardOK, CodeAnswers
    <3>4. CodeCardOK(k)'
      BY <3>1, <3>2, <3>3 DEF CodeCardOK
    <3>5. CodeRunOK(k)'
      BY <1>2, <2>1, <3>2 DEF CodeRunOK, CodesInv, CodeDialogs
    <3> QED
      BY <3>4, <3>5
  <2> QED
    BY <2>2, <2>3
<1> QED
  BY <1>2, <1>4, <1>5 DEF CodesInv, CodeMembers

------------------------------------------------------------------------------
(* The run of Print all.                                                   *)
LEMMA CodeRunStarts ==
  ASSUME CodesInv, OpenPrintAll \/ ClosePrintAll \/ ConfirmPrintAll \/ PrintAllEnds
  PROVE  CodesInv'
<1>1. UNCHANGED <<liveCode, codesAsked, codes, codeCalls, confirming, cardSession>>
      /\ overlapped \subseteq overlapped'
  BY DEF OpenPrintAll, ClosePrintAll, ConfirmPrintAll, PrintAllEnds, codeBackend, codeCardVars
<1>2. /\ printAll' \in PrintAllState /\ printAll'.asked = 0 /\ printAll'.done = FALSE
      /\ printAll'.busy => printAll'.open /\ printAll'.known = codes
  <2>1. printAll \in PrintAllState /\ codes \in [Staff -> Nat]
    BY DEF CodesInv, CodeShapes
  <2>2. CASE OpenPrintAll \/ ClosePrintAll
    <3>1. printAll' = [NoPrintAll EXCEPT !.open = TRUE] \/ printAll' = NoPrintAll
      BY <2>2 DEF OpenPrintAll, ClosePrintAll
    <3>2. ~printAll'.busy /\ printAll'.asked = 0 /\ printAll'.done = FALSE
      BY <3>1 DEF NoPrintAll
    <3>3. printAll' \in PrintAllState
      BY <3>1, NoPrintAllState DEF PrintAllState
    <3> QED
      BY <3>2, <3>3
  <2>3. CASE ConfirmPrintAll
    BY <2>1, <2>3 DEF ConfirmPrintAll, NoPrintAll, PrintAllState
  <2>4. CASE PrintAllEnds
    BY <2>1, <2>4 DEF PrintAllEnds, NoPrintAll, PrintAllState
  <2> QED
    BY <2>2, <2>3, <2>4
<1>3. printAll'.open => confirming = 0
  <2>1. CASE OpenPrintAll
    BY <2>1 DEF OpenPrintAll, Free
  <2>2. CASE ~OpenPrintAll
    BY <2>2 DEF ClosePrintAll, ConfirmPrintAll, PrintAllEnds, NoPrintAll, CodesInv, CodeDialogs
  <2> QED
    BY <2>1, <2>2
<1>4. CodeShapes' /\ CodeDialogs'
  BY <1>1, <1>2, <1>3 DEF CodesInv, CodeShapes, CodeDialogs
<1>5. \A k \in Staff \ overlapped' : \A c \in codeCalls : c.member = k => ~printAll'.busy
  <2>1. CASE OpenPrintAll
    BY <2>1 DEF OpenPrintAll, NoPrintAll
  <2>2. CASE ClosePrintAll
    BY <2>2 DEF ClosePrintAll, NoPrintAll
  <2>3. CASE PrintAllEnds
    BY <2>3 DEF PrintAllEnds, NoPrintAll
  <2>4. CASE ConfirmPrintAll
    BY <2>4 DEF ConfirmPrintAll, CodePending, CodesInv, CodeMembers, CodeCardOK
  <2> QED
    BY <2>1, <2>2, <2>3, <2>4
<1>6. ASSUME NEW k \in Staff \ overlapped' PROVE CodeCardOK(k)' /\ CodeRunOK(k)'
  <2>1. CodeCardOK(k) /\ CodeRunOK(k)
    BY <1>1 DEF CodesInv, CodeMembers
  <2> QED
    BY <1>1, <1>2, <1>5, <2>1 DEF CodeCardOK, CodeRunOK
<1> QED
  BY <1>4, <1>6 DEF CodesInv, CodeMembers

LEMMA CodeRunKeeps ==
  ASSUME CodesInv, ReuseCode \/ AskCode \/ PrintAllCommits \/ PrintAllAnswers
  PROVE  CodesInv'
<1> DEFINE m == printAll.at
<1>1. /\ printAll \in PrintAllState /\ printAll.busy /\ m \in Staff /\ confirming = 0
      /\ liveCode \in [Staff -> Nat] /\ codes \in [Staff -> Nat] /\ codesAsked \in Nat
  BY DEF ReuseCode, AskCode, PrintAllCommits, PrintAllAnswers, Turn, CodesInv, CodeShapes, CodeDialogs
<1>2. UNCHANGED <<codeCalls, confirming, cardSession, overlapped>>
  BY DEF ReuseCode, AskCode, PrintAllCommits, PrintAllAnswers, codeCardVars
<1>3. \A k \in Staff \ overlapped : /\ \A c \in codeCalls : c.member # k
                                    /\ confirming # k
                                    /\ codes[k] \in {0, liveCode[k]}
                                    /\ k >= m => codes[k] = printAll.known[k]
                                    /\ k = m /\ printAll.done => liveCode[k] = printAll.asked
  BY <1>1, StaffAreNumbers DEF CodesInv, CodeMembers, CodeCardOK, CodeRunOK
<1>4. m \in Nat \ {0} /\ m + 1 \in Nat /\ m + 1 # m /\ \A k \in Staff : k \in Nat /\ (k >= m + 1 => k >= m /\ k # m)
  <2>1. m \in Nat \ {0} /\ Staff \subseteq Nat
    BY <1>1, StaffAreNumbers
  <2> HIDE DEF m
  <2> QED
    BY <2>1
<1>5. CASE ReuseCode
  <2>1. UNCHANGED <<liveCode, codesAsked, codes>>
    BY <1>5 DEF ReuseCode, codeBackend
  <2>2. printAll.asked = 0 /\ ~printAll.done
    BY <1>1, <1>5 DEF ReuseCode, CodesInv, CodeDialogs
  <2>3. /\ printAll' \in PrintAllState /\ printAll'.busy /\ printAll'.open = printAll.open
        /\ printAll'.at = m + 1 /\ printAll'.known = printAll.known
        /\ printAll'.asked = printAll.asked /\ printAll'.done = printAll.done
    <3>1. printAll.known[m] \in Nat
      BY <1>1 DEF PrintAllState
    <3>2. PICK new : new = [member |-> m, code |-> printAll.known[m]]
      OBVIOUS
    <3>3. new \in [member : Staff, code : Nat]
      BY <1>1, <3>1, <3>2
    <3>4. printAll' = [printAll EXCEPT !.at = m + 1, !.cards = printAll.cards \cup {new}]
      BY <1>5, <3>2 DEF ReuseCode
    <3> QED
      BY <1>1, <1>4, <3>3, <3>4 DEF PrintAllState
  <2>4. CodeShapes' /\ CodeDialogs'
    BY <1>1, <1>2, <2>1, <2>2, <2>3 DEF CodesInv, CodeShapes, CodeDialogs
  <2>5. CodeMembers'
    BY <1>2, <1>3, <1>4, <2>1, <2>2, <2>3 DEF CodeMembers, CodeCardOK, CodeRunOK
  <2> QED
    BY <2>4, <2>5 DEF CodesInv
<1>6. CASE AskCode
  <2>1. UNCHANGED <<liveCode, codes>> /\ codesAsked' = codesAsked + 1
    BY <1>6 DEF AskCode
  <2>2. printAll.asked = 0 /\ ~printAll.done /\ printAll.known[m] = 0
    BY <1>6 DEF AskCode, CodesInv, CodeDialogs
  <2>3. /\ printAll' \in PrintAllState /\ printAll'.busy /\ printAll'.open = printAll.open
        /\ printAll'.at = m /\ printAll'.known = printAll.known
        /\ printAll'.asked = codesAsked + 1 /\ printAll'.done = printAll.done
    BY <1>1, <1>6 DEF AskCode, PrintAllState
  <2>4. CodeShapes' /\ CodeDialogs'
    BY <1>1, <1>2, <2>1, <2>2, <2>3 DEF CodesInv, CodeShapes, CodeDialogs
  <2>5. CodeMembers'
    BY <1>2, <1>3, <2>1, <2>2, <2>3 DEF CodeMembers, CodeCardOK, CodeRunOK
  <2> QED
    BY <2>4, <2>5 DEF CodesInv
<1>7. CASE PrintAllCommits
  <2>1. UNCHANGED <<codesAsked, codes>> /\ liveCode' = [liveCode EXCEPT ![m] = printAll.asked]
    BY <1>7 DEF PrintAllCommits
  <2>2. printAll.asked # 0 /\ printAll.asked \in Nat /\ printAll.known[m] = 0
    BY <1>1, <1>7 DEF PrintAllCommits, CodesInv, CodeDialogs, PrintAllState
  <2>3. /\ printAll' \in PrintAllState /\ printAll'.busy /\ printAll'.open = printAll.open
        /\ printAll'.at = m /\ printAll'.known = printAll.known
        /\ printAll'.asked = printAll.asked /\ printAll'.done = TRUE
    BY <1>1, <1>7 DEF PrintAllCommits, PrintAllState
  <2>4. CodeShapes' /\ CodeDialogs'
    BY <1>1, <1>2, <2>1, <2>2, <2>3 DEF CodesInv, CodeShapes, CodeDialogs
  <2>5. ASSUME NEW k \in Staff \ overlapped PROVE CodeCardOK(k)' /\ CodeRunOK(k)'
    <3>1. CASE k = m
      <4>1. codes[k] = 0 /\ liveCode'[k] = printAll.asked
        BY <1>1, <1>3, <1>4, <2>1, <2>2, <3>1
      <4> QED
        BY <1>2, <1>3, <2>1, <2>2, <2>3, <3>1, <4>1 DEF CodeCardOK, CodeRunOK
    <3>2. CASE k # m
      <4>1. liveCode'[k] = liveCode[k]
        BY <1>1, <2>1, <3>2
      <4> QED
        BY <1>2, <1>3, <2>1, <2>3, <3>2, <4>1 DEF CodeCardOK, CodeRunOK
    <3> QED
      BY <3>1, <3>2
  <2> QED
    BY <1>2, <2>4, <2>5 DEF CodesInv, CodeMembers
<1>8. CASE PrintAllAnswers
  <2>1. UNCHANGED <<liveCode, codesAsked>> /\ printAll.asked \in Nat
    BY <1>1, <1>8 DEF PrintAllAnswers, codeBackend, PrintAllState
  <2>2. codes' = codes \/ (printAll.done /\ codes' = [codes EXCEPT ![m] = printAll.asked])
    BY <1>8 DEF PrintAllAnswers
  <2>3. /\ printAll' \in PrintAllState /\ printAll'.busy /\ printAll'.open = printAll.open
        /\ printAll'.at = m + 1 /\ printAll'.known = printAll.known
        /\ printAll'.asked = 0 /\ printAll'.done = FALSE
    <3>1. CASE printAll' = [printAll EXCEPT !.at = m + 1, !.asked = 0, !.done = FALSE,
                              !.cards = @ \cup {[member |-> m, code |-> printAll.asked]}]
      <4>1. PICK new : new = [member |-> m, code |-> printAll.asked]
        OBVIOUS
      <4>2. new \in [member : Staff, code : Nat]
        BY <1>1, <2>1, <4>1
      <4>3. printAll' = [printAll EXCEPT !.at = m + 1, !.asked = 0, !.done = FALSE,
                                         !.cards = printAll.cards \cup {new}]
        BY <3>1, <4>1
      <4> QED
        BY <1>1, <1>4, <4>2, <4>3 DEF PrintAllState
    <3>2. CASE printAll' = [printAll EXCEPT !.at = m + 1, !.asked = 0, !.done = FALSE, !.failed = @ + 1]
      <4>1. PICK lost \in Nat : lost = printAll.failed + 1
        BY <1>1 DEF PrintAllState
      <4>2. printAll' = [printAll EXCEPT !.at = m + 1, !.asked = 0, !.done = FALSE, !.failed = lost]
        BY <3>2, <4>1
      <4> QED
        BY <1>1, <1>4, <4>1, <4>2 DEF PrintAllState
    <3> QED
      BY <1>8, <3>1, <3>2 DEF PrintAllAnswers
  <2>4. CodeShapes' /\ CodeDialogs'
    BY <1>1, <1>2, <2>1, <2>2, <2>3 DEF CodesInv, CodeShapes, CodeDialogs
  <2>5. ASSUME NEW k \in Staff \ overlapped PROVE CodeCardOK(k)' /\ CodeRunOK(k)'
    <3>1. codes'[k] \in {0, liveCode'[k]} /\ (k # m => codes'[k] = codes[k])
      BY <1>1, <1>3, <2>1, <2>2
    <3> QED
      BY <1>2, <1>3, <1>4, <2>3, <3>1 DEF CodeCardOK, CodeRunOK
  <2> QED
    BY <1>2, <2>4, <2>5 DEF CodesInv, CodeMembers
<1> QED
  BY <1>5, <1>6, <1>7, <1>8

LEMMA CodeViewKeeps ==
  ASSUME CodesInv,
         UNCHANGED <<codeBackend, codes, codeCalls, confirming, cardSession, printAll, overlapped>>
  PROVE  CodesInv'
  BY DEF codeBackend, CodesInv, CodeShapes, CodeDialogs, CodeMembers, CodeCardOK, CodeRunOK

------------------------------------------------------------------------------
(* The page or its cards go away: every member that a call or a run has    *)
(* still to reach counts as overlapped from then on.                       *)
LEMMA CardsLeft ==
  ASSUME CodesInv, CardsGone
  PROVE  /\ codeCalls' \subseteq CallShape /\ confirming' = 0 /\ cardSession' \in [Staff -> Nat]
         /\ \A c \in codeCalls' : c.member \in {d.member : d \in Unfinished}
<1>1. codeCalls \subseteq CallShape
  BY DEF CodesInv, CodeShapes
<1>2. codeCalls' = {[c EXCEPT !.heard = FALSE] : c \in Unfinished} /\ Unfinished \subseteq codeCalls
  BY DEF CardsGone, Unfinished
<1>3. \A c \in Unfinished : [c EXCEPT !.heard = FALSE] \in CallShape /\ [c EXCEPT !.heard = FALSE].member = c.member
  BY <1>1, <1>2 DEF CallShape
<1>4. cardSession' \in [Staff -> Nat] /\ confirming' = 0
  BY DEF CardsGone
<1> QED
  BY <1>2, <1>3, <1>4

LEMMA CodeLeavesKeep ==
  ASSUME CodesInv, LeaveStaffPage \/ StaffListFails
  PROVE  CodesInv'
<1>1. /\ codeCalls' \subseteq CallShape /\ confirming' = 0 /\ cardSession' \in [Staff -> Nat]
      /\ \A c \in codeCalls' : c.member \in {d.member : d \in Unfinished}
  BY CardsLeft DEF LeaveStaffPage, StaffListFails
<1>2. /\ UNCHANGED <<liveCode, codesAsked>>
      /\ overlapped \subseteq overlapped' /\ {d.member : d \in Unfinished} \subseteq overlapped'
  BY DEF LeaveStaffPage, StaffListFails, codeBackend
<1>3. \A k \in Staff \ overlapped' : k \notin overlapped /\ \A c \in codeCalls' : c.member # k
  BY <1>1, <1>2
<1>4. CASE LeaveStaffPage
  <2>1. printAll' = NoPrintAll /\ codes' = [m \in Staff |-> 0]
    BY <1>4 DEF LeaveStaffPage
  <2>2. CodeShapes'
    BY <1>1, <1>2, <2>1, NoPrintAllState DEF CodesInv, CodeShapes
  <2>3. CodeDialogs'
    BY <1>1, <2>1 DEF CodeDialogs, NoPrintAll
  <2>4. CodeMembers'
    BY <1>1, <1>3, <2>1, StaffAreNumbers DEF CodeMembers, CodeCardOK, CodeRunOK, NoPrintAll
  <2> QED
    BY <2>2, <2>3, <2>4 DEF CodesInv
<1>5. CASE StaffListFails
  <2>1. UNCHANGED <<printAll, codes>>
    BY <1>5 DEF StaffListFails
  <2>2. CodeShapes' /\ CodeDialogs'
    BY <1>1, <1>2, <2>1 DEF CodesInv, CodeShapes, CodeDialogs
  <2>3. CodeMembers'
    BY <1>1, <1>2, <1>3, <2>1, StaffAreNumbers DEF CodesInv, CodeMembers, CodeCardOK, CodeRunOK
  <2> QED
    BY <2>2, <2>3 DEF CodesInv
<1> QED
  BY <1>4, <1>5

(* A run left behind replaces the codes of members it was still to reach.  *)
LEMMA LeftRunKeeps ==
  ASSUME CodesInv, RunsLeft, NEW run \in leftRuns, LeftRunAsks(run) \/ LeftRunGoesOn(run)
  PROVE  CodesInv' /\ RunsLeft'
<1>1. /\ run \in RunShape /\ run.ahead \subseteq overlapped /\ leftRuns \subseteq RunShape
      /\ codesAsked \in Nat /\ liveCode \in [Staff -> Nat]
  BY DEF RunsLeft, CodesInv, CodeShapes
<1>2. UNCHANGED <<codes, codeCalls, confirming, cardSession, printAll, overlapped>>
  BY DEF LeftRunAsks, LeftRunGoesOn, codeCardVars
<1>3. CASE LeftRunAsks(run)
  <2>1. UNCHANGED liveCode /\ codesAsked' = codesAsked + 1
    BY <1>3 DEF LeftRunAsks
  <2>2. PICK q : q = [run EXCEPT !.asked = codesAsked + 1]
    OBVIOUS
  <2>3. q \in RunShape /\ q.ahead = run.ahead
    BY <1>1, <2>2 DEF RunShape
  <2>4. leftRuns' = (leftRuns \ {run}) \cup {q}
    BY <1>3, <2>2 DEF LeftRunAsks
  <2>5. RunsLeft'
    BY <1>1, <1>2, <2>3, <2>4 DEF RunsLeft
  <2>6. CodesInv'
    BY <1>1, <1>2, <2>1 DEF CodesInv, CodeShapes, CodeDialogs, CodeMembers, CodeCardOK, CodeRunOK
  <2> QED
    BY <2>5, <2>6
<1>4. CASE LeftRunGoesOn(run)
  <2>1. PICK m \in run.ahead :
          /\ leftRuns' = (leftRuns \ {run})
                         \cup {r \in {[run EXCEPT !.ahead = @ \ {m}, !.asked = 0]} : r.ahead # {}}
          /\ liveCode' = [liveCode EXCEPT ![m] = run.asked] \/ UNCHANGED liveCode
    BY <1>4 DEF LeftRunGoesOn
  <2>2. UNCHANGED codesAsked
    BY <1>4 DEF LeftRunGoesOn
  <2>3. run.asked \in Nat /\ m \in Staff /\ m \in overlapped
    BY <1>1 DEF RunShape
  <2>4. PICK q : q = [run EXCEPT !.ahead = @ \ {m}, !.asked = 0]
    OBVIOUS
  <2>5. q \in RunShape /\ q.ahead \subseteq run.ahead
    BY <1>1, <2>4 DEF RunShape
  <2>6. leftRuns' \subseteq leftRuns \cup {q}
    BY <2>1, <2>4
  <2>7. RunsLeft'
    BY <1>1, <1>2, <2>5, <2>6 DEF RunsLeft
  <2>8. liveCode' \in [Staff -> Nat] /\ \A k \in Staff \ overlapped : liveCode'[k] = liveCode[k]
    BY <1>1, <2>1, <2>3
  <2>9. CodesInv'
    BY <1>2, <2>2, <2>8 DEF CodesInv, CodeShapes, CodeDialogs, CodeMembers, CodeCardOK, CodeRunOK
  <2> QED
    BY <2>7, <2>9
<1> QED
  BY <1>3, <1>4

(* Every other step leaves such runs alone; leaving the page adds one.     *)
LEMMA RunsLeftKeep ==
  ASSUME RunsLeft, CodesInv, codeTurns \in Nat,
         \/ UNCHANGED leftRuns /\ overlapped \subseteq overlapped'
         \/ LeaveStaffPage
  PROVE  RunsLeft'
<1>1. CASE UNCHANGED leftRuns /\ overlapped \subseteq overlapped'
  BY <1>1 DEF RunsLeft
<1>2. CASE LeaveStaffPage
  <2>1. PICK q : q = [visit |-> codeTurns, ahead |-> Ahead, asked |-> IF printAll.done THEN 0 ELSE printAll.asked]
    OBVIOUS
  <2>2. leftRuns' \subseteq leftRuns \cup {q} /\ overlapped \subseteq overlapped' /\ Ahead \subseteq overlapped'
    BY <1>2, <2>1 DEF LeaveStaffPage
  <2>3. q \in RunShape /\ q.ahead = Ahead
    BY <2>1 DEF RunShape, Ahead, CodesInv, CodeShapes, PrintAllState
  <2> QED
    BY <2>2, <2>3 DEF RunsLeft
<1> QED
  BY <1>1, <1>2

CodesOK == CodesInv /\ RunsLeft /\ codeTurns \in Nat

(* The invariant of the codes, inductive: a card and the run of Print all  *)
(* ask for the same member's code only if they overlapped, what was left   *)
(* behind reaches overlapped members only, and whatever either brings back *)
(* is then the newest.                                                     *)
THEOREM CodesInvariance == StaffSpec => []CodesOK
<1>1. CodesOK /\ [StaffNext]_codeVars => CodesOK'
  <2> SUFFICES ASSUME CodesOK, [StaffNext]_codeVars PROVE CodesOK'
    OBVIOUS
  <2> USE DEF CodesOK
  <2>1. CASE \E m \in Staff : PressGenerate(m) \/ PressPrintCard(m)
    <3>1. UNCHANGED <<leftRuns, codeTurns, overlapped>>
      BY <2>1 DEF PressGenerate, PressPrintCard, codeLeft
    <3> QED
      BY <2>1, <3>1, CodeCardKeeps, RunsLeftKeep
  <2>2. CASE ConfirmRegenerate \/ DismissRegenerate
    <3>1. UNCHANGED <<leftRuns, codeTurns, overlapped>>
      BY <2>2 DEF ConfirmRegenerate, DismissRegenerate, codeLeft
    <3> QED
      BY <2>2, <3>1, CodeDialogKeeps, RunsLeftKeep
  <2>3. CASE \E c \in codeCalls : CodeCommits(c) \/ CodeAnswers(c) \/ CodeFails(c)
    <3>1. UNCHANGED <<leftRuns, codeTurns, overlapped>>
      BY <2>3 DEF CodeCommits, CodeAnswers, CodeFails, codeLeft
    <3> QED
      BY <2>3, <3>1, CodeCommitsKeep, CodeAnswersKeep, RunsLeftKeep
  <2>4. CASE OpenPrintAll \/ ClosePrintAll \/ ConfirmPrintAll \/ PrintAllEnds
    <3>1. UNCHANGED <<leftRuns, codeTurns>> /\ overlapped \subseteq overlapped'
      BY <2>4 DEF OpenPrintAll, ClosePrintAll, ConfirmPrintAll, PrintAllEnds, codeLeft
    <3> QED
      BY <2>4, <3>1, CodeRunStarts, RunsLeftKeep
  <2>5. CASE ReuseCode \/ AskCode \/ PrintAllCommits \/ PrintAllAnswers
    <3>1. UNCHANGED <<leftRuns, codeTurns, overlapped>>
      BY <2>5 DEF ReuseCode, AskCode, PrintAllCommits, PrintAllAnswers, codeLeft
    <3> QED
      BY <2>5, <3>1, CodeRunKeeps, RunsLeftKeep
  <2>6. CASE \/ HideFullScreen \/ SheetPrinted \/ StaffRefetched \/ UNCHANGED codeVars
             \/ \E m \in Staff : ShowFullScreen(m)
    <3>1. UNCHANGED <<codeBackend, codes, codeCalls, confirming, cardSession, printAll, leftRuns, codeTurns,
                      overlapped>>
      BY <2>6 DEF HideFullScreen, SheetPrinted, StaffRefetched, ShowFullScreen, codeVars, codeCardVars, codeLeft
    <3> QED
      BY <3>1, CodeViewKeeps, RunsLeftKeep
  <2>7. CASE LeaveStaffPage \/ StaffListFails
    <3>1. codeTurns' \in Nat
      BY <2>7 DEF LeaveStaffPage, StaffListFails, CardsGone
    <3>2. StaffListFails => UNCHANGED leftRuns /\ overlapped \subseteq overlapped'
      BY DEF StaffListFails
    <3> QED
      BY <2>7, <3>1, <3>2, CodeLeavesKeep, RunsLeftKeep
  <2>8. CASE \E run \in leftRuns : LeftRunAsks(run) \/ LeftRunGoesOn(run)
    <3>1. UNCHANGED codeTurns
      BY <2>8 DEF LeftRunAsks, LeftRunGoesOn
    <3> QED
      BY <2>8, <3>1, LeftRunKeeps
  <2> QED
    BY <2>1, <2>2, <2>3, <2>4, <2>5, <2>6, <2>7, <2>8 DEF StaffNext
<1>2. StaffInit => CodesOK
  BY CodesStart DEF CodesOK, StaffInit, RunsLeft
<1> QED
  BY <1>1, <1>2, PTL DEF StaffSpec

(* A code this session knows, and may have printed, is the member's code:  *)
(* a card and a run of Print all that overlap, or a call or run that was   *)
(* left behind with its page or card before it reached the member, are the *)
(* only ways to print a code that another call replaces.                   *)
THEOREM KnownCodesLive == StaffSpec => []DeadCodesOverlapped
<1>1. CodesOK => DeadCodesOverlapped
  BY DEF CodesOK, CodesInv, CodeMembers, CodeCardOK, DeadCodesOverlapped
<1> QED
  BY <1>1, CodesInvariance, PTL

RunStates == [open : BOOLEAN, busy : BOOLEAN, at : 1..StaffSize + 1,
              known : [Staff -> 0..MaxCodes], asked : 0..MaxCodes, done : BOOLEAN,
              cards : SUBSET SheetCard, failed : 0..StaffSize]

(* The type, with what bounds the tally of a run: one member each.         *)
CodeTypes == StaffTypeOK /\ (printAll.busy => printAll.failed < printAll.at)

LEMMA CodeNumbers ==
  /\ 0 \in 0..MaxCodes /\ 0 \in 0..StaffSize /\ 1 \in 1..StaffSize + 1 /\ 0 < 1
  /\ \A n \in 0..MaxCodes : n # 0 => n \in 1..MaxCodes
  /\ \A n \in 1..MaxCodes : n \in 0..MaxCodes
  /\ \A n \in 0..MaxCodes : n < MaxCodes => n + 1 \in 0..MaxCodes /\ n + 1 \in 1..MaxCodes
  /\ \A m \in Staff : /\ m \in 0..StaffSize /\ m \in Nat /\ m + 1 \in 1..StaffSize + 1
                      /\ \A f \in 0..StaffSize : f < m => /\ f + 1 \in 0..StaffSize
                                                          /\ f + 1 < m + 1 /\ f < m + 1
  BY StaffAssumption DEF Staff

LEMMA NoRunTyped == NoPrintAll \in RunStates /\ NoPrintAll.failed < NoPrintAll.at
  BY CodeNumbers DEF NoPrintAll, RunStates

LEMMA CallTyped ==
  ASSUME StaffTypeOK, NEW m \in Staff, NEW printed \in BOOLEAN, RunGenerate(m, printed)
  PROVE  codesAsked' \in 0..MaxCodes /\ codeCalls' \subseteq CodeCall
<1>1. PICK q : q = [member |-> m, code |-> codesAsked + 1, done |-> FALSE, sheet |-> printed,
                    session |-> cardSession[m], heard |-> TRUE]
  OBVIOUS
<1>2. codesAsked + 1 \in 1..MaxCodes /\ codesAsked + 1 \in 0..MaxCodes /\ codesAsked' = codesAsked + 1
  BY CodeNumbers DEF RunGenerate, StaffTypeOK
<1>3. cardSession[m] \in Nat
  BY DEF StaffTypeOK
<1>4. q \in CodeCall
  BY <1>1, <1>2, <1>3 DEF CodeCall
<1>5. codeCalls' = codeCalls \cup {q}
  BY <1>1 DEF RunGenerate
<1> QED
  BY <1>2, <1>4, <1>5 DEF StaffTypeOK

(* The cards.                                                              *)
LEMMA CardsTyped ==
  ASSUME CodeTypes, NEW m \in Staff, PressGenerate(m) \/ PressPrintCard(m)
  PROVE  CodeTypes'
<1>1. UNCHANGED <<liveCode, hasCode, codes, cardSession, fullScreen, printAll, leftRuns, codeTurns, overlapped>>
  BY DEF PressGenerate, PressPrintCard, codeLeft
<1>2. confirming' \in 0..StaffSize
  BY CodeNumbers DEF PressGenerate, PressPrintCard, CodeTypes, StaffTypeOK
<1>3. codesAsked' \in 0..MaxCodes /\ codeCalls' \subseteq CodeCall
  <2>1. CASE \E printed \in BOOLEAN : RunGenerate(m, printed)
    BY <2>1, CallTyped DEF CodeTypes
  <2>2. CASE UNCHANGED <<codesAsked, codeCalls>>
    BY <2>2 DEF CodeTypes, StaffTypeOK
  <2> QED
    BY <2>1, <2>2 DEF PressGenerate, PressPrintCard
<1>4. codeSheet' \subseteq SheetCard
  <2>1. CASE codeSheet' = codeSheet
    BY <2>1 DEF CodeTypes, StaffTypeOK
  <2>2. CASE codes[m] # 0 /\ codeSheet' = {[member |-> m, code |-> codes[m]]}
    <3>1. codes[m] \in 1..MaxCodes
      BY <2>2, CodeNumbers DEF CodeTypes, StaffTypeOK
    <3> QED
      BY <2>2, <3>1 DEF SheetCard
  <2> QED
    BY <2>1, <2>2 DEF PressGenerate, PressPrintCard
<1> QED
  BY <1>1, <1>2, <1>3, <1>4 DEF CodeTypes, StaffTypeOK

LEMMA DialogsTyped ==
  ASSUME CodesInv, CodeTypes, ConfirmRegenerate \/ DismissRegenerate
  PROVE  CodeTypes'
<1>1. confirming \in Staff
  BY DEF ConfirmRegenerate, DismissRegenerate, CodesInv, CodeShapes
<1>2. CASE ConfirmRegenerate
  BY <1>1, <1>2, CallTyped DEF ConfirmRegenerate, codeLeft, CodeTypes, StaffTypeOK
<1>3. CASE DismissRegenerate
  <2>1. cardSession' \in [Staff -> Nat] /\ confirming' = 0
    BY <1>1, <1>3 DEF DismissRegenerate, CodeTypes, StaffTypeOK
  <2> QED
    BY <1>3, <2>1, CodeNumbers DEF DismissRegenerate, codeBackend, codeLeft, CodeTypes, StaffTypeOK
<1> QED
  BY <1>2, <1>3

LEMMA CallsTyped ==
  ASSUME CodeTypes, NEW c \in codeCalls, CodeCommits(c) \/ CodeAnswers(c) \/ CodeFails(c)
  PROVE  CodeTypes'
<1>1. c \in CodeCall /\ c.member \in Staff /\ c.code \in 1..MaxCodes /\ c.code \in 0..MaxCodes
  BY CodeNumbers DEF CodeTypes, StaffTypeOK, CodeCall
<1>2. CASE CodeCommits(c)
  <2>1. PICK q : q = [c EXCEPT !.done = TRUE]
    OBVIOUS
  <2>2. q \in CodeCall /\ codeCalls' \subseteq codeCalls \cup {q}
    BY <1>1, <1>2, <2>1 DEF CodeCommits, CodeCall
  <2>3. liveCode' \in [Staff -> 0..MaxCodes]
    BY <1>1, <1>2 DEF CodeCommits, CodeTypes, StaffTypeOK
  <2> QED
    BY <1>2, <2>2, <2>3 DEF CodeCommits, codeLeft, CodeTypes, StaffTypeOK
<1>3. CASE CodeAnswers(c)
  <2>1. codes' \in [Staff -> 0..MaxCodes]
    BY <1>1, <1>3 DEF CodeAnswers, CodeTypes, StaffTypeOK
  <2>2. confirming' \in 0..StaffSize
    BY <1>3, CodeNumbers DEF CodeAnswers, CodeTypes, StaffTypeOK
  <2>3. codeSheet' \subseteq SheetCard
    <3>1. [member |-> c.member, code |-> c.code] \in SheetCard
      BY <1>1 DEF SheetCard
    <3> QED
      BY <1>3, <3>1 DEF CodeAnswers, CodeTypes, StaffTypeOK
  <2> QED
    BY <1>3, <2>1, <2>2, <2>3 DEF CodeAnswers, codeBackend, codeLeft, CodeTypes, StaffTypeOK
<1>4. CASE CodeFails(c)
  BY <1>4 DEF CodeFails, codeBackend, codeLeft, CodeTypes, StaffTypeOK
<1> QED
  BY <1>2, <1>3, <1>4

(* Print all.                                                              *)
LEMMA RunFramed ==
  ASSUME CodeTypes, printAll' \in RunStates, printAll'.busy => printAll'.failed < printAll'.at,
         liveCode' \in [Staff -> 0..MaxCodes], codes' \in [Staff -> 0..MaxCodes],
         codesAsked' \in 0..MaxCodes, codeSheet' \subseteq SheetCard, overlapped' \subseteq Staff,
         UNCHANGED <<hasCode, codeCardVars, codeLeft>>
  PROVE  CodeTypes'
  BY DEF CodeTypes, StaffTypeOK, RunStates, codeCardVars, codeLeft

LEMMA RunTurnsTyped ==
  ASSUME CodesInv, CodeTypes, OpenPrintAll \/ ClosePrintAll \/ ConfirmPrintAll \/ PrintAllEnds
  PROVE  CodeTypes'
<1>1. printAll \in RunStates /\ codes \in [Staff -> 0..MaxCodes]
  BY DEF CodeTypes, StaffTypeOK, RunStates
<1>2. printAll' \in RunStates /\ (printAll'.busy => printAll'.failed < printAll'.at)
  <2>1. CASE OpenPrintAll
    <3>1. printAll' = [NoPrintAll EXCEPT !.open = TRUE]
      BY <2>1 DEF OpenPrintAll
    <3>2. printAll' \in RunStates
      BY <3>1, NoRunTyped DEF RunStates
    <3>3. ~printAll'.busy
      BY <3>1 DEF NoPrintAll
    <3> QED
      BY <3>2, <3>3
  <2>2. CASE ClosePrintAll
    BY <2>2, NoRunTyped DEF ClosePrintAll
  <2>3. CASE ConfirmPrintAll
    <3>1. printAll' = [NoPrintAll EXCEPT !.open = TRUE, !.busy = TRUE, !.known = codes]
      BY <2>3 DEF ConfirmPrintAll
    <3>2. printAll' \in RunStates
      BY <1>1, <3>1, NoRunTyped DEF RunStates
    <3>3. printAll'.failed = 0 /\ printAll'.at = 1
      BY <3>1 DEF NoPrintAll
    <3> QED
      BY <3>2, <3>3
  <2>4. CASE PrintAllEnds
    <3>1. printAll' = NoPrintAll \/ printAll' = [NoPrintAll EXCEPT !.open = TRUE, !.failed = printAll.failed]
      BY <2>4 DEF PrintAllEnds
    <3>2. printAll.failed \in 0..StaffSize
      BY <1>1 DEF RunStates
    <3>3. printAll' \in RunStates
      BY <3>1, <3>2, NoRunTyped DEF RunStates
    <3>4. CASE printAll' = NoPrintAll
      BY <3>3, <3>4 DEF NoPrintAll
    <3>5. CASE printAll' = [NoPrintAll EXCEPT !.open = TRUE, !.failed = printAll.failed]
      BY <3>3, <3>5 DEF NoPrintAll
    <3> QED
      BY <3>1, <3>4, <3>5
  <2> QED
    BY <2>1, <2>2, <2>3, <2>4
<1>3. liveCode' \in [Staff -> 0..MaxCodes] /\ codes' \in [Staff -> 0..MaxCodes] /\ codesAsked' \in 0..MaxCodes
  BY DEF OpenPrintAll, ClosePrintAll, ConfirmPrintAll, PrintAllEnds, codeBackend, CodeTypes, StaffTypeOK
<1>4. codeSheet' \subseteq SheetCard
  <2>1. printAll.cards \subseteq SheetCard
    BY <1>1 DEF RunStates
  <2>2. codeSheet' \in {codeSheet, printAll.cards}
    BY DEF OpenPrintAll, ClosePrintAll, ConfirmPrintAll, PrintAllEnds
  <2> QED
    BY <2>1, <2>2 DEF CodeTypes, StaffTypeOK
<1>5. overlapped' \subseteq Staff
  BY DEF OpenPrintAll, ClosePrintAll, ConfirmPrintAll, PrintAllEnds, CodeTypes, StaffTypeOK
<1>6. UNCHANGED <<hasCode, codeCardVars, codeLeft>>
  BY DEF OpenPrintAll, ClosePrintAll, ConfirmPrintAll, PrintAllEnds
<1> QED
  BY <1>2, <1>3, <1>4, <1>5, <1>6, RunFramed

LEMMA RunStepsTyped ==
  ASSUME CodesInv, CodeTypes, ReuseCode \/ AskCode \/ PrintAllCommits \/ PrintAllAnswers
  PROVE  CodeTypes'
<1>1. /\ printAll \in RunStates /\ printAll.at \in Staff /\ printAll.busy
      /\ printAll.failed \in 0..StaffSize /\ printAll.failed < printAll.at
      /\ liveCode \in [Staff -> 0..MaxCodes] /\ codes \in [Staff -> 0..MaxCodes]
      /\ codesAsked \in 0..MaxCodes /\ codeSheet \subseteq SheetCard /\ overlapped \subseteq Staff
  <2>1. printAll \in RunStates /\ printAll.failed \in 0..StaffSize
    BY DEF CodeTypes, StaffTypeOK, RunStates
  <2>2. printAll.at \in Staff /\ printAll.busy
    BY DEF ReuseCode, AskCode, PrintAllCommits, PrintAllAnswers, Turn, CodesInv, CodeDialogs
  <2> QED
    BY <2>1, <2>2 DEF CodeTypes, StaffTypeOK
<1>2. UNCHANGED <<hasCode, codeCardVars, codeSheet, codeLeft, overlapped>>
  BY DEF ReuseCode, AskCode, PrintAllCommits, PrintAllAnswers
<1>3. PICK m \in Staff : m = printAll.at
  BY <1>1
<1>4. /\ m + 1 \in 1..StaffSize + 1 /\ printAll.failed < m + 1
      /\ printAll.failed + 1 \in 0..StaffSize /\ printAll.failed + 1 < m + 1
  BY <1>1, <1>3, CodeNumbers
<1>5. CASE ReuseCode
  <2>1. printAll.known[m] \in 0..MaxCodes /\ printAll.known[m] # 0
    BY <1>1, <1>3, <1>5 DEF ReuseCode, RunStates
  <2>2. PICK new : new = [member |-> m, code |-> printAll.known[m]]
    OBVIOUS
  <2>3. new \in SheetCard
    BY <2>1, <2>2, CodeNumbers DEF SheetCard
  <2>4. printAll' = [printAll EXCEPT !.at = m + 1, !.cards = printAll.cards \cup {new}]
    BY <1>3, <1>5, <2>2 DEF ReuseCode
  <2>5. printAll' \in RunStates /\ printAll'.at = m + 1 /\ printAll'.failed = printAll.failed
    BY <1>1, <1>4, <2>3, <2>4 DEF RunStates
  <2>6. UNCHANGED <<liveCode, codesAsked, codes>>
    BY <1>5 DEF ReuseCode, codeBackend
  <2> QED
    BY <1>1, <1>2, <1>4, <2>5, <2>6, RunFramed
<1>6. CASE AskCode
  <2>1. codesAsked + 1 \in 0..MaxCodes /\ codesAsked' = codesAsked + 1
    BY <1>1, <1>6, CodeNumbers DEF AskCode
  <2>2. printAll' = [printAll EXCEPT !.asked = codesAsked + 1]
    BY <1>6 DEF AskCode
  <2>3. printAll' \in RunStates /\ printAll'.at = printAll.at /\ printAll'.failed = printAll.failed
    BY <1>1, <2>1, <2>2 DEF RunStates
  <2>4. UNCHANGED <<liveCode, codes>>
    BY <1>6 DEF AskCode
  <2> QED
    BY <1>1, <1>2, <2>1, <2>3, <2>4, RunFramed
<1>7. CASE PrintAllCommits
  <2>1. printAll.asked \in 0..MaxCodes
    BY <1>1 DEF RunStates
  <2>2. liveCode' \in [Staff -> 0..MaxCodes]
    BY <1>1, <1>7, <2>1 DEF PrintAllCommits
  <2>3. printAll' = [printAll EXCEPT !.done = TRUE]
    BY <1>7 DEF PrintAllCommits
  <2>4. printAll' \in RunStates /\ printAll'.at = printAll.at /\ printAll'.failed = printAll.failed
    BY <1>1, <2>3 DEF RunStates
  <2>5. UNCHANGED <<codesAsked, codes>>
    BY <1>7 DEF PrintAllCommits
  <2> QED
    BY <1>1, <1>2, <2>2, <2>4, <2>5, RunFramed
<1>8. CASE PrintAllAnswers
  <2>1. printAll.asked \in 0..MaxCodes /\ printAll.asked # 0
    BY <1>1, <1>8 DEF PrintAllAnswers, RunStates
  <2>2. codes' \in [Staff -> 0..MaxCodes]
    BY <1>1, <1>8, <2>1 DEF PrintAllAnswers
  <2>3. printAll' \in RunStates /\ printAll'.failed < printAll'.at
    <3>1. CASE printAll' = [printAll EXCEPT !.at = m + 1, !.asked = 0, !.done = FALSE,
                              !.cards = @ \cup {[member |-> m, code |-> printAll.asked]}]
      <4>1. PICK new : new = [member |-> m, code |-> printAll.asked]
        OBVIOUS
      <4>2. new \in SheetCard
        BY <2>1, <4>1, CodeNumbers DEF SheetCard
      <4>3. printAll' = [printAll EXCEPT !.at = m + 1, !.asked = 0, !.done = FALSE,
                                         !.cards = printAll.cards \cup {new}]
        BY <3>1, <4>1
      <4>4. printAll' \in RunStates /\ printAll'.at = m + 1 /\ printAll'.failed = printAll.failed
        BY <1>1, <1>4, <4>2, <4>3, CodeNumbers DEF RunStates
      <4> QED
        BY <1>4, <4>4
    <3>2. CASE printAll' = [printAll EXCEPT !.at = m + 1, !.asked = 0, !.done = FALSE, !.failed = @ + 1]
      <4>1. PICK lost \in 0..StaffSize : lost = printAll.failed + 1
        BY <1>4
      <4>2. printAll' = [printAll EXCEPT !.at = m + 1, !.asked = 0, !.done = FALSE, !.failed = lost]
        BY <3>2, <4>1
      <4>3. printAll' \in RunStates /\ printAll'.at = m + 1 /\ printAll'.failed = lost
        BY <1>1, <1>4, <4>2, CodeNumbers DEF RunStates
      <4> QED
        BY <1>4, <4>1, <4>3
    <3> QED
      BY <1>3, <1>8, <3>1, <3>2 DEF PrintAllAnswers
  <2>4. UNCHANGED <<liveCode, codesAsked>>
    BY <1>8 DEF PrintAllAnswers, codeBackend
  <2> QED
    BY <1>1, <1>2, <2>2, <2>3, <2>4, RunFramed
<1> QED
  BY <1>5, <1>6, <1>7, <1>8

LEMMA ScreensTyped ==
  ASSUME CodeTypes,
         \/ HideFullScreen \/ SheetPrinted \/ StaffRefetched \/ UNCHANGED codeVars
         \/ \E m \in Staff : ShowFullScreen(m)
  PROVE  CodeTypes'
<1>1. UNCHANGED <<codeBackend, codes, codeCalls, confirming, cardSession, printAll, leftRuns, codeTurns,
                  overlapped>>
  BY DEF HideFullScreen, SheetPrinted, StaffRefetched, ShowFullScreen, codeVars, codeCardVars, codeLeft
<1>2. hasCode' \in [Staff -> BOOLEAN]
  BY DEF HideFullScreen, SheetPrinted, StaffRefetched, ShowFullScreen, codeVars, CodeTypes, StaffTypeOK
<1>3. fullScreen' \in 0..StaffSize
  BY CodeNumbers DEF HideFullScreen, SheetPrinted, StaffRefetched, ShowFullScreen, codeVars, codeCardVars,
                     CodeTypes, StaffTypeOK
<1>4. codeSheet' \subseteq SheetCard
  BY DEF HideFullScreen, SheetPrinted, StaffRefetched, ShowFullScreen, codeVars, CodeTypes, StaffTypeOK
<1> QED
  BY <1>1, <1>2, <1>3, <1>4 DEF codeBackend, CodeTypes, StaffTypeOK

(* The page or its cards go away, and what they left behind goes on.       *)
LEMMA LeavesTyped ==
  ASSUME CodesOK, CodeTypes, LeaveStaffPage \/ StaffListFails
  PROVE  CodeTypes'
<1>1. codeCalls \subseteq CodeCall /\ Unfinished \subseteq codeCalls
  BY DEF CodeTypes, StaffTypeOK, Unfinished
<1>2. CardsGone
  BY DEF LeaveStaffPage, StaffListFails
<1>3. \A c \in codeCalls' : c \in CodeCall
  <2>1. \A c \in Unfinished : [c EXCEPT !.heard = FALSE] \in CodeCall
    BY <1>1 DEF CodeCall
  <2> QED
    BY <1>2, <2>1 DEF CardsGone
<1>4. {c.member : c \in Unfinished} \subseteq Staff
  BY <1>1 DEF CodeCall
<1>5. /\ confirming' = 0 /\ fullScreen' = 0 /\ cardSession' \in [Staff -> Nat]
      /\ codeTurns' \in 0..MaxCodeTurns
  BY <1>2, StaffAssumption DEF CardsGone, CodeTypes, StaffTypeOK
<1>6. CASE LeaveStaffPage
  <2>1. Ahead \subseteq Staff
    BY DEF Ahead
  <2>2. PICK q : q = [visit |-> codeTurns, ahead |-> Ahead, asked |-> IF printAll.done THEN 0 ELSE printAll.asked]
    OBVIOUS
  <2>3. q \in LeftRun
    BY <2>1, <2>2, CodeNumbers DEF LeftRun, CodesOK, CodeTypes, StaffTypeOK
  <2>4. leftRuns' \subseteq leftRuns \cup {q}
    BY <1>6, <2>2 DEF LeaveStaffPage
  <2>5. printAll' = NoPrintAll /\ printAll' \in RunStates /\ printAll'.failed < printAll'.at
    BY <1>6, NoRunTyped DEF LeaveStaffPage
  <2>6. codes' \in [Staff -> 0..MaxCodes] /\ codeSheet' = {} /\ overlapped' \subseteq Staff
    BY <1>4, <1>6, <2>1, CodeNumbers DEF LeaveStaffPage, CodeTypes, StaffTypeOK
  <2>7. UNCHANGED <<liveCode, codesAsked, hasCode>>
    BY <1>6 DEF LeaveStaffPage, codeBackend
  <2> QED
    BY <1>3, <1>5, <2>3, <2>4, <2>5, <2>6, <2>7, CodeNumbers DEF CodeTypes, StaffTypeOK, RunStates
<1>7. CASE StaffListFails
  <2>1. UNCHANGED <<liveCode, codesAsked, hasCode, codes, printAll, codeSheet, leftRuns>>
    BY <1>7 DEF StaffListFails, codeBackend
  <2>2. overlapped' \subseteq Staff
    BY <1>4, <1>7 DEF StaffListFails, CodeTypes, StaffTypeOK
  <2> QED
    BY <1>3, <1>5, <2>1, <2>2, CodeNumbers DEF CodeTypes, StaffTypeOK
<1> QED
  BY <1>6, <1>7

LEMMA LeftRunTyped ==
  ASSUME CodeTypes, NEW run \in leftRuns, LeftRunAsks(run) \/ LeftRunGoesOn(run)
  PROVE  CodeTypes'
<1>1. run \in LeftRun /\ leftRuns \subseteq LeftRun /\ liveCode \in [Staff -> 0..MaxCodes] /\ codesAsked \in 0..MaxCodes
  BY DEF CodeTypes, StaffTypeOK
<1>2. UNCHANGED <<hasCode, codes, codeCardVars, printAll, codeSheet, codeTurns, overlapped>>
  BY DEF LeftRunAsks, LeftRunGoesOn
<1>3. leftRuns' \subseteq LeftRun /\ liveCode' \in [Staff -> 0..MaxCodes] /\ codesAsked' \in 0..MaxCodes
  <2>1. CASE LeftRunAsks(run)
    <3>1. PICK q : q = [run EXCEPT !.asked = codesAsked + 1]
      OBVIOUS
    <3>2. codesAsked + 1 \in 0..MaxCodes
      BY <1>1, <2>1, CodeNumbers DEF LeftRunAsks
    <3>3. q \in LeftRun
      BY <1>1, <3>1, <3>2 DEF LeftRun
    <3> QED
      BY <1>1, <2>1, <3>1, <3>2, <3>3 DEF LeftRunAsks
  <2>2. CASE LeftRunGoesOn(run)
    <3>1. PICK m \in run.ahead :
            /\ leftRuns' = (leftRuns \ {run})
                           \cup {r \in {[run EXCEPT !.ahead = @ \ {m}, !.asked = 0]} : r.ahead # {}}
            /\ liveCode' = [liveCode EXCEPT ![m] = run.asked] \/ UNCHANGED liveCode
      BY <2>2 DEF LeftRunGoesOn
    <3>2. PICK q : q = [run EXCEPT !.ahead = @ \ {m}, !.asked = 0]
      OBVIOUS
    <3>3. q \in LeftRun /\ run.asked \in 0..MaxCodes /\ m \in Staff
      BY <1>1, <3>2, CodeNumbers DEF LeftRun
    <3>4. leftRuns' \subseteq leftRuns \cup {q}
      BY <3>1, <3>2
    <3> QED
      BY <1>1, <2>2, <3>1, <3>3, <3>4 DEF LeftRunGoesOn
  <2> QED
    BY <2>1, <2>2
<1> QED
  BY <1>2, <1>3 DEF CodeTypes, StaffTypeOK, codeCardVars

(* Every variable of the code cards and of Print all keeps to its type: no *)
(* run counts more failures than the members it has passed.                *)
THEOREM StaffTypeCorrect == StaffSpec => []StaffTypeOK
<1>1. StaffInit => CodeTypes
  <2> SUFFICES ASSUME StaffInit PROVE CodeTypes
    OBVIOUS
  <2>1. printAll \in RunStates /\ printAll.failed < printAll.at
    BY NoRunTyped DEF StaffInit
  <2> QED
    BY <2>1, CodeNumbers, StaffAssumption DEF StaffInit, CodeTypes, StaffTypeOK, RunStates
<1>2. CodesOK /\ CodeTypes /\ [StaffNext]_codeVars => CodeTypes'
  <2> SUFFICES ASSUME CodesOK, CodesInv, CodeTypes, [StaffNext]_codeVars PROVE CodeTypes'
    BY DEF CodesOK
  <2>1. CASE \E m \in Staff : PressGenerate(m) \/ PressPrintCard(m)
    BY <2>1, CardsTyped
  <2>2. CASE ConfirmRegenerate \/ DismissRegenerate
    BY <2>2, DialogsTyped
  <2>3. CASE \E c \in codeCalls : CodeCommits(c) \/ CodeAnswers(c) \/ CodeFails(c)
    BY <2>3, CallsTyped
  <2>4. CASE OpenPrintAll \/ ClosePrintAll \/ ConfirmPrintAll \/ PrintAllEnds
    BY <2>4, RunTurnsTyped
  <2>5. CASE ReuseCode \/ AskCode \/ PrintAllCommits \/ PrintAllAnswers
    BY <2>5, RunStepsTyped
  <2>6. CASE \/ HideFullScreen \/ SheetPrinted \/ StaffRefetched \/ UNCHANGED codeVars
             \/ \E m \in Staff : ShowFullScreen(m)
    BY <2>6, ScreensTyped
  <2>7. CASE LeaveStaffPage \/ StaffListFails
    BY <2>7, LeavesTyped
  <2>8. CASE \E run \in leftRuns : LeftRunAsks(run) \/ LeftRunGoesOn(run)
    BY <2>8, LeftRunTyped
  <2> QED
    BY <2>1, <2>2, <2>3, <2>4, <2>5, <2>6, <2>7, <2>8 DEF StaffNext
<1>3. CodeTypes => StaffTypeOK
  BY DEF CodeTypes
<1> QED
  BY <1>1, <1>2, <1>3, CodesInvariance, PTL DEF StaffSpec

------------------------------------------------------------------------------
(* The staff page's accounts and zones (StaffRoster).                      *)

AddCall(c) == c.op \in {"assign", "create", "assignAfter"}
AddForms == [open : BOOLEAN, mode : {"existing", "create"}, selected : TeamMember,
             email : TeamMember, existingError : BOOLEAN, flowError : {"none", "create", "assign"}]
ZonesForms == [who : TeamMember, pending : SUBSET TeamZones, errors : SUBSET TeamZones]

(* The dialog has one request at a time on this page, and is open while it *)
(* has; a page that was left never gets its requests back.                 *)
RosterCalls ==
  /\ teamPage >= 1
  /\ \A c \in teamCalls : c.page <= teamPage /\ c.id <= teamSent /\ (c.op = "zone" => c.zone \in TeamZones)
  /\ \A c, d \in teamCalls : c.id = d.id => c = d
  /\ \A c, d \in teamCalls : AddCall(c) /\ OnThisPage(c) /\ AddCall(d) /\ OnThisPage(d) => c = d
  /\ \A c \in teamCalls : AddCall(c) /\ OnThisPage(c) => addForm.open

(* The request that still answers for an account is the creation that was  *)
(* made, or the assignment that has not reached the backend.               *)
Claims(c, p) ==
  /\ OnThisPage(c) /\ c.who = p
  /\ (c.op = "create" /\ c.step = "done") \/ (c.op = "assignAfter" /\ c.step = "sent")
RosterClaims == \A p \in unclaimed : \E c \in teamCalls : Claims(c, p)

RosterInv == RosterTypeOK /\ RosterCalls /\ RosterClaims

LEMMA RosterStarts == RosterInit => RosterInv
<1> SUFFICES ASSUME RosterInit PROVE RosterInv
  OBVIOUS
<1>1. NoAddForm \in AddForms /\ NoZonesForm \in ZonesForms
  BY DEF NoAddForm, NoZonesForm, AddForms, ZonesForms, TeamMember
<1>2. teamPage \in Nat /\ teamPage >= 1 /\ teamSent \in 0..MaxTeamCalls /\ teamTurns \in 0..MaxTeamTurns
  BY TeamAssumption DEF RosterInit
<1>3. /\ accounts \subseteq TeamPeople /\ eventStaff \subseteq TeamPeople
      /\ accountsSeen \subseteq TeamPeople /\ eventStaffSeen \subseteq TeamPeople
      /\ zoneStaff = {} /\ zoneStaffSeen = {} /\ addForm = NoAddForm /\ revokeForm \in TeamMember
      /\ zonesForm = NoZonesForm /\ teamCalls = {} /\ unclaimed = {}
  BY DEF RosterInit, TeamMember
<1> QED
  BY <1>1, <1>2, <1>3
     DEF RosterInv, RosterTypeOK, RosterCalls, RosterClaims, AddForms, ZonesForms

(* What the steps that leave the requests alone do to the forms.           *)
LEMMA FormsKeep ==
  ASSUME RosterInv,
         \/ OpenAdd \/ CloseAdd \/ SwitchTab \/ CloseZones
         \/ \E p \in TeamPeople : SelectCandidate(p) \/ TypeEmail(p) \/ OpenRevoke(p) \/ OpenZones(p)
         \/ UNCHANGED teamVars
  PROVE  RosterInv'
<1>1. /\ addForm \in AddForms /\ zonesForm \in ZonesForms
      /\ NoAddForm \in AddForms /\ NoZonesForm \in ZonesForms
  BY DEF RosterInv, RosterTypeOK, NoAddForm, NoZonesForm, AddForms, ZonesForms, TeamMember
<1>2. /\ UNCHANGED <<teamStores, teamSeen, teamCalls, unclaimed, teamCounts>>
      /\ revokeForm' \in TeamMember
  BY DEF OpenAdd, CloseAdd, SwitchTab, CloseZones, SelectCandidate, TypeEmail, OpenRevoke, OpenZones,
         teamVars, teamForms, RosterInv, RosterTypeOK, TeamMember
<1>3. addForm' \in AddForms /\ (addForm.open => addForm'.open \/ ~AddPending)
  <2>1. CASE OpenAdd
    BY <1>1, <2>1 DEF OpenAdd, AddForms, NoAddForm
  <2>2. CASE CloseAdd
    BY <1>1, <2>2 DEF CloseAdd
  <2>3. CASE SwitchTab
    BY <1>1, <2>3 DEF SwitchTab, AddForms
  <2>4. ASSUME NEW p \in TeamPeople, SelectCandidate(p) \/ TypeEmail(p)
        PROVE  addForm' \in AddForms /\ addForm'.open = addForm.open
    BY <1>1, <2>4 DEF SelectCandidate, TypeEmail, AddForms, TeamMember
  <2>5. CASE UNCHANGED addForm
    BY <1>1, <2>5
  <2> QED
    BY <2>1, <2>2, <2>3, <2>4, <2>5 DEF CloseZones, OpenRevoke, OpenZones, teamVars, teamForms
<1>4. zonesForm' \in ZonesForms
  <2>1. ASSUME NEW p \in TeamPeople, OpenZones(p) PROVE zonesForm' \in ZonesForms
    BY <1>1, <2>1 DEF OpenZones, ZonesForms, TeamMember
  <2>2. CASE CloseZones
    BY <1>1, <2>2 DEF CloseZones
  <2>3. CASE UNCHANGED zonesForm
    BY <1>1, <2>3
  <2> QED
    BY <2>1, <2>2, <2>3 DEF OpenAdd, CloseAdd, SwitchTab, SelectCandidate, TypeEmail, OpenRevoke, teamVars,
                            teamForms
<1>5. RosterTypeOK'
  BY <1>2, <1>3, <1>4 DEF RosterInv, RosterTypeOK, AddForms, ZonesForms, teamStores, teamSeen, teamCounts
<1>6. RosterCalls'
  BY <1>2, <1>3 DEF RosterInv, RosterCalls, AddPending, AddCall, OnThisPage, teamCounts
<1>7. RosterClaims'
  BY <1>2 DEF RosterInv, RosterClaims, Claims, OnThisPage, teamCounts
<1> QED
  BY <1>5, <1>6, <1>7 DEF RosterInv

LEMMA TeamSendKeeps ==
  ASSUME RosterInv, NEW op \in {"assign", "create", "revoke", "zone"}, NEW who \in TeamPeople,
         NEW zone \in TeamZones \cup {NoTeamZone}, NEW on \in BOOLEAN, TeamSends(op, who, zone, on),
         op = "zone" => zone \in TeamZones,
         op \in {"assign", "create"} => addForm.open /\ ~AddPending,
         UNCHANGED <<unclaimed, teamPage>>, addForm'.open = addForm.open
  PROVE  /\ teamCalls' \subseteq TeamCall /\ teamSent' \in 0..MaxTeamCalls
         /\ RosterCalls' /\ RosterClaims'
<1> DEFINE new == TeamCallOf(op, who, zone, on)
<1>1. /\ teamCalls \subseteq TeamCall /\ teamPage \in Nat /\ teamSent \in 0..MaxTeamCalls
      /\ RosterCalls /\ RosterClaims
  BY DEF RosterInv, RosterTypeOK
<1>2. teamSent' = teamSent + 1 /\ teamSent' \in 0..MaxTeamCalls
  BY <1>1, TeamAssumption DEF TeamSends
<1>3. new \in TeamCall
  BY <1>1, <1>2 DEF TeamSends, TeamCallOf, TeamCall
<1>4. new.id = teamSent + 1 /\ new.op = op /\ new.page = teamPage /\ new.zone = zone
  BY DEF TeamCallOf
<1>5. teamCalls' = teamCalls \cup {new}
  BY DEF TeamSends
<1>6. \A c \in teamCalls : c.id \in Nat
  BY <1>1 DEF TeamCall
<1> HIDE DEF new
<1>7. RosterCalls'
  BY <1>1, <1>2, <1>3, <1>4, <1>5, <1>6 DEF RosterCalls, AddCall, OnThisPage, AddPending
<1>8. RosterClaims'
  BY <1>1, <1>5 DEF RosterClaims, Claims, OnThisPage
<1> QED
  BY <1>1, <1>2, <1>3, <1>5, <1>7, <1>8

LEMMA RosterSendsKeep ==
  ASSUME RosterInv,
         SubmitExisting \/ SubmitCreate \/ ConfirmRevoke \/ \E z \in TeamZones : ToggleZone(z)
  PROVE  RosterInv'
<1>1. addForm \in AddForms /\ zonesForm \in ZonesForms /\ revokeForm \in TeamMember
  BY DEF RosterInv, RosterTypeOK, AddForms, ZonesForms
<1>2. CASE SubmitExisting
  <2>1. addForm.selected \in TeamPeople
    BY <1>1, <1>2 DEF SubmitExisting, AddForms, TeamMember
  <2>2. addForm' \in AddForms /\ addForm'.open = addForm.open
    BY <1>1, <1>2 DEF SubmitExisting, AddForms
  <2>3. /\ teamCalls' \subseteq TeamCall /\ teamSent' \in 0..MaxTeamCalls /\ RosterCalls' /\ RosterClaims'
    BY <1>2, <2>1, <2>2, TeamSendKeeps DEF SubmitExisting
  <2> QED
    BY <1>2, <2>2, <2>3 DEF SubmitExisting, RosterInv, RosterTypeOK, AddForms, ZonesForms, teamStores, teamSeen
<1>3. CASE SubmitCreate
  <2>1. addForm.email \in TeamPeople
    BY <1>1, <1>3 DEF SubmitCreate, AddForms, TeamMember
  <2>2. addForm' \in AddForms /\ addForm'.open = addForm.open
    BY <1>1, <1>3 DEF SubmitCreate, AddForms
  <2>3. /\ teamCalls' \subseteq TeamCall /\ teamSent' \in 0..MaxTeamCalls /\ RosterCalls' /\ RosterClaims'
    BY <1>3, <2>1, <2>2, TeamSendKeeps DEF SubmitCreate
  <2> QED
    BY <1>3, <2>2, <2>3 DEF SubmitCreate, RosterInv, RosterTypeOK, AddForms, ZonesForms, teamStores, teamSeen
<1>4. CASE ConfirmRevoke
  <2>1. revokeForm \in TeamPeople
    BY <1>1, <1>4 DEF ConfirmRevoke, TeamMember
  <2>2. UNCHANGED <<teamStores, teamSeen, teamForms, unclaimed, teamPage, teamTurns>>
    BY <1>4 DEF ConfirmRevoke
  <2>3. /\ teamCalls' \subseteq TeamCall /\ teamSent' \in 0..MaxTeamCalls /\ RosterCalls' /\ RosterClaims'
    BY <1>4, <2>1, <2>2, TeamSendKeeps DEF ConfirmRevoke, teamForms
  <2> QED
    BY <2>2, <2>3 DEF RosterInv, RosterTypeOK, teamStores, teamSeen, teamForms
<1>5. ASSUME NEW z \in TeamZones, ToggleZone(z) PROVE RosterInv'
  <2>1. zonesForm.who \in TeamPeople
    BY <1>1, <1>5 DEF ToggleZone, ZonesForms, TeamMember
  <2>2. zonesForm' \in ZonesForms
    BY <1>1, <1>5 DEF ToggleZone, ZonesForms
  <2>3. UNCHANGED <<teamStores, teamSeen, addForm, revokeForm, unclaimed, teamPage, teamTurns>>
    BY <1>5 DEF ToggleZone
  <2>4. (<<zonesForm.who, z>> \notin zoneStaffSeen) \in BOOLEAN
    OBVIOUS
  <2>5. /\ teamCalls' \subseteq TeamCall /\ teamSent' \in 0..MaxTeamCalls /\ RosterCalls' /\ RosterClaims'
    BY <1>5, <2>1, <2>3, <2>4, TeamSendKeeps DEF ToggleZone
  <2> QED
    BY <2>2, <2>3, <2>5 DEF RosterInv, RosterTypeOK, AddForms, ZonesForms, teamStores, teamSeen
<1> QED
  BY <1>2, <1>3, <1>4, <1>5

(* Requests that lose their hearer keep their numbers.                     *)
LEMMA RelabelKeeps ==
  ASSUME RosterInv, NEW m \in [teamCalls -> TeamCall], teamCalls' = {m[c] : c \in teamCalls},
         \A c \in teamCalls : /\ m[c].id = c.id /\ m[c].op = c.op /\ m[c].zone = c.zone
                              /\ m[c].page \in {c.page, 0} /\ (AddCall(c) => m[c] = c),
         UNCHANGED <<addForm, unclaimed, teamPage, teamSent>>
  PROVE  teamCalls' \subseteq TeamCall /\ RosterCalls' /\ RosterClaims'
<1>1. RosterCalls /\ RosterClaims /\ teamCalls \subseteq TeamCall
  BY DEF RosterInv, RosterTypeOK
<1>2. RosterCalls'
  <2>0. teamPage \in Nat /\ teamPage >= 1
    BY <1>1 DEF RosterCalls, RosterInv, RosterTypeOK
  <2>1. /\ teamPage' >= 1
        /\ \A c \in teamCalls' : c.page <= teamPage' /\ c.id <= teamSent' /\ (c.op = "zone" => c.zone \in TeamZones)
    <3>1. ASSUME NEW c \in teamCalls
          PROVE  m[c].page <= teamPage /\ m[c].id <= teamSent /\ (m[c].op = "zone" => m[c].zone \in TeamZones)
      <4>1. c.page <= teamPage /\ c.id <= teamSent /\ (c.op = "zone" => c.zone \in TeamZones)
        BY <1>1 DEF RosterCalls
      <4>2. 0 <= teamPage
        BY <2>0
      <4> QED
        BY <4>1, <4>2
    <3> QED
      BY <2>0, <3>1
  <2>2. \A c, d \in teamCalls' : c.id = d.id => c = d
    BY <1>1 DEF RosterCalls
  <2>3. \A d \in teamCalls' : AddCall(d) => d \in teamCalls
    BY DEF AddCall
  <2> QED
    BY <1>1, <2>1, <2>2, <2>3 DEF RosterCalls, OnThisPage
<1>3. \A c \in teamCalls : AddCall(c) => c \in teamCalls'
  OBVIOUS
<1>4. RosterClaims'
  BY <1>1, <1>3 DEF RosterClaims, Claims, OnThisPage, AddCall
<1> QED
  BY <1>2, <1>4

(* A request that loses its hearer or its page is still a request.         *)
LEMMA RelabelledCalls ==
  ASSUME NEW c \in TeamCall
  PROVE  [c EXCEPT !.heard = FALSE] \in TeamCall /\ [c EXCEPT !.page = 0] \in TeamCall
BY DEF TeamCall

LEMMA DismissRevokeKeeps == RosterInv /\ DismissRevoke => RosterInv'
<1> SUFFICES ASSUME RosterInv, DismissRevoke PROVE RosterInv'
  OBVIOUS
<1> DEFINE m == [c \in teamCalls |-> IF c.op = "revoke" /\ c.who = revokeForm
                                     THEN [c EXCEPT !.heard = FALSE] ELSE c]
<1>0. teamCalls \subseteq TeamCall
  BY DEF RosterInv, RosterTypeOK
<1>1. \A c \in teamCalls : [c EXCEPT !.heard = FALSE] \in TeamCall /\ c \in TeamCall
  BY <1>0, RelabelledCalls
<1>2. m \in [teamCalls -> TeamCall] /\ teamCalls' = {m[c] : c \in teamCalls}
  BY <1>1 DEF DismissRevoke
<1>3. \A c \in teamCalls : /\ m[c].id = c.id /\ m[c].op = c.op /\ m[c].zone = c.zone
                           /\ m[c].page \in {c.page, 0} /\ (AddCall(c) => m[c] = c)
  BY <1>1 DEF AddCall, TeamCall
<1>4. /\ UNCHANGED <<teamStores, teamSeen, addForm, zonesForm, unclaimed, teamCounts>>
      /\ revokeForm' \in TeamMember
  BY DEF DismissRevoke, TeamMember
<1> HIDE DEF m
<1>5. teamCalls' \subseteq TeamCall /\ RosterCalls' /\ RosterClaims'
  BY <1>2, <1>3, <1>4, RelabelKeeps DEF teamCounts
<1> QED
  BY <1>4, <1>5 DEF RosterInv, RosterTypeOK, teamStores, teamSeen, teamCounts

LEMMA TeamRefetchedKeeps == RosterInv /\ TeamRefetched => RosterInv'
<1> SUFFICES ASSUME RosterInv, TeamRefetched PROVE RosterInv'
  OBVIOUS
<1> DEFINE m == [c \in teamCalls |-> IF c.op \in {"revoke", "zone"} /\ c.who \notin eventStaff
                                     THEN [c EXCEPT !.page = 0] ELSE c]
<1>0. teamCalls \subseteq TeamCall
  BY DEF RosterInv, RosterTypeOK
<1>1. \A c \in teamCalls : [c EXCEPT !.page = 0] \in TeamCall /\ c \in TeamCall
  BY <1>0, RelabelledCalls
<1>2. m \in [teamCalls -> TeamCall] /\ teamCalls' = {m[c] : c \in teamCalls}
  BY <1>1 DEF TeamRefetched
<1>3. \A c \in teamCalls : /\ m[c].id = c.id /\ m[c].op = c.op /\ m[c].zone = c.zone
                           /\ m[c].page \in {c.page, 0} /\ (AddCall(c) => m[c] = c)
  BY <1>1 DEF AddCall, TeamCall
<1>4. /\ UNCHANGED <<teamStores, addForm, unclaimed, teamCounts>>
      /\ accountsSeen' = accounts /\ eventStaffSeen' = eventStaff /\ zoneStaffSeen' = zoneStaff
      /\ revokeForm' \in {revokeForm, Anyone} /\ zonesForm' \in {zonesForm, NoZonesForm}
  BY DEF TeamRefetched
<1> HIDE DEF m
<1>5. teamCalls' \subseteq TeamCall /\ RosterCalls' /\ RosterClaims'
  BY <1>2, <1>3, <1>4, RelabelKeeps DEF teamCounts
<1>6. NoZonesForm \in ZonesForms
  BY DEF NoZonesForm, ZonesForms, TeamMember
<1> QED
  BY <1>4, <1>5, <1>6 DEF RosterInv, RosterTypeOK, teamStores, teamCounts, TeamMember, ZonesForms

LEMMA LeaveTeamKeeps == RosterInv /\ LeaveTeam => RosterInv'
<1> SUFFICES ASSUME RosterInv, LeaveTeam PROVE RosterInv'
  OBVIOUS
<1>1. NoAddForm \in AddForms /\ NoZonesForm \in ZonesForms
  BY DEF NoAddForm, NoZonesForm, AddForms, ZonesForms, TeamMember
<1>2. /\ UNCHANGED <<teamStores, teamSeen, teamCalls, teamSent>>
      /\ teamPage' = teamPage + 1 /\ addForm' = NoAddForm /\ revokeForm' = Anyone
      /\ zonesForm' = NoZonesForm /\ unclaimed' = {}
  BY DEF LeaveTeam
<1>3. teamPage \in Nat /\ teamTurns' \in 0..MaxTeamTurns
  BY TeamAssumption DEF LeaveTeam, RosterInv, RosterTypeOK
<1>4. \A c \in teamCalls : c.page \in Nat /\ c.page < teamPage'
  BY <1>2, <1>3 DEF RosterInv, RosterTypeOK, RosterCalls, TeamCall
<1>5. RosterCalls'
  BY <1>2, <1>3, <1>4 DEF RosterInv, RosterCalls, OnThisPage
<1>6. RosterTypeOK'
  BY <1>1, <1>2, <1>3 DEF RosterInv, RosterTypeOK, teamStores, teamSeen, AddForms, ZonesForms, TeamMember
<1> QED
  BY <1>2, <1>5, <1>6 DEF RosterInv, RosterClaims

------------------------------------------------------------------------------
(* A request that moves on keeps its number, its page and its kind.        *)
LEMMA AdvanceKeeps ==
  ASSUME RosterInv, NEW c \in teamCalls, NEW k \in TeamCall, teamCalls' = (teamCalls \ {c}) \cup {k},
         k.id = c.id /\ k.page = c.page /\ (AddCall(k) <=> AddCall(c)) /\ (k.op = "zone" => k.zone \in TeamZones),
         UNCHANGED <<addForm, teamPage, teamSent>>
  PROVE  teamCalls' \subseteq TeamCall /\ RosterCalls'
<1>1. RosterCalls /\ teamCalls \subseteq TeamCall
  BY DEF RosterInv, RosterTypeOK
<1>2. /\ teamPage' >= 1
      /\ \A d \in teamCalls' : d.page <= teamPage' /\ d.id <= teamSent' /\ (d.op = "zone" => d.zone \in TeamZones)
  BY <1>1 DEF RosterCalls
<1>3. \A d, e \in teamCalls' : d.id = e.id => d = e
  BY <1>1 DEF RosterCalls
<1>4. \A d, e \in teamCalls' : AddCall(d) /\ OnThisPage(d)' /\ AddCall(e) /\ OnThisPage(e)' => d = e
  BY <1>1 DEF RosterCalls, OnThisPage
<1>5. \A d \in teamCalls' : AddCall(d) /\ OnThisPage(d)' => addForm'.open
  BY <1>1 DEF RosterCalls, OnThisPage
<1>6. RosterCalls'
  BY <1>2, <1>3, <1>4, <1>5 DEF RosterCalls, OnThisPage, AddCall
<1> QED
  BY <1>1, <1>6

(* Dropping a request disturbs at most the claim it was.                   *)
LEMMA DropKeeps ==
  ASSUME RosterInv, NEW c \in teamCalls, teamCalls' = teamCalls \ {c}, UNCHANGED <<teamPage, teamSent>>,
         addForm'.open = addForm.open \/ (AddCall(c) /\ OnThisPage(c)),
         \/ UNCHANGED unclaimed /\ ~Claims(c, c.who)
         \/ unclaimed' = unclaimed \ {c.who}
  PROVE  teamCalls' \subseteq TeamCall /\ RosterCalls' /\ RosterClaims'
<1>1. RosterCalls /\ RosterClaims /\ teamCalls \subseteq TeamCall
  BY DEF RosterInv, RosterTypeOK
<1>2. RosterCalls'
  BY <1>1 DEF RosterCalls, OnThisPage, AddCall
<1>3. \A p \in unclaimed' : \E d \in teamCalls : Claims(d, p) /\ d # c
  BY <1>1 DEF RosterClaims, Claims
<1>4. RosterClaims'
  BY <1>3 DEF RosterClaims, Claims, OnThisPage
<1> QED
  BY <1>1, <1>2, <1>4

LEMMA TeamCommitsKeeps ==
  ASSUME RosterInv, NEW c \in teamCalls, TeamCommits(c)
  PROVE  RosterInv'
<1> DEFINE refused == c.op = "create" /\ c.who \in accounts
           k == [c EXCEPT !.step = IF refused THEN "refused" ELSE "done"]
<1>1. RosterCalls /\ RosterClaims /\ c \in TeamCall /\ teamCalls \subseteq TeamCall
  BY DEF RosterInv, RosterTypeOK
<1>2. /\ k \in TeamCall /\ k.id = c.id /\ k.page = c.page /\ k.op = c.op /\ k.zone = c.zone /\ k.who = c.who
      /\ k.step = IF refused THEN "refused" ELSE "done"
  BY <1>1 DEF TeamCall
<1>3. /\ teamCalls' = (teamCalls \ {c}) \cup {k} /\ c.step = "sent"
      /\ UNCHANGED <<teamSeen, teamForms, teamCounts>>
  BY DEF TeamCommits
<1>4. unclaimed' = IF c.op = "create" /\ ~refused /\ OnThisPage(c) THEN unclaimed \cup {c.who}
                   ELSE IF c.op \in {"assign", "assignAfter"} THEN unclaimed \ {c.who}
                   ELSE unclaimed
  BY DEF TeamCommits
<1> HIDE DEF k
<1>5. teamCalls' \subseteq TeamCall /\ RosterCalls'
  BY <1>1, <1>2, <1>3, AdvanceKeeps DEF AddCall, RosterCalls, teamForms, teamCounts
<1>6. \A p \in unclaimed' : \E d \in teamCalls' : Claims(d, p)
  <2> SUFFICES ASSUME NEW p \in unclaimed' PROVE \E d \in teamCalls' : Claims(d, p)
    OBVIOUS
  <2>1. CASE p \in unclaimed
    <3>1. PICK d \in teamCalls : Claims(d, p)
      BY <1>1, <2>1 DEF RosterClaims
    <3>2. CASE d # c
      BY <1>3, <3>1, <3>2
    <3>3. CASE d = c
      BY <1>3, <1>4, <3>1, <3>3 DEF Claims
    <3> QED
      BY <3>2, <3>3
  <2>2. CASE p \notin unclaimed
    <3>1. c.op = "create" /\ ~refused /\ OnThisPage(c) /\ p = c.who
      BY <1>4, <2>2
    <3> QED
      BY <1>2, <1>3, <3>1 DEF Claims, OnThisPage
  <2> QED
    BY <2>1, <2>2
<1>7. RosterClaims'
  BY <1>3, <1>6 DEF RosterClaims, Claims, OnThisPage, teamCounts
<1>8. c.who \in TeamPeople /\ (c.op = "zone" => c.zone \in TeamZones)
  BY <1>1 DEF TeamCall, RosterCalls
<1>9. unclaimed' \subseteq TeamPeople
  BY <1>4, <1>8 DEF RosterInv, RosterTypeOK
<1>10. accounts' \subseteq TeamPeople /\ eventStaff' \subseteq TeamPeople
  BY <1>8 DEF TeamCommits, RosterInv, RosterTypeOK
<1>11. zoneStaff' \subseteq TeamPeople \X TeamZones
  BY <1>8 DEF TeamCommits, RosterInv, RosterTypeOK
<1> QED
  BY <1>3, <1>5, <1>7, <1>9, <1>10, <1>11 DEF RosterInv, RosterTypeOK, teamSeen, teamForms, teamCounts

(* An answer, or a failure, that the page hears about a revocation or a    *)
(* zone, and one nobody hears: the dialog of this page is not concerned.   *)
LEMMA OtherSettlesKeep ==
  ASSUME RosterInv, NEW c \in teamCalls, NEW k, k.id = c.id /\ k.zone = c.zone,
         teamTurns' \in 0..MaxTeamTurns,
         UNCHANGED <<teamStores, teamSeen, teamPage>>,
         \/ /\ ~OnThisPage(c) /\ teamCalls' = teamCalls \ {c}
            /\ UNCHANGED <<teamForms, unclaimed, teamSent>>
         \/ c.op = "revoke" /\ RevokeSettles(k) /\ UNCHANGED <<addForm, zonesForm, unclaimed>>
         \/ c.op = "zone" /\ ToggleSettles(k) /\ UNCHANGED <<addForm, revokeForm, unclaimed>>
  PROVE  RosterInv'
<1>1. /\ RosterCalls /\ c \in TeamCall /\ addForm \in AddForms /\ zonesForm \in ZonesForms
      /\ revokeForm \in TeamMember
  BY DEF RosterInv, RosterTypeOK, AddForms, ZonesForms
<1>2. UNCHANGED <<addForm, unclaimed, teamSent>>
  BY DEF RevokeSettles, ToggleSettles, teamForms
<1>3. teamCalls' = teamCalls \ {c}
  <2>1. {d \in teamCalls : d.id # c.id} = teamCalls \ {c}
    BY <1>1 DEF RosterCalls
  <2> QED
    BY <2>1 DEF RevokeSettles, ToggleSettles
<1>4. ~Claims(c, c.who)
  BY DEF Claims
<1>5. teamCalls' \subseteq TeamCall /\ RosterCalls' /\ RosterClaims'
  BY <1>2, <1>3, <1>4, DropKeeps
<1>6. revokeForm' \in TeamMember
  BY <1>1 DEF RevokeSettles, TeamMember, teamForms
<1>7. zonesForm' \in ZonesForms
  <2>1. CASE c.op = "zone" /\ ToggleSettles(k)
    <3>1. k.zone \in TeamZones
      BY <1>1, <2>1 DEF RosterCalls
    <3>2. zonesForm.errors \subseteq TeamZones /\ zonesForm.pending \subseteq TeamZones
      BY <1>1 DEF ZonesForms
    <3>3. PICK pending \in SUBSET TeamZones, errors \in SUBSET TeamZones :
            zonesForm' = [zonesForm EXCEPT !.pending = pending, !.errors = errors]
      <4>1. zonesForm' = [zonesForm EXCEPT !.pending = zonesForm.pending \ {k.zone},
                            !.errors = IF k.step = "done" THEN zonesForm.errors
                                       ELSE zonesForm.errors \cup {k.zone}]
        BY <1>1, <2>1 DEF ToggleSettles, ZonesForms
      <4> QED
        BY <3>1, <3>2, <4>1
    <3> QED
      BY <1>1, <3>3 DEF ZonesForms
  <2>2. CASE UNCHANGED zonesForm
    BY <1>1, <2>2
  <2> QED
    BY <2>1, <2>2 DEF teamForms
<1> QED
  BY <1>1, <1>2, <1>5, <1>6, <1>7
     DEF RosterInv, RosterTypeOK, AddForms, ZonesForms, teamStores, teamSeen

LEMMA TeamAnswersKeeps ==
  ASSUME RosterInv, NEW c \in teamCalls, TeamAnswers(c)
  PROVE  RosterInv'
<1>1. RosterCalls /\ RosterClaims /\ c \in TeamCall /\ addForm \in AddForms
  BY DEF RosterInv, RosterTypeOK, AddForms
<1>2. UNCHANGED <<teamStores, teamSeen, teamPage, teamTurns>> /\ teamTurns \in 0..MaxTeamTurns /\ c.step = "done"
  BY DEF TeamAnswers, RosterInv, RosterTypeOK
<1>3. CASE ~OnThisPage(c) \/ c.op \in {"revoke", "zone"}
  BY <1>2, <1>3, OtherSettlesKeep DEF TeamAnswers
<1>4. CASE OnThisPage(c) /\ c.op \notin {"revoke", "zone"}
  <2>1. AddSucceeds(c) /\ UNCHANGED <<revokeForm, zonesForm>>
    BY <1>4 DEF TeamAnswers
  <2>2. AddCall(c) /\ unclaimed' = unclaimed
    BY <1>1, <1>4, <2>1 DEF AddCall, TeamCall, AddSucceeds
  <2>3. NoAddForm \in AddForms
    BY DEF NoAddForm, AddForms, TeamMember
  <2>4. CASE c.op = "create"
    <3> DEFINE k == [c EXCEPT !.op = "assignAfter", !.step = "sent"]
    <3>1. teamCalls' = (teamCalls \ {c}) \cup {k} /\ UNCHANGED <<teamSent, addForm>>
      BY <2>1, <2>4 DEF AddSucceeds, AssignAfterCreate
    <3>2. /\ k \in TeamCall /\ k.id = c.id /\ k.page = c.page /\ k.op = "assignAfter" /\ k.step = "sent"
          /\ k.who = c.who
      BY <1>1 DEF TeamCall
    <3> HIDE DEF k
    <3>3. teamCalls' \subseteq TeamCall /\ RosterCalls'
      BY <1>2, <2>2, <3>1, <3>2, AdvanceKeeps DEF AddCall
    <3>4. \A p \in unclaimed' : \E d \in teamCalls' : Claims(d, p)
      BY <1>1, <2>2, <3>1, <3>2 DEF RosterClaims, Claims, OnThisPage
    <3>5. RosterClaims'
      BY <1>2, <3>4 DEF RosterClaims, Claims, OnThisPage
    <3> QED
      BY <1>1, <1>2, <2>1, <2>2, <3>1, <3>3, <3>5
         DEF RosterInv, RosterTypeOK, AddForms, teamStores, teamSeen
  <2>5. CASE c.op # "create"
    <3>1. teamCalls' = teamCalls \ {c} /\ addForm' = NoAddForm /\ teamSent' = teamSent
      BY <2>1, <2>5 DEF AddSucceeds
    <3>2. ~Claims(c, c.who)
      BY <1>2, <2>5 DEF Claims
    <3>3. teamCalls' \subseteq TeamCall /\ RosterCalls' /\ RosterClaims'
      BY <1>2, <1>4, <2>2, <3>1, <3>2, DropKeeps
    <3> QED
      BY <1>1, <1>2, <2>1, <2>2, <2>3, <3>1, <3>3
         DEF RosterInv, RosterTypeOK, AddForms, teamStores, teamSeen
  <2> QED
    BY <2>4, <2>5
<1> QED
  BY <1>3, <1>4

LEMMA TeamFailsKeeps ==
  ASSUME RosterInv, NEW c \in teamCalls, TeamFails(c)
  PROVE  RosterInv'
<1>1. RosterCalls /\ RosterClaims /\ c \in TeamCall /\ addForm \in AddForms
  BY DEF RosterInv, RosterTypeOK, AddForms
<1>2. UNCHANGED <<teamStores, teamSeen, teamPage>> /\ teamTurns' \in 0..MaxTeamTurns
  BY TeamAssumption DEF TeamFails, RosterInv, RosterTypeOK
<1>3. CASE ~OnThisPage(c) \/ c.op \in {"revoke", "zone"}
  <2> DEFINE k == [c EXCEPT !.step = "refused"]
  <2>1. k.id = c.id /\ k.zone = c.zone
    BY <1>1 DEF TeamCall
  <2>2. \/ /\ ~OnThisPage(c) /\ teamCalls' = teamCalls \ {c}
           /\ UNCHANGED <<teamForms, unclaimed, teamSent>>
        \/ c.op = "revoke" /\ RevokeSettles(k) /\ UNCHANGED <<addForm, zonesForm, unclaimed>>
        \/ c.op = "zone" /\ ToggleSettles(k) /\ UNCHANGED <<addForm, revokeForm, unclaimed>>
    BY <1>3 DEF TeamFails
  <2> HIDE DEF k
  <2> QED
    BY <1>2, <2>1, <2>2, OtherSettlesKeep
<1>4. CASE OnThisPage(c) /\ c.op \notin {"revoke", "zone"}
  <2>1. AddFails(c) /\ UNCHANGED <<revokeForm, zonesForm>>
    BY <1>4 DEF TeamFails
  <2>2. AddCall(c)
    BY <1>1, <1>4 DEF AddCall, TeamCall
  <2>3. teamCalls' = teamCalls \ {c} /\ teamSent' = teamSent /\ unclaimed' = unclaimed \ {c.who}
    BY <2>1 DEF AddFails
  <2>4. addForm' \in AddForms /\ addForm'.open = addForm.open
    BY <1>1, <2>1, <2>2 DEF AddFails, AddCall, AddForms
  <2>5. teamCalls' \subseteq TeamCall /\ RosterCalls' /\ RosterClaims'
    BY <1>2, <2>3, <2>4, DropKeeps
  <2> QED
    BY <1>2, <2>1, <2>3, <2>4, <2>5
       DEF RosterInv, RosterTypeOK, AddForms, teamStores, teamSeen
<1> QED
  BY <1>3, <1>4

(* The invariant of the staff page, inductive: one request of the add      *)
(* dialog at a time, and every account nobody answers for yet has that     *)
(* request under way.                                                      *)
THEOREM RosterInvariance == RosterSpec => []RosterInv
<1>1. RosterInv /\ [RosterNext]_teamVars => RosterInv'
  BY FormsKeep, RosterSendsKeep, DismissRevokeKeeps, TeamRefetchedKeeps, LeaveTeamKeeps, TeamCommitsKeeps,
     TeamAnswersKeeps, TeamFailsKeeps DEF RosterNext
<1> QED
  BY RosterStarts, <1>1, PTL DEF RosterSpec

(* An account the dialog made is assigned, reported or still waited for:   *)
(* it is never left behind without a word, however the answers are lost.   *)
THEOREM NoOrphanAccount == RosterSpec => []CreatedIsClaimed
<1>1. RosterInv => CreatedIsClaimed
  BY DEF RosterInv, RosterCalls, RosterClaims, Claims, AddCall, CreatedIsClaimed
<1> QED
  BY RosterInvariance, <1>1, PTL

------------------------------------------------------------------------------
(* MCOffice.                                                               *)

(* A step of the office is, seen from each screen, a step of that screen's *)
(* own specification or a stutter of it.                                   *)
LEMMA EachOfficeScreen ==
  ASSUME [OfficeNext]_officeVars
  PROVE  /\ [EditorNext]_editorVars
         /\ [FontsNext]_fontVars
         /\ [PreviewNext]_previewVars
         /\ [DrawerNext]_drawerVars
         /\ [CardNext]_cardVars
         /\ [ListNext]_listVars
         /\ [ImportNext]_importVars
         /\ [MappingNext]_mappingVars
         /\ [ZoneNext]_zoneVars
         /\ [StaffNext]_codeVars
         /\ [RosterNext]_teamVars
<1> USE DEF OfficeNext, officeVars, Alone,
         EditorMoves, FontMoves, PreviewMoves, DrawerMoves, CardMoves, ListMoves, ImportMoves,
         MappingMoves, ZoneMoves, StaffMoves, RosterMoves
<1>1. [EditorNext]_editorVars
  OBVIOUS
<1>2. [FontsNext]_fontVars
  OBVIOUS
<1>3. [PreviewNext]_previewVars
  OBVIOUS
<1>4. [DrawerNext]_drawerVars
  OBVIOUS
<1>5. [CardNext]_cardVars
  OBVIOUS
<1>6. [ListNext]_listVars
  OBVIOUS
<1>7. [ImportNext]_importVars
  OBVIOUS
<1>8. [MappingNext]_mappingVars
  OBVIOUS
<1>9. [ZoneNext]_zoneVars
  OBVIOUS
<1>10. [StaffNext]_codeVars
  OBVIOUS
<1>11. [RosterNext]_teamVars
  OBVIOUS
<1> QED
  BY <1>1, <1>2, <1>3, <1>4, <1>5, <1>6, <1>7, <1>8, <1>9, <1>10, <1>11

(* The office's pages, side by side, keep every promise they make alone:   *)
(* the screen on show is the only one that moves, by its own steps.        *)
THEOREM OfficeImplementsScreens ==
  OfficeSpec => /\ EditorSpec /\ FontsSpec /\ PreviewSpec /\ DrawerSpec /\ CardSpec /\ ListSpec
                /\ ImportSpec /\ MappingSpec /\ ZoneSpec /\ StaffSpec /\ RosterSpec
<1>1. OfficeInit => /\ EditorInit /\ FontsInit /\ PreviewInit /\ DrawerInit /\ CardInit /\ ListInit
                    /\ ImportInit /\ MappingInit /\ ZoneInit /\ StaffInit /\ RosterInit
  BY DEF OfficeInit
<1> QED
  BY <1>1, EachOfficeScreen, PTL
     DEF OfficeSpec, EditorSpec, FontsSpec, PreviewSpec, DrawerSpec, CardSpec, ListSpec, ImportSpec,
         MappingSpec, ZoneSpec, StaffSpec, RosterSpec

(* Every variable of every screen keeps to its type, whichever screen is   *)
(* on show and for any instance of the office's constants.                 *)
THEOREM OfficeTypeCorrect == OfficeSpec => []OfficeTypeOK
<1>1. PreviewInv => PreviewTypeOK
  <2> SUFFICES ASSUME PreviewInv PROVE PreviewTypeOK
    OBVIOUS
  <2>1. {roster, basePage, foundPage} \subseteq [Guests -> Versions] /\ picked \in Label
    BY DEF PreviewInv, PagesTyped, RosterTyped
  <2>2. {baseOk, baseWhole, hasFonts, sending} \subseteq BOOLEAN
    BY DEF PreviewInv, RosterTyped, DialogTyped
  <2>3. /\ dialog \in {"closed", "preview", "print"} /\ fontState \in {"loading", "ready", "error"}
        /\ generation \in Generation /\ genRuns \subseteq [of : Label, live : BOOLEAN]
    BY DEF PreviewInv, DialogTyped
  <2>4. /\ plotters \subseteq Plotters /\ chosen \in Plotters \cup {Nobody}
        /\ jobs \subseteq Job /\ doneJobs \in 0..MaxPreviewPrints
    BY DEF PreviewInv, PrintTyped
  <2>5. previewTurns \in 0..MaxPreviewTurns
    BY DEF PreviewInv, RosterTyped
  <2> QED
    BY <2>1, <2>2, <2>3, <2>4, <2>5 DEF PreviewTypeOK, Generation
<1>2. DrawerInv => DrawerTypeOK
  BY DEF DrawerInv, FormTyped, GrantsTyped, ConfirmsTyped, EditForms, DrawerTypeOK
<1>3. CardInv => CardTypeOK
  BY DEF CardInv
<1>4. MappingInv => MappingTypeOK
  BY DEF MappingInv
<1>5. RosterInv => RosterTypeOK
  BY DEF RosterInv
<1>6. /\ EditorTypeOK /\ FontsTypeOK /\ PreviewTypeOK /\ DrawerTypeOK /\ CardTypeOK /\ ListTypeOK
      /\ ImportTypeOK /\ MappingTypeOK /\ ZoneTypeOK /\ StaffTypeOK /\ RosterTypeOK
      => OfficeTypeOK
  BY DEF OfficeTypeOK
<1> QED
  BY OfficeImplementsScreens, EditorTypeCorrect, FontsAreComplete, PreviewInvariance, DrawerInvariance,
     CardInvariance, ListInvariance, ImportInvariance, MappingInvariance, ZoneTypeCorrect,
     StaffTypeCorrect, RosterInvariance, ListTypes, ImportTyped,
     <1>1, <1>2, <1>3, <1>4, <1>5, <1>6, PTL
==============================================================================

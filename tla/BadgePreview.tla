----------------------------- MODULE BadgePreview -----------------------------
(***************************************************************************)
(* Whose badge the editor previews, and the two dialogs that turn it into  *)
(* ZPL (panel/src/features/badge: usePreviewAttendee.ts, PreviewPicker.tsx,*)
(* ZplPreviewModal.tsx, TestPrintDialog.tsx).  The attendee shown is worked*)
(* out anew from the two cached lists at every render; the ZPL is made by  *)
(* an asynchronous run of an effect keyed on what the label is made of.    *)
(***************************************************************************)
EXTENDS Naturals, FiniteSets

CONSTANTS
  Guests,        \* the event's attendees
  PageOne,       \* those the first page of the list has room for
  Plotters,      \* printers the agent may report
  NeedsFont,     \* attendees whose label has text in an uploaded font
  MaxPreviewTurns, MaxPreviewPrints,   \* bounds
  PreviewFaults  \* subset of {"roster", "printers", "network"}

Nobody == "nobody"
ASSUME PreviewAssumption ==
  /\ Nobody \notin Guests \cup Plotters /\ PageOne \subseteq Guests
  /\ NeedsFont \subseteq Guests /\ MaxPreviewTurns \in Nat /\ MaxPreviewPrints \in Nat
  /\ PreviewFaults \subseteq {"roster", "printers", "network"}

VARIABLES
  roster,      \* in the backend: each guest's version, 0 once deleted
  basePage,    \* baseQuery.data: versions of the guests on page one, 0 if absent
  baseOk,      \* baseQuery.isSuccess
  baseWhole,   \* its total says that page one is the whole roster
  foundPage,   \* searchQuery.data
  picked,      \* selectedAttendee
  dialog,      \* closed, preview or print
  fontState, hasFonts,   \* useEventFontFaces: status, the fonts are in families
  generation,  \* status and the label the ZPL was made of
  genRuns,     \* runs of generateZpl under way
  plotters,    \* the agent's printers, {} while it is not connected
  chosen,      \* selectedPrinter
  sending,     \* printing
  previewSession, jobs, doneJobs, previewTurns

rosterVars == <<roster, basePage, baseOk, baseWhole, foundPage, picked>>
previewDialogVars == <<dialog, fontState, hasFonts, generation, genRuns>>
printVars  == <<plotters, chosen, sending, previewSession, jobs, doneJobs>>
previewVars == <<rosterVars, previewDialogVars, printVars, previewTurns>>

Versions == 0..MaxPreviewTurns + 1
Label == [guest : Guests \cup {Nobody}, version : Versions]
Sample == [guest |-> Nobody, version |-> 0]
Absent == [g \in Guests |-> 0]
NoGeneration == [status |-> "loading", of |-> Sample]
Job == [id : 1..MaxPreviewPrints, of : Label, shown : Label, to : Plotters,
        listed : BOOLEAN, session : Nat]

PreviewTypeOK ==
  /\ {roster, basePage, foundPage} \subseteq [Guests -> Versions] /\ picked \in Label
  /\ {baseOk, baseWhole, hasFonts, sending} \subseteq BOOLEAN
  /\ dialog \in {"closed", "preview", "print"}
  /\ fontState \in {"loading", "ready", "error"}
  /\ generation \in [status : {"loading", "ready", "error"}, of : Label]
  /\ genRuns \subseteq [of : Label, live : BOOLEAN]
  /\ plotters \subseteq Plotters /\ chosen \in Plotters \cup {Nobody}
  /\ jobs \subseteq Job /\ doneJobs \in 0..MaxPreviewPrints /\ previewTurns \in 0..MaxPreviewTurns

PreviewInit ==
  /\ roster = [g \in Guests |-> 1] /\ basePage = Absent /\ baseOk = FALSE /\ baseWhole = FALSE
  /\ foundPage = Absent /\ picked = Sample
  /\ dialog = "closed" /\ fontState = "loading" /\ hasFonts = FALSE
  /\ generation = NoGeneration /\ genRuns = {} /\ plotters = {} /\ chosen = Nobody
  /\ sending = FALSE /\ previewSession = 0 /\ jobs = {} /\ doneJobs = 0 /\ previewTurns = 0

PreviewTurn(f) == /\ f \in PreviewFaults /\ previewTurns < MaxPreviewTurns
                  /\ previewTurns' = previewTurns + 1

(* What is shown: the freshest copy of the pick; a pick no list has is     *)
(* dropped only when a successful fetch covers the whole roster; without a *)
(* pick the first attendee, or the sample persona.                         *)
FreshIn(base, found, pick) ==
  IF pick.guest = Nobody THEN Sample
  ELSE IF base[pick.guest] > 0 THEN [pick EXCEPT !.version = base[pick.guest]]
  ELSE IF found[pick.guest] > 0 THEN [pick EXCEPT !.version = found[pick.guest]]
  ELSE Sample
VerifiablyGone(base, whole, found, pick) ==
  pick # Sample /\ FreshIn(base, found, pick) = Sample /\ whole
FirstGuest == IF basePage = Absent THEN Sample
              ELSE LET g == CHOOSE g \in Guests : basePage[g] > 0
                   IN [guest |-> g, version |-> basePage[g]]
Shown == IF FreshIn(basePage, foundPage, picked) # Sample THEN FreshIn(basePage, foundPage, picked)
         ELSE IF picked # Sample THEN picked ELSE FirstGuest

(* The generation effect: it runs again when the dialog opens, when the    *)
(* fonts settle or when the label changes, and disowns the run before.     *)
FontsTerminal == fontState \in {"ready", "error"}
MissingFont(l) == dialog = "print" /\ l.guest \in NeedsFont /\ ~hasFonts
Generate ==
  LET again == <<dialog, fontState, Shown>>' # <<dialog, fontState, Shown>>
  IN IF ~again \/ dialog' = "closed"
     THEN /\ UNCHANGED generation
          /\ genRuns' = IF again THEN {[r EXCEPT !.live = FALSE] : r \in genRuns} ELSE genRuns
     ELSE LET old == {[r EXCEPT !.live = FALSE] : r \in genRuns} IN
          IF FontsTerminal' /\ ~MissingFont(Shown)'
          THEN generation' = NoGeneration /\ genRuns' = old \cup {[of |-> Shown', live |-> TRUE]}
          ELSE /\ generation' = [status |-> IF FontsTerminal' THEN "error" ELSE "loading",
                                 of |-> Sample]
               /\ genRuns' = old

------------------------------------------------------------------------------
(* The lists.                                                              *)
ListedOn(page) == [g \in Guests |-> IF g \in page THEN roster[g] ELSE 0]
BaseFetched ==
  LET whole == \A g \in Guests \ PageOne : roster[g] = 0 IN
  /\ UNCHANGED <<roster, foundPage, dialog, fontState, hasFonts, printVars, previewTurns>>
  /\ basePage' = ListedOn(PageOne) /\ baseOk' = TRUE /\ baseWhole' = whole
  /\ picked' = IF VerifiablyGone(ListedOn(PageOne), whole, foundPage, picked)
               THEN Sample ELSE picked
  /\ Generate
BaseFails ==
  /\ PreviewTurn("network") /\ baseOk' = FALSE
  /\ UNCHANGED <<roster, basePage, baseWhole, foundPage, picked, previewDialogVars, printVars>>

SearchFetched(hits) ==
  /\ UNCHANGED <<roster, basePage, baseOk, baseWhole, dialog, fontState, hasFonts, printVars,
                 previewTurns>>
  /\ foundPage' = ListedOn(hits)
  /\ picked' = IF VerifiablyGone(basePage, baseOk /\ baseWhole, ListedOn(hits), picked)
               THEN Sample ELSE picked
  /\ Generate
(* The picker is behind the dialogs.  Picking clears the search, and a     *)
(* guest of the search may then be one the whole list does not have.       *)
PickGuest(g) ==
  /\ dialog = "closed" /\ (foundPage[g] > 0 \/ basePage[g] > 0)
  /\ LET pick == [guest |-> g, version |-> IF foundPage[g] > 0 THEN foundPage[g] ELSE basePage[g]] IN
     picked' = IF VerifiablyGone(basePage, baseOk /\ baseWhole, basePage, pick) THEN Sample ELSE pick
  /\ foundPage' = basePage
  /\ UNCHANGED <<roster, basePage, baseOk, baseWhole, previewDialogVars, printVars, previewTurns>>

(* Elsewhere a guest is edited or deleted.                                 *)
RosterTurns(g) ==
  /\ PreviewTurn("roster") /\ roster[g] > 0
  /\ roster' \in {[roster EXCEPT ![g] = @ + 1], [roster EXCEPT ![g] = 0]}
  /\ UNCHANGED <<basePage, baseOk, baseWhole, foundPage, picked, previewDialogVars, printVars>>

------------------------------------------------------------------------------
(* The dialogs.                                                            *)
(* The test print preselects a printer while it is open: a choice that is  *)
(* still listed stays, else the agent's default or its first printer.      *)
Preselected(ps) == IF dialog' # "print" \/ chosen \in ps THEN {chosen}
                   ELSE IF ps = {} THEN {Nobody} ELSE ps
OpenPreview(which) ==
  /\ dialog = "closed" /\ dialog' = which
  /\ chosen' \in Preselected(plotters)
  /\ UNCHANGED <<rosterVars, fontState, hasFonts, plotters, sending, previewSession, jobs, doneJobs,
                 previewTurns>>
  /\ Generate
(* The test print cannot be dismissed while it is being sent.              *)
ClosePreview ==
  /\ dialog # "closed" /\ ~sending /\ dialog' = "closed"
  /\ previewSession' = previewSession + (IF dialog = "print" THEN 1 ELSE 0)
  /\ chosen' = Nobody
  /\ UNCHANGED <<rosterVars, fontState, hasFonts, plotters, sending, jobs, doneJobs, previewTurns>>
  /\ previewSession < MaxPreviewTurns
  /\ Generate

FontsSettleTo(s) ==
  /\ dialog # "closed" /\ fontState = "loading" /\ fontState' = s
  /\ hasFonts' \in (IF s = "ready" THEN {TRUE} ELSE BOOLEAN)
  /\ UNCHANGED <<rosterVars, dialog, printVars, previewTurns>>
  /\ Generate

(* Mutant: a disowned run sets the state.                                *)
GenerationEndsLate(r, ok) ==
  /\ genRuns' = genRuns \ {r}
  /\ generation' = [status |-> IF ok THEN "ready" ELSE "error", of |-> r.of]
  /\ UNCHANGED <<rosterVars, dialog, fontState, hasFonts, printVars, previewTurns>>

GenerationEnds(r, ok) ==
  /\ genRuns' = genRuns \ {r}
  /\ generation' = IF ~r.live THEN generation
                   ELSE [status |-> IF ok THEN "ready" ELSE "error", of |-> r.of]
  /\ UNCHANGED <<rosterVars, dialog, fontState, hasFonts, printVars, previewTurns>>

------------------------------------------------------------------------------
(* The test print.                                                         *)
PlottersTurn(ps) ==
  /\ PreviewTurn("printers") /\ ps # plotters /\ plotters' = ps
  /\ UNCHANGED <<rosterVars, previewDialogVars, sending, previewSession, jobs, doneJobs>>
  /\ chosen' \in Preselected(ps)

ChoosePlotter(p) ==
  /\ dialog = "print" /\ p \in plotters /\ ~sending /\ p # chosen /\ chosen' = p
  /\ UNCHANGED <<rosterVars, previewDialogVars, plotters, sending, previewSession, jobs, doneJobs,
                 previewTurns>>

SendEnabled ==
  /\ dialog = "print" /\ plotters # {} /\ chosen # Nobody
  /\ generation.status = "ready" /\ ~sending
SendTestPrint ==
  /\ SendEnabled /\ doneJobs < MaxPreviewPrints /\ doneJobs' = doneJobs + 1
  /\ sending' = TRUE
  /\ jobs' = jobs \cup {[id |-> doneJobs + 1, of |-> generation.of, shown |-> Shown, to |-> chosen,
                         listed |-> chosen \in plotters, session |-> previewSession]}
  /\ UNCHANGED <<rosterVars, previewDialogVars, plotters, chosen, previewSession, previewTurns>>
(* Printed, refused or timed out.                                          *)
TestPrintSettles(j) ==
  /\ jobs' = jobs \ {j}
  /\ sending' = (sending /\ j.session # previewSession)
  /\ UNCHANGED <<rosterVars, previewDialogVars, plotters, chosen, previewSession, doneJobs, previewTurns>>

PreviewNext ==
  \/ BaseFetched \/ BaseFails \/ ClosePreview \/ SendTestPrint
  \/ \E hits \in SUBSET Guests : SearchFetched(hits)
  \/ \E g \in Guests : PickGuest(g) \/ RosterTurns(g)
  \/ \E d \in {"preview", "print"} : OpenPreview(d)
  \/ \E s \in {"ready", "error"} : FontsSettleTo(s)
  \/ \E r \in genRuns, ok \in BOOLEAN : GenerationEnds(r, ok)
  \/ \E ps \in SUBSET Plotters : PlottersTurn(ps)
  \/ \E p \in Plotters : ChoosePlotter(p)
  \/ \E j \in jobs : TestPrintSettles(j)

PreviewSpec == PreviewInit /\ [][PreviewNext]_previewVars

------------------------------------------------------------------------------
(* A test print is of the label on the screen and goes to a printer the    *)
(* agent lists, however late a run of the generator ends and whatever list *)
(* is fetched again while the dialog is open.                              *)
JobsMatchScreen == \A j \in jobs : j.of = j.shown /\ j.listed

==============================================================================

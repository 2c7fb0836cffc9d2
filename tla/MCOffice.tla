------------------------------ MODULE MCOffice ------------------------------
(***************************************************************************)
(* The screens used before the event, in the panel's office half, model-   *)
(* checked one at a time: each behaviour stays on one screen, and every    *)
(* screen's own next-state relation is one disjunct of OfficeNext.         *)
(***************************************************************************)
EXTENDS BadgeEditor, FontFaces, BadgePreview, AttendeeDrawer, AttendeeCard, AttendeeList,
        ImportWizard, ImportMapping, ZoneRules, StaffTokens, StaffRoster

(* The data of the instance: two events' fonts, a file of two columns, and *)
(* what folding makes of three cells.                                      *)
EventFonts  == [e1 |-> {"f1", "f2"}, e2 |-> {"g1"}]
FileHeaders == {[base |-> "email", padded |-> FALSE, upper |-> TRUE],
                [base |-> "x", padded |-> TRUE, upper |-> FALSE]}
FewSheets   == \A i \in DOMAIN sheet, h \in Headers : h.base = "x" => sheet[i][h] # "A "
FoldedCells == [c \in {"", "a", "A "} |-> IF c = "A " THEN "a" ELSE c]

VARIABLE screen   \* the page on show; it stays on show for the whole behaviour

Screens == {"editor", "fonts", "preview", "drawer", "card", "list", "import", "mapping", "zones", "staff",
            "roster"}

(* What is not on show does not move.                                      *)
Alone(s) ==
  /\ screen = s /\ UNCHANGED screen
  /\ s # "editor" => UNCHANGED editorVars
  /\ s # "fonts" => UNCHANGED fontVars
  /\ s # "preview" => UNCHANGED previewVars
  /\ s # "drawer" => UNCHANGED drawerVars
  /\ s # "card" => UNCHANGED cardVars
  /\ s # "list" => UNCHANGED listVars
  /\ s # "import" => UNCHANGED importVars
  /\ s # "mapping" => UNCHANGED mappingVars
  /\ s # "zones" => UNCHANGED zoneVars
  /\ s # "staff" => UNCHANGED codeVars
  /\ s # "roster" => UNCHANGED teamVars

EditorMoves    == Alone("editor") /\ EditorNext
FontMoves      == Alone("fonts") /\ FontsNext
PreviewMoves   == Alone("preview") /\ PreviewNext
DrawerMoves    == Alone("drawer") /\ DrawerNext
CardMoves      == Alone("card") /\ CardNext
ListMoves      == Alone("list") /\ ListNext
ImportMoves    == Alone("import") /\ ImportNext
MappingMoves   == Alone("mapping") /\ MappingNext
ZoneMoves      == Alone("zones") /\ ZoneNext
StaffMoves     == Alone("staff") /\ StaffNext
RosterMoves    == Alone("roster") /\ RosterNext

(* The pages that are not on show keep one of their initial states.        *)
OfficeInit ==
  /\ screen \in Screens
  /\ EditorInit /\ FontsInit /\ PreviewInit /\ ListInit /\ ImportInit
  /\ DrawerInit /\ (screen # "drawer" => grants = {})
  /\ CardInit /\ (screen # "card" => cardOf = CHOOSE a \in CardPeople : TRUE)
  /\ MappingInit /\ FewSheets /\ (screen # "mapping" => sheet = <<>>)
  /\ ZoneInit
  /\ screen # "zones" => zoneThere = Zones /\ \A z \in Zones : zoneRules[z] = NoRules
  /\ StaffInit /\ (screen # "staff" => \A m \in Staff : ~hasCode[m])
  /\ RosterInit /\ (screen # "roster" => accounts = {})

OfficeNext ==
  \/ EditorMoves \/ FontMoves \/ PreviewMoves \/ DrawerMoves \/ CardMoves
  \/ ListMoves \/ ImportMoves \/ MappingMoves \/ ZoneMoves \/ StaffMoves \/ RosterMoves

officeVars == <<screen, editorVars, fontVars, previewVars, drawerVars, cardVars, listVars,
                importVars, mappingVars, zoneVars, codeVars, teamVars>>

(* Every PUT of the badge editor is answered or fails.                     *)
EditorAnswers ==
  Alone("editor") /\ \E p \in puts : PutApplies(p) \/ PutSucceeds(p) \/ PutFails(p)

OfficeSpec == OfficeInit /\ [][OfficeNext]_officeVars /\ WF_officeVars(EditorAnswers)

------------------------------------------------------------------------------
(* Every variable of every screen keeps to its type.                       *)
OfficeTypeOK ==
  /\ EditorTypeOK /\ FontsTypeOK /\ PreviewTypeOK /\ DrawerTypeOK /\ CardTypeOK /\ ListTypeOK
  /\ ImportTypeOK /\ MappingTypeOK /\ ZoneTypeOK /\ StaffTypeOK /\ RosterTypeOK
==============================================================================

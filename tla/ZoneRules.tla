------------------------------- MODULE ZoneRules -------------------------------
(***************************************************************************)
(* The zones page (panel/src/features/zones): the list with one expanded   *)
(* row at most, the access-rule editor mounted in it, the create and edit  *)
(* form and the delete dialog.  What the editor reports up to the page     *)
(* (dirty, busy) is kept apart from the editor's own state, as in the code.*)
(***************************************************************************)
EXTENDS Naturals, Sequences, FiniteSets

CONSTANTS
  Zones, Categories,
  MaxClauses, MaxZoneCalls, MaxZoneTurns,   \* bounds
  ZoneFaults     \* subset of {"other", "list", "fail", "lost", "form"}

NoZone == "none"
BlankClause  == "blank"
ASSUME ZoneAssumption ==
  /\ NoZone \notin Zones /\ BlankClause \notin Categories
  /\ {MaxClauses, MaxZoneCalls, MaxZoneTurns} \subseteq Nat
  /\ IsFiniteSet(Categories) /\ Cardinality(Categories) <= MaxClauses   \* an editor holds them all
  /\ ZoneFaults \subseteq {"other", "list", "fail", "lost", "form"}

VARIABLES
  zoneThere, zoneRules,   \* in the backend: the zones and their rules
  zoneList, zoneListOk,   \* zonesQuery: data and isSuccess
  ruleCache, ruleFetches, \* the rules queries: data, those being fetched,
  rulesFailed,            \* and those in error
  expanded, rulesDirty, rulesBusy, unsavedHint,   \* ZonesPage's state
  ruleEditor,                 \* the mounted ZoneRuleEditor's state
  rulePuts,               \* PUTs of a rule set under way
  zoneForm, formCall,     \* formDialog, and its mutation
  deleting, deleteSession, deleteError, deleteCalls,   \* the delete dialog
  zoneCalls, zoneTurns    \* bounds

zoneBackend == <<zoneThere, zoneRules>>
zoneQueries == <<zoneList, zoneListOk, ruleCache, ruleFetches, rulesFailed>>
rowVars     == <<expanded, rulesDirty, rulesBusy, unsavedHint, ruleEditor>>
zoneForms   == <<zoneForm, formCall>>
deleteVars  == <<deleting, deleteSession, deleteError, deleteCalls>>
zoneVars == <<zoneBackend, zoneQueries, rowVars, rulePuts, zoneForms, deleteVars,
              zoneCalls, zoneTurns>>

(* A rule is simple (allow, at any time) or advanced; a category has one.  *)
RuleSet == [Categories -> {"no", "simple", "advanced"}]
NoRules == [c \in Categories |-> "no"]
UnreadRules  == [c \in Categories |-> "unread"]
Clauses == UNION {[1..n -> Categories \cup {BlankClause}] : n \in 0..MaxClauses}
NoEditor == [mount |-> 0, ready |-> FALSE, clauses |-> <<>>, advanced |-> {},
             dirty |-> FALSE, status |-> "idle"]
DeleteCall == [zone : Zones, session : Nat, id : Nat]

ZoneTypeOK ==
  /\ {zoneThere, zoneList, ruleFetches, rulesFailed} \subseteq SUBSET Zones
  /\ zoneRules \in [Zones -> RuleSet] /\ ruleCache \in [Zones -> RuleSet \cup {UnreadRules}]
  /\ {zoneListOk, rulesDirty, rulesBusy, unsavedHint} \subseteq BOOLEAN
  /\ {expanded, deleting, deleteError} \subseteq Zones \cup {NoZone}
  /\ ruleEditor \in [mount : Nat, ready : BOOLEAN, clauses : Clauses, advanced : SUBSET Categories,
                 dirty : BOOLEAN, status : {"idle", "pending", "error"}]
  /\ rulePuts \subseteq [zone : Zones, body : RuleSet, mount : Nat]
  /\ zoneForm \in {"closed", "create"} \cup Zones /\ formCall \in {"idle", "pending", "error"}
  /\ deleteSession \in Nat /\ deleteCalls \subseteq DeleteCall
  /\ zoneCalls \in 0..MaxZoneCalls /\ zoneTurns \in 0..MaxZoneTurns

ZoneInit ==
  /\ zoneThere \in {Zones} \cup (IF "form" \in ZoneFaults THEN {Zones \ {z} : z \in Zones} ELSE {})
  /\ zoneRules \in [Zones -> {r \in RuleSet : \A c \in Categories : r[c] # "simple"}]
  /\ \A z \in Zones \ zoneThere : zoneRules[z] = NoRules
  /\ zoneList = {} /\ zoneListOk = FALSE /\ ruleCache = [z \in Zones |-> UnreadRules] /\ ruleFetches = {}
  /\ rulesFailed = {}
  /\ expanded = NoZone /\ rulesDirty = FALSE /\ rulesBusy = FALSE /\ unsavedHint = FALSE
  /\ ruleEditor = NoEditor /\ rulePuts = {}
  /\ zoneForm = "closed" /\ formCall = "idle"
  /\ deleting = NoZone /\ deleteSession = 0 /\ deleteError = NoZone /\ deleteCalls = {}
  /\ zoneCalls = 0 /\ zoneTurns = 0

ZoneTurn(f) == f \in ZoneFaults /\ zoneTurns < MaxZoneTurns /\ zoneTurns' = zoneTurns + 1
ZoneCall == zoneCalls < MaxZoneCalls /\ zoneCalls' = zoneCalls + 1

------------------------------------------------------------------------------
(* The editor: mounted in the expanded row while the list is on the screen.*)
ZoneRows == IF zoneListOk THEN zoneList ELSE {}
Mounted == expanded \in ZoneRows
NoDialogOpen == zoneForm = "closed" /\ deleting = NoZone

(* deriveFromFetched: once per mount, from what the query first succeeds    *)
(* with.                                                                   *)
ClausesOf(rules) ==
  LET simple == {c \in Categories : rules[c] = "simple"}
  IN CHOOSE s \in [1..Cardinality(simple) -> simple] : {s[i] : i \in DOMAIN s} = simple
Derived(ed, rules) ==
  [ed EXCEPT !.ready = TRUE, !.clauses = ClausesOf(rules), !.dirty = FALSE,
             !.advanced = {c \in Categories : rules[c] = "advanced"}]
NewEditor(z) ==
  LET ed == [NoEditor EXCEPT !.mount = ruleEditor.mount + 1]
  IN IF ruleCache[z] = UnreadRules \/ z \in rulesFailed THEN ed ELSE Derived(ed, ruleCache[z])

(* Mounting fetches, which clears the error of a query that has no data,   *)
(* and reports a clean, idle editor; unmounting takes its fetch back.      *)
MountEditor(z) ==
  /\ ruleEditor' = NewEditor(z) /\ rulesDirty' = FALSE /\ rulesBusy' = FALSE
  /\ ruleFetches' = ruleFetches \cup {z}
  /\ rulesFailed' = IF ruleCache[z] = UnreadRules THEN rulesFailed \ {z} ELSE rulesFailed
DropEditor == /\ ruleEditor' = [NoEditor EXCEPT !.mount = ruleEditor.mount]
              /\ ruleFetches' = {} /\ UNCHANGED rulesFailed

ToggleRules(z) ==
  /\ NoDialogOpen /\ z \in ZoneRows
  /\ UNCHANGED <<zoneBackend, zoneList, zoneListOk, ruleCache, rulePuts, zoneForms, deleteVars,
                 zoneTurns>>
  /\ \/ /\ expanded = z /\ ~rulesBusy
        /\ expanded' = NoZone /\ unsavedHint' = FALSE /\ DropEditor
        /\ UNCHANGED <<rulesDirty, rulesBusy, zoneCalls>>
     \/ /\ expanded \notin {z, NoZone} /\ (rulesDirty \/ rulesBusy)
        /\ unsavedHint' = TRUE
        /\ UNCHANGED <<expanded, rulesDirty, rulesBusy, ruleEditor, ruleFetches, rulesFailed, zoneCalls>>
     \/ /\ expanded # z /\ ~(expanded # NoZone /\ (rulesDirty \/ rulesBusy))
        /\ ZoneCall /\ expanded' = z /\ unsavedHint' = FALSE /\ MountEditor(z)

(* A failed fetch of the rules takes the whole editor off the screen; what *)
(* was typed stays.                                                        *)
EditorShown == Mounted /\ ruleEditor.ready /\ expanded \notin rulesFailed
Editable == NoDialogOpen /\ EditorShown /\ ruleEditor.status # "pending"
ShowEditor(ed) ==
  /\ ruleEditor' = ed /\ rulesDirty' = ed.dirty /\ rulesBusy' = (ed.status = "pending")
  /\ unsavedHint' = (unsavedHint /\ ed.dirty)
EditClauses ==
  /\ Editable
  /\ \E cs \in Clauses :
       /\ \/ Len(cs) = Len(ruleEditor.clauses) /\ \E i \in DOMAIN cs : \A j \in DOMAIN cs \ {i} :
                                                cs[j] = ruleEditor.clauses[j]
          \/ cs = Append(ruleEditor.clauses, BlankClause)
          \/ \E i \in DOMAIN ruleEditor.clauses :
               cs = SubSeq(ruleEditor.clauses, 1, i - 1)
                    \o SubSeq(ruleEditor.clauses, i + 1, Len(ruleEditor.clauses))
       /\ cs # ruleEditor.clauses
       /\ ShowEditor([ruleEditor EXCEPT !.clauses = cs, !.dirty = TRUE, !.status = "idle"])
  /\ UNCHANGED <<zoneBackend, zoneQueries, expanded, rulePuts, zoneForms, deleteVars,
                 zoneCalls, zoneTurns>>
CancelRules ==
  /\ Editable /\ ShowEditor([Derived(ruleEditor, ruleCache[expanded]) EXCEPT !.status = "idle"])
  /\ UNCHANGED <<zoneBackend, zoneQueries, expanded, rulePuts, zoneForms, deleteVars,
                 zoneCalls, zoneTurns>>

InvalidClause(cs) == \E i \in DOMAIN cs :
  cs[i] = BlankClause \/ cs[i] \in ruleEditor.advanced \/ \E j \in DOMAIN cs : j # i /\ cs[j] = cs[i]
Body(ed) == [c \in Categories |->
  IF \E i \in DOMAIN ed.clauses : ed.clauses[i] = c THEN "simple"
  ELSE IF c \in ed.advanced THEN "advanced" ELSE "no"]
SaveRules ==
  /\ Editable /\ ~InvalidClause(ruleEditor.clauses) /\ ZoneCall
  /\ rulePuts' = rulePuts \cup {[zone |-> expanded, body |-> Body(ruleEditor), mount |-> ruleEditor.mount]}
  /\ ShowEditor([ruleEditor EXCEPT !.status = "pending"])
  /\ UNCHANGED <<zoneBackend, zoneQueries, expanded, zoneForms, deleteVars, zoneTurns>>

(* The answer closes whatever row is expanded by then.                     *)
PutAnswers(p, out) ==
  /\ rulePuts' = rulePuts \ {p}
  /\ zoneRules' = IF out = "fail" THEN zoneRules ELSE [zoneRules EXCEPT ![p.zone] = p.body]
  /\ UNCHANGED <<zoneThere, zoneList, zoneListOk, ruleCache, zoneForms, deleteVars, zoneCalls>>
  /\ \/ /\ out = "ok" /\ p.zone \in zoneThere /\ expanded' = NoZone
        /\ rulesDirty' = FALSE /\ rulesBusy' = FALSE /\ unsavedHint' = FALSE /\ DropEditor
        /\ UNCHANGED zoneTurns
     \/ /\ out \in {"fail", "lost"} /\ ZoneTurn(out)
        /\ IF Mounted /\ p.mount = ruleEditor.mount THEN ShowEditor([ruleEditor EXCEPT !.status = "error"])
           ELSE UNCHANGED <<rulesDirty, rulesBusy, unsavedHint, ruleEditor>>
        /\ UNCHANGED <<expanded, ruleFetches, rulesFailed>>

------------------------------------------------------------------------------
(* The queries.                                                            *)
RulesArrive(z) ==
  /\ z \in ruleFetches /\ ruleFetches' = ruleFetches \ {z}
  /\ ruleCache' = [ruleCache EXCEPT ![z] = zoneRules[z]] /\ rulesFailed' = rulesFailed \ {z}
  /\ IF Mounted /\ expanded = z /\ ~ruleEditor.ready THEN ShowEditor(Derived(ruleEditor, zoneRules[z]))
     ELSE UNCHANGED <<rulesDirty, rulesBusy, unsavedHint, ruleEditor>>
  /\ UNCHANGED <<zoneBackend, zoneList, zoneListOk, expanded, rulePuts, zoneForms, deleteVars,
                 zoneCalls, zoneTurns>>

RulesFail(z) ==
  /\ ZoneTurn("fail") /\ z \in ruleFetches
  /\ ruleFetches' = ruleFetches \ {z} /\ rulesFailed' = rulesFailed \cup {z}
  /\ UNCHANGED <<zoneBackend, zoneList, zoneListOk, ruleCache, rowVars, rulePuts, zoneForms,
                 deleteVars, zoneCalls>>

(* Mutant: the page is not reconciled with the list.                     *)
ZonesArriveOnly ==
  /\ <<zoneList, zoneListOk>> # <<zoneThere, TRUE>>
  /\ zoneList' = zoneThere /\ zoneListOk' = TRUE
  /\ UNCHANGED <<zoneBackend, ruleCache, rulePuts, zoneForms, deleteVars, zoneCalls, zoneTurns>>
  /\ \/ /\ expanded \notin zoneThere \cup {NoZone}
        /\ DropEditor /\ UNCHANGED <<expanded, rulesDirty, rulesBusy, unsavedHint>>
     \/ /\ expanded \in zoneThere /\ ~Mounted
        /\ MountEditor(expanded) /\ unsavedHint' = FALSE /\ UNCHANGED expanded
     \/ /\ expanded = NoZone \/ (expanded \in zoneThere /\ Mounted)
        /\ UNCHANGED <<rowVars, ruleFetches, rulesFailed>>

(* Every mutation invalidates the list; the page reconciles what is        *)
(* expanded against it.  A refetch that fails takes the rows off the page. *)
ZonesArrive ==
  /\ <<zoneList, zoneListOk>> # <<zoneThere, TRUE>>
  /\ zoneList' = zoneThere /\ zoneListOk' = TRUE
  /\ UNCHANGED <<zoneBackend, ruleCache, rulePuts, zoneForms, deleteVars, zoneCalls, zoneTurns>>
  /\ \/ /\ expanded # NoZone /\ expanded \notin zoneThere
        /\ expanded' = NoZone /\ rulesDirty' = FALSE /\ rulesBusy' = FALSE /\ unsavedHint' = FALSE
        /\ DropEditor
     \/ /\ expanded \in zoneThere /\ ~Mounted
        /\ MountEditor(expanded) /\ unsavedHint' = FALSE /\ UNCHANGED expanded
     \/ /\ expanded = NoZone \/ (expanded \in zoneThere /\ Mounted)
        /\ UNCHANGED <<rowVars, ruleFetches, rulesFailed>>
ZonesFail ==
  /\ ZoneTurn("list") /\ zoneListOk /\ zoneListOk' = FALSE
  /\ DropEditor
  /\ UNCHANGED <<zoneBackend, zoneList, ruleCache, expanded, rulesDirty, rulesBusy, unsavedHint,
                 rulePuts, zoneForms, deleteVars, zoneCalls>>

(* Another operator.                                                       *)
OtherEdits(z) ==
  /\ ZoneTurn("other") /\ z \in zoneThere
  /\ \/ \E r \in RuleSet : zoneRules' = [zoneRules EXCEPT ![z] = r] /\ UNCHANGED zoneThere
     \/ zoneThere' = zoneThere \ {z} /\ UNCHANGED zoneRules
  /\ UNCHANGED <<zoneQueries, rowVars, rulePuts, zoneForms, deleteVars, zoneCalls>>

------------------------------------------------------------------------------
(* The form, which cannot be dismissed while it is being sent, and the     *)
(* delete dialog, which can.                                               *)
MenuEnabled(z) == NoDialogOpen /\ z \in ZoneRows /\ ~(expanded = z /\ rulesBusy)
OpenForm(k) ==
  /\ "form" \in ZoneFaults /\ NoDialogOpen /\ (k = "create" \/ MenuEnabled(k)) /\ zoneForm' = k
  /\ UNCHANGED <<zoneBackend, zoneQueries, rowVars, rulePuts, formCall, deleteVars,
                 zoneCalls, zoneTurns>>
CloseForm ==
  /\ zoneForm # "closed" /\ formCall # "pending" /\ zoneForm' = "closed" /\ formCall' = "idle"
  /\ UNCHANGED <<zoneBackend, zoneQueries, rowVars, rulePuts, deleteVars, zoneCalls, zoneTurns>>
SubmitForm ==
  /\ zoneForm # "closed" /\ formCall # "pending" /\ (zoneForm = "create" => zoneListOk)
  /\ ZoneCall /\ formCall' = "pending"
  /\ UNCHANGED <<zoneBackend, zoneQueries, rowVars, rulePuts, zoneForm, deleteVars, zoneTurns>>
FormAnswers ==
  /\ formCall = "pending"
  /\ \/ /\ zoneForm' = "closed" /\ formCall' = "idle"
        /\ IF zoneForm # "create" THEN UNCHANGED zoneBackend
           ELSE \E z \in Zones \ zoneThere : /\ zoneThere' = zoneThere \cup {z}
                                            /\ zoneRules' = [zoneRules EXCEPT ![z] = NoRules]
     \/ formCall' = "error" /\ UNCHANGED <<zoneForm, zoneBackend>>
  /\ UNCHANGED <<zoneQueries, rowVars, rulePuts, deleteVars, zoneCalls, zoneTurns>>

OpenDelete(z) ==
  /\ MenuEnabled(z) /\ deleting' = z /\ deleteError' = NoZone
  /\ UNCHANGED <<zoneBackend, zoneQueries, rowVars, rulePuts, zoneForms, deleteSession, deleteCalls,
                 zoneCalls, zoneTurns>>
DeletePending == \E c \in deleteCalls : c.session = deleteSession
ConfirmDelete ==
  /\ deleting # NoZone /\ ~DeletePending /\ ZoneCall /\ deleteError' = NoZone
  /\ deleteCalls' = deleteCalls \cup {[zone |-> deleting, session |-> deleteSession, id |-> zoneCalls]}
  /\ UNCHANGED <<zoneBackend, zoneQueries, rowVars, rulePuts, zoneForms, deleting, deleteSession,
                 zoneTurns>>
CloseZoneDelete ==
  /\ deleting # NoZone /\ deleting' = NoZone /\ deleteError' = NoZone
  /\ deleteSession' = deleteSession + (IF DeletePending THEN 1 ELSE 0)
  /\ UNCHANGED <<zoneBackend, zoneQueries, rowVars, rulePuts, zoneForms, deleteCalls,
                 zoneCalls, zoneTurns>>
DeleteAnswers(c, ok) ==
  /\ deleteCalls' = deleteCalls \ {c}
  /\ zoneThere' = IF ok THEN zoneThere \ {c.zone} ELSE zoneThere
  /\ deleting' = IF ok /\ c.session = deleteSession THEN NoZone ELSE deleting
  /\ deleteError' = IF ~ok /\ c.session = deleteSession THEN c.zone ELSE deleteError
  /\ UNCHANGED <<zoneRules, zoneQueries, rowVars, rulePuts, zoneForms, deleteSession,
                 zoneCalls, zoneTurns>>

ZoneNext ==
  \/ EditClauses \/ CancelRules \/ SaveRules \/ ZonesArrive \/ ZonesFail
  \/ CloseForm \/ SubmitForm \/ FormAnswers \/ ConfirmDelete \/ CloseZoneDelete
  \/ \E z \in Zones : ToggleRules(z) \/ RulesArrive(z) \/ RulesFail(z) \/ OtherEdits(z) \/ OpenDelete(z)
  \/ \E k \in Zones \cup {"create"} : OpenForm(k)
  \/ \E p \in rulePuts, out \in {"ok", "fail", "lost"} : PutAnswers(p, out)
  \/ \E c \in deleteCalls, ok \in BOOLEAN : DeleteAnswers(c, ok)

ZoneSpec == ZoneInit /\ [][ZoneNext]_zoneVars

------------------------------------------------------------------------------
(* ZonesPage.tsx:87-99: opening an editor is refused because of one that   *)
(* is on the page, never because of one that went away with its zone.      *)
NeverLockedOut ==
  expanded # NoZone /\ (rulesDirty \/ rulesBusy) /\ zoneListOk => expanded \in zoneList

(* An editor nobody has typed in, with nothing being fetched or saved,     *)
(* shows the rules the zone has.                                           *)
CleanShowsSaved ==
  EditorShown /\ ruleEditor.status = "idle" /\ ~ruleEditor.dirty
  /\ expanded \notin ruleFetches /\ rulePuts = {} => Body(ruleEditor) = zoneRules[expanded]
==============================================================================

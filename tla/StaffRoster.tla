------------------------------ MODULE StaffRoster ------------------------------
(***************************************************************************)
(* Who is on an event's staff (panel/src/features/staff:                   *)
(* AddStaffDialog.tsx, StaffZonesDialog.tsx, the revoke dialog of          *)
(* StaffCard.tsx).  Adding a new person takes two requests, one that       *)
(* creates the account and one that assigns it; the callbacks belong to    *)
(* the page and are dropped when it is left.                               *)
(***************************************************************************)
EXTENDS Naturals, FiniteSets

CONSTANTS
  TeamPeople,       \* people, by their e-mail
  TeamZones,        \* the event's zones
  MaxTeamCalls,     \* bound on the requests
  MaxTeamTurns,     \* bound on what happens around the page
  TeamFaults        \* subset of {"fail", "lost", "leave"}

ASSUME TeamAssumption ==
  /\ MaxTeamCalls \in Nat /\ MaxTeamTurns \in Nat /\ TeamFaults \subseteq {"fail", "lost", "leave"}

VARIABLES
  accounts,       \* in the backend: the tenant's users
  eventStaff,     \* in the backend: event_staff
  zoneStaff,      \* in the backend: staff_zone_assignments
  accountsSeen, eventStaffSeen, zoneStaffSeen,  \* the page's copies of the three
  addForm,        \* the Add staff dialog
  teamCalls,      \* requests under way
  unclaimed,      \* history: accounts made for this page and not accounted for since
  revokeForm,     \* whom the revoke dialog asks about
  zonesForm,      \* the zones dialog: whose, and pendingZoneIds, errorZoneIds
  teamPage,       \* which visit of the page this is
  teamSent, teamTurns  \* counters of the bounds

teamStores == <<accounts, eventStaff, zoneStaff>>
teamSeen   == <<accountsSeen, eventStaffSeen, zoneStaffSeen>>
teamForms  == <<addForm, revokeForm, zonesForm>>
teamCounts == <<teamPage, teamSent, teamTurns>>
teamVars   == <<teamStores, teamSeen, teamForms, teamCalls, unclaimed, teamCounts>>

Anyone == "nobody"
TeamMember == TeamPeople \cup {Anyone}
NoTeamZone == "no zone"   \* of a request that is not about one
TeamCall == [id : 1..MaxTeamCalls, op : {"assign", "create", "assignAfter", "revoke", "zone"},
             who : TeamPeople, zone : TeamZones \cup {NoTeamZone}, on : BOOLEAN, page : Nat, heard : BOOLEAN,
             step : {"sent", "done", "refused"}]
NoAddForm == [open |-> FALSE, mode |-> "existing", selected |-> Anyone, email |-> Anyone,
              existingError |-> FALSE, flowError |-> "none"]
NoZonesForm == [who |-> Anyone, pending |-> {}, errors |-> {}]

RosterTypeOK ==
  /\ {accounts, eventStaff, accountsSeen, eventStaffSeen, unclaimed} \subseteq SUBSET TeamPeople
  /\ {zoneStaff, zoneStaffSeen} \subseteq SUBSET (TeamPeople \X TeamZones)
  /\ addForm \in [open : BOOLEAN, mode : {"existing", "create"}, selected : TeamMember,
                  email : TeamMember, existingError : BOOLEAN, flowError : {"none", "create", "assign"}]
  /\ teamCalls \subseteq TeamCall
  /\ revokeForm \in TeamMember
  /\ zonesForm \in [who : TeamMember, pending : SUBSET TeamZones, errors : SUBSET TeamZones]
  /\ teamPage \in Nat /\ teamSent \in 0..MaxTeamCalls /\ teamTurns \in 0..MaxTeamTurns

RosterInit ==
  /\ accounts \in SUBSET TeamPeople /\ eventStaff \in SUBSET accounts /\ zoneStaff = {}
  /\ accountsSeen = accounts /\ eventStaffSeen = eventStaff /\ zoneStaffSeen = zoneStaff
  /\ addForm = NoAddForm /\ revokeForm = Anyone /\ zonesForm = NoZonesForm
  /\ teamCalls = {} /\ unclaimed = {} /\ teamPage = 1 /\ teamSent = 0 /\ teamTurns = 0

------------------------------------------------------------------------------
Cards == eventStaffSeen
NoTeamDialog == ~addForm.open /\ revokeForm = Anyone /\ zonesForm.who = Anyone
OnThisPage(c) == c.page = teamPage   \* 0 once its card or its page is gone
AddPending == \E c \in teamCalls : OnThisPage(c) /\ c.op \in {"assign", "create", "assignAfter"}
RevokePending(m) == \E c \in teamCalls : OnThisPage(c) /\ c.op = "revoke" /\ c.who = m

TeamCallOf(op, who, zone, on) ==
  [id |-> teamSent + 1, op |-> op, who |-> who, zone |-> zone, on |-> on, page |-> teamPage,
   heard |-> TRUE, step |-> "sent"]
TeamSends(op, who, zone, on) ==
  /\ teamSent < MaxTeamCalls /\ teamSent' = teamSent + 1
  /\ teamCalls' = teamCalls \cup {TeamCallOf(op, who, zone, on)}

(* The Add staff dialog.  Its tabs and fields stay live during a request.  *)
OpenAdd ==
  /\ NoTeamDialog /\ addForm' = [NoAddForm EXCEPT !.open = TRUE]
  /\ UNCHANGED <<teamStores, teamSeen, revokeForm, zonesForm, teamCalls, unclaimed, teamCounts>>

CloseAdd ==
  /\ addForm.open /\ ~AddPending /\ addForm' = NoAddForm
  /\ UNCHANGED <<teamStores, teamSeen, revokeForm, zonesForm, teamCalls, unclaimed, teamCounts>>

SwitchTab ==
  /\ addForm.open
  /\ addForm' = [addForm EXCEPT !.mode = IF @ = "create" THEN "existing" ELSE "create"]
  /\ UNCHANGED <<teamStores, teamSeen, revokeForm, zonesForm, teamCalls, unclaimed, teamCounts>>

Candidates == accountsSeen \ eventStaffSeen
SelectCandidate(p) ==
  /\ addForm.open /\ addForm.mode = "existing" /\ p \in Candidates
  /\ addForm' = [addForm EXCEPT !.selected = p, !.existingError = FALSE]
  /\ UNCHANGED <<teamStores, teamSeen, revokeForm, zonesForm, teamCalls, unclaimed, teamCounts>>

TypeEmail(p) ==
  /\ addForm.open /\ addForm.mode = "create" /\ p # addForm.email
  /\ addForm' = [addForm EXCEPT !.email = p, !.flowError = "none"]
  /\ UNCHANGED <<teamStores, teamSeen, revokeForm, zonesForm, teamCalls, unclaimed, teamCounts>>

SubmitExisting ==
  /\ addForm.open /\ addForm.mode = "existing" /\ addForm.selected # Anyone /\ ~AddPending
  /\ TeamSends("assign", addForm.selected, NoTeamZone, TRUE)
  /\ addForm' = [addForm EXCEPT !.existingError = FALSE]
  /\ UNCHANGED <<teamStores, teamSeen, revokeForm, zonesForm, unclaimed, teamPage, teamTurns>>

SubmitCreate ==
  /\ addForm.open /\ addForm.mode = "create" /\ addForm.email # Anyone /\ ~AddPending
  /\ TeamSends("create", addForm.email, NoTeamZone, TRUE)
  /\ addForm' = [addForm EXCEPT !.flowError = "none"]
  /\ UNCHANGED <<teamStores, teamSeen, revokeForm, zonesForm, unclaimed, teamPage, teamTurns>>

(* Mutant: the account that was created is left to be assigned by hand.  *)
AssignLater(c) == UNCHANGED teamSent /\ teamCalls' = teamCalls \ {c}

(* The answer to the creation sends the assignment in the same turn.       *)
AssignAfterCreate(c) ==
  /\ teamSent' = teamSent
  /\ teamCalls' = (teamCalls \ {c}) \cup {[c EXCEPT !.op = "assignAfter", !.step = "sent"]}

AddSucceeds(c) ==
  /\ \/ c.op = "create" /\ AssignAfterCreate(c) /\ UNCHANGED addForm
     \/ /\ c.op # "create" /\ teamCalls' = teamCalls \ {c} /\ UNCHANGED teamSent
        /\ addForm' = NoAddForm
  /\ UNCHANGED unclaimed

(* The dialog stays open and says which of the two requests failed.        *)
AddFails(c) ==
  /\ teamCalls' = teamCalls \ {c} /\ UNCHANGED teamSent
  /\ addForm' = CASE c.op = "assign" -> [addForm EXCEPT !.existingError = TRUE]
                  [] c.op = "create" -> [addForm EXCEPT !.flowError = "create"]
                  [] c.op = "assignAfter" -> [addForm EXCEPT !.flowError = "assign"]
  /\ unclaimed' = unclaimed \ {c.who}

------------------------------------------------------------------------------
(* The revoke dialog, which may be dismissed during its request.           *)
OpenRevoke(m) ==
  /\ NoTeamDialog /\ m \in Cards /\ revokeForm' = m
  /\ UNCHANGED <<teamStores, teamSeen, addForm, zonesForm, teamCalls, unclaimed, teamCounts>>

ConfirmRevoke ==
  /\ revokeForm # Anyone /\ ~RevokePending(revokeForm)
  /\ TeamSends("revoke", revokeForm, NoTeamZone, TRUE)
  /\ UNCHANGED <<teamStores, teamSeen, teamForms, unclaimed, teamPage, teamTurns>>

DismissRevoke ==
  /\ revokeForm # Anyone /\ revokeForm' = Anyone
  /\ teamCalls' = {IF c.op = "revoke" /\ c.who = revokeForm THEN [c EXCEPT !.heard = FALSE] ELSE c :
                    c \in teamCalls}
  /\ UNCHANGED <<teamStores, teamSeen, addForm, zonesForm, unclaimed, teamCounts>>

RevokeSettles(c) ==
  /\ teamCalls' = {d \in teamCalls : d.id # c.id} /\ UNCHANGED teamSent
  /\ revokeForm' = IF c.step = "done" /\ c.heard THEN Anyone ELSE revokeForm

(* The zones dialog: one switch per zone, held during its own request.     *)
OpenZones(m) ==
  /\ NoTeamDialog /\ m \in Cards /\ zonesForm' = [NoZonesForm EXCEPT !.who = m]
  /\ UNCHANGED <<teamStores, teamSeen, addForm, revokeForm, teamCalls, unclaimed, teamCounts>>

CloseZones ==
  /\ zonesForm.who # Anyone /\ zonesForm.pending = {} /\ zonesForm' = NoZonesForm
  /\ UNCHANGED <<teamStores, teamSeen, addForm, revokeForm, teamCalls, unclaimed, teamCounts>>

ToggleZone(z) ==
  /\ zonesForm.who # Anyone /\ z \notin zonesForm.pending
  /\ TeamSends("zone", zonesForm.who, z, <<zonesForm.who, z>> \notin zoneStaffSeen)
  /\ zonesForm' = [zonesForm EXCEPT !.pending = @ \cup {z}, !.errors = @ \ {z}]
  /\ UNCHANGED <<teamStores, teamSeen, addForm, revokeForm, unclaimed, teamPage, teamTurns>>

ToggleSettles(c) ==
  /\ teamCalls' = {d \in teamCalls : d.id # c.id} /\ UNCHANGED teamSent
  /\ zonesForm' = [zonesForm EXCEPT !.pending = @ \ {c.zone},
                                    !.errors = IF c.step = "done" THEN @ ELSE @ \cup {c.zone}]

------------------------------------------------------------------------------
(* The backend takes a request; an e-mail is one account's.                *)
TeamCommits(c) ==
  /\ c.step = "sent"
  /\ LET refused == c.op = "create" /\ c.who \in accounts IN
     /\ teamCalls' = (teamCalls \ {c})
                       \cup {[c EXCEPT !.step = IF refused THEN "refused" ELSE "done"]}
     /\ unclaimed' = IF c.op = "create" /\ ~refused /\ OnThisPage(c) THEN unclaimed \cup {c.who}
                     ELSE IF c.op \in {"assign", "assignAfter"} THEN unclaimed \ {c.who}
                     ELSE unclaimed
  /\ accounts' = IF c.op = "create" THEN accounts \cup {c.who} ELSE accounts
  /\ eventStaff' = CASE c.op \in {"assign", "assignAfter"} -> eventStaff \cup {c.who}
                 [] c.op = "revoke" -> eventStaff \ {c.who}
                 [] OTHER -> eventStaff
  /\ zoneStaff' = IF c.op # "zone" THEN zoneStaff
                  ELSE IF c.on THEN zoneStaff \cup {<<c.who, c.zone>>}
                  ELSE zoneStaff \ {<<c.who, c.zone>>}
  /\ UNCHANGED <<teamSeen, teamForms, teamCounts>>

(* An answer, to the page that asked; a page that was left hears nothing.  *)
TeamAnswers(c) ==
  /\ c.step = "done"
  /\ CASE ~OnThisPage(c) ->
            teamCalls' = teamCalls \ {c} /\ UNCHANGED <<teamForms, unclaimed, teamSent>>
       [] OnThisPage(c) /\ c.op = "revoke" ->
            RevokeSettles(c) /\ UNCHANGED <<addForm, zonesForm, unclaimed>>
       [] OnThisPage(c) /\ c.op = "zone" ->
            ToggleSettles(c) /\ UNCHANGED <<addForm, revokeForm, unclaimed>>
       [] OTHER -> AddSucceeds(c) /\ UNCHANGED <<revokeForm, zonesForm>>
  /\ UNCHANGED <<teamStores, teamSeen, teamPage, teamTurns>>

(* A refusal, a request that did not arrive, or an answer that got lost.   *)
TeamFails(c) ==
  /\ \/ c.step = "refused" /\ UNCHANGED teamTurns
     \/ /\ c.step # "refused" /\ (IF c.step = "done" THEN "lost" ELSE "fail") \in TeamFaults
        /\ teamTurns < MaxTeamTurns /\ teamTurns' = teamTurns + 1
  /\ CASE ~OnThisPage(c) ->
            teamCalls' = teamCalls \ {c} /\ UNCHANGED <<teamForms, unclaimed, teamSent>>
       [] OnThisPage(c) /\ c.op = "revoke" ->
            /\ RevokeSettles([c EXCEPT !.step = "refused"])
            /\ UNCHANGED <<addForm, zonesForm, unclaimed>>
       [] OnThisPage(c) /\ c.op = "zone" ->
            /\ ToggleSettles([c EXCEPT !.step = "refused"])
            /\ UNCHANGED <<addForm, revokeForm, unclaimed>>
       [] OTHER -> AddFails(c) /\ UNCHANGED <<revokeForm, zonesForm>>
  /\ UNCHANGED <<teamStores, teamSeen, teamPage>>

(* The lists are read again; a card that goes takes its dialogs along.     *)
TeamRefetched ==
  /\ <<accountsSeen, eventStaffSeen, zoneStaffSeen>> # <<accounts, eventStaff, zoneStaff>>
  /\ accountsSeen' = accounts /\ eventStaffSeen' = eventStaff /\ zoneStaffSeen' = zoneStaff
  /\ revokeForm' = IF revokeForm \in eventStaff THEN revokeForm ELSE Anyone
  /\ zonesForm' = IF zonesForm.who \in eventStaff THEN zonesForm ELSE NoZonesForm
  /\ teamCalls' = {IF c.op \in {"revoke", "zone"} /\ c.who \notin eventStaff
                     THEN [c EXCEPT !.page = 0] ELSE c : c \in teamCalls}
  /\ UNCHANGED <<teamStores, addForm, unclaimed, teamCounts>>

(* The page is left, and entered again later: nothing of it is kept.       *)
LeaveTeam ==
  /\ "leave" \in TeamFaults /\ teamTurns < MaxTeamTurns /\ teamTurns' = teamTurns + 1
  /\ teamPage' = teamPage + 1
  /\ addForm' = NoAddForm /\ revokeForm' = Anyone /\ zonesForm' = NoZonesForm /\ unclaimed' = {}
  /\ UNCHANGED <<teamStores, teamSeen, teamCalls, teamSent>>

RosterNext ==
  \/ OpenAdd \/ CloseAdd \/ SwitchTab \/ SubmitExisting \/ SubmitCreate
  \/ ConfirmRevoke \/ DismissRevoke \/ CloseZones \/ TeamRefetched \/ LeaveTeam
  \/ \E p \in TeamPeople : SelectCandidate(p) \/ TypeEmail(p) \/ OpenRevoke(p) \/ OpenZones(p)
  \/ \E z \in TeamZones : ToggleZone(z)
  \/ \E c \in teamCalls : TeamCommits(c) \/ TeamAnswers(c) \/ TeamFails(c)

RosterSpec == RosterInit /\ [][RosterNext]_teamVars

------------------------------------------------------------------------------
(* AddStaffDialog.tsx:139-145, 194-215: an account the dialog created is   *)
(* not left behind unassigned without a word.  Until it is assigned, or    *)
(* the dialog has said that a request failed, or the page was left, the    *)
(* dialog is open and waits for a request about that account.              *)
CreatedIsClaimed ==
  \A p \in unclaimed : addForm.open /\ \E c \in teamCalls :
      OnThisPage(c) /\ c.who = p /\ c.op \in {"create", "assignAfter"}
==============================================================================

----------------------------- MODULE EquipmentHub -----------------------------
(***************************************************************************)
(* The panel's equipment hub (panel/src/features/equipment/EquipmentPage   *)
(* .tsx, DeviceCard.tsx, reconcile.ts): the registry of a machine's        *)
(* devices in the backend, the agent's own list of them, and the dialogs   *)
(* that change the first and then mirror the change to the second.  The    *)
(* registry write comes first and is the truth; a mirror that fails is     *)
(* shown as a warning and not repeated.  The page is open once, and the    *)
(* devices start in agreement.                                             *)
(***************************************************************************)
EXTENDS Naturals, FiniteSets

CONSTANTS
  HubPrinters,   \* saved network printers
  HubScanners,   \* saved COM scanners
  Addresses,     \* the addresses a printer may have
  MaxHubCalls,   \* bounds the changes made
  MaxHubTurns,   \* bounds the changes around the page
  HubFaults      \* subset of {"overlap", "lost", "agent", "leave"}

HubDevices == HubPrinters \cup HubScanners
Gone == "gone"
NoDevice == "nobody"
ASSUME HubAssumption ==
  /\ Addresses # {} /\ Gone \notin Addresses
  /\ HubPrinters \cap HubScanners = {} /\ {NoDevice, "clear"} \cap HubDevices = {}
  /\ HubFaults \subseteq {"overlap", "lost", "agent", "leave"}
  /\ MaxHubCalls \in Nat /\ MaxHubTurns \in Nat

VARIABLES
  registered,   \* per device, its address in the registry, or Gone
  agentRuns,    \* the address the running agent uses for it
  agentKeeps,   \* the address in the agent's configuration file
  regDefault,   \* the registry's default printer
  hubDialog,    \* the device a dialog is open for and its kind
  hubForm,      \* the address typed into it, the one loaded, and for which device
  patch,        \* the PATCH under way, of an address, or (to Gone) of a name
  removal,      \* the DELETE under way
  defaultCall,  \* the last PUT of the default under way
  mirrors,      \* mirrors to the agent under way
  unmirrored,   \* devices whose mirror failed and was reported
  silenced,     \* devices that may have fallen out of step without a word
  listsLoaded,  \* agent info, registry, printers and scanners have all loaded
  seenReports,  \* what the machine upsert reported as seen
  hubCalls, hubTurns

hubStores == <<registered, agentRuns, agentKeeps, regDefault>>
hubShown  == <<hubDialog, hubForm>>
hubFlight == <<patch, removal, defaultCall, mirrors, unmirrored, silenced>>
hubVisit  == <<listsLoaded, seenReports>>
hubVars == <<hubStores, hubShown, hubFlight, hubVisit, hubCalls, hubTurns>>

Dialogs == [kind : {"rename", "address", "delete", "closed"}, device : HubDevices \cup {NoDevice}]
HubForms == [device : HubDevices \cup {NoDevice}, address : Addresses \cup {Gone},
             loaded : Addresses \cup {Gone}]
HubPatches == [device : HubDevices \cup {NoDevice}, to : Addresses \cup {Gone}]
ClosedDialog == [kind |-> "closed", device |-> NoDevice]
NoPatch == [device |-> NoDevice, to |-> Gone]
EmptyForm == [device |-> NoDevice, address |-> Gone, loaded |-> Gone]
Mirror == [device : HubDevices \cup {NoDevice}, to : Addresses \cup {Gone},
           step : {"remove", "add", "default"}]

HubTypeOK ==
  /\ {registered, agentRuns, agentKeeps} \subseteq [HubDevices -> Addresses \cup {Gone}]
  /\ regDefault \in HubPrinters \cup {NoDevice} /\ hubDialog \in Dialogs
  /\ hubForm \in HubForms /\ patch \in HubPatches
  /\ {removal, defaultCall} \subseteq HubDevices \cup {NoDevice} \cup {"clear"}
  /\ mirrors \subseteq Mirror /\ (unmirrored \cup silenced) \subseteq HubDevices
  /\ listsLoaded \in BOOLEAN /\ seenReports \in (SUBSET HubDevices) \cup {{NoDevice}}
  /\ hubCalls \in 0..MaxHubCalls /\ hubTurns \in 0..MaxHubTurns

HubInit ==
  /\ registered = [d \in HubDevices |-> CHOOSE a \in Addresses : TRUE]
  /\ agentRuns = registered /\ agentKeeps = registered /\ regDefault = NoDevice
  /\ hubDialog = ClosedDialog /\ hubForm = EmptyForm
  /\ patch = NoPatch /\ removal = NoDevice /\ defaultCall = NoDevice
  /\ mirrors = {} /\ unmirrored = {} /\ silenced = {} /\ listsLoaded = FALSE /\ seenReports = {NoDevice}
  /\ hubCalls = 0 /\ hubTurns = 0

Mirroring == {m.device : m \in mirrors} \cap HubDevices

OnHub(d) == registered[d] # Gone
HubCall == hubCalls < MaxHubCalls /\ hubCalls' = hubCalls + 1
Changed == {d \in HubDevices : registered'[d] # registered[d]}
HubTurn(f) == f \in HubFaults /\ hubTurns < MaxHubTurns /\ hubTurns' = hubTurns + 1

------------------------------------------------------------------------------
(* The row menu opens a dialog; its effect loads the form for that device. *)
OpenHubDialog(kind, d) ==
  /\ hubDialog = ClosedDialog /\ OnHub(d)
  /\ kind = "address" => d \in HubPrinters
  /\ hubDialog' = [kind |-> kind, device |-> d]
  /\ hubForm' = [device |-> d, address |-> registered[d], loaded |-> registered[d]]
  /\ UNCHANGED <<hubStores, hubFlight, hubVisit, hubCalls, hubTurns>>

HideDialog == hubDialog' = ClosedDialog /\ hubForm' = EmptyForm
CloseHubDialog ==
  /\ hubDialog # ClosedDialog /\ HideDialog
  /\ UNCHANGED <<hubStores, hubFlight, hubVisit, hubCalls, hubTurns>>

TypeAddress(a) ==
  /\ hubDialog.kind = "address" /\ patch = NoPatch /\ a # hubForm.address
  /\ hubForm' = [hubForm EXCEPT !.address = a]
  /\ UNCHANGED <<hubStores, hubDialog, hubFlight, hubVisit, hubCalls, hubTurns>>

(* A second change while the first is still being mirrored.                *)
Overtakes(d) == IF \E m \in mirrors : m.device = d
                THEN HubTurn("overlap") /\ silenced' = silenced \cup {d}
                ELSE UNCHANGED <<silenced, hubTurns>>

(* Save is enabled for an address other than the one loaded, the agent     *)
(* reachable.                                                              *)
SaveAddress ==
  /\ hubDialog.kind = "address" /\ patch = NoPatch /\ hubForm.address # hubForm.loaded
  /\ HubCall /\ patch' = [device |-> hubDialog.device, to |-> hubForm.address]
  /\ Overtakes(hubDialog.device)
  /\ UNCHANGED <<hubStores, hubShown, removal, defaultCall, mirrors, unmirrored, hubVisit>>

SaveName ==
  /\ hubDialog.kind = "rename" /\ patch = NoPatch
  /\ HubCall /\ patch' = [device |-> hubDialog.device, to |-> Gone]
  /\ UNCHANGED <<hubStores, hubShown, removal, defaultCall, mirrors, unmirrored, silenced, hubVisit,
                 hubTurns>>

(* Mutant: the printer is added without being removed first.             *)
MirrorByAdding(d, a) == mirrors' = mirrors \cup {[device |-> d, to |-> a, step |-> "add"]}

MirrorAddress(d, a) == mirrors' = mirrors \cup {[device |-> d, to |-> a, step |-> "remove"]}

(* The registry's row after the PATCH.                                     *)
Patched(d) == IF d = patch.device /\ Gone \notin {registered[d], patch.to} THEN patch.to ELSE registered[d]
PatchCommits == registered' = [d \in HubDevices |-> Patched(d)]

(* Success closes whichever dialog is open; an address is mirrored.        *)
PatchAnswers ==
  /\ patch # NoPatch /\ registered[patch.device] # Gone
  /\ patch' = NoPatch /\ PatchCommits /\ HideDialog
  /\ IF patch.to = Gone THEN UNCHANGED mirrors ELSE MirrorAddress(patch.device, patch.to)
  /\ UNCHANGED <<agentRuns, agentKeeps, regDefault, removal, defaultCall, unmirrored, silenced,
                 hubVisit, hubCalls, hubTurns>>

(* The PATCH fails, or the backend commits it and the page never learns.   *)
PatchFails ==
  /\ patch # NoPatch /\ patch' = NoPatch
  /\ \/ UNCHANGED <<registered, silenced, hubTurns>>
     \/ HubTurn("lost") /\ PatchCommits /\ silenced' = silenced \cup Changed
  /\ UNCHANGED <<agentRuns, agentKeeps, regDefault, hubShown, removal, defaultCall, mirrors,
                 unmirrored, hubVisit, hubCalls>>

------------------------------------------------------------------------------
(* The agent.  /printers/add sets the running printer and appends it to    *)
(* the file only when the file does not know the name.                     *)
AgentRemoves(d) == /\ agentRuns' = [agentRuns EXCEPT ![d] = Gone]
                   /\ agentKeeps' = [agentKeeps EXCEPT ![d] = Gone]
AgentAdds(d, a) ==
  /\ agentRuns' = [agentRuns EXCEPT ![d] = a]
  /\ agentKeeps' = [agentKeeps EXCEPT ![d] = IF @ = Gone THEN a ELSE @]

(* /printers/add answers 201 also when it could not write the file.        *)
AgentAddsUnsaved(d, a) ==
  /\ HubTurn("agent") /\ agentKeeps[d] = Gone
  /\ agentRuns' = [agentRuns EXCEPT ![d] = a] /\ UNCHANGED agentKeeps
  /\ silenced' = silenced \cup {d}

AfterRemove(m) == IF m.to = Gone THEN {} ELSE {[m EXCEPT !.step = "add"]}

MirrorStep(m) ==
  /\ mirrors' = (mirrors \ {m}) \cup (IF m.step = "remove" THEN AfterRemove(m) ELSE {})
  /\ \/ m.step = "add" /\ AgentAddsUnsaved(m.device, m.to)
     \/ /\ CASE m.step = "remove" -> AgentRemoves(m.device)
             [] m.step = "add" -> AgentAdds(m.device, m.to)
             [] OTHER -> UNCHANGED <<agentRuns, agentKeeps>>
        /\ UNCHANGED <<silenced, hubTurns>>
  /\ unmirrored' = IF mirrors' \subseteq mirrors THEN unmirrored \ {m.device} ELSE unmirrored
  /\ UNCHANGED <<registered, regDefault, hubShown, patch, removal, defaultCall, hubVisit, hubCalls>>

(* The agent refuses a step, stops in its middle, does not answer or is    *)
(* not there: the rest is not attempted.  A removal takes a scanner out of *)
(* the running agent first and then out of the file.                       *)
MirrorFails(m) ==
  /\ HubTurn("agent") /\ mirrors' = mirrors \ {m}
  /\ unmirrored' = unmirrored \cup ({m.device} \cap HubDevices)
  /\ \/ UNCHANGED <<agentRuns, agentKeeps>>
     \/ m.step = "remove" /\ AgentRemoves(m.device)
     \/ m.step = "add" /\ AgentAdds(m.device, m.to)
     \/ /\ m.step = "add" \/ m.device \in HubScanners
        /\ agentRuns' = [agentRuns EXCEPT ![m.device] = m.to] /\ UNCHANGED agentKeeps
  /\ UNCHANGED <<registered, regDefault, hubShown, patch, removal, defaultCall, silenced,
                 hubVisit, hubCalls>>

AgentRestarts ==
  /\ HubTurn("agent") /\ agentRuns' = agentKeeps
  /\ UNCHANGED <<registered, agentKeeps, regDefault, hubShown, hubFlight, hubVisit, hubCalls>>

------------------------------------------------------------------------------
(* Deleting a device; a COM scanner is removed from the agent as well.     *)
ConfirmDelete ==
  /\ hubDialog.kind = "delete" /\ removal = NoDevice
  /\ HubCall /\ removal' = hubDialog.device
  /\ Overtakes(hubDialog.device)
  /\ UNCHANGED <<hubStores, hubShown, patch, defaultCall, mirrors, unmirrored, hubVisit>>

DeleteCommits ==
  /\ registered' = [registered EXCEPT ![removal] = Gone]
  /\ regDefault' = IF regDefault = removal THEN NoDevice ELSE regDefault
MirrorRemoval ==
  mirrors' = IF removal \in HubScanners
             THEN mirrors \cup {[device |-> removal, to |-> Gone, step |-> "remove"]}
             ELSE mirrors

(* The DELETE is answered, fails (a device already gone is a 404), or is   *)
(* committed and its answer lost.                                          *)
DeleteAnswers ==
  /\ removal # NoDevice /\ removal' = NoDevice
  /\ \/ /\ registered[removal] # Gone /\ DeleteCommits /\ HideDialog /\ MirrorRemoval
        /\ UNCHANGED <<silenced, hubTurns>>
     \/ UNCHANGED <<registered, regDefault, hubShown, mirrors, silenced, hubTurns>>
     \/ /\ HubTurn("lost") /\ DeleteCommits /\ silenced' = silenced \cup Changed
        /\ UNCHANGED <<hubShown, mirrors>>
  /\ UNCHANGED <<agentRuns, agentKeeps, patch, defaultCall, unmirrored, hubVisit, hubCalls>>

(* The registry's default after a PUT of d.                                *)
DefaultAfter(d) ==
  IF d = "clear" THEN NoDevice
  ELSE IF d \in HubPrinters /\ registered[d] # Gone THEN d ELSE regDefault

(* Nothing holds a second PUT back; only the answer to the last request    *)
(* mirrors its printer to the agent.                                       *)
SetDefault(d) ==
  /\ d # "clear" => OnHub(d)
  /\ HubCall /\ defaultCall' = d /\ regDefault' \in {regDefault, DefaultAfter(defaultCall)}
  /\ UNCHANGED <<registered, agentRuns, agentKeeps, hubShown, patch, removal, mirrors, unmirrored,
                 silenced, hubVisit, hubTurns>>
DefaultAnswers ==
  /\ defaultCall # NoDevice /\ defaultCall' = NoDevice
  /\ regDefault' \in {regDefault, DefaultAfter(defaultCall)}
  /\ \/ UNCHANGED mirrors
     \/ /\ regDefault' = defaultCall
        /\ mirrors' = mirrors \cup {[device |-> NoDevice, to |-> Gone, step |-> "default"]}
  /\ UNCHANGED <<registered, agentRuns, agentKeeps, hubShown, patch, removal, unmirrored, silenced,
                 hubVisit, hubCalls, hubTurns>>

------------------------------------------------------------------------------
(* Once the agent's identity, the registry and both lists have loaded, the *)
(* machine is reported, once a visit, with the devices the agent lists.    *)
ListsLoad ==
  /\ ~listsLoaded /\ listsLoaded' = TRUE
  /\ seenReports' = {d \in HubDevices : registered[d] # Gone /\ agentRuns[d] # Gone}
  /\ UNCHANGED <<hubStores, hubShown, hubFlight, hubCalls, hubTurns>>

(* Leaving the page drops the callbacks of the requests under way, which   *)
(* the backend may still commit: their mirrors are never sent, and a       *)
(* mirror that fails from here on is not reported.                         *)
LeaveHub ==
  /\ HubTurn("leave") /\ HideDialog
  /\ patch' = NoPatch /\ removal' = NoDevice /\ defaultCall' = NoDevice
  /\ \E taken, gone, put \in BOOLEAN :
       /\ registered' = [d \in HubDevices |-> IF gone /\ d = removal THEN Gone
                                              ELSE IF taken THEN Patched(d) ELSE registered[d]]
       /\ LET default == IF put THEN DefaultAfter(defaultCall) ELSE regDefault
          IN  regDefault' = IF gone /\ default = removal THEN NoDevice ELSE default
  /\ silenced' = silenced \cup Mirroring \cup Changed
  /\ listsLoaded' = FALSE /\ seenReports' = {NoDevice}
  /\ UNCHANGED <<agentRuns, agentKeeps, mirrors, unmirrored, hubCalls>>

HubNext ==
  \/ \E k \in {"rename", "address", "delete"}, d \in HubDevices : OpenHubDialog(k, d)
  \/ CloseHubDialog \/ SaveAddress \/ SaveName \/ PatchAnswers \/ PatchFails
  \/ \E a \in Addresses : TypeAddress(a)
  \/ \E m \in mirrors : MirrorStep(m) \/ MirrorFails(m)
  \/ AgentRestarts \/ ConfirmDelete \/ DeleteAnswers \/ DefaultAnswers \/ ListsLoad \/ LeaveHub
  \/ \E d \in HubPrinters \cup {"clear"} : SetDefault(d)

HubSpec == HubInit /\ [][HubNext]_hubVars

------------------------------------------------------------------------------
(* Once nothing is under way, every device the agent knows otherwise than  *)
(* the registry, running or after a restart, has been reported to the      *)
(* operator: a mirror that stops half-way is never silent.  (The four ways *)
(* it can be silent are named: the answer of a PATCH or DELETE is lost,    *)
(* the page is left, a second change overtakes the first, or the agent     *)
(* takes a printer it could not write to its file.)                        *)
MirroredOrReported ==
  (patch = NoPatch /\ mirrors = {}) =>
    \A d \in HubDevices \ (unmirrored \cup silenced) :
      /\ d \in HubPrinters /\ registered[d] # Gone =>
           agentRuns[d] = registered[d] /\ agentKeeps[d] = registered[d]
      /\ d \in HubScanners /\ registered[d] = Gone =>
           agentRuns[d] = Gone /\ agentKeeps[d] = Gone
==============================================================================

------------------------------ MODULE MCVenue ------------------------------
(***************************************************************************)
(* The screens used at the venue, model-checked one at a time: each        *)
(* behaviour stays on one screen, and every screen's own next-state        *)
(* relation is one disjunct of VenueNext.                                  *)
(***************************************************************************)
EXTENDS ScanStation, RecentScans, LaunchCeremony, KioskStation, KioskAgent,
        KioskEquipment, PrinterWizard, ScannerWizard, EquipmentHub

VARIABLE screen   \* the page on show; it stays on show for the whole behaviour

Screens == {"station", "rail", "launch", "kiosk", "kioskAgent", "equip", "test", "printer", "scanner", "hub"}

(* What is not on show does not move.                                      *)
Alone(s) ==
  /\ screen = s /\ UNCHANGED screen
  /\ s # "station" => UNCHANGED stationVars
  /\ s # "rail" => UNCHANGED railVars
  /\ s # "launch" => UNCHANGED launchVars
  /\ s # "kiosk" => UNCHANGED kioskVars
  /\ s # "kioskAgent" => UNCHANGED kagentVars
  /\ s # "equip" => UNCHANGED equipVars
  /\ s # "test" => UNCHANGED testVars
  /\ s # "printer" => UNCHANGED wizardVars
  /\ s # "scanner" => UNCHANGED scannerVars
  /\ s # "hub" => UNCHANGED hubVars

StationMoves   == Alone("station") /\ StationNext
RailMoves      == Alone("rail") /\ RailNext
LaunchMoves    == Alone("launch") /\ LaunchNext
KioskMoves     == Alone("kiosk") /\ KioskNext
KioskAgentMoves == Alone("kioskAgent") /\ KioskAgentNext
EquipMoves     == Alone("equip") /\ EquipNext
ScannerTestMoves == Alone("test") /\ ScannerTestNext
PrinterMoves   == Alone("printer") /\ WizardNext
ScannerMoves   == Alone("scanner") /\ ScannerNext
HubMoves       == Alone("hub") /\ HubNext

(* The pages that are not on show keep one of their initial states.        *)
VenueInit ==
  /\ screen \in Screens
  /\ StationInit /\ RailInit
  /\ LaunchInit /\ (screen # "launch" => \A e \in LaunchEvents : serverSettings[e] = DefaultValue)
  /\ KioskInit /\ (screen # "kiosk" => kioskPage = "run" /\ ~printOnCheckin /\ ~agentUp)
  /\ KioskAgentInit /\ (screen # "kioskAgent" => \A t \in BootTimes : bootLeft <= t)
  /\ KioskEquipmentInit
  /\ screen # "equip" => reachable = {} /\ \A a \in Agents : agentDefault[a] = NoPrinter
  /\ WizardInit /\ ScannerInit /\ HubInit

VenueNext ==
  \/ StationMoves \/ RailMoves \/ LaunchMoves \/ KioskMoves \/ KioskAgentMoves
  \/ EquipMoves \/ ScannerTestMoves \/ PrinterMoves \/ ScannerMoves \/ HubMoves

(* Each screen's own fairness, of its steps while it is on show.           *)
venueVars == <<screen, stationVars, railVars, launchVars, kioskVars, kagentVars, equipVars,
               testVars, wizardVars, scannerVars, hubVars>>

StationAnswers == Alone("station") /\ \E j \in submissions : FlowStep(j)
StationDismiss == Alone("station") /\ Dismiss
KioskAnswers   == Alone("kiosk") /\ \E j \in kioskJobs : KioskStep(j)
KioskTimer     == Alone("kiosk") /\ (KioskDismiss \/ SelfDismiss)
SupervisorTick == Alone("kioskAgent") /\ AgentTick
SupervisorBoot == Alone("kioskAgent") /\ AgentBoots
SupervisorWait == Alone("kioskAgent") /\ CooldownEnds
SupervisorPoll == Alone("kioskAgent") /\ HealthCheck

VenueSpec ==
  /\ VenueInit /\ [][VenueNext]_venueVars
  /\ WF_venueVars(StationAnswers) /\ WF_venueVars(StationDismiss)
  /\ WF_venueVars(KioskAnswers) /\ WF_venueVars(KioskTimer)
  /\ WF_venueVars(SupervisorTick) /\ WF_venueVars(SupervisorBoot) /\ WF_venueVars(SupervisorWait)
  /\ SF_venueVars(SupervisorPoll)

------------------------------------------------------------------------------
(* Every variable of every screen keeps to its type.                       *)
VenueTypeOK ==
  /\ StationTypeOK /\ RailTypeOK /\ LaunchTypeOK /\ KioskTypeOK /\ KioskAgentTypeOK
  /\ KioskEquipmentTypeOK /\ WizardTypeOK /\ ScannerTypeOK /\ HubTypeOK

(* On the agent's own screen, where time passes for it: AgentComesBack.    *)
SupervisorRecovers == screen = "kioskAgent" => AgentComesBack
=============================================================================

----------------------------- MODULE VenueProofs -----------------------------
(***************************************************************************)
(* Theorems about the screens used at the venue that have no proof module  *)
(* of their own: the recent-scans rail, the launch ceremony, the kiosk's   *)
(* agent and equipment page, the two set-up wizards and the equipment hub, *)
(* for every set of printers, devices and events and every bound.  The     *)
(* last section puts the screens together.                                 *)
(***************************************************************************)
EXTENDS MCVenue, ScanStationProofs, KioskStationProofs

------------------------------------------------------------------------------
(* RecentScans.                                                            *)

(* An open dialog has its row; a reprint in flight has its row, was        *)
(* confirmed, and is one badge short of its confirmations until the agent  *)
(* has printed, then one log row short of its badges.                      *)
RailControl ==
  /\ railDialog.kind # "none" => railDialog.who \in RailAttendees
  /\ reprint.step # "none" => reprint.who \in RailAttendees
RailBooks ==
  /\ PrintsAreConfirmed
  /\ reprint.step \in {"fetch", "print"} => printed[reprint.who] < confirmed[reprint.who]
  /\ reprint.step = "mark" => logged[reprint.who] < printed[reprint.who]
RailInv == RailTypeOK /\ RailControl /\ RailBooks

LEMMA RailStarts == RailInit => RailInv
<1> SUFFICES ASSUME RailInit
             PROVE  RailInv
  OBVIOUS
<1>1. {railOnline, railAgent, railFonts} \subseteq BOOLEAN
  BY Zenon DEF RailInit
<1>2. /\ railDialog \in [kind : {"none", "reprint", "undo"}, who : RailAttendees \cup {Unset}]
      /\ reprint \in [step : {"none", "fetch", "print", "mark"}, who : RailAttendees \cup {Unset},
                      printer : Printers \cup {Unset}]
      /\ railDialog.kind = "none" /\ reprint.step = "none"
  BY DEF RailInit, Closed, NoReprint
<1>3. /\ \A a \in RailAttendees : confirmed[a] = 0 /\ printed[a] = 0 /\ logged[a] = 0
      /\ \A count \in {confirmed, printed, logged} : count \in [RailAttendees -> 0..MaxConfirms]
  BY RailAssumption DEF RailInit
<1>4. /\ listed \subseteq Printers /\ railDefault \in Printers \cup {Unset}
      /\ railChoice \in Printers \cup {Unset} /\ undoPending \in RailAttendees \cup {Unset}
      /\ railNotice \in {"none", "sent", "warning"} /\ railTurns \in 0..MaxRailTurns
  BY RailAssumption DEF RailInit
<1> QED
  BY <1>1, <1>2, <1>3, <1>4 DEF RailInv, RailTypeOK, RailControl, RailBooks, PrintsAreConfirmed

(* The printer a dialog offers is one the agent listed.                    *)
LEMMA RailPrinters ==
  ASSUME RailTypeOK
  PROVE  /\ ConfiguredDefault \in Printers \cup {Unset}
         /\ DefaultPrinter \in Printers \cup {Unset}
         /\ TargetPrinter \in Printers \cup {Unset}
  BY DEF RailTypeOK, ConfiguredDefault, DefaultPrinter, TargetPrinter

(* The dialogs and what is around the rail.                                *)
LEMMA RailUiKeeps ==
  ASSUME RailInv,
         \/ \E a \in RailAttendees : OpenReprint(a) \/ OpenUndo(a)
         \/ \E p \in Printers : ChoosePrinter(p)
         \/ CloseReprint \/ CloseUndo \/ ConfirmUndo \/ UndoAnswers \/ NoticeExpires
         \/ ConnectivityTurns \/ RailFontsSettle
         \/ \E up \in BOOLEAN, printers \in SUBSET Printers, default \in Printers \cup {Unset} :
              AgentRefetched(up, printers, default)
  PROVE  RailInv'
<1> USE RailAssumption DEF RailInv, RailTypeOK
<1>1. UNCHANGED <<reprint, railCounts>>
  BY DEF OpenReprint, OpenUndo, ChoosePrinter, CloseReprint, CloseUndo, ConfirmUndo, UndoAnswers,
         NoticeExpires, ConnectivityTurns, RailFontsSettle, AgentRefetched, railCounts
<1>2. /\ {railOnline', railAgent', railFonts'} \subseteq BOOLEAN
      /\ listed' \subseteq Printers /\ railDefault' \in Printers \cup {Unset}
  BY DEF OpenReprint, OpenUndo, ChoosePrinter, CloseReprint, CloseUndo, ConfirmUndo, UndoAnswers,
         NoticeExpires, ConnectivityTurns, RailFontsSettle, AgentRefetched, railEnvVars
<1>3. ConfiguredDefault' \in Printers \cup {Unset} /\ DefaultPrinter' \in Printers \cup {Unset}
  BY <1>2 DEF ConfiguredDefault, DefaultPrinter
<1>4. /\ railDialog' \in [kind : {"none", "reprint", "undo"}, who : RailAttendees \cup {Unset}]
      /\ railDialog'.kind # "none" => railDialog'.who \in RailAttendees
  BY DEF OpenReprint, OpenUndo, ChoosePrinter, CloseReprint, CloseUndo, ConfirmUndo, UndoAnswers,
         NoticeExpires, ConnectivityTurns, RailFontsSettle, AgentRefetched, Closed, railUiVars,
         RailControl
<1>5. railChoice' \in Printers \cup {Unset}
  BY <1>3 DEF OpenReprint, OpenUndo, ChoosePrinter, CloseReprint, CloseUndo, ConfirmUndo, UndoAnswers,
         NoticeExpires, ConnectivityTurns, RailFontsSettle, AgentRefetched, ChoiceEffect, railUiVars
<1>6. undoPending' \in RailAttendees \cup {Unset} /\ railNotice' \in {"none", "sent", "warning"}
      /\ railTurns' \in 0..MaxRailTurns
  BY DEF OpenReprint, OpenUndo, ChoosePrinter, CloseReprint, CloseUndo, ConfirmUndo, UndoAnswers,
         NoticeExpires, ConnectivityTurns, RailFontsSettle, AgentRefetched, railUiVars, RailTurn,
         RailControl
<1> QED
  BY <1>1, <1>2, <1>4, <1>5, <1>6 DEF RailControl, RailBooks, PrintsAreConfirmed, railCounts

(* A confirmed reprint, to its end.                                        *)
LEMMA ReprintStepKeeps ==
  ASSUME RailInv, ConfirmReprint \/ FetchAnswers \/ PrintAnswers \/ MarkPrinted
  PROVE  RailInv'
<1> DEFINE Steps == {"none", "fetch", "print", "mark"}
<1> DEFINE Reprints == [step : Steps, who : RailAttendees \cup {Unset}, printer : Printers \cup {Unset}]
<1>0. /\ RailTypeOK /\ RailControl /\ RailBooks /\ reprint \in Reprints
      /\ confirmed \in [RailAttendees -> 0..MaxConfirms] /\ printed \in [RailAttendees -> 0..MaxConfirms]
      /\ logged \in [RailAttendees -> 0..MaxConfirms] /\ MaxConfirms \in Nat
  BY RailAssumption DEF RailInv, RailTypeOK
<1>1. CASE ConfirmReprint
  <2>1. PICK a \in RailAttendees :
          /\ a = railDialog.who /\ confirmed[a] < MaxConfirms
          /\ confirmed' = [confirmed EXCEPT ![a] = confirmed[a] + 1]
          /\ reprint' = [step |-> "fetch", who |-> a, printer |-> TargetPrinter]
    BY <1>0, <1>1 DEF ConfirmReprint, Confirm, RailControl
  <2>2. UNCHANGED <<railEnvVars, railUiVars, undoPending, printed, logged, railTurns>>
    BY <1>1 DEF ConfirmReprint
  <2>3. confirmed' \in [RailAttendees -> 0..MaxConfirms] /\ reprint' \in Reprints
    BY <1>0, <2>1, RailPrinters
  <2>4. printed[a] < confirmed'[a] /\ \A b \in RailAttendees : confirmed[b] <= confirmed'[b]
    BY <1>0, <2>1 DEF RailBooks, PrintsAreConfirmed
  <2> QED
    BY <1>0, <2>1, <2>2, <2>3, <2>4
       DEF RailInv, RailTypeOK, RailControl, RailBooks, PrintsAreConfirmed, railEnvVars, railUiVars
<1>2. ASSUME reprint' = NoReprint, UNCHANGED <<railEnvVars, railUiVars, undoPending, confirmed, logged, railTurns>>,
             UNCHANGED printed
      PROVE  RailInv'
  BY <1>0, <1>2 DEF NoReprint, RailInv, RailTypeOK, RailControl, RailBooks, PrintsAreConfirmed,
                    railEnvVars, railUiVars
<1>3. CASE FetchAnswers
  <2>1. CASE reprint' = [reprint EXCEPT !.step = "print"]
    <3>1. UNCHANGED <<railEnvVars, railUiVars, undoPending, railCounts, railTurns>>
      BY <1>0, <1>3, <2>1 DEF FetchAnswers, ReprintFails, NoReprint, railCounts
    <3>2. reprint.step = "fetch" /\ reprint' \in Reprints /\ reprint'.step = "print" /\ reprint'.who = reprint.who
      BY <1>0, <1>3, <2>1 DEF FetchAnswers
    <3> QED
      BY <1>0, <3>1, <3>2 DEF RailInv, RailTypeOK, RailControl, RailBooks, PrintsAreConfirmed,
                              railEnvVars, railUiVars, railCounts
  <2> QED
    BY <1>2, <1>3, <2>1 DEF FetchAnswers, ReprintFails
<1>4. CASE PrintAnswers
  <2>0. reprint.step = "print" /\ reprint.who \in RailAttendees
    BY <1>0, <1>4 DEF PrintAnswers, RailControl
  <2>1. CASE printed' # printed
    <3>1. printed' = [printed EXCEPT ![reprint.who] = printed[reprint.who] + 1]
      BY <1>4, <2>1 DEF PrintAnswers
    <3>2. /\ printed[reprint.who] < confirmed[reprint.who]
          /\ printed' \in [RailAttendees -> 0..MaxConfirms]
          /\ \A b \in RailAttendees : logged[b] <= printed'[b] /\ printed'[b] <= confirmed[b]
          /\ logged[reprint.who] < printed'[reprint.who]
      BY <1>0, <2>0, <3>1 DEF RailBooks, PrintsAreConfirmed
    <3>3. UNCHANGED <<railEnvVars, railUiVars, undoPending, confirmed, logged, railTurns>>
      BY <1>4, <2>1 DEF PrintAnswers, ReprintFails
    <3>4. reprint' = [reprint EXCEPT !.step = "mark"] \/ reprint' = NoReprint
      BY <1>4, <2>1 DEF PrintAnswers, ReprintFails
    <3>5. reprint' \in Reprints /\ (reprint'.step # "none" => reprint'.step = "mark" /\ reprint'.who = reprint.who)
      BY <1>0, <3>4 DEF NoReprint
    <3> QED
      BY <1>0, <2>0, <3>2, <3>3, <3>5
         DEF RailInv, RailTypeOK, RailControl, RailBooks, PrintsAreConfirmed, railEnvVars, railUiVars
  <2>2. CASE printed' = printed
    <3>1. \A n \in 0..MaxConfirms : n + 1 # n
      BY <1>0
    <3>2. [printed EXCEPT ![reprint.who] = printed[reprint.who] + 1] # printed
      BY <1>0, <2>0, <3>1
    <3>3. ReprintFails
      BY <1>4, <2>2, <3>2 DEF PrintAnswers
    <3> QED
      BY <1>2, <2>2, <3>3 DEF ReprintFails
  <2> QED
    BY <2>1, <2>2
<1>5. CASE MarkPrinted
  <2>0. /\ reprint.step = "mark" /\ reprint.who \in RailAttendees /\ reprint' = NoReprint
        /\ railDialog' = Closed /\ railNotice' \in {"sent", "warning"}
        /\ logged' = logged \/ logged' = [logged EXCEPT ![reprint.who] = logged[reprint.who] + 1]
        /\ UNCHANGED <<railEnvVars, railChoice, undoPending, confirmed, printed, railTurns>>
    BY <1>0, <1>5 DEF MarkPrinted, RailControl
  <2>1. /\ logged' \in [RailAttendees -> 0..MaxConfirms]
        /\ \A b \in RailAttendees : logged'[b] <= printed[b]
    BY <1>0, <2>0 DEF RailBooks, PrintsAreConfirmed
  <2> QED
    BY <1>0, <2>0, <2>1 DEF NoReprint, Closed, RailInv, RailTypeOK, RailControl, RailBooks,
                            PrintsAreConfirmed, railEnvVars
<1> QED
  BY <1>1, <1>3, <1>4, <1>5

(* The invariant of the recent scans rail, inductive: no attendee has more *)
(* badges printed than reprints confirmed, or more logged than printed,    *)
(* and a reprint under way has one of each still to come.                  *)
THEOREM RailInvariance == RailSpec => []RailInv
<1>1. RailInv /\ UNCHANGED railVars => RailInv'
  BY DEF RailInv, RailTypeOK, RailControl, RailBooks, PrintsAreConfirmed, railVars, railEnvVars,
         railUiVars, railCounts
<1>2. RailInv /\ [RailNext]_railVars => RailInv'
  BY <1>1, RailUiKeeps, ReprintStepKeeps DEF RailNext
<1> QED
  BY RailStarts, <1>2, PTL DEF RailSpec

(* Whatever is refused, lost or answered late, a badge is printed at most  *)
(* once for a confirmed reprint and is logged at most once.                *)
THEOREM ReprintsWereConfirmed == RailSpec => []PrintsAreConfirmed
<1>1. RailInv => PrintsAreConfirmed
  BY DEF RailInv, RailBooks
<1> QED
  BY <1>1, RailInvariance, PTL

------------------------------------------------------------------------------
(* LaunchCeremony.                                                         *)

(* While the ceremony is on, settings that are there have been put into    *)
(* the form: the seeding effect runs in the render that shows them.        *)
SeededWhenReady == InCeremony /\ SettingsReady => seededFor = launchEvent

CeremonyInv == LaunchTypeOK /\ SeededWhenReady /\ SavesOwnForm

LEMMA CeremonyInit == LaunchInit => CeremonyInv
<1> SUFFICES ASSUME LaunchInit PROVE CeremonyInv
  OBVIOUS
<1>1. launchEvent \in LaunchEvents
  BY LaunchAssumption DEF LaunchInit
<1>2. LaunchTypeOK
  BY <1>1, LaunchAssumption DEF LaunchInit, LaunchTypeOK
<1>3. SeededWhenReady /\ SavesOwnForm
  BY <1>1 DEF LaunchInit, SeededWhenReady, SettingsReady, SavesOwnForm
<1> QED
  BY <1>2, <1>3 DEF CeremonyInv

(* The effect leaves the form well typed and seeded for what is shown.     *)
LEMMA SeedEffectSeeds ==
  ASSUME NEW form \in SettingValues, NEW baseline \in SettingValues, SeedEffect(form, baseline),
         launchEvent' \in LaunchEvents, seededFor \in LaunchEvents \cup {NoEvent},
         settingsCache' \in [LaunchEvents -> SettingValues \cup {NotLoaded}]
  PROVE  /\ {settingsForm', settingsBaseline'} \subseteq SettingValues
         /\ seededFor' \in LaunchEvents \cup {NoEvent}
         /\ settingsCache'[launchEvent'] # NotLoaded => seededFor' = launchEvent'
  BY DEF SeedEffect

(* The steps that render the ceremony anew.                                *)
LEMMA RenderKeeps ==
  ASSUME CeremonyInv,
         \/ SettingsFetched
         \/ \E p \in settingsPuts : SaveAnswers(p)
         \/ \E e \in LaunchEvents : MoveCeremony(e)
  PROVE  CeremonyInv'
<1> USE DEF CeremonyInv, LaunchTypeOK
<1>1. /\ launchEvent' \in LaunchEvents /\ UNCHANGED started
      /\ settingsCache' \in [LaunchEvents -> SettingValues \cup {NotLoaded}]
  <2>1. CASE SettingsFetched
    BY <2>1 DEF SettingsFetched
  <2>2. CASE \E p \in settingsPuts : SaveAnswers(p)
    BY <2>2 DEF SaveAnswers, SettingsPut
  <2>3. CASE \E e \in LaunchEvents : MoveCeremony(e)
    BY <2>3 DEF MoveCeremony
  <2> QED
    BY <2>1, <2>2, <2>3
<1>2. /\ {settingsForm', settingsBaseline'} \subseteq SettingValues
      /\ seededFor' \in LaunchEvents \cup {NoEvent}
      /\ SeededWhenReady'
  <2>1. CASE UNCHANGED formVars /\ ~InCeremony
    BY <1>1, <2>1 DEF formVars, InCeremony, SeededWhenReady
  <2>2. CASE \E form, baseline \in SettingValues : SeedEffect(form, baseline)
    BY <1>1, <2>2, SeedEffectSeeds DEF SeededWhenReady, SettingsReady
  <2>3. \A p \in settingsPuts : p.value \in SettingValues
    BY DEF SettingsPut
  <2> QED
    BY <2>1, <2>2, <2>3 DEF SettingsFetched, SaveAnswers, MoveCeremony
<1>3. settingsPuts' \subseteq SettingsPut /\ SavesOwnForm'
  <2>1. CASE settingsPuts' \subseteq settingsPuts
    BY <2>1 DEF SavesOwnForm
  <2>2. ASSUME NEW e \in LaunchEvents, MoveCeremony(e) PROVE settingsPuts' \subseteq SettingsPut /\ SavesOwnForm'
    <3>1. \A p \in settingsPuts : /\ [p EXCEPT !.seeds = e] \in SettingsPut
                                  /\ [p EXCEPT !.seeds = e].seeded = p.seeded
                                  /\ [p EXCEPT !.seeds = e].event = p.event
      BY DEF SettingsPut
    <3>2. \A q \in settingsPuts' : \E p \in settingsPuts : q = p \/ q = [p EXCEPT !.seeds = e]
      BY <2>2 DEF MoveCeremony
    <3>3. \A q \in settingsPuts' : q \in SettingsPut /\ q.seeded = q.event
      <4> TAKE q \in settingsPuts'
      <4>1. PICK p \in settingsPuts : q = p \/ q = [p EXCEPT !.seeds = e]
        BY <3>2
      <4>2. p \in SettingsPut /\ p.seeded = p.event
        BY DEF SavesOwnForm
      <4> QED
        BY <3>1, <4>1, <4>2
    <3> QED
      BY <3>3 DEF SavesOwnForm
  <2> QED
    BY <2>1, <2>2 DEF SettingsFetched, SaveAnswers
<1>4. /\ serverSettings' \in [LaunchEvents -> SettingValues]
      /\ {observed', settingsSent'} \subseteq 0..MaxSaves
      /\ registering' \in LaunchEvents \cup {NoEvent} /\ started' \in LaunchEvents \cup {NoEvent}
      /\ launchTurns' \in 0..MaxLaunchTurns
  BY LaunchAssumption DEF SettingsFetched, SaveAnswers, MoveCeremony, LaunchTurn
<1> QED
  BY <1>1, <1>2, <1>3, <1>4

(* The other steps leave what was seeded as it was.                        *)
LEMMA OtherStepsKeep ==
  ASSUME CeremonyInv, [LaunchNext]_launchVars, ~SettingsFetched,
         ~\E p \in settingsPuts : SaveAnswers(p), ~\E e \in LaunchEvents : MoveCeremony(e)
  PROVE  CeremonyInv'
<1> USE LaunchAssumption DEF CeremonyInv, LaunchTypeOK, launchVars, formVars
<1>1. CASE SaveSettings
  <2> DEFINE new == [id |-> settingsSent + 1, event |-> launchEvent, value |-> settingsForm,
                     seeded |-> seededFor, seeds |-> launchEvent, stored |-> FALSE]
  <2>1. settingsSent + 1 \in 0..MaxSaves /\ settingsSent + 1 \in 1..MaxSaves
    BY <1>1 DEF SaveSettings
  <2>2. seededFor = launchEvent
    BY <1>1 DEF SaveSettings, SeededWhenReady
  <2>3. new \in SettingsPut /\ new.seeded = new.event
    BY <2>1, <2>2 DEF SettingsPut
  <2>4. settingsPuts' = settingsPuts \cup {new} /\ {observed', settingsSent'} \subseteq 0..MaxSaves
    BY <1>1, <2>1 DEF SaveSettings
  <2>5. SavesOwnForm' /\ settingsPuts' \subseteq SettingsPut
    BY <2>3, <2>4 DEF SavesOwnForm
  <2>6. UNCHANGED <<launchEvent, formVars, settingsCache, serverSettings, registering, started,
                    launchTurns>>
    BY <1>1 DEF SaveSettings
  <2> QED
    BY <2>4, <2>5, <2>6 DEF SeededWhenReady, SettingsReady, InCeremony
<1>2. ASSUME NEW p \in settingsPuts, SettingsStored(p) PROVE CeremonyInv'
  <2>1. /\ [p EXCEPT !.stored = TRUE] \in SettingsPut /\ p.value \in SettingValues
        /\ [p EXCEPT !.stored = TRUE].seeded = p.seeded /\ [p EXCEPT !.stored = TRUE].event = p.event
    BY DEF SettingsPut
  <2> QED
    BY <1>2, <2>1 DEF SettingsStored, SavesOwnForm, SeededWhenReady, SettingsReady, InCeremony
<1>3. ASSUME NEW p \in settingsPuts, SaveFails(p) PROVE CeremonyInv'
  BY <1>3 DEF SaveFails, LaunchTurn, SavesOwnForm, SeededWhenReady, SettingsReady, InCeremony
<1>4. ASSUME NEW v \in SettingValues, UpdateSetting(v) PROVE CeremonyInv'
  BY <1>4 DEF UpdateSetting, LaunchTurn, SavesOwnForm, SeededWhenReady, SettingsReady, InCeremony
<1>5. CASE Start \/ StationRegistered \/ RegisterFails
  BY <1>5 DEF Start, StationRegistered, RegisterFails, LaunchTurn, SavesOwnForm, SeededWhenReady,
              SettingsReady, InCeremony
<1>6. ASSUME NEW e \in LaunchEvents, NEW v \in SettingValues, OtherSavesSettings(e, v) PROVE CeremonyInv'
  BY <1>6 DEF OtherSavesSettings, LaunchTurn, SavesOwnForm, SeededWhenReady, SettingsReady, InCeremony
<1>7. CASE UNCHANGED launchVars
  BY <1>7 DEF SavesOwnForm, SeededWhenReady, SettingsReady, InCeremony
<1> QED
  BY <1>1, <1>2, <1>3, <1>4, <1>5, <1>6, <1>7 DEF LaunchNext

(* In every behaviour of the ceremony the settings it saves are typed, and *)
(* a form that can be saved was seeded for the event on the screen.        *)
THEOREM CeremonyInvariance == LaunchSpec => []CeremonyInv
<1>1. CeremonyInv /\ [LaunchNext]_launchVars => CeremonyInv'
  BY RenderKeeps, OtherStepsKeep
<1> QED
  BY CeremonyInit, <1>1, PTL DEF LaunchSpec

(* However slow the settings are and however the tab moves between events, *)
(* the ceremony never saves a form that was not filled from the settings   *)
(* of the event it saves to.                                               *)
THEOREM NoForeignSave == LaunchSpec => []SavesOwnForm
<1>1. CeremonyInv => SavesOwnForm
  BY DEF CeremonyInv
<1> QED
  BY CeremonyInvariance, <1>1, PTL

------------------------------------------------------------------------------
(* KioskAgent.                                                             *)

(* The supervisor's counter stops at the threshold: from there on it is    *)
(* recovering.                                                             *)
SupervisorInv == KioskAgentTypeOK /\ (~supRecovering => supFailures < Threshold)

LEMMA SupervisorStarts == KioskAgentInit => SupervisorInv
<1> SUFFICES ASSUME KioskAgentInit
             PROVE  SupervisorInv
  OBVIOUS
<1>1. tracked \in BOOLEAN /\ supRecovering \in BOOLEAN
  BY Zenon DEF KioskAgentInit
<1>2. /\ supFailures \in 0..Threshold /\ supFailures < Threshold
      /\ cooldown \in 0..NoCooldown /\ backoff \in InitialBackoff..MaxBackoff
      /\ breaks \in 0..MaxBreaks /\ switches \in 0..MaxSwitches /\ bootLeft \in Nat
  BY SupervisorAssumption DEF KioskAgentInit, NoCooldown
<1> QED
  BY <1>1, <1>2 DEF KioskAgentInit, SupervisorInv, KioskAgentTypeOK

LEMMA SupervisorKeeps == SupervisorInv /\ [KioskAgentNext]_kagentVars => SupervisorInv'
<1> SUFFICES ASSUME SupervisorInv, [KioskAgentNext]_kagentVars
             PROVE  SupervisorInv'
  OBVIOUS
<1> USE SupervisorAssumption DEF SupervisorInv, KioskAgentTypeOK
<1>1. CASE AgentTick
  BY <1>1 DEF AgentTick, NoCooldown, CooldownActive, CooldownDue, BootDone
<1>2. CASE AgentBoots \/ AgentBreaks
  BY <1>2 DEF AgentBoots, AgentBreaks, procVars, supVars
<1>3. ASSUME NEW healthy \in BOOLEAN, NEW was \in 0..NoCooldown, Evaluate(healthy, was),
             UNCHANGED <<agentMode, breaks, switches>>
      PROVE  SupervisorInv'
  <2>1. CASE healthy
    <3>1. supRecovering' \in BOOLEAN
      BY <1>3, <2>1, Zenon DEF Evaluate
    <3>2. supFailures' \in 0..Threshold /\ supFailures' < Threshold
      BY <1>3, <2>1 DEF Evaluate
    <3>3. cooldown' \in 0..NoCooldown /\ backoff' \in InitialBackoff..MaxBackoff
      BY <1>3, <2>1 DEF Evaluate, NoCooldown
    <3>4. UNCHANGED procVars
      BY <1>3, <2>1, Zenon DEF Evaluate
    <3> QED
      BY <1>3, <3>1, <3>2, <3>3, <3>4 DEF procVars
  <2>2. CASE ~healthy
    <3> DEFINE failures == IF supRecovering THEN supFailures ELSE supFailures + 1
    <3>0. supFailures' = failures /\ supRecovering' = (supRecovering \/ failures >= Threshold)
      BY <1>3, <2>2, Zenon DEF Evaluate
    <3>1. /\ supFailures' \in 0..Threshold /\ supRecovering' \in BOOLEAN
          /\ ~supRecovering' => supFailures' < Threshold
      <4>1. CASE supRecovering
        BY <3>0, <4>1
      <4>2. CASE ~supRecovering
        <5>1. supFailures' = supFailures + 1 /\ supFailures < Threshold
          BY <3>0, <4>2
        <5>2. supRecovering' \in BOOLEAN
          BY <3>0, Zenon
        <5>3. ~supRecovering' => ~(supFailures + 1 >= Threshold)
          BY <3>0, <4>2
        <5> QED
          BY <5>1, <5>2, <5>3
      <4> QED
        BY <4>1, <4>2
    <3>2. cooldown' \in 0..NoCooldown /\ backoff' \in InitialBackoff..MaxBackoff
      BY <1>3, <2>2 DEF Evaluate, NoCooldown
    <3>3. tracked' \in BOOLEAN /\ proc' \in {"none", "booting", "up", "hung"} /\ bootLeft' \in Nat
      BY <1>3, <2>2 DEF Evaluate, RestartAgent, Spawned, procVars
    <3> QED
      BY <1>3, <3>1, <3>2, <3>3
  <2> QED
    BY <2>1, <2>2
<1>4. CASE HealthCheck
  BY <1>3, <1>4 DEF HealthCheck, procVars, supVars
<1>5. CASE CooldownEnds
  <2> DEFINE next == IF backoff * 2 < MaxBackoff THEN backoff * 2 ELSE MaxBackoff
  <2>1. next \in InitialBackoff..MaxBackoff /\ next \in 0..NoCooldown /\ NoCooldown \in 0..NoCooldown
    BY DEF NoCooldown
  <2>2. CASE agentMode = "embedded" /\ proc = "up"
    BY <1>3, <1>5, <2>1, <2>2 DEF CooldownEnds
  <2> QED
    BY <1>5, <2>1, <2>2 DEF CooldownEnds, RestartAgent, Spawned, procVars
<1>6. CASE SwitchMode
  <2>1. UNCHANGED <<supVars, breaks>> /\ switches' \in 0..MaxSwitches
    BY <1>6 DEF SwitchMode
  <2>2. /\ agentMode' \in {"embedded", "external"}
        /\ proc' \in {"none", "booting", "up", "hung"}
    BY <1>6 DEF SwitchMode, Spawned, procVars
  <2>4. bootLeft' \in Nat
    <3>1. CASE agentMode = "embedded"
      BY <1>6, <3>1 DEF SwitchMode
    <3>2. CASE agentMode # "embedded" /\ tracked
      BY <1>6, <3>2 DEF SwitchMode, procVars
    <3>3. CASE agentMode # "embedded" /\ ~tracked
      BY <1>6, <3>3 DEF SwitchMode, Spawned
    <3> QED
      BY <3>1, <3>2, <3>3
  <2>3. tracked' \in BOOLEAN
    BY <1>6 DEF SwitchMode, Spawned, procVars
  <2> QED
    BY <2>1, <2>2, <2>3, <2>4 DEF supVars
<1>7. CASE UNCHANGED kagentVars
  BY <1>7 DEF kagentVars, procVars, supVars
<1> QED
  BY <1>1, <1>2, <1>4, <1>5, <1>6, <1>7 DEF KioskAgentNext

(* For any threshold and any backoff: the count of failed checks never     *)
(* passes the threshold, and no cooldown is longer than the longest, which *)
(* is what lets a slow agent boot.                                         *)
THEOREM SupervisorTypeCorrect == KioskAgentSpec => []KioskAgentTypeOK
<1>1. SupervisorInv => KioskAgentTypeOK
  BY DEF SupervisorInv
<1> QED
  BY SupervisorStarts, SupervisorKeeps, <1>1, PTL DEF KioskAgentSpec

------------------------------------------------------------------------------
(* KioskEquipment.                                                         *)

EquipPageTypeOK ==
  /\ selected \in Agents /\ reachable \subseteq Agents /\ agentDefault \in [Agents -> Names]
  /\ equip \in [loading : BOOLEAN, connected : BOOLEAN, of : Agents \cup {Unknown}, default : Names]
  /\ equipCalls \subseteq EquipCall /\ equipSent \in 0..MaxEquipCalls

(* A test that waits has a number.                                         *)
ScannerTestInv ==
  /\ test \in [id : 0..MaxTests, result : {"idle", "waiting", "success", "timeout"}]
  /\ testTimer \in BOOLEAN
  /\ testPolls \subseteq [for : 1..MaxTests, answer : 0..MaxTests]
  /\ lastScan \in 0..MaxTests
  /\ test.result = "waiting" => test.id \in 1..MaxTests
  /\ TestCanEnd

LEMMA EquipStarts == KioskEquipmentInit => EquipPageTypeOK /\ ScannerTestInv
<1> SUFFICES ASSUME KioskEquipmentInit
             PROVE  EquipPageTypeOK /\ ScannerTestInv
  OBVIOUS
<1>1. FirstCall \in EquipCall
  BY EquipmentAssumption DEF EquipCall, FirstCall, Names, Agents
<1>2. EquipPageTypeOK
  BY <1>1, EquipmentAssumption DEF KioskEquipmentInit, EquipPageTypeOK, Names, Agents
<1>3. testTimer \in BOOLEAN /\ TestCanEnd
  BY DEF KioskEquipmentInit, TestCanEnd
<1>4. ScannerTestInv
  BY <1>3, EquipmentAssumption DEF KioskEquipmentInit, ScannerTestInv
<1> QED
  BY <1>2, <1>4

LEMMA EquipPageKeeps == EquipPageTypeOK /\ [EquipNext]_equipVars => EquipPageTypeOK'
<1> SUFFICES ASSUME EquipPageTypeOK, [EquipNext]_equipVars
             PROVE  EquipPageTypeOK'
  OBVIOUS
<1> USE EquipmentAssumption DEF EquipPageTypeOK
<1>1. ASSUME NEW kind \in {"connect", "refresh", "default"}, NEW step \in {"health", "lists"},
             NEW name \in Names, selected' \in Agents, EquipSend(kind, step, name)
      PROVE  equipCalls' \subseteq EquipCall /\ equipSent' \in 0..MaxEquipCalls
  BY <1>1 DEF EquipSend, EquipCall
<1>2. ASSUME NEW mode \in Agents, Reconnect(mode) PROVE EquipPageTypeOK'
  <2>1. equipCalls' \subseteq EquipCall /\ equipSent' \in 0..MaxEquipCalls
    BY <1>1, <1>2 DEF Reconnect, Names
  <2> QED
    BY <1>2, <2>1 DEF Reconnect
<1>3. CASE SwitchAgentMode \/ SaveExternalConfig
  BY <1>2, <1>3 DEF SwitchAgentMode, SaveExternalConfig, Agents
<1>4. CASE EditThenRefresh \/ \E name \in PrinterNames : SetDefaultPrinter(name)
  <2>1. equipCalls' \subseteq EquipCall /\ equipSent' \in 0..MaxEquipCalls
    BY <1>1, <1>4 DEF EditThenRefresh, SetDefaultPrinter, Names
  <2> QED
    BY <1>4, <2>1 DEF EditThenRefresh, SetDefaultPrinter
<1>5. ASSUME NEW k \in equipCalls, EquipStep(k) PROVE EquipPageTypeOK'
  <2>1. k \in EquipCall /\ UNCHANGED <<selected, reachable, equipSent>>
    BY <1>5 DEF EquipStep
  <2>2. CASE HealthAnswers(k)
    <3>1. [k EXCEPT !.step = "lists", !.to = selected] \in EquipCall
      BY <2>1 DEF EquipCall
    <3>2. equipCalls' \subseteq EquipCall
      BY <2>2, <3>1 DEF HealthAnswers, Ends
    <3>3. equip' \in [loading : BOOLEAN, connected : BOOLEAN, of : Agents \cup {Unknown}, default : Names]
      BY <2>2 DEF HealthAnswers, Emptied, Names
    <3> QED
      BY <2>1, <2>2, <3>2, <3>3 DEF HealthAnswers
  <2>3. CASE AgentServes(k)
    <3>1. agentDefault[k.to] \in Names /\ k.name \in Names
      BY <2>1 DEF EquipCall
    <3>2. [k EXCEPT !.step = "answer", !.name = IF k.kind = "default" THEN k.name ELSE agentDefault[k.to]]
            \in EquipCall
      BY <2>1, <3>1 DEF EquipCall
    <3>3. equipCalls' \subseteq EquipCall
      BY <2>3, <3>2 DEF AgentServes
    <3>4. agentDefault' \in [Agents -> Names]
      BY <2>3, <3>1 DEF AgentServes
    <3> QED
      BY <2>1, <2>3, <3>3, <3>4 DEF AgentServes
  <2>4. CASE ListsAnswer(k)
    BY <2>1, <2>4 DEF ListsAnswer, EquipCall, Ends
  <2>5. CASE ListsFail(k)
    BY <2>1, <2>5 DEF ListsFail, EquipCall, Emptied, Ends, Names
  <2> QED
    BY <1>5, <2>2, <2>3, <2>4, <2>5 DEF EquipStep
<1>6. ASSUME NEW a \in Agents, AgentReachable(a) PROVE EquipPageTypeOK'
  BY <1>6 DEF AgentReachable
<1>7. CASE UNCHANGED equipVars
  BY <1>7 DEF equipVars
<1> QED
  BY <1>3, <1>4, <1>5, <1>6, <1>7 DEF EquipNext

LEMMA ScannerTestKeeps == ScannerTestInv /\ [ScannerTestNext]_testVars => ScannerTestInv'
<1> SUFFICES ASSUME ScannerTestInv, [ScannerTestNext]_testVars
             PROVE  ScannerTestInv'
  OBVIOUS
<1> USE EquipmentAssumption DEF ScannerTestInv, TestCanEnd, TestOnScreen
<1>1. CASE StartScannerTest
  BY <1>1 DEF StartScannerTest
<1>2. CASE TestPoll
  BY <1>2 DEF TestPoll
<1>3. CASE TestTimesOut \/ EndScannerTest
  BY <1>3 DEF TestTimesOut, EndScannerTest
<1>4. CASE ScanTestCode
  BY <1>4 DEF ScanTestCode
<1>5. ASSUME NEW p \in testPolls, TestPollAnswers(p) PROVE ScannerTestInv'
  BY <1>5 DEF TestPollAnswers
<1>6. CASE UNCHANGED testVars
  BY <1>6 DEF testVars
<1> QED
  BY <1>1, <1>2, <1>3, <1>4, <1>5, <1>6 DEF ScannerTestNext

(* Whatever polls of earlier tests still come back, a scanner test waits   *)
(* exactly while its timer is armed, so it always ends.                    *)
THEOREM TestsEnd == KioskEquipmentSpec => [](KioskEquipmentTypeOK /\ TestCanEnd)
<1>1. EquipPageTypeOK /\ ScannerTestInv => KioskEquipmentTypeOK /\ TestCanEnd
  BY DEF EquipPageTypeOK, ScannerTestInv, KioskEquipmentTypeOK
<1> QED
  BY EquipStarts, EquipPageKeeps, ScannerTestKeeps, <1>1, PTL DEF KioskEquipmentSpec

------------------------------------------------------------------------------
(* ScannerWizard.                                                          *)

(* A request of the page's is out only while the page listens; once the    *)
(* first consume is thrown away, the buffer holds nothing older than the   *)
(* listening period.                                                       *)
PollOwned == comPoll = "asked" => ComListening
BufferFresh == discarded /\ ComListening => comBuffer \in {0, listening}
ListenInv == ScannerTypeOK /\ PollOwned /\ BufferFresh /\ ScanIsFresh

LEMMA ListenStarts == ScannerInit => ListenInv
<1> SUFFICES ASSUME ScannerInit
             PROVE  ListenInv
  OBVIOUS
<1>1. {swPort, discarded, scanAgentUp, burstTimer, detection, stampFired} \subseteq BOOLEAN
  BY Zenon DEF ScannerInit
<1>2. /\ {comCode, comBuffer} \subseteq 0..Unheard
      /\ listening \in 0..MaxListens /\ burst \in 0..MinChars /\ comStray \in Nat
  BY ScannerAssumption DEF ScannerInit, Unheard
<1> QED
  BY <1>1, <1>2 DEF ScannerInit, ListenInv, ScannerTypeOK, PollOwned, BufferFresh, ScanIsFresh

(* The cleanup and the start of the poll effect, in a render that keeps    *)
(* the code on screen or forgets it.                                       *)
LEMMA PollEffectKeeps ==
  ASSUME ListenInv, PollEffect, comCode' \in {0, comCode}, UNCHANGED comBuffer
  PROVE  /\ comStray' \in Nat /\ listening' \in 0..MaxListens /\ discarded' \in BOOLEAN
         /\ comPoll' \in {"idle", "asked"} /\ {comCode', comBuffer'} \subseteq 0..Unheard
         /\ PollOwned' /\ BufferFresh' /\ ScanIsFresh'
<1> USE ScannerAssumption DEF ListenInv, ScannerTypeOK
<1>1. discarded' \in BOOLEAN /\ (discarded' => discarded /\ ComListening /\ ComListening')
  BY Zenon DEF PollEffect
<1>2. comPoll' \in {"idle", "asked"} /\ PollOwned'
  BY DEF PollEffect, PollOwned
<1>3. /\ comStray' \in Nat /\ listening' \in 0..MaxListens
      /\ ComListening \/ ~ComListening' => listening' = listening
  BY DEF PollEffect
<1>4. BufferFresh'
  BY <1>1, <1>3 DEF BufferFresh
<1>5. ScanIsFresh'
  BY <1>3 DEF ScanIsFresh, ComListening
<1>6. {comCode', comBuffer'} \subseteq 0..Unheard
  BY DEF Unheard
<1> QED
  BY <1>1, <1>2, <1>3, <1>4, <1>5, <1>6

(* The steps of the page that may start or stop listening.                 *)
LEMMA RenderListens ==
  ASSUME ListenInv, PollEffect, comCode' \in {0, comCode}, UNCHANGED agentSide,
         swMode' \in {"closed", "create", "retest"}, swKind' \in {"wedge", "com"},
         {swPort', detection', stampFired', burstTimer'} \subseteq BOOLEAN,
         scannerCall' \in {"none", "port", "save", "stamp"}, burst' \in 0..MinChars
  PROVE  ListenInv'
<1>1. /\ comStray' \in Nat /\ listening' \in 0..MaxListens /\ discarded' \in BOOLEAN
      /\ comPoll' \in {"idle", "asked"} /\ {comCode', comBuffer'} \subseteq 0..Unheard
      /\ PollOwned' /\ BufferFresh' /\ ScanIsFresh'
  BY PollEffectKeeps DEF agentSide
<1>2. scanAgentUp' \in BOOLEAN
  BY DEF ListenInv, ScannerTypeOK, agentSide
<1> QED
  BY <1>1, <1>2 DEF ListenInv, ScannerTypeOK

LEMMA PageListens ==
  ASSUME ListenInv,
         \/ \E m \in {"create", "retest"}, k \in {"wedge", "com"} : OpenScanner(m, k)
         \/ DismissScanner \/ PickPortAnswers \/ SaveScannerAnswers
         \/ ScanAgain
         \/ \E k \in {"wedge", "com"} : SetKind(k)
  PROVE  ListenInv'
<1> USE ScannerAssumption
<1>0. /\ ScannerTypeOK /\ FALSE \in BOOLEAN /\ TRUE \in BOOLEAN /\ 0 \in 0..MinChars
      /\ {swPort, discarded, scanAgentUp, burstTimer, detection, stampFired} \subseteq BOOLEAN
  BY DEF ListenInv, ScannerTypeOK
<1>1. ASSUME CloseScanner, scannerCall' \in {"none", "port", "save", "stamp"}
      PROVE  ListenInv'
  BY <1>0, <1>1, RenderListens DEF CloseScanner, StopWedge, ScannerTypeOK
<1>2. ASSUME NEW m \in {"create", "retest"}, NEW k \in {"wedge", "com"}, OpenScanner(m, k)
      PROVE  ListenInv'
  BY <1>0, <1>2, RenderListens DEF OpenScanner, StopWedge, ScannerTypeOK
<1>3. CASE DismissScanner
  BY <1>1, <1>3 DEF DismissScanner
<1>4. CASE PickPortAnswers
  BY <1>0, <1>4, RenderListens DEF PickPortAnswers, ScannerTypeOK, wedgeVars
<1>5. CASE SaveScannerAnswers
  <2>1. CASE CloseScanner
    BY <1>1, <1>5, <2>1 DEF SaveScannerAnswers
  <2>2. CASE ~CloseScanner
    <3>1. /\ scannerCall' = "none"
          /\ UNCHANGED <<comVars, wedgeVars, swMode, swKind, swPort, stampFired, agentSide>>
      BY <1>5, <2>2 DEF SaveScannerAnswers
    <3> QED
      BY <3>1 DEF ListenInv, ScannerTypeOK, PollOwned, BufferFresh, ScanIsFresh, ComListening,
                  comVars, wedgeVars, agentSide
  <2> QED
    BY <2>1, <2>2
<1>6. CASE ScanAgain
  <2>1. CASE swKind = "com" /\ comCode' = 0 /\ PollEffect /\ UNCHANGED wedgeVars
    BY <1>0, <1>6, <2>1, RenderListens DEF ScanAgain, ScannerTypeOK, wedgeVars, scannerFormVars
  <2>2. CASE detection' = FALSE /\ StopWedge /\ UNCHANGED comVars
    <3>1. UNCHANGED <<scannerFormVars, agentSide>>
      BY <1>6 DEF ScanAgain
    <3> QED
      BY <1>0, <2>2, <3>1
         DEF ListenInv, ScannerTypeOK, PollOwned, BufferFresh, ScanIsFresh, ComListening, comVars,
             scannerFormVars, agentSide, StopWedge
  <2> QED
    BY <1>6, <2>1, <2>2 DEF ScanAgain
<1>7. ASSUME NEW k \in {"wedge", "com"}, SetKind(k) PROVE ListenInv'
  BY <1>0, <1>7, RenderListens DEF SetKind, StopWedge, ScannerTypeOK
<1> QED
  BY <1>2, <1>3, <1>4, <1>5, <1>6, <1>7

(* The answer of the poll.                                                 *)
LEMMA PollHeardListens == ListenInv /\ PollHeard => ListenInv'
<1> SUFFICES ASSUME ListenInv, PollHeard
             PROVE  ListenInv'
  OBVIOUS
<1> USE ScannerAssumption DEF ListenInv, ScannerTypeOK
<1>1. /\ ComListening /\ comPoll' = "idle" /\ comBuffer' = 0
      /\ UNCHANGED <<listening, comStray, wedgeVars, swMode, swKind, swPort, scanAgentUp>>
  BY DEF PollHeard, PollOwned
<1>2. discarded' \in BOOLEAN
  BY Zenon DEF PollHeard
<1>3. comCode' \in {0, listening}
  <2>1. comCode = 0
    BY <1>1 DEF ComListening
  <2>2. CASE discarded
    BY <1>1, <2>2 DEF PollHeard, BufferFresh
  <2>3. CASE ~discarded
    BY <2>1, <2>3 DEF PollHeard
  <2> QED
    BY <2>2, <2>3
<1>4. {comCode', comBuffer'} \subseteq 0..Unheard
  BY <1>1, <1>3 DEF Unheard
<1>5. scannerCall' \in {"none", "port", "save", "stamp"}
  BY DEF PollHeard, StampEffect
<1>6. stampFired' \in BOOLEAN
  <2>1. stampFired' = TRUE \/ stampFired' = stampFired
    BY Zenon DEF PollHeard, StampEffect
  <2> QED
    BY <2>1
<1>7. PollOwned' /\ BufferFresh' /\ ScanIsFresh'
  BY <1>1, <1>3 DEF PollOwned, BufferFresh, ScanIsFresh
<1> QED
  BY <1>1, <1>2, <1>4, <1>5, <1>6, <1>7 DEF wedgeVars

(* The steps that leave listening, its period and the code as they were.   *)
LEMMA OtherScanSteps ==
  ASSUME ListenInv,
         \/ PickPort \/ SaveScanner \/ StampSettles \/ KeyInField \/ BurstEnds
         \/ \E f \in BOOLEAN : Key(f)
         \/ ComScan \/ PollAgent \/ PollFails \/ StrayConsume \/ ScannerAgentTurns
         \/ UNCHANGED scannerVars
  PROVE  ListenInv'
<1> USE ScannerAssumption DEF ListenInv, ScannerTypeOK
<1>1. UNCHANGED <<comCode, listening, discarded, swMode, swKind, swPort>>
  BY DEF PickPort, SaveScanner, StampSettles, KeyInField, BurstEnds, Key, ComScan, PollAgent,
         PollFails, StrayConsume, ScannerAgentTurns, scannerVars, comVars, scannerFormVars
<1>2. ScanIsFresh' /\ ComListening' = ComListening
  BY <1>1 DEF ScanIsFresh, ComListening
<1>3. \/ UNCHANGED comBuffer \/ comBuffer' = 0
      \/ comBuffer' = IF ComListening THEN listening ELSE Unheard
  BY DEF PickPort, SaveScanner, StampSettles, KeyInField, BurstEnds, Key, ComScan, PollAgent,
         PollFails, StrayConsume, ScannerAgentTurns, scannerVars, agentSide
<1>4. {comCode', comBuffer'} \subseteq 0..Unheard /\ BufferFresh'
  BY <1>1, <1>2, <1>3 DEF BufferFresh, Unheard
<1>5. comPoll' \in {"idle", "asked"} /\ PollOwned'
  BY <1>2 DEF PickPort, SaveScanner, StampSettles, KeyInField, BurstEnds, Key, ComScan, PollAgent,
         PollFails, StrayConsume, ScannerAgentTurns, scannerVars, comVars, PollOwned
<1>6. comStray' \in Nat
  BY DEF PickPort, SaveScanner, StampSettles, KeyInField, BurstEnds, Key, ComScan, PollAgent,
         PollFails, StrayConsume, ScannerAgentTurns, scannerVars, comVars
<1>7. burst' \in 0..MinChars /\ burstTimer' \in BOOLEAN
  <2>1. CASE KeyInField \/ BurstEnds
    <3>1. burst' = 0
      BY <2>1 DEF KeyInField, BurstEnds, StopWedge
    <3>2. burstTimer' \in BOOLEAN
      BY <2>1, Zenon DEF KeyInField, BurstEnds, StopWedge
    <3> QED
      BY <3>1, <3>2
  <2>2. ASSUME NEW f \in BOOLEAN, Key(f) PROVE burst' \in 0..MinChars /\ burstTimer' \in BOOLEAN
    <3>1. burst' \in 0..MinChars
      BY <2>2 DEF Key
    <3>2. burstTimer' \in BOOLEAN
      BY <2>2, Zenon DEF Key
    <3> QED
      BY <3>1, <3>2
  <2>3. CASE UNCHANGED wedgeVars
    BY <2>3 DEF wedgeVars
  <2> QED
    BY <2>1, <2>2, <2>3
       DEF PickPort, SaveScanner, StampSettles, ComScan, PollAgent, PollFails, StrayConsume,
           ScannerAgentTurns, scannerVars
<1>8. detection' \in BOOLEAN /\ stampFired' \in BOOLEAN
      /\ scannerCall' \in {"none", "port", "save", "stamp"}
  BY DEF PickPort, SaveScanner, StampSettles, KeyInField, BurstEnds, Key, ComScan, PollAgent,
         PollFails, StrayConsume, ScannerAgentTurns, scannerVars, wedgeVars, scannerFormVars, StampEffect
<1>9. scanAgentUp' \in BOOLEAN
  BY DEF PickPort, SaveScanner, StampSettles, KeyInField, BurstEnds, Key, ComScan, PollAgent,
         PollFails, StrayConsume, ScannerAgentTurns, scannerVars, agentSide
<1> QED
  BY <1>1, <1>2, <1>4, <1>5, <1>6, <1>7, <1>8, <1>9

LEMMA ListenKeeps == ListenInv /\ [ScannerNext]_scannerVars => ListenInv'
  BY PageListens, PollHeardListens, OtherScanSteps DEF ScannerNext

(* The invariant of the scanner's wizard, inductive: a poll is under way   *)
(* only while the wizard listens, and once the first consume was thrown    *)
(* away the agent's buffer holds nothing older than that.                  *)
THEOREM ListenInvariance == ScannerSpec => []ListenInv
  BY ListenStarts, ListenKeeps, PTL DEF ScannerSpec

(* Whatever the agent's shared buffer held before, and whatever aborted    *)
(* requests still reach the agent, the scan a wizard accepts was made in   *)
(* the listening period it is shown for.                                   *)
THEOREM ScansAreFresh == ScannerSpec => []ScanIsFresh
<1>1. ListenInv => ScanIsFresh
  BY DEF ListenInv
<1> QED
  BY ListenInvariance, <1>1, PTL

------------------------------------------------------------------------------
(* PrinterWizard.                                                          *)

(* Past the Find step a printer is selected.                               *)
StepHasPrinter == wizStep # "find" => wizSelected \in WizardPrinters

(* Every opening and every closing is a session of its own, so an open     *)
(* wizard has an odd number.                                               *)
SessionsAlternate ==
  \E k \in 0..MaxWizardOpens : wizSession = IF wizard = "closed" THEN 2 * k ELSE 2 * k - 1

(* A save, a stamp or a mirror under way is the only one, and the session  *)
(* it was made in stays open, with its Save disabled, until its answer; a  *)
(* session whose mirror failed has none, and saves no more.                *)
SavesOwned ==
  /\ \A c \in wizCalls : c.kind # "print" => c.session = wizSession /\ wizSaving /\ wizard # "closed"
  /\ \A c, d \in wizCalls : c.kind # "print" /\ d.kind # "print" => c = d
  /\ \A c \in wizCalls : c.kind \in {"create", "mirror"} => wizard = "create"
  /\ wizMirror => wizard = "create" /\ ~wizSaving

(* A session that was told of its device is over, or knows that only the   *)
(* mirror is left, or waits for the mirror's answer.                       *)
SavedSessions ==
  \A d \in wizRegistry :
    /\ d.session <= wizSession
    /\ d.told /\ d.session = wizSession => wizMirror \/ \E c \in wizCalls : c.kind = "mirror"

(* A device is saved by a call already made, before the one under way.     *)
SavedInOrder ==
  \A d \in wizRegistry :
    d.id <= wizSent /\ \A c \in wizCalls : c.kind # "print" => d.id <= c.id

CallsCounted == \A c \in wizCalls : c.id <= wizSent
WizardTypes == WizardTypeOK /\ StepHasPrinter /\ CallsCounted
WizardBooks == SavesOwned /\ SavedSessions /\ SavedInOrder /\ NothingAfterTold
WizardInv == WizardTypes /\ SessionsAlternate /\ WizardBooks

LEMMA WizardStarts == WizardInit => WizardInv
<1> SUFFICES ASSUME WizardInit
             PROVE  WizardInv
  OBVIOUS
<1>1. {wizAddressed, wizTested, wizPrinting, wizSaving, wizMirror} \subseteq BOOLEAN
  BY Zenon DEF WizardInit
<1>2. /\ wizSession = 0 /\ wizard = "closed" /\ wizSession = 2 * 0 /\ 0 \in 0..MaxWizardOpens
      /\ wizSession \in 0..2 * MaxWizardOpens /\ wizSent \in 0..MaxWizardCalls
  BY PrinterWizardAssumption DEF WizardInit
<1>3. SessionsAlternate
  BY <1>2 DEF SessionsAlternate
<1>4. wizRegistry = {} /\ wizCalls = {} /\ wizStep = "find"
      /\ {wizSelected, wizFired, wizAdding} \subseteq WizardPrinters \cup {NoPick}
  BY DEF WizardInit
<1>m. wizMirror = FALSE
  BY DEF WizardInit
<1>5. WizardTypes
  BY <1>1, <1>2, <1>4 DEF WizardTypes, WizardTypeOK, StepHasPrinter, CallsCounted
<1>6. WizardBooks
  BY <1>4, <1>m, <1>2 DEF WizardBooks, SavesOwned, SavedSessions, SavedInOrder, NothingAfterTold
<1> QED
  BY <1>3, <1>5, <1>6 DEF WizardInv

(* A new call has the next number.                                         *)
LEMMA CallTyped ==
  ASSUME WizardTypeOK, CallsCounted, NEW kind \in {"print", "create", "mirror", "stamp"}, NEW name \in WizardPrinters,
         NEW session \in 0..2 * MaxWizardOpens, Call(kind, name, session)
  PROVE  wizCalls' \subseteq WizardCall /\ wizSent' \in 0..MaxWizardCalls /\ wizSent <= wizSent' /\ CallsCounted'
  BY PrinterWizardAssumption DEF WizardTypeOK, Call, WizardCall, CallsCounted

LEMMA SessionBound ==
  ASSUME WizardInv
  PROVE  /\ wizSession \in 0..2 * MaxWizardOpens
         /\ wizard # "closed" \/ wizSession < 2 * MaxWizardOpens =>
              wizSession + 1 \in 0..2 * MaxWizardOpens
  BY PrinterWizardAssumption DEF WizardInv, WizardTypes, WizardTypeOK, SessionsAlternate

(* Steps that neither open nor close nor save.                             *)
LEMMA StepsWithinSession ==
  ASSUME WizardInv, UNCHANGED <<wizard, wizSaving, wizMirror, wizSession, wizRegistry>>,
         \A c \in wizCalls' : c.kind # "print" => c \in wizCalls,
         \A c \in wizCalls : c.kind = "mirror" => c \in wizCalls',
         wizSent' \in 0..MaxWizardCalls, wizSent <= wizSent'
  PROVE  SessionsAlternate' /\ WizardBooks'
<1>1. SessionsAlternate'
  BY DEF WizardInv, SessionsAlternate
<1>2. SavesOwned'
  BY DEF WizardInv, WizardBooks, SavesOwned
<1>3. SavedSessions' /\ NothingAfterTold'
  BY DEF WizardInv, WizardBooks, SavedSessions, NothingAfterTold
<1>4. SavedInOrder'
  BY PrinterWizardAssumption
     DEF WizardInv, WizardTypes, WizardTypeOK, Saved, WizardBooks, CallsCounted, SavedInOrder
<1> QED
  BY <1>1, <1>2, <1>3, <1>4 DEF WizardBooks

(* A closing ends the session that was saving.                             *)
LEMMA ClosingKeeps ==
  ASSUME WizardInv, Close, wizard # "closed",
         \A c \in wizCalls' : c.kind = "print", wizCalls' \subseteq WizardCall,
         wizSent' \in 0..MaxWizardCalls, CallsCounted', wizRegistry' \subseteq Saved, NothingAfterTold',
         \A d \in wizRegistry' : d.session <= wizSession /\ d.id <= wizSent'
  PROVE  WizardInv'
<1>1. /\ wizSession' = wizSession + 1 /\ wizSession' \in 0..2 * MaxWizardOpens /\ wizSession \in Nat
      /\ wizard' = "closed"
  BY SessionBound DEF Close, ResetWizard
<1>2. SessionsAlternate'
  <2>1. PICK k \in 0..MaxWizardOpens : wizSession = 2 * k - 1
    BY DEF WizardInv, SessionsAlternate
  <2> QED
    BY <1>1, <2>1 DEF SessionsAlternate
<1>3. {wizAddressed', wizTested', wizPrinting', wizSaving', wizMirror'} \subseteq BOOLEAN
  BY Zenon DEF Close, ResetWizard
<1>4. WizardTypes'
  BY <1>1, <1>3 DEF WizardInv, WizardTypes, WizardTypeOK, StepHasPrinter, Close
<1>5. \A d \in wizRegistry' : d.session < wizSession'
  BY <1>1 DEF Saved
<1>6. SavesOwned' /\ SavedSessions' /\ SavedInOrder'
  BY <1>1, <1>5 DEF SavesOwned, SavedSessions, SavedInOrder, Saved, Close, ResetWizard
<1> QED
  BY <1>2, <1>4, <1>6 DEF WizardInv, WizardBooks

LEMMA OpeningKeeps ==
  ASSUME WizardInv,
         \/ OpenFind
         \/ \E p \in SystemPrinters \cup NetworkPrinters, m \in {"create", "retest"} : OpenAtTest(p, m)
  PROVE  WizardInv'
<1> USE DEF WizardInv, WizardTypes, WizardTypeOK
<1>1. /\ wizard = "closed" /\ wizard' \in {"create", "retest"} /\ wizSession' = wizSession + 1
      /\ wizSession < 2 * MaxWizardOpens /\ wizSession' \in 0..2 * MaxWizardOpens /\ wizSession \in Nat
      /\ wizSaving' = FALSE /\ wizMirror' = FALSE /\ UNCHANGED <<wizAdding, wizRegistry>>
  BY SessionBound DEF OpenFind, OpenAtTest, ResetWizard
<1>2. SessionsAlternate'
  <2>1. PICK k \in 0..MaxWizardOpens : wizSession = 2 * k
    BY <1>1 DEF SessionsAlternate
  <2>2. k + 1 \in 0..MaxWizardOpens /\ wizSession' = 2 * (k + 1) - 1
    BY <1>1, <2>1, PrinterWizardAssumption
  <2> QED
    BY <1>1, <2>2 DEF SessionsAlternate
<1>3. \A c \in wizCalls : c.kind = "print"
  BY <1>1 DEF WizardBooks, SavesOwned
<1>4. /\ wizCalls' \subseteq WizardCall /\ wizSent' \in 0..MaxWizardCalls
      /\ wizSent <= wizSent' /\ CallsCounted'
      /\ \A c \in wizCalls' : c.kind = "print"
  <2>1. CASE OpenFind
    BY <1>3, <2>1, PrinterWizardAssumption DEF OpenFind, NoCall, CallsCounted
  <2>2. ASSUME NEW p \in SystemPrinters \cup NetworkPrinters, NEW m \in {"create", "retest"}, OpenAtTest(p, m)
        PROVE  /\ wizCalls' \subseteq WizardCall /\ wizSent' \in 0..MaxWizardCalls
               /\ wizSent <= wizSent' /\ CallsCounted'
               /\ \A c \in wizCalls' : c.kind = "print"
    <3>1. p \in WizardPrinters /\ Call("print", p, wizSession + 1)
      BY <2>2 DEF WizardPrinters, OpenAtTest
    <3>2. /\ wizCalls' \subseteq WizardCall /\ wizSent' \in 0..MaxWizardCalls
          /\ wizSent <= wizSent' /\ CallsCounted'
      BY <1>1, <3>1, CallTyped
    <3>3. \A c \in wizCalls' : c.kind = "print"
      BY <1>3, <3>1 DEF Call
    <3> QED
      BY <3>2, <3>3
  <2> QED
    BY <2>1, <2>2
<1>5. /\ {wizAddressed', wizTested', wizPrinting', wizSaving', wizMirror'} \subseteq BOOLEAN
  BY Zenon DEF OpenFind, OpenAtTest, ResetWizard
<1>6. /\ {wizSelected', wizFired'} \subseteq WizardPrinters \cup {NoPick}
      /\ wizStep' \in {"find", "test"} /\ StepHasPrinter'
  BY DEF OpenFind, OpenAtTest, WizardPrinters, StepHasPrinter
<1>7. WizardTypes'
  BY <1>1, <1>4, <1>5, <1>6
<1>8. WizardBooks'
  <2>1. \A d \in wizRegistry : d.session < wizSession' /\ d.session # wizSession'
    BY <1>1 DEF WizardBooks, SavedSessions, Saved
  <2> QED
    BY <1>1, <1>4, <2>1 DEF WizardBooks, SavesOwned, SavedSessions, SavedInOrder, NothingAfterTold, Saved
<1> QED
  BY <1>2, <1>7, <1>8

(* Picking, adding, printing and stepping back and forth.                  *)
LEMMA ShowTestTyped ==
  ASSUME WizardInv, NEW p \in WizardPrinters, NEW addressed \in BOOLEAN, ShowTest(p, addressed)
  PROVE  /\ wizCalls' \subseteq WizardCall /\ wizSent' \in 0..MaxWizardCalls
         /\ wizStep' = "test" /\ wizSelected' \in WizardPrinters /\ wizAddressed' \in BOOLEAN
         /\ wizFired' \in WizardPrinters \cup {NoPick} /\ wizPrinting' \in BOOLEAN
         /\ wizCalls \subseteq wizCalls' /\ wizSent <= wizSent' /\ CallsCounted'
         /\ \A c \in wizCalls' : c.kind # "print" => c \in wizCalls
<1> USE DEF WizardInv, WizardTypes, WizardTypeOK
<1>1. wizStep' = "test" /\ wizSelected' = p /\ wizAddressed' = addressed
  BY DEF ShowTest
<1>2. CASE wizFired = p
  BY <1>1, <1>2, PrinterWizardAssumption DEF ShowTest, NoCall, CallsCounted
<1>3. CASE wizFired # p
  <2>1. wizFired' = p /\ wizPrinting' = TRUE /\ Call("print", p, wizSession)
    BY <1>3 DEF ShowTest
  <2>2. wizCalls' \subseteq WizardCall /\ wizSent' \in 0..MaxWizardCalls /\ wizSent <= wizSent' /\ CallsCounted'
    BY <2>1, CallTyped
  <2> QED
    BY <1>1, <2>1, <2>2 DEF Call
<1> QED
  BY <1>2, <1>3

LEMMA BrowsingKeeps ==
  ASSUME WizardInv,
         \/ ManualAnswers \/ PrintAgain \/ GoBack
         \/ \E p \in SystemPrinters \cup NetworkPrinters : PickPrinter(p)
         \/ \E p \in AddedPrinters : ManualSubmit(p)
         \/ \E c \in wizCalls : PrintSettles(c)
  PROVE  WizardInv'
<1> USE DEF WizardInv, WizardTypes, WizardTypeOK
<1>1. UNCHANGED <<wizard, wizSaving, wizMirror, wizSession, wizRegistry, wizTested>>
  BY DEF ManualAnswers, PrintAgain, GoBack, PickPrinter, ManualSubmit, PrintSettles, wizState, wizFlags
<1> DEFINE PrintsOnly ==
      /\ wizCalls' \subseteq WizardCall /\ wizSent' \in 0..MaxWizardCalls
      /\ wizStep' \in {"find", "test", "save"} /\ StepHasPrinter'
      /\ {wizSelected', wizFired', wizAdding'} \subseteq WizardPrinters \cup {NoPick}
      /\ {wizAddressed', wizPrinting'} \subseteq BOOLEAN
      /\ \A c \in wizCalls' : c.kind # "print" => c \in wizCalls
      /\ \A c \in wizCalls : c.kind = "mirror" => c \in wizCalls'
      /\ wizSent <= wizSent' /\ CallsCounted'
<1>2. SUFFICES PrintsOnly
  BY <1>1, StepsWithinSession
<1>3. CASE ManualAnswers
  <2>1. CASE ShowTest(wizAdding, TRUE)
    <3>1. wizAdding \in WizardPrinters /\ wizAdding' = NoPick
      BY <1>3 DEF ManualAnswers
    <3> QED
      BY <2>1, <3>1, ShowTestTyped DEF StepHasPrinter
  <2>2. CASE NoCall /\ UNCHANGED <<wizStep, wizSelected, wizAddressed, wizFired, wizPrinting>>
    BY <1>3, <2>2, PrinterWizardAssumption DEF ManualAnswers, NoCall, CallsCounted, StepHasPrinter
  <2> QED
    BY <1>3, <2>1, <2>2 DEF ManualAnswers
<1>4. ASSUME NEW p \in SystemPrinters \cup NetworkPrinters, PickPrinter(p) PROVE PrintsOnly
  <2>1. p \in WizardPrinters /\ (p \in SystemPrinters) \in BOOLEAN /\ ShowTest(p, p \in SystemPrinters)
    BY <1>4 DEF PickPrinter, WizardPrinters
  <2>2. wizAdding' = wizAdding
    BY <1>4 DEF PickPrinter
  <2> QED
    BY <2>1, <2>2, ShowTestTyped DEF StepHasPrinter
<1>5. CASE PrintAgain
  <2>1. wizSelected \in WizardPrinters /\ Call("print", wizSelected, wizSession) /\ wizPrinting' = TRUE
    BY <1>5 DEF PrintAgain, StepHasPrinter
  <2>2. wizCalls' \subseteq WizardCall /\ wizSent' \in 0..MaxWizardCalls /\ wizSent <= wizSent' /\ CallsCounted'
    BY <2>1, CallTyped
  <2>3. /\ \A c \in wizCalls' : c.kind # "print" => c \in wizCalls
        /\ wizCalls \subseteq wizCalls'
    BY <2>1 DEF Call
  <2>4. UNCHANGED <<wizStep, wizSelected, wizAddressed, wizFired, wizAdding>> /\ wizPrinting' \in BOOLEAN
    BY <1>5 DEF PrintAgain, wizState
  <2> QED
    BY <2>1, <2>2, <2>3, <2>4 DEF StepHasPrinter
<1>6. CASE GoBack
  <2>1. UNCHANGED <<wizCalls, wizSent, wizAdding, wizPrinting>>
    BY <1>6 DEF GoBack, wizFlags
  <2>2. wizSent <= wizSent' /\ CallsCounted'
    BY <2>1, PrinterWizardAssumption DEF CallsCounted
  <2>3. wizAddressed' \in BOOLEAN
    BY <1>6, Zenon DEF GoBack
  <2> QED
    BY <1>6, <2>1, <2>2, <2>3 DEF GoBack, StepHasPrinter
<1>7. ASSUME NEW p \in AddedPrinters, ManualSubmit(p) PROVE PrintsOnly
  BY <1>7, PrinterWizardAssumption DEF ManualSubmit, WizardPrinters, wizState, wizFlags, CallsCounted, StepHasPrinter
<1>8. ASSUME NEW c \in wizCalls, PrintSettles(c) PROVE PrintsOnly
  <2>1. c.kind = "print" /\ wizCalls' = wizCalls \ {c} /\ wizSent' = wizSent
    BY <1>8 DEF PrintSettles, Answered
  <2>2. wizPrinting' \in BOOLEAN
    BY <1>8, Zenon DEF PrintSettles
  <2> QED
    BY <1>8, <2>1, <2>2, PrinterWizardAssumption DEF PrintSettles, wizState, CallsCounted, StepHasPrinter
<1> QED
  BY <1>3, <1>4, <1>5, <1>6, <1>7, <1>8

(* A save or a stamp is sent by a session that has none under way.         *)
LEMMA SavingKeeps ==
  ASSUME WizardInv, TestYes \/ SaveClick
  PROVE  WizardInv'
<1> USE DEF WizardInv, WizardTypes, WizardTypeOK
<1>1. /\ UNCHANGED <<wizard, wizSelected, wizAddressed, wizFired, wizPrinting, wizMirror, wizAdding,
                     wizSession, wizRegistry>>
      /\ wizard # "closed" /\ wizStep # "find" /\ wizSelected \in WizardPrinters
      /\ wizStep' \in {"test", "save"} /\ ~wizSaving
  BY DEF TestYes, SaveClick, SaveEnabled, Busy, StepHasPrinter
<1>2. wizTested' \in BOOLEAN
  BY Zenon DEF TestYes, SaveClick
<1>3. CASE NoCall /\ UNCHANGED wizSaving
  <2>1. WizardTypes'
    BY <1>1, <1>2, <1>3 DEF NoCall, CallsCounted, StepHasPrinter
  <2>2. SessionsAlternate' /\ WizardBooks'
    BY <1>1, <1>3, StepsWithinSession DEF NoCall
  <2> QED
    BY <2>1, <2>2
<1>4. ASSUME NEW kind \in {"create", "stamp"}, Call(kind, wizSelected, wizSession), wizSaving' = TRUE,
             ~wizMirror, kind = "create" => wizard = "create"
      PROVE  WizardInv'
  <2>1. wizCalls' \subseteq WizardCall /\ wizSent' \in 0..MaxWizardCalls /\ wizSent <= wizSent' /\ CallsCounted'
    BY <1>1, <1>4, CallTyped
  <2>2. WizardTypes' /\ SessionsAlternate'
    BY <1>1, <1>2, <1>4, <2>1 DEF StepHasPrinter, CallsCounted, SessionsAlternate
  <2>3. \A c \in wizCalls : c.kind = "print"
    BY <1>1 DEF WizardBooks, SavesOwned
  <2> DEFINE new == [id |-> wizSent + 1, kind |-> kind, name |-> wizSelected, session |-> wizSession]
  <2>4. wizCalls' = wizCalls \cup {new} /\ new.kind = kind /\ new.session = wizSession
    BY <1>4 DEF Call
  <2> HIDE DEF new
  <2>5. SavesOwned'
    BY <1>1, <1>4, <2>3, <2>4 DEF WizardBooks, SavesOwned
  <2>6. SavedSessions' /\ NothingAfterTold'
    BY <1>1, <2>4 DEF WizardBooks, SavedSessions, NothingAfterTold
  <2>7. new.id = wizSent + 1 /\ wizSent' = wizSent + 1
    BY <1>4 DEF Call, new
  <2>8. SavedInOrder'
    BY <1>1, <2>3, <2>4, <2>7 DEF WizardBooks, SavedInOrder, Saved
  <2> QED
    BY <2>2, <2>5, <2>6, <2>8 DEF WizardBooks
<1>5. TestYes /\ wizard = "retest" => ~wizMirror
  BY DEF WizardBooks, SavesOwned
<1> QED
  BY <1>3, <1>4, <1>5 DEF TestYes, SaveClick, SaveEnabled

(* The answers of saves, stamps and mirrors.                               *)
LEMMA SaveAnswersKeep ==
  ASSUME WizardInv, NEW c \in wizCalls,
         \/ WizardSaveFails(c) \/ MirrorAnswers(c) \/ StampAnswers(c)
         \/ \E d \in BOOLEAN : CreateAnswers(c, d)
  PROVE  WizardInv'
<1> USE DEF WizardInv, WizardTypes, WizardTypeOK
<1>1. /\ c \in WizardCall /\ c.kind # "print" /\ c.session = wizSession /\ wizSaving
      /\ wizard # "closed" /\ Current(c)
      /\ \A b \in wizCalls \ {c} : b.kind = "print"
  BY DEF WizardSaveFails, MirrorAnswers, StampAnswers, CreateAnswers, WizardBooks, SavesOwned, Current
<1>2. \A d \in wizRegistry : d.session <= wizSession /\ d.id <= wizSent /\ d.id <= c.id
  BY <1>1 DEF WizardBooks, SavedSessions, SavedInOrder
<1>3. ASSUME Answered(c), Close, UNCHANGED wizRegistry PROVE WizardInv'
  BY <1>1, <1>2, <1>3, ClosingKeeps DEF Answered, WizardBooks, NothingAfterTold, CallsCounted
<1>4. ASSUME NEW told \in BOOLEAN, c.kind = "create", Register(c, told)
      PROVE  /\ wizRegistry' \subseteq Saved /\ NothingAfterTold'
             /\ \A d \in wizRegistry' : d.session <= wizSession /\ d.id <= wizSent /\ d.id <= c.id
             /\ \A d \in wizRegistry' : d.told /\ d.session = wizSession => told
  <2> DEFINE new == [id |-> c.id, name |-> c.name, session |-> c.session, tested |-> wizTested, told |-> told]
  <2>1. /\ new \in Saved /\ new.session = wizSession /\ new.id = c.id /\ new.told = told
        /\ c.id \in Nat /\ c.id <= wizSent
    BY <1>1, <1>4, PrinterWizardAssumption DEF WizardCall, Saved, WizardBooks, CallsCounted, SavedInOrder
  <2>2. wizRegistry' = wizRegistry \cup {new}
    BY <1>4 DEF Register
  <2> HIDE DEF new
  <2>3. \A d \in wizRegistry : ~(d.told /\ d.session = wizSession)
    BY <1>1, <1>4 DEF WizardBooks, SavesOwned, SavedSessions
  <2>4. NothingAfterTold'
    BY <1>2, <2>1, <2>2, <2>3 DEF WizardBooks, NothingAfterTold
  <2> QED
    BY <1>2, <2>1, <2>2, <2>3, <2>4
<1>8. CASE WizardSaveFails(c)
  <2>1. /\ wizCalls' = wizCalls \ {c} /\ wizSent' = wizSent /\ c.kind # "mirror"
        /\ UNCHANGED <<wizard, wizState, wizFired, wizPrinting, wizMirror, wizAdding, wizSession>>
        /\ UNCHANGED wizRegistry \/ (c.kind = "create" /\ Register(c, FALSE))
    BY <1>8 DEF WizardSaveFails, Answered
  <2>2. wizSaving' \in BOOLEAN
    BY <1>8, Zenon DEF WizardSaveFails
  <2>a. /\ wizRegistry' \subseteq Saved /\ NothingAfterTold'
        /\ \A d \in wizRegistry' : d.session <= wizSession /\ d.id <= wizSent
        /\ \A d \in wizRegistry' : d.told /\ d.session = wizSession => d \in wizRegistry
    <3>1. CASE UNCHANGED wizRegistry
      BY <1>2, <3>1 DEF WizardBooks, NothingAfterTold
    <3>2. CASE c.kind = "create" /\ Register(c, FALSE)
      BY <1>4, <3>2
    <3> QED
      BY <2>1, <3>1, <3>2
  <2>3. WizardTypes' /\ SessionsAlternate'
    BY <2>1, <2>2, <2>a DEF wizState, StepHasPrinter, CallsCounted, SessionsAlternate
  <2>4. SavesOwned'
    BY <1>1, <1>8, <2>1 DEF WizardBooks, SavesOwned, WizardSaveFails
  <2>5. SavedSessions' /\ SavedInOrder'
    BY <1>1, <2>1, <2>a DEF WizardBooks, SavesOwned, SavedSessions, SavedInOrder
  <2> QED
    BY <2>3, <2>4, <2>5, <2>a DEF WizardBooks
<1>5. CASE StampAnswers(c)
  BY <1>3, <1>5 DEF StampAnswers
<1>6. CASE MirrorAnswers(c)
  <2>1. CASE Close
    BY <1>3, <1>6, <2>1 DEF MirrorAnswers
  <2>2. CASE ~Close
    <3>1. /\ wizMirror' = TRUE /\ wizSaving' = FALSE /\ wizCalls' = wizCalls \ {c} /\ wizSent' = wizSent
          /\ UNCHANGED <<wizard, wizState, wizFired, wizPrinting, wizAdding, wizSession, wizRegistry>>
      BY <1>6, <2>2 DEF MirrorAnswers, Answered
    <3>2. WizardTypes' /\ SessionsAlternate'
      BY <3>1 DEF wizState, StepHasPrinter, CallsCounted, SessionsAlternate
    <3>3. SavesOwned' /\ SavedSessions' /\ SavedInOrder' /\ NothingAfterTold'
      BY <1>1, <1>2, <1>6, <3>1
         DEF MirrorAnswers, WizardBooks, SavesOwned, SavedSessions, SavedInOrder, NothingAfterTold
    <3> QED
      BY <3>2, <3>3 DEF WizardBooks
  <2> QED
    BY <2>1, <2>2
<1>7. ASSUME NEW makeDefault \in BOOLEAN, CreateAnswers(c, makeDefault) PROVE WizardInv'
  <2>1. c.kind = "create" /\ Register(c, TRUE)
    BY <1>7 DEF CreateAnswers
  <2>4. /\ wizRegistry' \subseteq Saved /\ NothingAfterTold'
        /\ \A d \in wizRegistry' : d.session <= wizSession /\ d.id <= wizSent /\ d.id <= c.id
    BY <1>4, <2>1
  <2>5. CASE makeDefault
    <3> DEFINE mirror == [c EXCEPT !.kind = "mirror"]
    <3>1. /\ mirror \in WizardCall /\ mirror.kind = "mirror" /\ mirror.session = wizSession
          /\ mirror.id = c.id
      BY <1>1 DEF WizardCall
    <3>2. /\ wizCalls' = (wizCalls \ {c}) \cup {mirror}
          /\ UNCHANGED <<wizard, wizState, wizFired, wizFlags, wizAdding, wizSession, wizSent>>
      BY <1>1, <1>7, <2>5 DEF CreateAnswers
    <3> HIDE DEF mirror
    <3>3. WizardTypes' /\ SessionsAlternate'
      BY <2>4, <3>1, <3>2 DEF wizState, wizFlags, StepHasPrinter, CallsCounted, SessionsAlternate
    <3>4. SavesOwned'
      BY <1>1, <2>1, <3>1, <3>2 DEF WizardBooks, SavesOwned, wizFlags
    <3>5. SavedSessions' /\ SavedInOrder'
      BY <1>1, <2>4, <3>1, <3>2 DEF SavedSessions, SavedInOrder
    <3> QED
      BY <2>4, <3>3, <3>4, <3>5 DEF WizardBooks
  <2>6. CASE ~makeDefault
    <3>1. Answered(c) /\ Close
      BY <1>7, <2>6 DEF CreateAnswers
    <3> QED
      BY <1>1, <2>4, <3>1, ClosingKeeps DEF Answered, CallsCounted
  <2> QED
    BY <2>5, <2>6
<1> QED
  BY <1>5, <1>6, <1>7, <1>8

LEMMA WizardKeeps == WizardInv /\ [WizardNext]_wizardVars => WizardInv'
<1> SUFFICES ASSUME WizardInv, [WizardNext]_wizardVars
             PROVE  WizardInv'
  OBVIOUS
<1>1. CASE DismissWizard
  <2>1. \A c \in wizCalls' : c.kind = "print"
    BY <1>1 DEF DismissWizard, Busy, NoCall, WizardInv, WizardBooks, SavesOwned
  <2> QED
    BY <1>1, <2>1, ClosingKeeps
       DEF DismissWizard, NoCall, WizardInv, WizardTypes, WizardTypeOK, WizardBooks, SavedSessions,
           SavedInOrder, CallsCounted, NothingAfterTold
<1>2. CASE UNCHANGED wizardVars
  <2>1. WizardTypes'
    BY <1>2 DEF WizardInv, WizardTypes, WizardTypeOK, CallsCounted, StepHasPrinter, wizardVars, wizState, wizFlags
  <2> QED
    BY <1>2, <2>1, StepsWithinSession, PrinterWizardAssumption
       DEF WizardInv, WizardTypes, WizardTypeOK, wizardVars, wizFlags
<1> QED
  BY <1>1, <1>2, OpeningKeeps, BrowsingKeeps, SavingKeeps, SaveAnswersKeep DEF WizardNext

(* The invariant of the printer's wizard, inductive: a session has at most *)
(* one save, stamp or mirror under way, with Save disabled until its       *)
(* answer, a device is saved by a call sent before the one under way, and  *)
(* a session that was told of its device is over or knows that only the    *)
(* mirror is left.                                                         *)
THEOREM WizardInvariance == WizardSpec => []WizardInv
  BY WizardStarts, WizardKeeps, PTL DEF WizardSpec

(* However calls of this session and of earlier ones interleave, fail or   *)
(* answer late, the device a session was told of is the last it registers: *)
(* whatever it registered besides was saved before, by a call whose answer *)
(* was lost.                                                               *)
THEOREM ToldSavesAreLast == WizardSpec => []NothingAfterTold
<1>1. WizardInv => NothingAfterTold
  BY DEF WizardInv, WizardBooks
<1> QED
  BY WizardInvariance, <1>1, PTL

------------------------------------------------------------------------------
(* EquipmentHub.                                                           *)

(* A dialog is open for a device; what is under way is about a device; an  *)
(* address is only ever patched for a printer.                             *)
HubControl ==
  /\ hubDialog.kind # "closed" => hubDialog.device \in HubDevices
  /\ hubDialog.kind = "address" => hubDialog.device \in HubPrinters
  /\ patch = NoPatch \/ patch.device \in HubDevices
  /\ patch.to # Gone => patch.device \in HubPrinters
  /\ removal \in HubDevices \cup {NoDevice}
  /\ defaultCall \in HubPrinters \cup {NoDevice, "clear"}

(* A mirror is of a device, except that of the default; that of a scanner  *)
(* only removes it.                                                        *)
MirrorSound(m) ==
  /\ IF m.step = "default" THEN m.device = NoDevice ELSE m.device \in HubDevices
  /\ m.device \in HubScanners => m.to = Gone /\ m.step = "remove"

NoMirror(d) == \A m \in mirrors : m.device # d

(* What the agent knows of a registered printer: the one mirror under way  *)
(* carries the registered address, and between its two steps the agent     *)
(* knows nothing; with none under way it knows the address, or was         *)
(* reported.  A change that waits for its answer has no mirror to race.    *)
PrinterAgrees(d) ==
  registered[d] # Gone /\ d \notin silenced =>
    /\ \A m, n \in mirrors : m.device = d /\ n.device = d => m = n
    /\ \A m \in mirrors : m.device = d =>
         m.to = registered[d] /\ (m.step = "add" => agentRuns[d] = Gone /\ agentKeeps[d] = Gone)
    /\ NoMirror(d) /\ d \notin unmirrored => agentRuns[d] = registered[d] /\ agentKeeps[d] = registered[d]
    /\ patch.device = d /\ patch.to # Gone => NoMirror(d)

ScannerAgrees(d) ==
  registered[d] = Gone /\ d \notin silenced /\ NoMirror(d) /\ d \notin unmirrored =>
    agentRuns[d] = Gone /\ agentKeeps[d] = Gone

HubBooks ==
  /\ \A m \in mirrors : MirrorSound(m)
  /\ \A d \in HubPrinters : PrinterAgrees(d)
  /\ \A d \in HubScanners : ScannerAgrees(d)
HubInv == HubTypeOK /\ HubControl /\ HubBooks

LEMMA HubStarts == HubInit => HubInv
<1> SUFFICES ASSUME HubInit
             PROVE  HubInv
  OBVIOUS
<1> USE HubAssumption
<1>1. /\ registered \in [HubDevices -> Addresses \cup {Gone}]
      /\ \A d \in HubDevices : registered[d] # Gone
      /\ agentRuns = registered /\ agentKeeps = registered
  <2>1. (CHOOSE a \in Addresses : TRUE) \in Addresses
    OBVIOUS
  <2> QED
    BY <2>1 DEF HubInit
<1>2. /\ hubDialog \in Dialogs /\ hubDialog.kind = "closed" /\ patch = NoPatch /\ patch.device = NoDevice
      /\ patch.to = Gone /\ hubForm \in HubForms /\ patch \in HubPatches
  BY DEF HubInit, Dialogs, ClosedDialog, NoPatch, EmptyForm, HubForms, HubPatches
<1>3. listsLoaded \in BOOLEAN /\ seenReports \in (SUBSET HubDevices) \cup {{NoDevice}}
  BY DEF HubInit
<1>4. HubTypeOK
  BY <1>1, <1>2, <1>3 DEF HubInit, HubTypeOK
<1>5. HubControl
  BY <1>2 DEF HubInit, HubControl, HubDevices
<1>6. HubBooks
  BY <1>1, <1>2 DEF HubInit, HubBooks, PrinterAgrees, ScannerAgrees, NoMirror, HubDevices
<1> QED
  BY <1>4, <1>5, <1>6 DEF HubInv

(* Steps that touch neither the agent nor the mirrors: the registry may    *)
(* change for devices silenced by the step, a patch may be sent or end.    *)
LEMMA BooksKeep ==
  ASSUME HubInv, UNCHANGED <<agentRuns, agentKeeps, mirrors, unmirrored>>, silenced \subseteq silenced',
         \A d \in HubDevices \ silenced' : registered'[d] = registered[d],
         \A d \in HubPrinters \ silenced' :
           patch'.device = d /\ patch'.to # Gone => patch' = patch \/ NoMirror(d)
  PROVE  HubBooks'
<1>1. \A d \in HubDevices : NoMirror(d)' = NoMirror(d)
  BY DEF NoMirror
<1>2. \A d \in HubPrinters : PrinterAgrees(d)'
  BY <1>1 DEF HubInv, HubBooks, PrinterAgrees, HubDevices
<1>3. \A d \in HubScanners : ScannerAgrees(d)'
  BY <1>1 DEF HubInv, HubBooks, ScannerAgrees, HubDevices
<1> QED
  BY <1>2, <1>3 DEF HubInv, HubBooks, MirrorSound

LEMMA DialogsKeep ==
  ASSUME HubInv,
         \/ \E k \in {"rename", "address", "delete"}, d \in HubDevices : OpenHubDialog(k, d)
         \/ CloseHubDialog \/ ListsLoad
         \/ \E a \in Addresses : TypeAddress(a)
  PROVE  HubInv'
<1> USE HubAssumption DEF HubInv, HubTypeOK
<1>1. UNCHANGED <<hubStores, hubFlight, hubCalls, hubTurns>>
  BY DEF OpenHubDialog, CloseHubDialog, ListsLoad, TypeAddress
<1>2. HubBooks'
  BY <1>1, BooksKeep DEF hubStores, hubFlight
<1> DEFINE DialogSound ==
      /\ hubDialog' \in Dialogs
      /\ hubForm' \in HubForms
      /\ hubDialog'.kind # "closed" => hubDialog'.device \in HubDevices
      /\ hubDialog'.kind = "address" => hubDialog'.device \in HubPrinters
<1>3. DialogSound
  <2>1. ASSUME NEW k \in {"rename", "address", "delete"}, NEW d \in HubDevices, OpenHubDialog(k, d)
        PROVE  DialogSound
    BY <2>1 DEF OpenHubDialog, Dialogs, OnHub, HubForms
  <2>2. CASE CloseHubDialog
    BY <2>2 DEF CloseHubDialog, HideDialog, ClosedDialog, Dialogs, EmptyForm, HubForms
  <2>3. CASE ListsLoad \/ \E a \in Addresses : TypeAddress(a)
    BY <2>3 DEF ListsLoad, TypeAddress, HubControl, hubShown, HubForms
  <2> QED
    BY <2>1, <2>2, <2>3
<1>4. listsLoaded' \in BOOLEAN /\ seenReports' \in (SUBSET HubDevices) \cup {{NoDevice}}
  BY DEF OpenHubDialog, CloseHubDialog, ListsLoad, TypeAddress, hubVisit
<1> QED
  BY <1>1, <1>2, <1>3, <1>4 DEF hubStores, hubFlight, HubControl, OnHub

(* The requests: a patch, a removal, a new default.                        *)
LEMMA OvertakeSilences ==
  ASSUME HubInv, NEW d \in HubDevices, Overtakes(d)
  PROVE  /\ silenced \subseteq silenced' /\ silenced' \subseteq HubDevices /\ hubTurns' \in 0..MaxHubTurns
         /\ d \notin silenced' => NoMirror(d)
  BY HubAssumption DEF HubInv, HubTypeOK, Overtakes, HubTurn, NoMirror

LEMMA RequestsKeep ==
  ASSUME HubInv,
         \/ SaveAddress \/ SaveName \/ ConfirmDelete
         \/ \E d \in HubPrinters \cup {"clear"} : SetDefault(d)
  PROVE  HubInv'
<1> USE HubAssumption DEF HubInv, HubTypeOK
<1>0. \A d : DefaultAfter(d) \in HubPrinters \cup {NoDevice}
  BY DEF DefaultAfter
<1>1. /\ UNCHANGED <<registered, agentRuns, agentKeeps, hubShown, mirrors, unmirrored, hubVisit>>
      /\ hubCalls' \in 0..MaxHubCalls /\ regDefault' \in HubPrinters \cup {NoDevice}
  BY <1>0 DEF SaveAddress, hubStores, SaveName, ConfirmDelete, SetDefault, HubCall
<1> DEFINE RequestSound ==
      /\ patch' \in HubPatches /\ removal' \in HubDevices \cup {NoDevice}
      /\ patch' = NoPatch \/ patch'.device \in HubDevices
      /\ patch'.to # Gone => patch'.device \in HubPrinters
      /\ defaultCall' \in HubPrinters \cup {NoDevice, "clear"}
      /\ silenced \subseteq silenced' /\ silenced' \subseteq HubDevices /\ hubTurns' \in 0..MaxHubTurns
      /\ \A d \in HubPrinters \ silenced' :
           patch'.device = d /\ patch'.to # Gone => patch' = patch \/ NoMirror(d)
<1>2. RequestSound
  <2>1. CASE SaveAddress
    <3>1. /\ hubDialog.device \in HubPrinters /\ hubDialog.device \in HubDevices
          /\ hubDialog.device \notin HubScanners
      BY <2>1 DEF SaveAddress, HubControl, HubDevices
    <3>2. /\ patch' = [device |-> hubDialog.device, to |-> hubForm.address]
          /\ UNCHANGED <<removal, defaultCall>> /\ Overtakes(hubDialog.device)
      BY <2>1 DEF SaveAddress
    <3>3. patch' \in HubPatches /\ patch'.device = hubDialog.device
      BY <3>1, <3>2 DEF HubForms, HubPatches
    <3> QED
      BY <3>1, <3>2, <3>3, OvertakeSilences DEF HubControl
  <2>2. CASE SaveName
    <3>1. hubDialog.device \in HubDevices
      BY <2>2 DEF SaveName, HubControl
    <3>2. /\ patch' = [device |-> hubDialog.device, to |-> Gone]
          /\ UNCHANGED <<removal, defaultCall, silenced, hubTurns>>
      BY <2>2 DEF SaveName
    <3>3. /\ patch' \in HubPatches /\ patch'.device = hubDialog.device
          /\ patch'.to = Gone
      BY <3>1, <3>2 DEF HubPatches
    <3> QED
      BY <3>1, <3>2, <3>3 DEF HubControl
  <2>3. CASE ConfirmDelete
    <3>1. hubDialog.device \in HubDevices
      BY <2>3 DEF ConfirmDelete, HubControl
    <3>2. removal' = hubDialog.device /\ UNCHANGED <<patch, defaultCall>> /\ Overtakes(hubDialog.device)
      BY <2>3 DEF ConfirmDelete
    <3> QED
      BY <3>1, <3>2, OvertakeSilences DEF HubControl
  <2>4. ASSUME NEW d \in HubPrinters \cup {"clear"}, SetDefault(d) PROVE RequestSound
    BY <2>4 DEF SetDefault, HubControl
  <2> QED
    BY <2>1, <2>2, <2>3, <2>4
<1>3. HubBooks'
  BY <1>1, <1>2, BooksKeep
<1>4. HubControl'
  BY <1>1, <1>2 DEF HubControl, hubShown, OnHub
<1>5. {removal', defaultCall'} \subseteq HubDevices \cup {NoDevice} \cup {"clear"}
  BY <1>2 DEF HubDevices
<1> QED
  BY <1>1, <1>2, <1>3, <1>4, <1>5 DEF hubShown, hubVisit

(* A patch that is refused or lost, and leaving the page: what the backend *)
(* commits unseen is silenced.                                             *)
LEMMA PatchEndsKeep ==
  ASSUME HubInv, PatchFails \/ LeaveHub
  PROVE  HubInv'
<1> USE HubAssumption DEF HubInv, HubTypeOK
<1>0. \A d : DefaultAfter(d) \in HubPrinters \cup {NoDevice}
  BY DEF DefaultAfter
<1>1. /\ patch' = NoPatch /\ NoPatch.device = NoDevice /\ NoPatch.to = Gone /\ NoPatch \in HubPatches
      /\ UNCHANGED <<agentRuns, agentKeeps, mirrors, unmirrored, hubCalls>>
      /\ removal' \in {removal, NoDevice} /\ defaultCall' \in {defaultCall, NoDevice}
      /\ hubTurns' \in 0..MaxHubTurns
  BY DEF PatchFails, LeaveHub, HubTurn, NoPatch, HubPatches
<1>2. regDefault' \in HubPrinters \cup {NoDevice}
  BY <1>0 DEF PatchFails, LeaveHub
<1>3. /\ silenced \subseteq silenced' /\ silenced' \subseteq HubDevices
      /\ \A d \in HubDevices \ silenced' : registered'[d] = registered[d]
  BY DEF PatchFails, LeaveHub, Changed, Mirroring
<1>4. registered' \in [HubDevices -> Addresses \cup {Gone}]
  <2>1. \A d \in HubDevices : Patched(d) \in Addresses \cup {Gone}
    BY DEF Patched, HubPatches
  <2> QED
    BY <2>1 DEF PatchFails, LeaveHub, PatchCommits
<1>5. /\ UNCHANGED <<hubDialog, hubForm>> \/ HideDialog
      /\ listsLoaded' \in BOOLEAN /\ seenReports' \in (SUBSET HubDevices) \cup {{NoDevice}}
  BY DEF PatchFails, LeaveHub, hubShown, hubVisit
<1>6. /\ hubDialog' \in Dialogs /\ hubForm' \in HubForms
      /\ hubDialog'.kind # "closed" => hubDialog'.device \in HubDevices
      /\ hubDialog'.kind = "address" => hubDialog'.device \in HubPrinters
  BY <1>5 DEF HideDialog, ClosedDialog, Dialogs, HubControl, EmptyForm, HubForms
<1>7. HubBooks'
  BY <1>1, <1>3, BooksKeep
<1>8. HubControl'
  BY <1>1, <1>6 DEF HubControl
<1> QED
  BY <1>1, <1>2, <1>3, <1>4, <1>5, <1>6, <1>7, <1>8

LEMMA PatchAnswersKeeps == HubInv /\ PatchAnswers => HubInv'
<1> SUFFICES ASSUME HubInv, PatchAnswers
             PROVE  HubInv'
  OBVIOUS
<1> USE HubAssumption DEF HubInv, HubTypeOK
<1>0. PICK e \in HubDevices, to \in Addresses \cup {Gone} : e = patch.device /\ to = patch.to
  BY DEF PatchAnswers, HubControl, HubPatches
<1> DEFINE new == [device |-> e, to |-> to, step |-> "remove"]
<1>1. /\ patch' = NoPatch /\ NoPatch.device = NoDevice /\ NoPatch.to = Gone /\ NoPatch \in HubPatches
      /\ UNCHANGED <<agentRuns, agentKeeps, regDefault, removal, defaultCall, unmirrored, silenced,
                     hubVisit, hubCalls, hubTurns>>
  BY DEF PatchAnswers, NoPatch, HubPatches
<1>2. /\ hubDialog' \in Dialogs /\ hubForm' \in HubForms
      /\ hubDialog'.kind # "closed" => hubDialog'.device \in HubDevices
      /\ hubDialog'.kind = "address" => hubDialog'.device \in HubPrinters
  BY DEF PatchAnswers, HideDialog, ClosedDialog, Dialogs, EmptyForm, HubForms
<1>4. HubControl'
  BY <1>1, <1>2 DEF HubControl
<1>5. SUFFICES registered' \in [HubDevices -> Addresses \cup {Gone}] /\ mirrors' \subseteq Mirror /\ HubBooks'
  BY <1>1, <1>2, <1>4 DEF hubVisit
<1>6. CASE to = Gone
  <2>1. registered' = registered /\ mirrors' = mirrors
    BY <1>0, <1>6 DEF PatchAnswers, PatchCommits, Patched
  <2> QED
    BY <1>1, <2>1, BooksKeep
<1>7. CASE to # Gone
  <2>1. registered[e] # Gone /\ mirrors' = mirrors \cup {new}
    BY <1>0, <1>7 DEF PatchAnswers, MirrorAddress
  <2>2. e \in HubPrinters /\ e \notin HubScanners
    BY <1>0, <1>7 DEF HubControl, HubDevices
  <2>3. new \in Mirror /\ new.device = e /\ new.to = to /\ new.step = "remove"
    BY DEF Mirror
  <2>4. /\ registered' \in [HubDevices -> Addresses \cup {Gone}] /\ registered'[e] = to
        /\ \A d \in HubDevices \ {e} : registered'[d] = registered[d]
    BY <1>0, <1>7, <2>1 DEF PatchAnswers, PatchCommits, Patched
  <2> HIDE DEF new
  <2>5. \A m \in mirrors' : MirrorSound(m) /\ m \in Mirror
    <3>1. \A m \in mirrors : MirrorSound(m)
      BY DEF HubBooks
    <3>2. MirrorSound(new)
      BY <2>2, <2>3 DEF MirrorSound
    <3> QED
      BY <2>1, <2>3, <3>1, <3>2 DEF MirrorSound
  <2>6. \A d \in HubDevices \ {e} : /\ NoMirror(d)' = NoMirror(d)
                                    /\ \A m \in mirrors' : m.device = d => m \in mirrors
    BY <2>1, <2>3 DEF NoMirror
  <2>7. PrinterAgrees(e)'
    <3>1. SUFFICES ASSUME e \notin silenced PROVE PrinterAgrees(e)'
      BY <1>1 DEF PrinterAgrees
    <3>2. \A m \in mirrors : m.device # e
      BY <1>0, <1>7, <2>1, <2>2, <3>1 DEF HubBooks, PrinterAgrees, NoMirror
    <3>3. ~NoMirror(e)'
      BY <2>1, <2>3 DEF NoMirror
    <3> QED
      BY <1>1, <2>1, <2>3, <2>4, <3>2, <3>3 DEF PrinterAgrees
  <2>8. ASSUME NEW d \in HubPrinters \ {e} PROVE PrinterAgrees(d)'
    <3>1. PrinterAgrees(d) /\ d \in HubDevices
      BY DEF HubBooks, HubDevices
    <3> QED
      BY <1>1, <2>4, <2>6, <3>1 DEF PrinterAgrees
  <2>9. ASSUME NEW d \in HubScanners PROVE ScannerAgrees(d)'
    <3>1. ScannerAgrees(d) /\ d \in HubDevices \ {e}
      BY <2>2 DEF HubBooks, HubDevices
    <3> QED
      BY <1>1, <2>4, <2>6, <3>1 DEF ScannerAgrees
  <2> QED
    BY <2>4, <2>5, <2>7, <2>8, <2>9 DEF HubBooks
<1> QED
  BY <1>6, <1>7

LEMMA DeleteAnswersKeeps == HubInv /\ DeleteAnswers => HubInv'
<1> SUFFICES ASSUME HubInv, DeleteAnswers
             PROVE  HubInv'
  OBVIOUS
<1> USE HubAssumption DEF HubInv, HubTypeOK
<1>0. PICK e \in HubDevices : e = removal
  BY DEF DeleteAnswers, HubControl
<1>1. /\ removal' = NoDevice
      /\ UNCHANGED <<agentRuns, agentKeeps, patch, defaultCall, unmirrored, hubVisit, hubCalls>>
      /\ hubTurns' \in 0..MaxHubTurns
  BY DEF DeleteAnswers, HubTurn
<1>2. UNCHANGED hubShown \/ HideDialog
  BY DEF DeleteAnswers
<1>3. /\ hubDialog' \in Dialogs /\ hubForm' \in HubForms
      /\ hubDialog'.kind # "closed" => hubDialog'.device \in HubDevices
      /\ hubDialog'.kind = "address" => hubDialog'.device \in HubPrinters
  BY <1>2 DEF HideDialog, ClosedDialog, Dialogs, HubControl, hubShown, EmptyForm, HubForms
<1> DEFINE Rest == /\ registered' \in [HubDevices -> Addresses \cup {Gone}] /\ mirrors' \subseteq Mirror
                   /\ regDefault' \in HubPrinters \cup {NoDevice} /\ silenced' \subseteq HubDevices
                   /\ HubBooks'
<1>4. SUFFICES Rest
  BY <1>1, <1>3, <1>4 DEF hubVisit, HubControl
<1>5. CASE silenced' = silenced \cup Changed /\ mirrors' = mirrors /\ (UNCHANGED <<registered, regDefault>> \/ DeleteCommits)
  <2>1. /\ silenced \subseteq silenced' /\ silenced' \subseteq HubDevices
        /\ \A d \in HubDevices \ silenced' : registered'[d] = registered[d]
    BY <1>5 DEF Changed
  <2>2. registered' \in [HubDevices -> Addresses \cup {Gone}] /\ regDefault' \in HubPrinters \cup {NoDevice}
    BY <1>5 DEF DeleteCommits
  <2> QED
    BY <1>1, <1>5, <2>1, <2>2, BooksKeep
<1>6. CASE DeleteCommits /\ MirrorRemoval /\ silenced' = silenced
  <2> DEFINE new == [device |-> e, to |-> Gone, step |-> "remove"]
  <2>1. /\ registered' \in [HubDevices -> Addresses \cup {Gone}] /\ registered'[e] = Gone
        /\ \A d \in HubDevices \ {e} : registered'[d] = registered[d]
    BY <1>0, <1>6 DEF DeleteCommits
  <2>2. new \in Mirror /\ new.device = e /\ MirrorSound(new) /\ regDefault' \in HubPrinters \cup {NoDevice}
    BY <1>6 DEF Mirror, MirrorSound, DeleteCommits
  <2>4. \/ mirrors' = mirrors /\ e \notin HubScanners
        \/ mirrors' = mirrors \cup {new}
    BY <1>0, <1>6 DEF MirrorRemoval
  <2> HIDE DEF new
  <2>6. \A m \in mirrors' : MirrorSound(m) /\ m \in Mirror
    <3>1. \A m \in mirrors : MirrorSound(m)
      BY DEF HubBooks
    <3> QED
      BY <2>2, <2>4, <3>1 DEF MirrorSound
  <2>7. \A d \in HubDevices \ {e} : NoMirror(d)' = NoMirror(d)
    BY <2>2, <2>4 DEF NoMirror
  <2>8. \A d \in HubPrinters : PrinterAgrees(d)'
    <3>1. PrinterAgrees(e)'
      BY <2>1 DEF PrinterAgrees
    <3>2. ASSUME NEW d \in HubPrinters \ {e} PROVE PrinterAgrees(d)'
      <4>1. PrinterAgrees(d) /\ d \in HubDevices
        BY DEF HubBooks, HubDevices
      <4>2. \A m \in mirrors' : m.device = d => m \in mirrors
        BY <2>2, <2>4
      <4> QED
        BY <1>1, <1>6, <2>1, <2>7, <4>1, <4>2 DEF PrinterAgrees
    <3> QED
      BY <3>1, <3>2
  <2>9. ASSUME NEW d \in HubScanners PROVE ScannerAgrees(d)'
    <3>1. CASE d # e
      <4>1. ScannerAgrees(d) /\ d \in HubDevices
        BY DEF HubBooks, HubDevices
      <4> QED
        BY <1>1, <1>6, <2>1, <2>7, <3>1, <4>1 DEF ScannerAgrees
    <3>2. CASE d = e
      <4>1. ~NoMirror(e)'
        BY <2>2, <2>4, <3>2 DEF NoMirror
      <4> QED
        BY <3>2, <4>1 DEF ScannerAgrees
    <3> QED
      BY <3>1, <3>2
  <2> QED
    BY <1>6, <2>1, <2>2, <2>6, <2>8, <2>9 DEF HubBooks
<1>7. \/ DeleteCommits /\ MirrorRemoval /\ silenced' = silenced
      \/ /\ silenced' = silenced \cup Changed /\ mirrors' = mirrors
         /\ UNCHANGED <<registered, regDefault>> \/ DeleteCommits
  BY DEF DeleteAnswers, Changed
<1> QED
  BY <1>5, <1>6, <1>7

LEMMA DefaultAnswersKeeps == HubInv /\ DefaultAnswers => HubInv'
<1> SUFFICES ASSUME HubInv, DefaultAnswers
             PROVE  HubInv'
  OBVIOUS
<1> USE HubAssumption DEF HubInv, HubTypeOK
<1> DEFINE new == [device |-> NoDevice, to |-> Gone, step |-> "default"]
<1>1. /\ defaultCall' = NoDevice
      /\ UNCHANGED <<registered, agentRuns, agentKeeps, hubShown, patch, removal, unmirrored, silenced,
                     hubVisit, hubCalls, hubTurns>>
      /\ mirrors' = mirrors \/ mirrors' = mirrors \cup {new}
  BY DEF DefaultAnswers
<1>2. new \in Mirror /\ new.device = NoDevice /\ MirrorSound(new)
  BY DEF Mirror, MirrorSound, HubDevices
<1>3. regDefault' \in HubPrinters \cup {NoDevice}
  BY DEF DefaultAnswers, HubControl, DefaultAfter
<1>4. HubControl'
  BY <1>1 DEF HubControl, hubShown
<1> HIDE DEF new
<1>5. \A d \in HubDevices : /\ NoMirror(d)' = NoMirror(d)
                            /\ \A m \in mirrors' : m.device = d => m \in mirrors
  BY <1>1, <1>2 DEF NoMirror
<1>6. \A d \in HubPrinters : PrinterAgrees(d)'
  BY <1>1, <1>5 DEF HubBooks, PrinterAgrees, HubDevices
<1>7. \A d \in HubScanners : ScannerAgrees(d)'
  BY <1>1, <1>5 DEF HubBooks, ScannerAgrees, HubDevices
<1>8. \A m \in mirrors' : MirrorSound(m) /\ m \in Mirror
  BY <1>1, <1>2 DEF HubBooks, MirrorSound
<1> QED
  BY <1>1, <1>3, <1>4, <1>6, <1>7, <1>8 DEF HubBooks, hubShown, hubVisit

(* The agent's side: a step of a mirror, its failure, a restart.           *)
LEMMA AgentStores ==
  ASSUME HubInv, NEW e \in HubDevices, NEW a \in Addresses \cup {Gone},
         \/ AgentRemoves(e) \/ AgentAdds(e, a)
         \/ agentRuns' = [agentRuns EXCEPT ![e] = a] /\ UNCHANGED agentKeeps
  PROVE  /\ {agentRuns', agentKeeps'} \subseteq [HubDevices -> Addresses \cup {Gone}]
         /\ \A d \in HubDevices \ {e} : agentRuns'[d] = agentRuns[d] /\ agentKeeps'[d] = agentKeeps[d]
         /\ AgentRemoves(e) => agentRuns'[e] = Gone /\ agentKeeps'[e] = Gone
         /\ AgentAdds(e, a) /\ agentKeeps[e] = Gone => agentRuns'[e] = a /\ agentKeeps'[e] = a
<1> USE DEF HubInv, HubTypeOK
<1>1. CASE AgentRemoves(e)
  BY <1>1 DEF AgentRemoves, AgentAdds
<1>2. CASE AgentAdds(e, a)
  <2>1. /\ agentRuns' = [agentRuns EXCEPT ![e] = a]
        /\ agentKeeps' = [agentKeeps EXCEPT ![e] = IF agentKeeps[e] = Gone THEN a ELSE agentKeeps[e]]
    BY <1>2 DEF AgentAdds
  <2>2. {agentRuns', agentKeeps'} \subseteq [HubDevices -> Addresses \cup {Gone}]
    BY <2>1
  <2>3. AgentRemoves(e) => agentRuns'[e] = Gone /\ agentKeeps'[e] = Gone
    BY DEF AgentRemoves
  <2> QED
    BY <2>1, <2>2, <2>3
<1>3. CASE agentRuns' = [agentRuns EXCEPT ![e] = a] /\ UNCHANGED agentKeeps
  BY <1>3 DEF AgentRemoves, AgentAdds
<1> QED
  BY <1>1, <1>2, <1>3

(* The books of a device the step is not about.                            *)
LEMMA OtherDevicesKeep ==
  ASSUME HubInv, NEW m \in mirrors, NEW d \in HubDevices \ {m.device},
         UNCHANGED <<registered, patch>>, d \in silenced <=> d \in silenced',
         \A n \in mirrors' \cup mirrors : n.device = d => n \in mirrors /\ n \in mirrors',
         agentRuns'[d] = agentRuns[d], agentKeeps'[d] = agentKeeps[d],
         d \in unmirrored <=> d \in unmirrored'
  PROVE  PrinterAgrees(d) = PrinterAgrees(d)' /\ ScannerAgrees(d) = ScannerAgrees(d)'
<1>1. NoMirror(d) = NoMirror(d)'
  BY DEF NoMirror
<1> QED
  BY <1>1 DEF PrinterAgrees, ScannerAgrees

LEMMA AgentRestartsKeeps == HubInv /\ AgentRestarts => HubInv'
<1> SUFFICES ASSUME HubInv, AgentRestarts
             PROVE  HubInv'
  OBVIOUS
<1> USE HubAssumption DEF HubInv, HubTypeOK
<1>1. /\ agentRuns' = agentKeeps /\ hubTurns' \in 0..MaxHubTurns
      /\ UNCHANGED <<registered, agentKeeps, regDefault, hubShown, hubFlight, hubVisit, hubCalls>>
  BY DEF AgentRestarts, HubTurn
<1>2. \A d \in HubDevices : NoMirror(d)' = NoMirror(d)
  BY <1>1 DEF NoMirror, hubFlight
<1>3. \A d \in HubPrinters : PrinterAgrees(d)'
  BY <1>1, <1>2 DEF HubBooks, PrinterAgrees, HubDevices, hubFlight
<1>4. \A d \in HubScanners : ScannerAgrees(d)'
  BY <1>1, <1>2 DEF HubBooks, ScannerAgrees, HubDevices, hubFlight
<1> QED
  BY <1>1, <1>3, <1>4 DEF HubBooks, HubControl, MirrorSound, hubShown, hubFlight, hubVisit

LEMMA MirrorStepKeeps == ASSUME HubInv, NEW m \in mirrors, MirrorStep(m) PROVE HubInv'
<1> USE HubAssumption DEF HubInv, HubTypeOK
<1>0. m \in Mirror /\ MirrorSound(m)
  BY DEF HubBooks
<1>1. PICK e : e = m.device
  OBVIOUS
<1>2. /\ UNCHANGED <<registered, regDefault, hubShown, patch, removal, defaultCall, hubVisit, hubCalls>>
      /\ hubTurns' \in 0..MaxHubTurns
      /\ \/ UNCHANGED silenced
         \/ m.step = "add" /\ AgentAddsUnsaved(e, m.to) /\ silenced' = silenced \cup {e}
  BY <1>1 DEF MirrorStep, AgentAddsUnsaved, HubTurn
<1>3. \A d \in HubDevices \ {e} : /\ d \in unmirrored <=> d \in unmirrored'
                                  /\ d \in silenced <=> d \in silenced'
  BY <1>1, <1>2 DEF MirrorStep
<1>4. HubControl' /\ unmirrored' \subseteq HubDevices /\ silenced' \subseteq HubDevices
  BY <1>0, <1>1, <1>2 DEF HubControl, MirrorStep, MirrorSound, hubShown
<1> DEFINE Rest == /\ {agentRuns', agentKeeps'} \subseteq [HubDevices -> Addresses \cup {Gone}]
                   /\ mirrors' \subseteq Mirror /\ HubBooks'
<1>5. SUFFICES Rest
  BY <1>2, <1>4 DEF hubShown, hubVisit
<1>6. ASSUME \A n \in mirrors' : MirrorSound(n)', e \in HubPrinters => PrinterAgrees(e)',
             e \in HubScanners => ScannerAgrees(e)',
             \A d \in HubDevices \ {e} : /\ agentRuns'[d] = agentRuns[d] /\ agentKeeps'[d] = agentKeeps[d]
                                         /\ \A n \in mirrors' \cup mirrors :
                                              n.device = d => n \in mirrors /\ n \in mirrors'
      PROVE  HubBooks'
  <2>1. \A d \in HubDevices \ {e} :
          PrinterAgrees(d) = PrinterAgrees(d)' /\ ScannerAgrees(d) = ScannerAgrees(d)'
    BY <1>1, <1>2, <1>3, <1>6, OtherDevicesKeep
  <2> QED
    BY <1>6, <2>1 DEF HubBooks, HubDevices
<1>7. CASE m.step = "remove"
  <2> DEFINE adding == [m EXCEPT !.step = "add"]
  <2>1. e \in HubDevices /\ m.to \in Addresses \cup {Gone} /\ AgentRemoves(e)
    BY <1>0, <1>1, <1>7 DEF MirrorSound, Mirror, MirrorStep
  <2>2. /\ mirrors' = (mirrors \ {m}) \cup (IF m.to = Gone THEN {} ELSE {adding})
        /\ adding \in Mirror /\ adding.device = e /\ adding.to = m.to /\ adding.step = "add"
    BY <1>0, <1>1, <1>7 DEF MirrorStep, AfterRemove, Mirror
  <2> HIDE DEF adding
  <2>3. /\ {agentRuns', agentKeeps'} \subseteq [HubDevices -> Addresses \cup {Gone}]
        /\ \A d \in HubDevices \ {e} : agentRuns'[d] = agentRuns[d] /\ agentKeeps'[d] = agentKeeps[d]
        /\ agentRuns'[e] = Gone /\ agentKeeps'[e] = Gone
    BY <2>1, AgentStores
  <2>4. mirrors' \subseteq Mirror /\ \A n \in mirrors' : MirrorSound(n)
    BY <1>0, <1>1, <2>1, <2>2 DEF HubBooks, MirrorSound
  <2>5. PrinterAgrees(e)' \/ e \notin HubPrinters
    <3>1. SUFFICES ASSUME e \in HubPrinters, registered[e] # Gone, e \notin silenced PROVE PrinterAgrees(e)'
      BY <1>2 DEF PrinterAgrees
    <3>2. /\ \A n \in mirrors : n.device = e => n = m
          /\ m.to = registered[e] /\ ~NoMirror(e)
      BY <1>1, <3>1 DEF HubBooks, PrinterAgrees, NoMirror
    <3>3. adding \in mirrors' /\ \A n \in mirrors' : n.device = e => n = adding
      BY <2>2, <3>1, <3>2
    <3>4. ~NoMirror(e)'
      BY <2>2, <3>3 DEF NoMirror
    <3>5. ~(patch.device = e /\ patch.to # Gone)
      BY <3>1, <3>2 DEF HubBooks, PrinterAgrees
    <3> QED
      BY <1>2, <2>2, <2>3, <3>2, <3>3, <3>4, <3>5 DEF PrinterAgrees
  <2>6. ScannerAgrees(e)'
    BY <2>3 DEF ScannerAgrees
  <2>7. \A d \in HubDevices \ {e} : \A n \in mirrors' \cup mirrors : n.device = d => n \in mirrors /\ n \in mirrors'
    BY <1>1, <2>2
  <2> QED
    BY <1>6, <2>3, <2>4, <2>5, <2>6, <2>7 DEF MirrorSound
<1>8. CASE m.step = "add"
  <2>1. e \in HubPrinters /\ e \in HubDevices /\ e \notin HubScanners /\ m.to \in Addresses \cup {Gone}
        /\ \/ AgentAdds(e, m.to) /\ UNCHANGED silenced
           \/ /\ agentRuns' = [agentRuns EXCEPT ![e] = m.to] /\ UNCHANGED agentKeeps
              /\ silenced' = silenced \cup {e}
    BY <1>0, <1>1, <1>8 DEF MirrorSound, Mirror, MirrorStep, HubDevices, AgentAddsUnsaved
  <2>2. mirrors' = mirrors \ {m} /\ unmirrored' = unmirrored \ {e}
    BY <1>1, <1>8 DEF MirrorStep
  <2>3. /\ {agentRuns', agentKeeps'} \subseteq [HubDevices -> Addresses \cup {Gone}]
        /\ \A d \in HubDevices \ {e} : agentRuns'[d] = agentRuns[d] /\ agentKeeps'[d] = agentKeeps[d]
        /\ agentKeeps[e] = Gone /\ e \notin silenced' => agentRuns'[e] = m.to /\ agentKeeps'[e] = m.to
    BY <2>1, AgentStores
  <2>4. mirrors' \subseteq Mirror /\ \A n \in mirrors' : MirrorSound(n)
    BY <2>2 DEF HubBooks
  <2>5. PrinterAgrees(e)'
    <3>1. SUFFICES ASSUME registered[e] # Gone, e \notin silenced' PROVE PrinterAgrees(e)'
      BY <1>2 DEF PrinterAgrees
    <3>2. /\ \A n \in mirrors : n.device = e => n = m
          /\ m.to = registered[e] /\ agentKeeps[e] = Gone
      BY <1>1, <1>8, <2>1, <3>1 DEF HubBooks, PrinterAgrees
    <3>3. \A n \in mirrors' : n.device # e
      BY <2>2, <3>2
    <3> QED
      BY <1>2, <2>3, <3>2, <3>3 DEF PrinterAgrees, NoMirror
  <2>7. \A d \in HubDevices \ {e} : \A n \in mirrors' \cup mirrors : n.device = d => n \in mirrors /\ n \in mirrors'
    BY <1>1, <2>2
  <2> QED
    BY <1>6, <2>1, <2>3, <2>4, <2>5, <2>7 DEF MirrorSound
<1>9. CASE m.step = "default"
  <2>1. e \notin HubDevices /\ mirrors' = mirrors \ {m} /\ UNCHANGED <<agentRuns, agentKeeps>>
    BY <1>0, <1>1, <1>9 DEF MirrorSound, MirrorStep
  <2>2. mirrors' \subseteq Mirror /\ \A n \in mirrors' : MirrorSound(n)
    BY <2>1 DEF HubBooks
  <2>3. \A d \in HubDevices \ {e} : \A n \in mirrors' \cup mirrors : n.device = d => n \in mirrors /\ n \in mirrors'
    BY <1>1, <2>1
  <2> QED
    BY <1>6, <2>1, <2>2, <2>3 DEF MirrorSound, HubDevices
<1> QED
  BY <1>0, <1>7, <1>8, <1>9 DEF Mirror

LEMMA MirrorFailsKeeps == ASSUME HubInv, NEW m \in mirrors, MirrorFails(m) PROVE HubInv'
<1> USE HubAssumption DEF HubInv, HubTypeOK
<1>0. m \in Mirror /\ MirrorSound(m)
  BY DEF HubBooks
<1>1. PICK e : e = m.device
  OBVIOUS
<1>2. /\ UNCHANGED <<registered, regDefault, hubShown, patch, removal, defaultCall, silenced, hubVisit,
                     hubCalls>>
      /\ hubTurns' \in 0..MaxHubTurns /\ mirrors' = mirrors \ {m}
      /\ unmirrored' = unmirrored \cup ({e} \cap HubDevices)
  BY <1>1 DEF MirrorFails, HubTurn
<1>3. HubControl'
  BY <1>2 DEF HubControl, hubShown
<1>4. /\ {agentRuns', agentKeeps'} \subseteq [HubDevices -> Addresses \cup {Gone}]
      /\ \A d \in HubDevices \ {e} : agentRuns'[d] = agentRuns[d] /\ agentKeeps'[d] = agentKeeps[d]
  <2>1. CASE UNCHANGED <<agentRuns, agentKeeps>>
    BY <2>1
  <2>2. CASE m.step = "remove" /\ AgentRemoves(e)
    <3>1. e \in HubDevices
      BY <1>0, <1>1, <2>2 DEF MirrorSound
    <3> QED
      BY <2>2, <3>1, AgentStores
  <2>3. CASE /\ m.step = "add" \/ e \in HubScanners
             /\ AgentAdds(e, m.to) \/ (agentRuns' = [agentRuns EXCEPT ![e] = m.to] /\ UNCHANGED agentKeeps)
    <3>1. e \in HubDevices /\ m.to \in Addresses \cup {Gone}
      BY <1>0, <1>1, <2>3 DEF MirrorSound, Mirror, HubDevices
    <3> QED
      BY <2>3, <3>1, AgentStores
  <2> QED
    BY <1>1, <2>1, <2>2, <2>3 DEF MirrorFails
<1>5. \A d \in HubDevices \ {e} :
        PrinterAgrees(d) = PrinterAgrees(d)' /\ ScannerAgrees(d) = ScannerAgrees(d)'
  BY <1>1, <1>2, <1>4, OtherDevicesKeep
<1>6. e \in HubPrinters => PrinterAgrees(e)'
  <2>1. SUFFICES ASSUME e \in HubPrinters, registered[e] # Gone, e \notin silenced PROVE PrinterAgrees(e)'
    BY <1>2 DEF PrinterAgrees
  <2>2. \A n \in mirrors : n.device = e => n = m
    BY <1>1, <2>1 DEF HubBooks, PrinterAgrees
  <2>3. \A n \in mirrors' : n.device # e
    BY <1>2, <2>2
  <2> QED
    BY <1>2, <2>1, <2>3 DEF PrinterAgrees, NoMirror, HubDevices
<1>7. e \in HubScanners => ScannerAgrees(e)'
  BY <1>2 DEF ScannerAgrees, HubDevices
<1>8. HubBooks'
  BY <1>2, <1>5, <1>6, <1>7 DEF HubBooks, HubDevices, MirrorSound
<1> QED
  BY <1>2, <1>3, <1>4, <1>8 DEF hubShown, hubVisit

LEMMA HubKeeps == HubInv /\ [HubNext]_hubVars => HubInv'
<1> SUFFICES ASSUME HubInv, UNCHANGED hubVars
             PROVE  HubInv'
  BY DialogsKeep, RequestsKeep, PatchEndsKeep, PatchAnswersKeeps, DeleteAnswersKeeps,
     DefaultAnswersKeeps, AgentRestartsKeeps, MirrorStepKeeps, MirrorFailsKeeps DEF HubNext
<1>1. UNCHANGED <<hubStores, hubShown, hubFlight, hubVisit, hubCalls, hubTurns>>
  BY DEF hubVars
<1>2. HubBooks'
  BY <1>1, BooksKeep DEF hubStores, hubFlight
<1> QED
  BY <1>1, <1>2 DEF HubInv, HubTypeOK, HubControl, hubStores, hubShown, hubFlight, hubVisit

(* The invariant of the equipment hub, inductive: whatever the agent knows *)
(* of a device that the registry does not say, a mirror call under way     *)
(* will put right or the page has reported.                                *)
THEOREM HubInvariance == HubSpec => []HubInv
  BY HubStarts, HubKeeps, PTL DEF HubSpec

(* Whatever steps of a mirror are refused, and however dialogs, removals   *)
(* and restarts of the agent interleave: a device the agent knows          *)
(* otherwise than the registry was reported, or was silenced in one of the *)
(* four named ways.                                                        *)
THEOREM NoSilentDrift == HubSpec => []MirroredOrReported
<1>1. HubInv => MirroredOrReported
  BY DEF HubInv, HubBooks, PrinterAgrees, ScannerAgrees, NoMirror, MirroredOrReported
<1> QED
  BY HubInvariance, <1>1, PTL
------------------------------------------------------------------------------
(* MCVenue.                                                                *)

(* A step of the venue is, seen from each screen, a step of that screen's  *)
(* own specification or a stutter of it.                                   *)
LEMMA EachScreenOnItsOwn ==
  ASSUME [VenueNext]_venueVars
  PROVE  /\ [StationNext]_stationVars
         /\ [RailNext]_railVars
         /\ [LaunchNext]_launchVars
         /\ [KioskNext]_kioskVars
         /\ [KioskAgentNext]_kagentVars
         /\ [EquipNext]_equipVars
         /\ [ScannerTestNext]_testVars
         /\ [WizardNext]_wizardVars
         /\ [ScannerNext]_scannerVars
         /\ [HubNext]_hubVars
<1> USE DEF VenueNext, venueVars, Alone,
         StationMoves, RailMoves, LaunchMoves, KioskMoves, KioskAgentMoves, EquipMoves,
         ScannerTestMoves, PrinterMoves, ScannerMoves, HubMoves
<1>1. [StationNext]_stationVars
  OBVIOUS
<1>2. [RailNext]_railVars
  OBVIOUS
<1>3. [LaunchNext]_launchVars
  OBVIOUS
<1>4. [KioskNext]_kioskVars
  OBVIOUS
<1>5. [KioskAgentNext]_kagentVars
  OBVIOUS
<1>6. [EquipNext]_equipVars
  OBVIOUS
<1>7. [ScannerTestNext]_testVars
  OBVIOUS
<1>8. [WizardNext]_wizardVars
  OBVIOUS
<1>9. [ScannerNext]_scannerVars
  OBVIOUS
<1>10. [HubNext]_hubVars
  OBVIOUS
<1> QED
  BY <1>1, <1>2, <1>3, <1>4, <1>5, <1>6, <1>7, <1>8, <1>9, <1>10

(* The venue's pages, side by side, keep every promise they make alone:    *)
(* the screen on show is the only one that moves, by its own steps.        *)
THEOREM VenueImplementsScreens ==
  VenueSpec => /\ StationSpec /\ RailSpec /\ LaunchSpec /\ KioskSpec /\ KioskAgentSpec
               /\ KioskEquipmentSpec /\ WizardSpec /\ ScannerSpec /\ HubSpec
<1>1. VenueInit => /\ StationInit /\ RailInit /\ LaunchInit /\ KioskInit /\ KioskAgentInit
                   /\ KioskEquipmentInit /\ WizardInit /\ ScannerInit /\ HubInit
  BY DEF VenueInit
<1>2. QED
  BY <1>1, EachScreenOnItsOwn, PTL
     DEF VenueSpec, StationSpec, RailSpec, LaunchSpec, KioskSpec, KioskAgentSpec, KioskEquipmentSpec,
         WizardSpec, ScannerSpec, HubSpec

(* Every variable of every screen keeps to its type, whichever screen is   *)
(* on show and for any instance of the venue's constants.                  *)
THEOREM VenueTypeCorrect == VenueSpec => []VenueTypeOK
<1>1. RailInv => RailTypeOK
  BY DEF RailInv
<1>2. ListenInv => ScannerTypeOK
  BY DEF ListenInv
<1>3. WizardInv => WizardTypeOK
  BY DEF WizardInv, WizardTypes
<1>4. HubInv => HubTypeOK
  BY DEF HubInv
<1>5. CeremonyInv => LaunchTypeOK
  BY DEF CeremonyInv
<1>6. /\ StationTypeOK /\ RailTypeOK /\ LaunchTypeOK /\ KioskTypeOK /\ KioskAgentTypeOK
      /\ KioskEquipmentTypeOK /\ WizardTypeOK /\ ScannerTypeOK /\ HubTypeOK
      => VenueTypeOK
  BY DEF VenueTypeOK
<1> QED
  BY VenueImplementsScreens, StationTypeCorrect, RailInvariance, CeremonyInvariance, KioskTypeCorrect,
     SupervisorTypeCorrect, TestsEnd, WizardInvariance, ListenInvariance, HubInvariance,
     <1>1, <1>2, <1>3, <1>4, <1>5, <1>6, PTL
==============================================================================

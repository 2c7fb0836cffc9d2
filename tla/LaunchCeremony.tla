----------------------------- MODULE LaunchCeremony -----------------------------
(***************************************************************************)
(* The panel's launch ceremony (panel/src/features/checkin/                *)
(* LaunchCeremony.tsx): the check-in settings form, its save, and "Start   *)
(* check-in", which registers a station and moves on to a page that reads  *)
(* the settings the backend has.  The component stays mounted when the URL *)
(* moves from one event's ceremony to another's.                           *)
(***************************************************************************)
EXTENDS Naturals, FiniteSets

CONSTANTS
  LaunchEvents,   \* events whose ceremonies the tab visits
  SettingValues,  \* values of the settings object
  DefaultValue,   \* DEFAULT_CHECKIN_SETTINGS
  MaxSaves,       \* bounds the PUTs of this tab
  MaxLaunchTurns, \* bounds edits, other operators' saves, failures and moves
  LaunchFaults    \* subset of AllLaunchFaults

AllLaunchFaults == {"other", "move", "fail"}
ASSUME LaunchAssumption ==
  /\ LaunchEvents # {} /\ DefaultValue \in SettingValues /\ LaunchFaults \subseteq AllLaunchFaults
  /\ MaxSaves \in Nat /\ MaxLaunchTurns \in Nat

VARIABLES
  launchEvent,     \* eventId of the URL
  settingsForm, settingsBaseline,
  seededFor,       \* settingsSeededForEventIdRef
  settingsCache,   \* react-query's copy per event
  serverSettings,  \* the backend's settings per event
  settingsPuts,    \* PUTs whose answer has not been processed
  observed,        \* the PUT the mutation observer follows, 0 after reset()
  settingsSent,    \* counter of the PUTs
  registering,     \* registerStation is pending, and the event it is for
  started,         \* the ceremony has moved on to the station
  launchTurns      \* counter of the bound

formVars   == <<settingsForm, settingsBaseline, seededFor>>
launchVars == <<launchEvent, formVars, settingsCache, serverSettings, settingsPuts, observed,
                settingsSent, registering, started, launchTurns>>

NoEvent == "no event"
NotLoaded == "not loaded"
SettingsPut == [id : 1..MaxSaves, event : LaunchEvents, value : SettingValues,
                seeded : LaunchEvents \cup {NoEvent}, seeds : LaunchEvents, stored : BOOLEAN]

LaunchTypeOK ==
  /\ launchEvent \in LaunchEvents
  /\ {settingsForm, settingsBaseline} \subseteq SettingValues
  /\ seededFor \in LaunchEvents \cup {NoEvent}
  /\ settingsCache \in [LaunchEvents -> SettingValues \cup {NotLoaded}]
  /\ serverSettings \in [LaunchEvents -> SettingValues]
  /\ settingsPuts \subseteq SettingsPut
  /\ {observed, settingsSent} \subseteq 0..MaxSaves
  /\ registering \in LaunchEvents \cup {NoEvent}
  /\ started \in LaunchEvents \cup {NoEvent}
  /\ launchTurns \in 0..MaxLaunchTurns

LaunchInit ==
  /\ launchEvent = CHOOSE e \in LaunchEvents : TRUE
  /\ settingsForm = DefaultValue /\ settingsBaseline = DefaultValue /\ seededFor = NoEvent
  /\ settingsCache = [e \in LaunchEvents |-> NotLoaded]
  /\ serverSettings \in [LaunchEvents -> SettingValues]
  /\ settingsPuts = {} /\ observed = 0 /\ settingsSent = 0
  /\ registering = NoEvent /\ started = NoEvent /\ launchTurns = 0

------------------------------------------------------------------------------
(* Mutant: the form is enabled before it is seeded.                      *)
SettingsAssumed == launchEvent \in LaunchEvents

SettingsReady == settingsCache[launchEvent] # NotLoaded
SettingsDirty == settingsForm # settingsBaseline
SavePending == \E p \in settingsPuts : p.id = observed
InCeremony == started = NoEvent
LaunchTurn == launchTurns < MaxLaunchTurns /\ launchTurns' = launchTurns + 1

(* The seeding effect, after a step that leaves form and baseline so.      *)
SeedEffect(form, baseline) ==
  LET data == settingsCache'[launchEvent'] IN
  IF data # NotLoaded /\ seededFor # launchEvent'
  THEN settingsForm' = data /\ settingsBaseline' = data /\ seededFor' = launchEvent'
  ELSE settingsForm' = form /\ settingsBaseline' = baseline /\ UNCHANGED seededFor

SettingsFetched ==
  /\ InCeremony /\ settingsCache[launchEvent] # serverSettings[launchEvent]
  /\ settingsCache' = [settingsCache EXCEPT ![launchEvent] = serverSettings[launchEvent]]
  /\ UNCHANGED launchEvent /\ SeedEffect(settingsForm, settingsBaseline)
  /\ UNCHANGED <<serverSettings, settingsPuts, observed, settingsSent, registering, started,
                 launchTurns>>

(* Every edit resets the mutation: its observer lets go of a pending PUT.  *)
UpdateSetting(v) ==
  /\ InCeremony /\ SettingsReady /\ v # settingsForm /\ LaunchTurn
  /\ settingsForm' = v /\ observed' = 0
  /\ UNCHANGED <<launchEvent, settingsBaseline, seededFor, settingsCache, serverSettings,
                 settingsPuts, settingsSent, registering, started>>

SaveSettings ==
  /\ InCeremony /\ SettingsReady /\ SettingsDirty /\ ~SavePending
  /\ settingsSent < MaxSaves
  /\ settingsSent' = settingsSent + 1 /\ observed' = settingsSent + 1
  /\ settingsPuts' = settingsPuts \cup {[id |-> settingsSent + 1, event |-> launchEvent,
                       value |-> settingsForm, seeded |-> seededFor, seeds |-> launchEvent, stored |-> FALSE]}
  /\ UNCHANGED <<launchEvent, formVars, settingsCache, serverSettings, registering, started,
                 launchTurns>>

SettingsStored(p) ==
  /\ ~p.stored
  /\ serverSettings' = [serverSettings EXCEPT ![p.event] = p.value]
  /\ settingsPuts' = (settingsPuts \ {p}) \cup {[p EXCEPT !.stored = TRUE]}
  /\ UNCHANGED <<launchEvent, formVars, settingsCache, observed, settingsSent, registering,
                 started, launchTurns>>

(* The hook seeds the cache of the event its closure names; the form's own *)
(* callback fires only for the PUT still observed.                         *)
SaveAnswers(p) ==
  /\ p.stored
  /\ settingsPuts' = settingsPuts \ {p}
  /\ settingsCache' = [settingsCache EXCEPT ![p.seeds] = p.value]
  /\ UNCHANGED launchEvent
  /\ IF InCeremony
     THEN SeedEffect(settingsForm, IF p.id = observed THEN p.value ELSE settingsBaseline)
     ELSE UNCHANGED formVars
  /\ UNCHANGED <<serverSettings, observed, settingsSent, registering, started, launchTurns>>

SaveFails(p) ==
  /\ "fail" \in LaunchFaults /\ LaunchTurn
  /\ settingsPuts' = settingsPuts \ {p}
  /\ UNCHANGED <<launchEvent, formVars, settingsCache, serverSettings, observed, settingsSent,
                 registering, started>>

------------------------------------------------------------------------------
StartDisabled == ~SettingsReady \/ registering # NoEvent \/ SettingsDirty \/ SavePending

Start ==
  /\ InCeremony /\ ~StartDisabled
  /\ registering' = launchEvent
  /\ UNCHANGED <<launchEvent, formVars, settingsCache, serverSettings, settingsPuts, observed,
                 settingsSent, started, launchTurns>>

(* The station page of the event the call was made in opens.               *)
StationRegistered ==
  /\ InCeremony /\ registering # NoEvent /\ registering' = NoEvent
  /\ started' = registering
  /\ UNCHANGED <<launchEvent, formVars, settingsCache, serverSettings, settingsPuts, observed,
                 settingsSent, launchTurns>>

RegisterFails ==
  /\ registering # NoEvent /\ "fail" \in LaunchFaults /\ LaunchTurn
  /\ registering' = NoEvent
  /\ UNCHANGED <<launchEvent, formVars, settingsCache, serverSettings, settingsPuts, observed,
                 settingsSent, started>>

(* A render gives the observed mutation its new closures.                  *)
MoveCeremony(e) ==
  /\ InCeremony /\ "move" \in LaunchFaults /\ e # launchEvent /\ LaunchTurn
  /\ launchEvent' = e
  /\ settingsPuts' = {IF p.id = observed THEN [p EXCEPT !.seeds = e] ELSE p : p \in settingsPuts}
  /\ UNCHANGED settingsCache /\ SeedEffect(settingsForm, settingsBaseline)
  /\ UNCHANGED <<serverSettings, observed, settingsSent, registering, started>>

OtherSavesSettings(e, v) ==
  /\ "other" \in LaunchFaults /\ LaunchTurn /\ v # serverSettings[e]
  /\ serverSettings' = [serverSettings EXCEPT ![e] = v]
  /\ UNCHANGED <<launchEvent, formVars, settingsCache, settingsPuts, observed, settingsSent,
                 registering, started>>

LaunchNext ==
  \/ SettingsFetched \/ SaveSettings \/ Start \/ StationRegistered \/ RegisterFails
  \/ \E v \in SettingValues : UpdateSetting(v)
  \/ \E p \in settingsPuts : SettingsStored(p) \/ SaveAnswers(p) \/ SaveFails(p)
  \/ \E e \in LaunchEvents : MoveCeremony(e) \/ \E v \in SettingValues : OtherSavesSettings(e, v)

LaunchSpec == LaunchInit /\ [][LaunchNext]_launchVars

------------------------------------------------------------------------------
(* No PUT is built on the hard-coded defaults, nor on the form of another  *)
(* event: the form had been seeded for the event the PUT names.            *)
SavesOwnForm == \A p \in settingsPuts : p.seeded = p.event

==============================================================================

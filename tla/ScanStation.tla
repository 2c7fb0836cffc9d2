----------------------------- MODULE ScanStation -----------------------------
(***************************************************************************)
(* The panel's check-in station page (panel/src/features/checkin): one     *)
(* browser tab, the hardware agent it polls for scans and prints through,  *)
(* and the backend it checks people in with.                               *)
(*                                                                         *)
(* A promise continuation is a step of its own: whatever it read before    *)
(* the await (the station, the settings, the printer, the state of the     *)
(* fonts) is a field of the submission it belongs to.  A React effect runs *)
(* in the same step as the state change that triggers it.                  *)
(***************************************************************************)
EXTENDS Naturals, FiniteSets

CONSTANTS
  Stations,      \* the stations whose pages this tab may show
  Codes,         \* badge codes that may be scanned
  Registered,    \* those the event has an attendee for
  MaxScans,      \* bounds the scans, by hardware, keyboard or hand
  MaxTurns,      \* bounds the changes made around the station
  Modes,         \* the scan_input settings in use
  StationFaults  \* what may happen around it, a subset of AllStationFaults

NoCode == "none"
AllStationFaults == {"network", "agent", "settings", "navigate", "elsewhere"}
ASSUME StationAssumption ==
  /\ Modes \subseteq {"wedge", "scanner", "manual"}
  /\ Registered \subseteq Codes /\ NoCode \notin Codes /\ Stations # {}
  /\ StationFaults \subseteq AllStationFaults
  /\ MaxScans \in Nat /\ MaxTurns \in Nat

VARIABLES
  atStation,     \* the station in the page's URL
  scanSettings,  \* useCheckinSettings: loaded, scan_input, print_on_checkin
  agentAlive,    \* the agent process answers
  printerReady,  \* what the page last learned: connected, with a default printer
  fontsReady,    \* useEventFontFaces is in a terminal state
  rawOnline,     \* browser online and the last feed refetch succeeded
  pageOnline,    \* the debounced copy the page acts on
  offlineCard,   \* offlineBlocked: a scan was refused because of the connection
  scanBuffer,    \* the agent's one-slot scan buffer
  scanPoll,      \* the outstanding consume request of the running poll effect
  strayPolls,    \* outstanding consume requests of effects already cleaned up
  flowStatus,    \* idle, resolving or verdict
  verdictCard,   \* what the verdict shows
  flowBusy,      \* busyRef
  dismissTimer,  \* an auto-dismiss is scheduled
  submissions,   \* submitCode and submitAttendee calls that have not settled
  registry,      \* the attendees in the backend
  checkins,      \* check-ins this page's requests committed, per code
  autoPrints,    \* badges the agent printed for them, per code
  scans, turns,  \* counters of the bounds
  moved          \* the tab has moved from one station to another

agentVars   == <<agentAlive, scanBuffer>>
pollVars    == <<scanPoll, strayPolls>>
flowVars    == <<flowStatus, verdictCard, flowBusy, dismissTimer>>
backendVars == <<registry, checkins, autoPrints>>
pageVars    == <<scanSettings, printerReady, fontsReady, rawOnline, pageOnline>>
boundVars   == <<turns, moved>>
stationVars == <<atStation, agentVars, pollVars, flowVars, backendVars,
                 pageVars, offlineCard, submissions, scans, boundVars>>


Settings == [loaded : BOOLEAN, mode : Modes \cup {"wedge"}, print : BOOLEAN]
DefaultSettings == [loaded |-> FALSE, mode |-> "wedge", print |-> TRUE]
CardKinds == {"none", "allowed", "no_access", "not_registered", "already_checked_in"}
PrintNotes == {"none", "error", "markFailed", "fontsPending"}
Card == [code : Codes \cup {NoCode}, station : Stations, kind : CardKinds, note : PrintNotes]
Submission == [id : 1..MaxScans, code : Codes, station : Stations, print : BOOLEAN,
               printer : BOOLEAN, fonts : BOOLEAN,
               step : {"lookup", "post", "answer", "print", "mark"}, outcome : CardKinds]
NoCard == [code |-> NoCode, station |-> CHOOSE s \in Stations : TRUE,
           kind |-> "none", note |-> "none"]

StationTypeOK ==
  /\ atStation \in Stations /\ scanSettings \in Settings
  /\ {agentAlive, printerReady, fontsReady, rawOnline, pageOnline, offlineCard,
      flowBusy, dismissTimer} \subseteq BOOLEAN
  /\ scanBuffer \in Codes \cup {NoCode}
  /\ scanPoll \in {"idle", "asked", NoCode} \cup Codes
  /\ strayPolls \in Nat
  /\ flowStatus \in {"idle", "resolving", "verdict"} /\ verdictCard \in Card
  /\ submissions \subseteq Submission
  /\ registry \in [Registered -> {"out", "in", "blocked"}]
  /\ checkins \in [Codes -> Nat] /\ autoPrints \in [Codes -> Nat]
  /\ scans \in 0..MaxScans /\ turns \in 0..MaxTurns /\ moved \in BOOLEAN

StationInit ==
  /\ atStation = CHOOSE s \in Stations : TRUE
  /\ scanSettings = DefaultSettings
  /\ agentAlive = TRUE /\ printerReady = FALSE /\ fontsReady = FALSE
  /\ rawOnline = TRUE /\ pageOnline = TRUE /\ offlineCard = FALSE
  /\ scanBuffer = NoCode /\ scanPoll = "idle" /\ strayPolls = 0
  /\ flowStatus = "idle" /\ verdictCard = NoCard
  /\ flowBusy = FALSE /\ dismissTimer = FALSE /\ submissions = {}
  /\ registry = [c \in Registered |-> "out"]
  /\ checkins = [c \in Codes |-> 0] /\ autoPrints = [c \in Codes |-> 0]
  /\ scans = 0 /\ turns = 0 /\ moved = FALSE

------------------------------------------------------------------------------
(* What the page shows and which effects run.                              *)

PrinterGate == scanSettings.print /\ ~printerReady
Surface == scanSettings.loaded /\ ~PrinterGate
ScanEnabled == flowStatus = "idle"
Polling == Surface /\ scanSettings.mode = "scanner" /\ ScanEnabled
WedgeActive == Surface /\ scanSettings.mode = "wedge" /\ ScanEnabled

Turn(f) == /\ f \in StationFaults /\ turns < MaxTurns /\ turns' = turns + 1
           /\ moved' = (moved \/ f = "navigate")

(* The poll effect's cleanup: the outstanding request is not aborted, its  *)
(* answer is ignored.                                                      *)
PollCleanup ==
  IF Polling' THEN UNCHANGED pollVars
  ELSE /\ scanPoll' = "idle"
       /\ strayPolls' = strayPolls + (IF scanPoll = "asked" THEN 1 ELSE 0)

------------------------------------------------------------------------------
(* useCheckinFlow.                                                         *)

Submit(c, step) ==
  /\ ~flowBusy
  /\ scans < MaxScans
  /\ scans' = scans + 1
  /\ flowBusy' = TRUE
  /\ dismissTimer' = FALSE
  /\ flowStatus' = "resolving" /\ verdictCard' = NoCard
  /\ submissions' = submissions \cup
       {[id |-> scans + 1, code |-> c, station |-> atStation, print |-> scanSettings.print,
         printer |-> printerReady, fonts |-> fontsReady, step |-> step, outcome |-> "none"]}

(* A code that arrives while one is being looked up is dropped.            *)
DropBusy == /\ flowBusy /\ UNCHANGED <<flowVars, submissions, scans>>

HandleCode(c) ==
  IF pageOnline
  THEN /\ offlineCard' = FALSE
       /\ \/ Submit(c, "lookup")
          \/ DropBusy
  ELSE /\ offlineCard' = TRUE
       /\ UNCHANGED <<flowVars, submissions, scans>>

(* Mutant: a verdict with a print warning is not dismissed.              *)
ShowVerdictSticky(j, kind, note) ==
  /\ flowStatus' = "verdict"
  /\ verdictCard' = [code |-> j.code, station |-> j.station, kind |-> kind, note |-> note]
  /\ dismissTimer' = (dismissTimer \/ note = "none")
  /\ flowBusy' = FALSE
  /\ submissions' = submissions \ {j}

ShowVerdict(j, kind, note) ==
  /\ flowStatus' = "verdict"
  /\ verdictCard' = [code |-> j.code, station |-> j.station, kind |-> kind, note |-> note]
  /\ dismissTimer' = TRUE
  /\ flowBusy' = FALSE
  /\ submissions' = submissions \ {j}

Advance(j, step, outcome) ==
  /\ submissions' = (submissions \ {j}) \cup {[j EXCEPT !.step = step, !.outcome = outcome]}
  /\ UNCHANGED flowVars

LookupAnswers(j) ==
  /\ j.step = "lookup"
  /\ \/ j.code \in Registered /\ Advance(j, "post", "none")
     \/ j.code \notin Registered /\ ShowVerdict(j, "not_registered", "none")
  /\ UNCHANGED <<registry, checkins, autoPrints>>

(* The backend commits; its answer may still be lost on the way back.      *)
CheckinCommits(j) ==
  /\ j.step = "post"
  /\ LET was == registry[j.code] IN
     /\ Advance(j, "answer", CASE was = "out" -> "allowed"
                               [] was = "in" -> "already_checked_in"
                               [] was = "blocked" -> "no_access")
     /\ registry' = IF was = "out" THEN [registry EXCEPT ![j.code] = "in"] ELSE registry
     /\ checkins' = IF was = "out" THEN [checkins EXCEPT ![j.code] = @ + 1] ELSE checkins
  /\ UNCHANGED autoPrints

(* Mutant: a repeated scan prints as well.                               *)
PrintsAnyVerdict(j) == j.print

Prints(j) == j.outcome = "allowed" /\ j.print
(* Mutant: the print waits for the fonts without a verdict.              *)
FontsAssumed(j) == j.code \in Codes

FontsTerminal(j) == j.fonts

AnswerArrives(j) ==
  /\ j.step = "answer"
  /\ IF ~Prints(j) THEN ShowVerdict(j, j.outcome, "none")
     ELSE IF ~FontsTerminal(j) THEN ShowVerdict(j, j.outcome, "fontsPending")
     ELSE Advance(j, "print", j.outcome)
  /\ UNCHANGED backendVars

(* printAttendee: the template is fetched and the ZPL generated (either    *)
(* may fail), then the agent prints; an agent timeout leaves both open.    *)
AgentPrints(j) ==
  /\ j.step = "print" /\ (j.fonts \/ fontsReady)
  /\ \/ /\ agentAlive /\ autoPrints' = [autoPrints EXCEPT ![j.code] = @ + 1]
        /\ \/ Advance(j, "mark", j.outcome)
           \/ ShowVerdict(j, j.outcome, "error")
     \/ ShowVerdict(j, j.outcome, "error") /\ UNCHANGED autoPrints
  /\ UNCHANGED <<registry, checkins>>

MarkAnswers(j) ==
  /\ j.step = "mark"
  /\ \/ ShowVerdict(j, j.outcome, "none")
     \/ ShowVerdict(j, j.outcome, "markFailed")
  /\ UNCHANGED backendVars

(* A lookup or check-in request fails, before or after the backend acted.  *)
RequestFails(j) ==
  /\ j.step \in {"lookup", "post", "answer"} /\ Turn("network")
  /\ flowStatus' = "idle" /\ verdictCard' = NoCard /\ flowBusy' = FALSE
  /\ submissions' = submissions \ {j}
  /\ UNCHANGED <<dismissTimer, registry, checkins, autoPrints>>

FlowStep(j) ==
  /\ \/ RequestFails(j)
     \/ /\ \/ LookupAnswers(j) \/ CheckinCommits(j) \/ AnswerArrives(j)
           \/ AgentPrints(j) \/ MarkAnswers(j)
        /\ UNCHANGED boundVars
  /\ UNCHANGED <<atStation, agentVars, pageVars, offlineCard, scans>>
  /\ PollCleanup

Dismiss ==
  /\ dismissTimer /\ dismissTimer' = FALSE
  /\ flowStatus' = "idle" /\ verdictCard' = NoCard
  /\ UNCHANGED <<atStation, agentVars, backendVars, pageVars, offlineCard, flowBusy,
                 submissions, scans, boundVars>>
  /\ PollCleanup

(* The URL moves to another station without a remount: the reset effect.   *)
ResetFlow == /\ flowBusy' = FALSE /\ dismissTimer' = FALSE
             /\ flowStatus' = "idle" /\ verdictCard' = NoCard
Navigate(s) ==
  /\ s # atStation /\ Turn("navigate") /\ atStation' = s
  /\ ResetFlow
  /\ UNCHANGED <<agentVars, backendVars, pageVars, offlineCard, submissions, scans>>
  /\ PollCleanup

------------------------------------------------------------------------------
(* useScanInput: the agent's buffer, the poll, the keyboard wedge.         *)

PhysicalScan(c) ==
  /\ scans < MaxScans /\ scanBuffer # c /\ scanBuffer' = c
  /\ UNCHANGED <<atStation, agentAlive, pollVars, flowVars, backendVars, pageVars,
                 offlineCard, submissions, scans, boundVars>>

PollTick ==
  /\ Polling /\ scanPoll = "idle" /\ scanPoll' = "asked"
  /\ UNCHANGED <<atStation, agentVars, strayPolls, flowVars, backendVars,
                 pageVars, offlineCard, submissions, scans, boundVars>>

(* POST /scan/consume reads and clears the buffer in one step.             *)
Consume == agentAlive /\ scanBuffer' = NoCode /\ UNCHANGED agentAlive

PollAnswers ==
  /\ scanPoll = "asked"
  /\ \/ Consume /\ scanPoll' = scanBuffer
     \/ ~agentAlive /\ scanPoll' = "idle" /\ UNCHANGED agentVars
  /\ UNCHANGED <<atStation, strayPolls, flowVars, backendVars, pageVars,
                 offlineCard, submissions, scans, boundVars>>

StrayPollAnswers ==
  /\ strayPolls > 0 /\ strayPolls' = strayPolls - 1
  /\ \/ Consume
     \/ ~agentAlive /\ UNCHANGED agentVars
  /\ UNCHANGED <<atStation, scanPoll, flowVars, backendVars, pageVars, offlineCard,
                 submissions, scans, boundVars>>

PollDelivers ==
  /\ scanPoll \in Codes \cup {NoCode} /\ scanPoll' = "idle"
  /\ IF scanPoll = NoCode
     THEN UNCHANGED <<offlineCard, flowVars, submissions, scans>>
     ELSE HandleCode(scanPoll)
  /\ UNCHANGED <<atStation, agentVars, strayPolls, backendVars, pageVars, boundVars>>

WedgeEnter(c) ==
  /\ WedgeActive
  /\ HandleCode(c)
  /\ UNCHANGED <<atStation, agentVars, scanPoll, strayPolls, backendVars, pageVars, boundVars>>

(* A search result is clicked: only when online are results clickable.     *)
PickAttendee(c) ==
  /\ c \in Registered /\ Surface /\ ScanEnabled /\ pageOnline
  /\ offlineCard' = FALSE
  /\ Submit(c, "post")
  /\ UNCHANGED <<atStation, agentVars, backendVars, pageVars, boundVars>>
  /\ PollCleanup

------------------------------------------------------------------------------
(* Around the flow: settings, fonts, agent, connection, other stations.    *)

SettingsArrive(mode, print) ==
  /\ IF scanSettings.loaded THEN Turn("settings") ELSE UNCHANGED boundVars
  /\ scanSettings' = [loaded |-> TRUE, mode |-> mode, print |-> print]
  /\ UNCHANGED <<atStation, agentVars, flowVars, backendVars, printerReady, fontsReady,
                 rawOnline, pageOnline, offlineCard, submissions, scans>>
  /\ PollCleanup

FontsSettle ==
  /\ ~fontsReady /\ fontsReady' = TRUE
  /\ UNCHANGED <<atStation, agentVars, pollVars, flowVars, backendVars, scanSettings,
                 printerReady, rawOnline, pageOnline, offlineCard, submissions, scans, boundVars>>

AgentTurns ==
  /\ Turn("agent") /\ agentAlive' = ~agentAlive
  /\ UNCHANGED <<atStation, scanBuffer, pollVars, flowVars, backendVars, pageVars,
                 offlineCard, submissions, scans>>

LearnPrinter ==
  /\ printerReady' = agentAlive
  /\ UNCHANGED <<atStation, agentVars, flowVars, backendVars, scanSettings, fontsReady,
                 rawOnline, pageOnline, offlineCard, submissions, scans, boundVars>>
  /\ PollCleanup

(* The gate's own 10 s refetch; a window focus refetches at any time.      *)
GatePoll == PrinterGate /\ LearnPrinter
WindowFocus == "agent" \in StationFaults /\ LearnPrinter

ConnectionTurns ==
  /\ Turn("network") /\ rawOnline' = ~rawOnline
  /\ UNCHANGED <<atStation, agentVars, pollVars, flowVars, backendVars, scanSettings,
                 printerReady, fontsReady, pageOnline, offlineCard, submissions, scans>>

ConnectionSettles ==
  /\ pageOnline # rawOnline /\ pageOnline' = rawOnline
  /\ offlineCard' = (offlineCard /\ ~rawOnline)
  /\ UNCHANGED <<atStation, agentVars, pollVars, flowVars, backendVars, scanSettings,
                 printerReady, fontsReady, rawOnline, submissions, scans, boundVars>>

(* Another device checks the attendee in, undoes it, blocks or unblocks.   *)
Elsewhere(c, to) ==
  /\ Turn("elsewhere") /\ registry[c] # to /\ registry' = [registry EXCEPT ![c] = to]
  /\ UNCHANGED <<atStation, agentVars, pollVars, flowVars, checkins, autoPrints,
                 pageVars, offlineCard, submissions, scans>>

------------------------------------------------------------------------------
StationNext ==
  \/ \E j \in submissions : FlowStep(j)
  \/ Dismiss
  \/ \E s \in Stations : Navigate(s)
  \/ \E c \in Codes : PhysicalScan(c) \/ WedgeEnter(c) \/ PickAttendee(c)
  \/ PollTick \/ PollAnswers \/ StrayPollAnswers \/ PollDelivers
  \/ \E m \in Modes, p \in BOOLEAN : SettingsArrive(m, p)
  \/ FontsSettle \/ AgentTurns \/ GatePoll \/ WindowFocus
  \/ ConnectionTurns \/ ConnectionSettles
  \/ \E c \in Registered, to \in {"out", "in", "blocked"} : Elsewhere(c, to)

StationSpec == StationInit /\ [][StationNext]_stationVars

------------------------------------------------------------------------------
(* While the tab stays on one station, no second check-in starts before    *)
(* the first has settled, whatever arrives in between: the guard and the   *)
(* idle state that enables the inputs are reset together or not at all.    *)
OneInFlight == ~moved => \A j, k \in submissions : j = k

(* A badge is printed at most once for each check-in the station commits:  *)
(* not for a repeated scan, and not again when an answer is lost.          *)
PrintsMatchCheckins == \A c \in Codes : autoPrints[c] <= checkins[c]

(* A verdict always has its dismissal scheduled, and no dismissal left     *)
(* over from an earlier verdict or station can wipe a scan in progress.    *)
DismissalOwned ==
  /\ flowStatus = "verdict" => dismissTimer
  /\ flowStatus = "resolving" => ~dismissTimer

(* The station always comes back to where it can scan: no failure, font    *)
(* load, agent outage or navigation leaves it resolving or on a verdict.   *)
StationRecovers == (flowStatus # "idle") ~> (flowStatus = "idle")

==============================================================================

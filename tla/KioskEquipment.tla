----------------------------- MODULE KioskEquipment -----------------------------
(***************************************************************************)
(* The kiosk's equipment page (desktop/src/pages/Equipment.tsx): what it   *)
(* shows of the agent, the embedded one or an external one, and the        *)
(* scanner test.  Every call to an agent goes to the one selected when the *)
(* call is sent, and no call is ever cancelled.                            *)
(***************************************************************************)
EXTENDS Naturals, FiniteSets

CONSTANTS
  PrinterNames,   \* printers of either agent
  MaxEquipCalls,  \* bounds the page's series of calls
  MaxTests        \* bounds the scanner tests

ASSUME EquipmentAssumption == MaxEquipCalls \in Nat \ {0} /\ MaxTests \in Nat

VARIABLES
  selected,       \* the mode: which agent is selected
  reachable,      \* the agents that answer
  agentDefault,   \* each agent's default printer
  equip,          \* what the page shows: loading, connected, of (whose lists), default
  equipCalls,     \* series of calls in flight
  equipSent,      \* counter of the bound
  test, testTimer,    \* the scanner test: number, result; scannerTestTimeoutRef
  testPolls,      \* polls of GET /scan/last in flight: the test asked for, the answer
  lastScan        \* the agent's last scan: the code of a test, or 0

equipVars == <<selected, reachable, agentDefault, equip, equipCalls, equipSent>>
testVars  == <<test, testTimer, testPolls, lastScan>>

Agents == {"embedded", "external"}
NoPrinter == "no printer"
Names == PrinterNames \cup {NoPrinter}
EquipCall == [id : 1..MaxEquipCalls, kind : {"connect", "refresh", "default"},
              step : {"health", "lists", "answer"}, to : Agents, name : Names]
Unknown == "nobody"

KioskEquipmentTypeOK ==
  /\ selected \in Agents /\ reachable \subseteq Agents /\ agentDefault \in [Agents -> Names]
  /\ equip \in [loading : BOOLEAN, connected : BOOLEAN, of : Agents \cup {Unknown}, default : Names]
  /\ equipCalls \subseteq EquipCall /\ equipSent \in 0..MaxEquipCalls
  /\ test \in [id : 0..MaxTests, result : {"idle", "waiting", "success", "timeout"}]
  /\ testTimer \in BOOLEAN
  /\ testPolls \subseteq [for : 1..MaxTests, answer : 0..MaxTests]
  /\ lastScan \in 0..MaxTests

FirstCall == [id |-> 1, kind |-> "connect", step |-> "health", to |-> "embedded", name |-> NoPrinter]

KioskEquipmentInit ==
  /\ selected = "embedded" /\ reachable \in SUBSET Agents
  /\ agentDefault \in [Agents -> Names]
  /\ equip = [loading |-> TRUE, connected |-> FALSE, of |-> Unknown, default |-> NoPrinter]
  /\ equipCalls = {FirstCall} /\ equipSent = 1
  /\ test = [id |-> 0, result |-> "idle"] /\ testTimer = FALSE /\ testPolls = {} /\ lastScan = 0

------------------------------------------------------------------------------
EquipSend(kind, step, name) ==
  /\ equipSent < MaxEquipCalls /\ equipSent' = equipSent + 1
  /\ equipCalls' = equipCalls \cup {[id |-> equipSent + 1, kind |-> kind, step |-> step,
                                     to |-> selected', name |-> name]}

(* switchAgentMode, then reconnectAgent; saveExternalConfig reconnects too. *)
Reconnect(mode) ==
  /\ selected' = mode
  /\ equip' = [equip EXCEPT !.loading = TRUE]
  /\ EquipSend("connect", "health", NoPrinter)
  /\ UNCHANGED <<reachable, agentDefault>>

ExternalForm == selected = "external"

SwitchAgentMode == \E mode \in Agents \ {selected} : Reconnect(mode)
SaveExternalConfig == ExternalForm /\ Reconnect("external")

(* The lists and their buttons, rendered once an agent has answered.       *)
ListsShown == ~equip.loading /\ equip.connected

(* Adding or removing a printer or a scanner, then refresh().              *)
EditThenRefresh ==
  /\ ListsShown
  /\ UNCHANGED selected /\ EquipSend("refresh", "lists", NoPrinter)
  /\ UNCHANGED <<reachable, agentDefault, equip>>

SetDefaultPrinter(name) ==
  /\ ListsShown /\ equip.of # Unknown /\ name # equip.default
  /\ UNCHANGED selected /\ EquipSend("default", "lists", name)
  /\ UNCHANGED <<reachable, agentDefault, equip>>

Emptied(connected) ==
  [equip EXCEPT !.loading = FALSE, !.connected = connected, !.of = Unknown, !.default = NoPrinter]

Ends(k) == equipCalls' = equipCalls \ {k}

(* The health answer; the lists are asked of the agent selected by then.   *)
HealthAnswers(k) ==
  /\ k.step = "health"
  /\ IF k.to \in reachable
     THEN /\ equip' = [equip EXCEPT !.connected = TRUE]
          /\ equipCalls' = (equipCalls \ {k}) \cup {[k EXCEPT !.step = "lists", !.to = selected]}
     ELSE equip' = Emptied(FALSE) /\ Ends(k)
  /\ UNCHANGED agentDefault

(* The agent reads its lists and its default, or takes the new default.    *)
AgentServes(k) ==
  /\ k.step = "lists" /\ k.to \in reachable
  /\ equipCalls' = (equipCalls \ {k}) \cup
       {[k EXCEPT !.step = "answer", !.name = IF k.kind = "default" THEN k.name ELSE agentDefault[k.to]]}
  /\ agentDefault' = IF k.kind = "default" THEN [agentDefault EXCEPT ![k.to] = k.name] ELSE agentDefault
  /\ UNCHANGED equip

ListsAnswer(k) ==
  /\ k.step = "answer" /\ Ends(k)
  /\ equip' = IF k.kind = "default" THEN [equip EXCEPT !.default = k.name]
              ELSE [equip EXCEPT !.of = k.to, !.default = k.name,
                                 !.loading = @ /\ k.kind # "connect"]
  /\ UNCHANGED agentDefault

ListsFail(k) ==
  /\ k.step = "lists" /\ k.to \notin reachable /\ Ends(k)
  /\ equip' = CASE k.kind = "connect" -> Emptied(equip.connected)
                [] k.kind = "refresh" -> [equip EXCEPT !.of = Unknown, !.default = NoPrinter]
                [] k.kind = "default" -> equip
  /\ UNCHANGED agentDefault

EquipStep(k) ==
  /\ HealthAnswers(k) \/ AgentServes(k) \/ ListsAnswer(k) \/ ListsFail(k)
  /\ UNCHANGED <<selected, reachable, equipSent>>

AgentReachable(a) ==
  /\ reachable' = IF a \in reachable THEN reachable \ {a} ELSE reachable \cup {a}
  /\ equipSent < MaxEquipCalls /\ equipSent' = equipSent + 1
  /\ UNCHANGED <<selected, agentDefault, equip, equipCalls>>

------------------------------------------------------------------------------
(* The scanner test.                                                       *)

TestOnScreen == test.result # "idle"

StartScannerTest ==
  /\ ~TestOnScreen /\ test.id < MaxTests
  /\ test' = [id |-> test.id + 1, result |-> "waiting"] /\ testTimer' = TRUE
  /\ lastScan' = 0
  /\ UNCHANGED <<testPolls>>

TestPoll ==
  /\ test.result = "waiting"
  /\ testPolls' = testPolls \cup {[for |-> test.id, answer |-> lastScan]}
  /\ UNCHANGED <<test, testTimer, lastScan>>

(* The answer is judged against the code of the test that asked.           *)
TestPollAnswers(p) ==
  /\ testPolls' = testPolls \ {p}
  /\ IF p.answer = p.for
     THEN test' = [test EXCEPT !.result = "success"] /\ testTimer' = FALSE
     ELSE UNCHANGED <<test, testTimer>>
  /\ UNCHANGED <<lastScan>>

TestTimesOut ==
  /\ testTimer /\ testTimer' = FALSE /\ test' = [test EXCEPT !.result = "timeout"]
  /\ UNCHANGED <<testPolls, lastScan>>

(* Mutant: cancelling leaves the timer of the test armed.                *)
EndScannerTestTimed ==
  /\ TestOnScreen /\ test' = [test EXCEPT !.result = "idle"] /\ UNCHANGED testTimer
  /\ UNCHANGED <<testPolls, lastScan>>

EndScannerTest ==
  /\ TestOnScreen /\ test' = [test EXCEPT !.result = "idle"] /\ testTimer' = FALSE
  /\ UNCHANGED <<testPolls, lastScan>>

(* The code on screen is scanned.                                          *)
ScanTestCode ==
  /\ test.result = "waiting" /\ lastScan' = test.id
  /\ UNCHANGED <<test, testTimer, testPolls>>

(* The two halves of the page share no state.                             *)
EquipNext ==
  \/ SwitchAgentMode \/ SaveExternalConfig \/ EditThenRefresh
  \/ \E name \in PrinterNames : SetDefaultPrinter(name)
  \/ \E k \in equipCalls : EquipStep(k)
  \/ \E a \in Agents : AgentReachable(a)

ScannerTestNext ==
  \/ StartScannerTest \/ TestPoll \/ TestTimesOut \/ EndScannerTest \/ ScanTestCode
  \/ \E p \in testPolls : TestPollAnswers(p)

KioskEquipmentSpec ==
  /\ KioskEquipmentInit /\ [][EquipNext]_equipVars /\ [][ScannerTestNext]_testVars

------------------------------------------------------------------------------
(* While a scanner test waits, something is left that ends it: its timer.  *)
TestCanEnd == test.result = "waiting" <=> testTimer

==============================================================================

---------------------------- MODULE ScannerWizard ----------------------------
(***************************************************************************)
(* The scanner set-up wizard of the equipment hub (panel/src/features/     *)
(* equipment/ScannerWizard.tsx, useWedgeListen.ts).  A COM scanner is      *)
(* heard by polling the agent's scan buffer, one buffer for every scanner  *)
(* and every page; a keyboard wedge by the speed of the keys it types.  A  *)
(* saved scanner is retested the same way: the scan itself is what stamps  *)
(* its test as passed.                                                     *)
(***************************************************************************)
EXTENDS Naturals

CONSTANTS
  MinChars,        \* keys a wedge scan has at least
  MaxListens,      \* bounds the times the wizard starts to listen to the agent
  MaxScannerScans, \* bounds the COM scans
  MaxScannerTurns  \* bounds the agent's outages
ASSUME ScannerAssumption == MinChars \in Nat \ {0} /\ MaxListens \in Nat
                            /\ MaxScannerScans \in Nat /\ MaxScannerTurns \in Nat

VARIABLES
  swMode,      \* closed, create or retest
  swKind,      \* the kind listened for: wedge or com
  swPort,      \* create: the port has been added to the agent
  comCode,     \* the code heard, named by the listening period it was scanned in
  listening,   \* how often the poll effect has started
  discarded,   \* its first consume has been thrown away
  comPoll,     \* idle, asked, or the buffer's content on its way back
  comStray,    \* consume requests aborted by the page, perhaps not by the agent
  comBuffer,   \* the agent's buffer
  scanAgentUp,     \* the agent answers
  burst,       \* wedge: keys in the burst so far
  burstTimer,  \* wedge: the silence timer is set
  detection,   \* wedge: a burst was taken for a scan
  scannerCall, \* add a port, save the device or stamp its test
  stampFired,  \* firedTestPassedRef
  comScans, scannerTurns

comVars   == <<comCode, listening, discarded, comPoll, comStray>>
wedgeVars == <<burst, burstTimer, detection>>
scannerFormVars  == <<swMode, swKind, swPort, scannerCall, stampFired>>
agentSide == <<comBuffer, scanAgentUp, comScans, scannerTurns>>
scannerVars == <<comVars, wedgeVars, scannerFormVars, agentSide>>

(* The mark of a scan made while nobody listened for one.                  *)
Unheard == MaxListens + 1

ScannerTypeOK ==
  /\ swMode \in {"closed", "create", "retest"} /\ swKind \in {"wedge", "com"}
  /\ {comCode, comBuffer} \subseteq 0..Unheard
  /\ comPoll \in {"idle", "asked"} /\ comStray \in Nat
  /\ listening \in 0..MaxListens /\ burst \in 0..MinChars
  /\ {swPort, discarded, scanAgentUp, burstTimer, detection, stampFired} \subseteq BOOLEAN
  /\ scannerCall \in {"none", "port", "save", "stamp"}

ScannerInit ==
  /\ swMode = "closed" /\ swKind = "wedge" /\ swPort = FALSE
  /\ comCode = 0 /\ listening = 0 /\ discarded = FALSE /\ comPoll = "idle" /\ comStray = 0
  /\ comBuffer = 0 /\ scanAgentUp = TRUE
  /\ burst = 0 /\ burstTimer = FALSE /\ detection = FALSE
  /\ scannerCall = "none" /\ stampFired = FALSE /\ comScans = 0 /\ scannerTurns = 0

ComListening == swMode # "closed" /\ swKind = "com" /\ comCode = 0
                /\ (swMode = "retest" \/ swPort)
WedgeListening == swMode # "closed" /\ swKind = "wedge"

(* The poll effect: a cleanup aborts its request and forgets its answer,   *)
(* a start must first throw one consume away.                              *)
PollEffect ==
  /\ comStray' = comStray + (IF ComListening /\ ~ComListening' /\ comPoll = "asked" THEN 1 ELSE 0)
  /\ listening' = listening + (IF ~ComListening /\ ComListening' THEN 1 ELSE 0)
  /\ listening' <= MaxListens
  /\ discarded' = (discarded /\ ComListening /\ ComListening')
  /\ comPoll' = IF ComListening' THEN comPoll ELSE "idle"
StopWedge == burst' = 0 /\ burstTimer' = FALSE

(* The open-keyed effect: what was heard before is forgotten.              *)
OpenScanner(mode, kind) ==
  /\ swMode = "closed" /\ swMode' = mode /\ (mode = "create" => kind = "wedge")
  /\ swKind' = kind /\ swPort' = FALSE /\ stampFired' = FALSE
  /\ comCode' = 0 /\ detection' = FALSE /\ StopWedge /\ PollEffect
  /\ UNCHANGED <<scannerCall, agentSide>>
CloseScanner ==
  /\ swMode' = "closed" /\ comCode' = 0 /\ detection' = FALSE /\ stampFired' = FALSE
  /\ UNCHANGED <<swKind, swPort, agentSide>> /\ StopWedge /\ PollEffect
DismissScanner ==
  /\ swMode # "closed" /\ scannerCall = "none" /\ CloseScanner /\ UNCHANGED scannerCall

SetKind(kind) ==
  /\ swMode = "create" /\ kind # swKind /\ swKind' = kind
  /\ UNCHANGED <<swMode, swPort, scannerCall, stampFired, comCode, detection, agentSide>>
  /\ StopWedge /\ PollEffect

PickPort ==
  /\ swMode = "create" /\ swKind = "com" /\ ~swPort /\ scannerCall = "none"
  /\ scannerCall' = "port"
  /\ UNCHANGED <<comVars, wedgeVars, swMode, swKind, swPort, stampFired, agentSide>>
PickPortAnswers ==
  /\ scannerCall = "port" /\ scannerCall' = "none"
  /\ \/ scanAgentUp /\ swPort' = TRUE
     \/ UNCHANGED swPort
  /\ UNCHANGED <<swMode, swKind, stampFired, comCode, wedgeVars, agentSide>>
  /\ PollEffect

(* Save needs no scan, only a name and, for COM, a port.                   *)
SaveScanner ==
  /\ swMode = "create" /\ scannerCall = "none" /\ (swKind = "com" => swPort)
  /\ scannerCall' = "save"
  /\ UNCHANGED <<comVars, wedgeVars, swMode, swKind, swPort, stampFired, agentSide>>
SaveScannerAnswers ==
  /\ scannerCall = "save" /\ scannerCall' = "none"
  /\ \/ CloseScanner
     \/ UNCHANGED <<comVars, wedgeVars, swMode, swKind, swPort, stampFired, agentSide>>

(* Retest: the first scan heard stamps the device, once a session.         *)
StampEffect(heard) ==
  IF swMode = "retest" /\ heard /\ ~stampFired
  THEN stampFired' = TRUE /\ scannerCall' = "stamp"
  ELSE UNCHANGED <<stampFired, scannerCall>>
StampSettles ==
  /\ scannerCall = "stamp" /\ scannerCall' = "none"
  /\ UNCHANGED <<comVars, wedgeVars, swMode, swKind, swPort, stampFired, agentSide>>

ScanAgain ==
  /\ swMode # "closed" /\ UNCHANGED <<scannerFormVars, agentSide>>
  /\ \/ /\ swKind = "wedge" /\ detection /\ detection' = FALSE /\ StopWedge
        /\ UNCHANGED comVars
     \/ swKind = "com" /\ comCode # 0 /\ comCode' = 0 /\ PollEffect /\ UNCHANGED wedgeVars

------------------------------------------------------------------------------
(* The agent's buffer.  A scan carries the number of the listening period  *)
(* it was made in, or the mark of none.                                    *)
ComScan ==
  /\ comScans < MaxScannerScans /\ comScans' = comScans + 1
  /\ comBuffer' = IF ComListening THEN listening ELSE Unheard
  /\ UNCHANGED <<comVars, wedgeVars, scannerFormVars, scanAgentUp, scannerTurns>>

PollAgent ==
  /\ ComListening /\ comPoll = "idle" /\ comPoll' = "asked"
  /\ UNCHANGED <<comCode, listening, discarded, comStray, wedgeVars, scannerFormVars, agentSide>>

(* Mutant: the first consume is trusted.                                 *)
PollHeardAtOnce ==
  /\ comPoll = "asked" /\ scanAgentUp /\ comBuffer' = 0
  /\ comPoll' = "idle" /\ discarded' = TRUE
  /\ comCode' = comBuffer
  /\ StampEffect(comCode' # 0)
  /\ UNCHANGED <<listening, comStray, wedgeVars, swMode, swKind, swPort, scanAgentUp, comScans,
                 scannerTurns>>

(* A consume reads and clears the buffer in one step; the page throws the  *)
(* first answer of the period away and trusts the next.                    *)
PollHeard ==
  /\ comPoll = "asked" /\ scanAgentUp /\ comBuffer' = 0
  /\ comPoll' = "idle" /\ discarded' = TRUE
  /\ comCode' = IF discarded THEN comBuffer ELSE comCode
  /\ StampEffect(comCode' # 0)
  /\ UNCHANGED <<listening, comStray, wedgeVars, swMode, swKind, swPort, scanAgentUp, comScans,
                 scannerTurns>>
PollFails ==
  /\ comPoll = "asked" /\ ~scanAgentUp /\ comPoll' = "idle"
  /\ UNCHANGED <<comCode, listening, discarded, comStray, wedgeVars, scannerFormVars, agentSide>>

StrayConsume ==
  /\ comStray > 0 /\ comStray' = comStray - 1
  /\ comBuffer' = IF scanAgentUp THEN 0 ELSE comBuffer
  /\ UNCHANGED <<comCode, listening, discarded, comPoll, wedgeVars, scannerFormVars, scanAgentUp,
                 comScans, scannerTurns>>

ScannerAgentTurns ==
  /\ scannerTurns < MaxScannerTurns /\ scannerTurns' = scannerTurns + 1
  /\ scanAgentUp' = ~scanAgentUp
  /\ UNCHANGED <<comVars, wedgeVars, scannerFormVars, comBuffer, comScans>>

------------------------------------------------------------------------------
(* useWedgeListen: a key within 80 ms of the last joins the burst, a       *)
(* slower one starts a new burst; Enter, Tab or 300 ms of silence end it.  *)
Key(fast) ==
  /\ WedgeListening /\ ~detection
  /\ burst' = IF fast /\ burst > 0 THEN (IF burst < MinChars THEN burst + 1 ELSE burst) ELSE 1
  /\ burstTimer' = TRUE
  /\ UNCHANGED <<comVars, detection, scannerFormVars, agentSide>>
KeyInField ==
  /\ WedgeListening /\ ~detection /\ burst > 0 /\ StopWedge
  /\ UNCHANGED <<comVars, detection, scannerFormVars, agentSide>>
BurstEnds ==
  /\ WedgeListening /\ ~detection /\ burst > 0 /\ StopWedge
  /\ detection' = (burst = MinChars)
  /\ StampEffect(detection')
  /\ UNCHANGED <<comVars, swMode, swKind, swPort, agentSide>>

ScannerNext ==
  \/ \E m \in {"create", "retest"}, k \in {"wedge", "com"} : OpenScanner(m, k)
  \/ DismissScanner \/ PickPort \/ PickPortAnswers \/ SaveScanner \/ SaveScannerAnswers
  \/ StampSettles \/ ScanAgain \/ KeyInField \/ BurstEnds
  \/ \E k \in {"wedge", "com"} : SetKind(k)
  \/ \E f \in BOOLEAN : Key(f)
  \/ ComScan \/ PollAgent \/ PollHeard \/ PollFails \/ StrayConsume \/ ScannerAgentTurns

ScannerSpec == ScannerInit /\ [][ScannerNext]_scannerVars

------------------------------------------------------------------------------
(* ScannerWizard.tsx:103-121: a COM scan that counts as this session's     *)
(* test was made after the wizard began to listen; neither a scan left in  *)
(* the buffer from before nor one of an earlier session is taken for it,   *)
(* whatever requests are still under way.                                  *)
ScanIsFresh == comCode # 0 => comCode = listening
==============================================================================

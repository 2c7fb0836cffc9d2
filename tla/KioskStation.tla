------------------------------ MODULE KioskStation ------------------------------
(***************************************************************************)
(* The desktop kiosk's check-in pages (desktop/src/pages/Run.tsx, with an  *)
(* operator, and SelfService.tsx, without) over their hook                 *)
(* (desktop/src/features/checkin/useCheckinFlow.ts), the local agent and   *)
(* the backend.  Leaving a page unmounts it: what it had in flight goes    *)
(* on, and nobody listens to the answer.                                   *)
(***************************************************************************)
EXTENDS Naturals, FiniteSets

CONSTANTS
  Guests,         \* codes that are attendees of the event
  Strangers,      \* codes that are not
  MaxKioskScans,  \* bounds the submissions
  MaxKioskPrints, \* bounds the presses of Print
  MaxKioskTurns   \* bounds failures, outages and remounts

ASSUME KioskAssumption == {MaxKioskScans, MaxKioskPrints, MaxKioskTurns} \subseteq Nat

VARIABLES
  kioskPage,      \* run or self
  printOnCheckin, \* settings.print_on_checkin
  kiosk,          \* the flow's state: status, verdict, attendee, printPending
  kioskBusy,      \* busyRef
  kioskTimer,     \* dismissTimerRef is armed
  kioskJobs,      \* submissions in flight, of this mount or an earlier one
  reprints,       \* printCurrent calls in flight, of this mount or an earlier one
  printBusy,      \* printBusyRef
  kioskMount,     \* the number of this mount
  printerData,    \* useAgentDefaultPrinter: asked, failed or known
  agentUp, healthSeen, \* the agent, and agentHealth.data
  kioskOnline,    \* connection.online
  guestIn,        \* the backend: who is checked in
  admitted, badges, presses,  \* per guest: check-ins, badges, presses of Print
  kioskScans, kioskTurns  \* counters of the bounds

kioskPageVars  == <<kioskPage, printOnCheckin, kioskMount>>
kioskFlowVars  == <<kiosk, kioskBusy, kioskTimer, kioskJobs>>
kioskPrintVars == <<reprints, printBusy, presses>>
kioskEnvVars   == <<printerData, agentUp, healthSeen, kioskOnline>>
kioskWorld     == <<guestIn, admitted, badges>>
kioskVars      == <<kioskPageVars, kioskFlowVars, kioskPrintVars, kioskEnvVars, kioskWorld,
                    kioskScans, kioskTurns>>

NoGuest == "no guest"
KioskCodes == Guests \cup Strangers
Idle == [status |-> "idle", verdict |-> "none", who |-> NoGuest, pending |-> FALSE]
KioskJob == [code : KioskCodes, mount : Nat,
             step : {"lookup", "post", "print", "mark", "answered"}, outcome : {"none", "allowed", "already"}]
Reprint == [who : Guests, mount : Nat, step : {"print", "mark"}]

KioskTypeOK ==
  /\ kioskPage \in {"run", "self"}
  /\ {printOnCheckin, kioskBusy, kioskTimer, printBusy, agentUp, healthSeen, kioskOnline} \subseteq BOOLEAN
  /\ kiosk \in [status : {"idle", "resolving", "verdict"},
                verdict : {"none", "allowed", "already", "not_found"},
                who : Guests \cup {NoGuest}, pending : BOOLEAN]
  /\ kioskJobs \subseteq KioskJob /\ reprints \subseteq Reprint /\ kioskMount \in Nat
  /\ printerData \in {"asked", "failed", "known"}
  /\ guestIn \subseteq Guests
  /\ {admitted, badges, presses} \subseteq [Guests -> Nat]
  /\ kioskScans \in 0..MaxKioskScans /\ kioskTurns \in 0..MaxKioskTurns

KioskInit ==
  /\ kioskPage \in {"run", "self"} /\ printOnCheckin \in BOOLEAN /\ kioskMount = 0
  /\ kiosk = Idle /\ kioskBusy = FALSE /\ kioskTimer = FALSE /\ kioskJobs = {}
  /\ reprints = {} /\ printBusy = FALSE
  /\ printerData = "asked" /\ agentUp \in BOOLEAN /\ healthSeen = FALSE /\ kioskOnline = TRUE
  /\ guestIn = {} /\ admitted = [g \in Guests |-> 0] /\ badges = admitted /\ presses = admitted
  /\ kioskScans = 0 /\ kioskTurns = 0

------------------------------------------------------------------------------
KioskGate == printOnCheckin /\ printerData # "known"
RunScanEnabled == kiosk.status = "idle" /\ kioskOnline /\ ~KioskGate
SelfScanEnabled == RunScanEnabled /\ healthSeen
KioskScanEnabled == IF kioskPage = "run" THEN RunScanEnabled ELSE SelfScanEnabled
KioskTurn == kioskTurns < MaxKioskTurns /\ kioskTurns' = kioskTurns + 1
Mounted(j) == j.mount = kioskMount

(* A code is scanned, or on the operator's page an attendee is picked.     *)
KioskSubmit(c, step) ==
  /\ KioskScanEnabled /\ ~kioskBusy /\ kioskScans < MaxKioskScans
  /\ kioskScans' = kioskScans + 1
  /\ kioskBusy' = TRUE /\ kioskTimer' = FALSE
  /\ kiosk' = [Idle EXCEPT !.status = "resolving"]
  /\ kioskJobs' = kioskJobs \cup {[code |-> c, mount |-> kioskMount, step |-> step, outcome |-> "none"]}
  /\ UNCHANGED <<kioskPageVars, kioskPrintVars, kioskEnvVars, kioskWorld, kioskTurns>>

KioskScan(c) == KioskSubmit(c, "lookup")
KioskPick(c) == kioskPage = "run" /\ c \in Guests /\ KioskSubmit(c, "post")

(* A verdict, for the mount that asked: only the page of a self-service    *)
(* station schedules the end of "already checked in".                      *)
KioskVerdict(j, verdict) ==
  /\ kioskJobs' = kioskJobs \ {j}
  /\ IF Mounted(j)
     THEN /\ kiosk' = [status |-> "verdict", verdict |-> verdict, pending |-> FALSE,
                       who |-> IF j.code \in Guests THEN j.code ELSE NoGuest]
          /\ kioskTimer' = (verdict # "already") /\ kioskBusy' = FALSE
     ELSE UNCHANGED <<kiosk, kioskTimer, kioskBusy>>

KioskAdvance(j, step, outcome) ==
  /\ kioskJobs' = (kioskJobs \ {j}) \cup {[j EXCEPT !.step = step, !.outcome = outcome]}
  /\ UNCHANGED <<kiosk, kioskBusy, kioskTimer>>

KioskLookup(j) ==
  /\ j.step = "lookup"
  /\ IF j.code \in Guests THEN KioskAdvance(j, "post", "none") ELSE KioskVerdict(j, "not_found")
  /\ UNCHANGED <<kioskWorld, kioskTurns>>

KioskCommit(j) ==
  /\ j.step = "post"
  /\ KioskAdvance(j, "answered", IF j.code \in guestIn THEN "already" ELSE "allowed")
  /\ guestIn' = guestIn \cup {j.code}
  /\ admitted' = IF j.code \in guestIn THEN admitted ELSE [admitted EXCEPT ![j.code] = @ + 1]
  /\ UNCHANGED <<badges, kioskTurns>>

(* Mutant: an attendee already checked in gets a badge.                  *)
KioskAnsweredAny(j) ==
  /\ j.step = "answered"
  /\ IF printOnCheckin THEN KioskAdvance(j, "print", "allowed")
                                                ELSE KioskVerdict(j, j.outcome)
  /\ UNCHANGED <<kioskWorld, kioskTurns>>

KioskAnswered(j) ==
  /\ j.step = "answered"
  /\ IF j.outcome = "allowed" /\ printOnCheckin THEN KioskAdvance(j, "print", "allowed")
                                                ELSE KioskVerdict(j, j.outcome)
  /\ UNCHANGED <<kioskWorld, kioskTurns>>

(* The backend renders the badge, the agent prints it, the print is        *)
(* recorded; any error becomes printError, with a badge printed or not.    *)
KioskPrint(j) ==
  /\ j.step = "print"
  /\ \/ /\ agentUp /\ badges' = [badges EXCEPT ![j.code] = @ + 1]
        /\ KioskAdvance(j, "mark", "allowed") \/ KioskVerdict(j, "allowed")
     \/ KioskVerdict(j, "allowed") /\ UNCHANGED badges
  /\ UNCHANGED <<guestIn, admitted, kioskTurns>>

KioskMark(j) == j.step = "mark" /\ KioskVerdict(j, "allowed") /\ UNCHANGED <<kioskWorld, kioskTurns>>

(* The lookup or the check-in fails, before or after it took effect.       *)
KioskFails(j) ==
  /\ j.step \in {"lookup", "post", "answered"} /\ KioskTurn
  /\ kioskJobs' = kioskJobs \ {j}
  /\ IF Mounted(j) THEN kiosk' = Idle /\ kioskBusy' = FALSE ELSE UNCHANGED <<kiosk, kioskBusy>>
  /\ UNCHANGED <<kioskTimer, kioskWorld>>

KioskStep(j) ==
  /\ \/ KioskLookup(j) \/ KioskCommit(j) \/ KioskAnswered(j)
     \/ KioskPrint(j) \/ KioskMark(j) \/ KioskFails(j)
  /\ UNCHANGED <<kioskPageVars, kioskPrintVars, kioskEnvVars, kioskScans>>

------------------------------------------------------------------------------
(* printCurrent, on the operator's page when check-in prints nothing.      *)

PressPrint ==
  /\ kioskPage = "run" /\ kiosk.verdict = "allowed" /\ ~printOnCheckin /\ ~kiosk.pending
  /\ ~printBusy /\ presses[kiosk.who] < MaxKioskPrints
  /\ presses' = [presses EXCEPT ![kiosk.who] = @ + 1]
  /\ printBusy' = TRUE /\ kiosk' = [kiosk EXCEPT !.pending = TRUE]
  /\ reprints' = reprints \cup {[who |-> kiosk.who, mount |-> kioskMount, step |-> "print"]}
  /\ UNCHANGED <<kioskPageVars, kioskBusy, kioskTimer, kioskJobs, kioskEnvVars, kioskWorld,
                 kioskScans, kioskTurns>>

(* Mutant: a failed print leaves the button hidden.                      *)
ReprintSettlesBusy(r) ==
  /\ reprints' = reprints \ {r}
  /\ IF Mounted(r) THEN printBusy' = FALSE /\ UNCHANGED kiosk
                   ELSE UNCHANGED <<printBusy, kiosk>>

(* Success or error is written on whatever verdict is shown by then.       *)
ReprintSettles(r) ==
  /\ reprints' = reprints \ {r}
  /\ IF Mounted(r) THEN printBusy' = FALSE /\ kiosk' = [kiosk EXCEPT !.pending = FALSE]
                   ELSE UNCHANGED <<printBusy, kiosk>>

ReprintStep(r) ==
  /\ IF r.step = "mark"
     THEN ReprintSettles(r) /\ UNCHANGED badges
     ELSE \/ /\ agentUp /\ badges' = [badges EXCEPT ![r.who] = @ + 1]
             /\ \/ reprints' = (reprints \ {r}) \cup {[r EXCEPT !.step = "mark"]}
                   /\ UNCHANGED <<printBusy, kiosk>>
                \/ ReprintSettles(r)
          \/ ReprintSettles(r) /\ UNCHANGED badges
  /\ UNCHANGED <<kioskPageVars, kioskBusy, kioskTimer, kioskJobs, presses, kioskEnvVars, guestIn,
                 admitted, kioskScans, kioskTurns>>

------------------------------------------------------------------------------
KioskClear ==
  /\ kiosk' = Idle /\ kioskTimer' = FALSE
  /\ UNCHANGED <<kioskPageVars, kioskBusy, kioskJobs, kioskPrintVars, kioskEnvVars, kioskWorld,
                 kioskScans, kioskTurns>>

KioskDismiss == kioskTimer /\ KioskClear
(* Mutant: the page times the wrong verdict.                             *)
SelfDismissAllowed == kioskPage = "self" /\ kiosk.verdict = "allowed" /\ KioskClear

SelfDismiss == kioskPage = "self" /\ kiosk.verdict = "already" /\ KioskClear
DonePressed == kioskPage = "run" /\ kiosk.status = "verdict" /\ kiosk.verdict # "allowed" /\ KioskClear

AnswerPrinter ==
  /\ printerData = "asked" /\ printerData' = IF agentUp THEN "known" ELSE "failed"
  /\ UNCHANGED <<kioskPageVars, kioskFlowVars, kioskPrintVars, agentUp, healthSeen, kioskOnline,
                 kioskWorld, kioskScans, kioskTurns>>

HealthPoll ==
  /\ healthSeen' = agentUp
  /\ UNCHANGED <<kioskPageVars, kioskFlowVars, kioskPrintVars, printerData, agentUp, kioskOnline,
                 kioskWorld, kioskScans, kioskTurns>>

KioskAgentTurns ==
  /\ KioskTurn /\ agentUp' = ~agentUp
  /\ UNCHANGED <<kioskPageVars, kioskFlowVars, kioskPrintVars, printerData, healthSeen,
                 kioskOnline, kioskWorld, kioskScans>>

KioskOnlineTurns ==
  /\ KioskTurn /\ kioskOnline' = ~kioskOnline
  /\ UNCHANGED <<kioskPageVars, kioskFlowVars, kioskPrintVars, printerData, agentUp, healthSeen,
                 kioskWorld, kioskScans>>

(* Staff leave the page and come back, to this page or to the other one;   *)
(* a printer query that failed is asked again.                             *)
KioskRemount(page) ==
  /\ KioskTurn /\ kioskPage' = page /\ kioskMount' = kioskMount + 1
  /\ kiosk' = Idle /\ kioskBusy' = FALSE /\ kioskTimer' = FALSE /\ printBusy' = FALSE
  /\ printerData' = IF printerData = "known" THEN "known" ELSE "asked"
  /\ UNCHANGED <<printOnCheckin, kioskJobs, reprints, presses, agentUp, healthSeen, kioskOnline,
                 kioskWorld, kioskScans>>

------------------------------------------------------------------------------
KioskNext ==
  \/ \E c \in KioskCodes : KioskScan(c) \/ KioskPick(c)
  \/ \E j \in kioskJobs : KioskStep(j)
  \/ PressPrint \/ \E r \in reprints : ReprintStep(r)
  \/ KioskDismiss \/ SelfDismiss \/ DonePressed
  \/ AnswerPrinter \/ HealthPoll \/ KioskAgentTurns \/ KioskOnlineTurns
  \/ \E page \in {"run", "self"} : KioskRemount(page)

KioskSpec == KioskInit /\ [][KioskNext]_kioskVars

------------------------------------------------------------------------------
(* A badge is paid for by a check-in that prints or by a press of Print:   *)
(* not by a rescan, a lost answer or a mount that was left while printing. *)
BadgesEarned == \A g \in Guests : badges[g] <= admitted[g] + presses[g]

(* The Print button, hidden while a print is pending, is hidden for a      *)
(* print that will still answer to this page, never for one that settled   *)
(* on another verdict or belongs to a page that was left.                  *)
PendingOwned ==
  kiosk.pending => \E r \in reprints : Mounted(r) /\ r.who = kiosk.who

(* Nobody stands at a self-service station: whatever fails, it comes back  *)
(* to where it can scan, the repeated scan included.                       *)
SelfServiceReturns == (kioskPage = "self" /\ kiosk.status # "idle")
                         ~> (kioskPage = "run" \/ kiosk.status = "idle")

==============================================================================

------------------------------ MODULE StaffTokens ------------------------------
(***************************************************************************)
(* The staff page's login codes (panel/src/features/staff: StaffPage.tsx,  *)
(* StaffCard.tsx, QrPrintSheet.tsx).  Generating a member's code replaces  *)
(* the one before; the raw code is in the answer only and is kept for the  *)
(* session.  One administrator; Print all walks the members in order.      *)
(*                                                                         *)
(* Leaving the page, or a failed refetch of the staff under its cards,     *)
(* ends the callbacks of the cards but not their calls; and the run of     *)
(* Print all is a plain async function that outlives its page.             *)
(***************************************************************************)
EXTENDS Naturals, FiniteSets

CONSTANTS
  StaffSize,        \* members of the event's staff, 1..StaffSize in list order
  MaxCodes,         \* bound on the codes ever asked for
  MaxCodeTurns,     \* bound on how often the page or its cards are left
  CodeFaults        \* subset of {"fail", "lost", "leave", "list"}

ASSUME StaffAssumption ==
  /\ StaffSize \in Nat \ {0} /\ {MaxCodes, MaxCodeTurns} \subseteq Nat
  /\ CodeFaults \subseteq {"fail", "lost", "leave", "list"}

VARIABLES
  liveCode,     \* in the backend: each member's code, 0 for none
  codesAsked,   \* calls made so far; a call's number is the code it yields
  hasCode,      \* the staff list's copy of has_qr_token
  codes,        \* tokens: the codes known to this session, 0 for none
  codeCalls,    \* POST .../qr-token calls of the cards
  confirming,   \* the member whose regenerate dialog is open, 0 for none
  cardSession,  \* sessionRef of that dialog
  fullScreen,   \* the member whose code is shown full screen
  printAll,     \* the Print all dialog and its run
  codeSheet,    \* printCards
  leftRuns,     \* runs of Print all whose page was left
  codeTurns,    \* counter of the bound, and the number of this visit
  overlapped    \* history: members whose card had a call under way when Print all was
                \* confirmed, or a call or run still to reach them when the page or card was left

codeBackend == <<liveCode, codesAsked>>
codeCardVars    == <<codeCalls, confirming, cardSession, fullScreen>>
codeLeft == <<leftRuns, codeTurns>>
codeVars == <<codeBackend, hasCode, codes, codeCardVars, printAll, codeSheet, codeLeft, overlapped>>

Staff == 1..StaffSize
CodeCall == [member : Staff, code : 1..MaxCodes, done : BOOLEAN, sheet : BOOLEAN, session : Nat,
             heard : BOOLEAN]
LeftRun == [visit : Nat, ahead : SUBSET Staff, asked : 0..MaxCodes]
SheetCard == [member : Staff, code : 1..MaxCodes]
NoPrintAll == [open |-> FALSE, busy |-> FALSE, at |-> 1, known |-> [m \in Staff |-> 0],
               asked |-> 0, done |-> FALSE, cards |-> {}, failed |-> 0]

StaffTypeOK ==
  /\ liveCode \in [Staff -> 0..MaxCodes] /\ codesAsked \in 0..MaxCodes
  /\ hasCode \in [Staff -> BOOLEAN] /\ codes \in [Staff -> 0..MaxCodes]
  /\ codeCalls \subseteq CodeCall /\ {confirming, fullScreen} \subseteq 0..StaffSize
  /\ cardSession \in [Staff -> Nat]
  /\ printAll \in [open : BOOLEAN, busy : BOOLEAN, at : 1..StaffSize + 1,
                   known : [Staff -> 0..MaxCodes], asked : 0..MaxCodes, done : BOOLEAN,
                   cards : SUBSET SheetCard, failed : 0..StaffSize]
  /\ codeSheet \subseteq SheetCard /\ overlapped \subseteq Staff
  /\ leftRuns \subseteq LeftRun /\ codeTurns \in 0..MaxCodeTurns

(* Codes of earlier sessions, known to nobody here, are not numbered: the  *)
(* list may say that a member has one.                                     *)
StaffInit ==
  /\ liveCode = [m \in Staff |-> 0] /\ codesAsked = 0 /\ hasCode \in [Staff -> BOOLEAN]
  /\ codes = [m \in Staff |-> 0] /\ codeCalls = {} /\ confirming = 0
  /\ cardSession = [m \in Staff |-> 0] /\ fullScreen = 0
  /\ printAll = NoPrintAll /\ codeSheet = {} /\ leftRuns = {} /\ codeTurns = 0 /\ overlapped = {}

CodePending(m) == \E c \in codeCalls : c.member = m /\ c.heard
Free == confirming = 0 /\ fullScreen = 0 /\ ~printAll.open /\ codeSheet = {}

------------------------------------------------------------------------------
(* A card.                                                                 *)
RunGenerate(m, openSheet) ==
  /\ codesAsked < MaxCodes /\ codesAsked' = codesAsked + 1
  /\ codeCalls' = codeCalls \cup {[member |-> m, code |-> codesAsked + 1, done |-> FALSE,
                                   sheet |-> openSheet, session |-> cardSession[m], heard |-> TRUE]}
(* Mutant: a card can ask twice.                                         *)
ControlsAlwaysEnabled(m) == Free /\ ~printAll.busy

ControlsEnabled(m) == Free /\ ~printAll.busy /\ ~CodePending(m)

PressGenerate(m) ==
  /\ ControlsEnabled(m) /\ codes[m] = 0 /\ ~hasCode[m] /\ RunGenerate(m, FALSE)
  /\ UNCHANGED <<liveCode, hasCode, codes, confirming, cardSession, fullScreen, printAll,
                 codeSheet, codeLeft, overlapped>>
PressPrintCard(m) ==
  /\ ControlsEnabled(m)
  /\ \/ /\ codes[m] # 0 /\ codeSheet' = {[member |-> m, code |-> codes[m]]}
        /\ UNCHANGED <<codesAsked, codeCalls, confirming>>
     \/ /\ codes[m] = 0 /\ hasCode[m] /\ confirming' = m
        /\ UNCHANGED <<codesAsked, codeCalls, codeSheet>>
     \/ /\ codes[m] = 0 /\ ~hasCode[m] /\ RunGenerate(m, TRUE)
        /\ UNCHANGED <<confirming, codeSheet>>
  /\ UNCHANGED <<liveCode, hasCode, codes, cardSession, fullScreen, printAll, codeLeft, overlapped>>

ConfirmRegenerate ==
  /\ confirming # 0 /\ ~CodePending(confirming) /\ RunGenerate(confirming, TRUE)
  /\ UNCHANGED <<liveCode, hasCode, codes, confirming, cardSession, fullScreen, printAll,
                 codeSheet, codeLeft, overlapped>>
(* The dialog may be dismissed while its call is under way.                *)
DismissRegenerate ==
  /\ confirming # 0 /\ confirming' = 0
  /\ cardSession' = [cardSession EXCEPT ![confirming] =
                       @ + (IF CodePending(confirming) THEN 1 ELSE 0)]
  /\ UNCHANGED <<codeBackend, hasCode, codes, codeCalls, fullScreen, printAll, codeSheet, codeLeft, overlapped>>

ShowFullScreen(m) ==
  /\ Free /\ codes[m] # 0 /\ fullScreen' = m
  /\ UNCHANGED <<codeBackend, hasCode, codes, codeCalls, confirming, cardSession, printAll,
                 codeSheet, codeLeft, overlapped>>
HideFullScreen ==
  /\ fullScreen # 0 /\ fullScreen' = 0
  /\ UNCHANGED <<codeBackend, hasCode, codes, codeCalls, confirming, cardSession, printAll,
                 codeSheet, codeLeft, overlapped>>

CodeCommits(c) ==
  /\ ~c.done /\ liveCode' = [liveCode EXCEPT ![c.member] = c.code]
  /\ codeCalls' = (codeCalls \ {c}) \cup (IF c.heard THEN {[c EXCEPT !.done = TRUE]} ELSE {})
  /\ UNCHANGED <<codesAsked, hasCode, codes, confirming, cardSession, fullScreen, printAll,
                 codeSheet, codeLeft, overlapped>>
(* The code is kept whatever became of the dialog; the sheet is opened for *)
(* a dialog that is still the one that asked.                              *)
CodeAnswers(c) ==
  LET current == c.session = cardSession[c.member] IN
  /\ c.heard /\ c.done /\ codeCalls' = codeCalls \ {c}
  /\ codes' = [codes EXCEPT ![c.member] = c.code]
  /\ confirming' = IF current /\ confirming = c.member THEN 0 ELSE confirming
  /\ codeSheet' = IF current /\ c.sheet THEN {[member |-> c.member, code |-> c.code]} ELSE codeSheet
  /\ UNCHANGED <<codeBackend, hasCode, cardSession, fullScreen, printAll, codeLeft, overlapped>>
CodeFails(c) ==
  /\ (IF c.done THEN "lost" ELSE "fail") \in CodeFaults /\ codeCalls' = codeCalls \ {c}
  /\ UNCHANGED <<codeBackend, hasCode, codes, confirming, cardSession, fullScreen, printAll,
                 codeSheet, codeLeft, overlapped>>

------------------------------------------------------------------------------
(* Print all.  The run reads the codes that were known when it was         *)
(* confirmed and cannot be dismissed.                                      *)
OpenPrintAll ==
  /\ Free /\ ~printAll.busy /\ printAll' = [NoPrintAll EXCEPT !.open = TRUE]
  /\ UNCHANGED <<codeBackend, hasCode, codes, codeCardVars, codeSheet, codeLeft, overlapped>>
ClosePrintAll ==
  /\ printAll.open /\ ~printAll.busy /\ printAll' = NoPrintAll
  /\ UNCHANGED <<codeBackend, hasCode, codes, codeCardVars, codeSheet, codeLeft, overlapped>>
ConfirmPrintAll ==
  /\ printAll.open /\ ~printAll.busy
  /\ printAll' = [NoPrintAll EXCEPT !.open = TRUE, !.busy = TRUE, !.known = codes]
  /\ overlapped' = overlapped \cup {m \in Staff : CodePending(m)}
  /\ UNCHANGED <<codeBackend, hasCode, codes, codeCardVars, codeSheet, codeLeft>>

Turn == printAll.busy /\ printAll.at \in Staff
ReuseCode ==
  LET m == printAll.at IN
  /\ Turn /\ printAll.known[m] # 0
  /\ printAll' = [printAll EXCEPT !.at = m + 1,
                    !.cards = @ \cup {[member |-> m, code |-> printAll.known[m]]}]
  /\ UNCHANGED <<codeBackend, hasCode, codes, codeCardVars, codeSheet, codeLeft, overlapped>>
AskCode ==
  /\ Turn /\ printAll.known[printAll.at] = 0 /\ printAll.asked = 0
  /\ codesAsked < MaxCodes /\ codesAsked' = codesAsked + 1
  /\ printAll' = [printAll EXCEPT !.asked = codesAsked + 1]
  /\ UNCHANGED <<liveCode, hasCode, codes, codeCardVars, codeSheet, codeLeft, overlapped>>
PrintAllCommits ==
  /\ printAll.asked # 0 /\ ~printAll.done
  /\ liveCode' = [liveCode EXCEPT ![printAll.at] = printAll.asked]
  /\ printAll' = [printAll EXCEPT !.done = TRUE]
  /\ UNCHANGED <<codesAsked, hasCode, codes, codeCardVars, codeSheet, codeLeft, overlapped>>
PrintAllAnswers ==
  LET m == printAll.at IN
  /\ printAll.asked # 0
  /\ \/ /\ printAll.done /\ codes' = [codes EXCEPT ![m] = printAll.asked]
        /\ printAll' = [printAll EXCEPT !.at = m + 1, !.asked = 0, !.done = FALSE,
                          !.cards = @ \cup {[member |-> m, code |-> printAll.asked]}]
     \/ /\ (IF printAll.done THEN "lost" ELSE "fail") \in CodeFaults /\ UNCHANGED codes
        /\ printAll' = [printAll EXCEPT !.at = m + 1, !.asked = 0, !.done = FALSE,
                          !.failed = @ + 1]
  /\ UNCHANGED <<codeBackend, hasCode, codeCardVars, codeSheet, codeLeft, overlapped>>
(* A run with failures leaves its dialog open for the tally to be read.    *)
PrintAllEnds ==
  /\ printAll.busy /\ printAll.at > StaffSize
  /\ printAll' = IF printAll.failed > 0
                 THEN [NoPrintAll EXCEPT !.open = TRUE, !.failed = printAll.failed]
                 ELSE NoPrintAll
  /\ codeSheet' = IF printAll.cards = {} THEN codeSheet ELSE printAll.cards
  /\ UNCHANGED <<codeBackend, hasCode, codes, codeCardVars, codeLeft, overlapped>>

SheetPrinted ==
  /\ codeSheet # {} /\ codeSheet' = {}
  /\ UNCHANGED <<codeBackend, hasCode, codes, codeCardVars, printAll, codeLeft, overlapped>>
StaffRefetched ==
  /\ hasCode' = [m \in Staff |-> hasCode[m] \/ liveCode[m] # 0]
  /\ UNCHANGED <<codeBackend, codes, codeCardVars, printAll, codeSheet, codeLeft, overlapped>>

------------------------------------------------------------------------------
(* What is left behind.  The cards' callbacks end with the cards; a run    *)
(* goes on to the members it has not reached, with nobody to hear of it.   *)
Unfinished == {c \in codeCalls : ~c.done}
CardsGone ==
  /\ codeTurns < MaxCodeTurns /\ codeTurns' = codeTurns + 1
  /\ codeCalls' = {[c EXCEPT !.heard = FALSE] : c \in Unfinished}
  /\ confirming' = 0 /\ fullScreen' = 0 /\ cardSession' = [m \in Staff |-> 0]
Ahead == {m \in Staff : printAll.busy /\ m >= printAll.at /\ printAll.known[m] = 0
                          /\ ~(m = printAll.at /\ printAll.done)}

(* The page is left and opened again: it knows no code.                    *)
LeaveStaffPage ==
  /\ "leave" \in CodeFaults /\ CardsGone
  /\ leftRuns' = leftRuns \cup {r \in {[visit |-> codeTurns, ahead |-> Ahead,
                                       asked |-> IF printAll.done THEN 0 ELSE printAll.asked]} : r.ahead # {}}
  /\ codes' = [m \in Staff |-> 0] /\ printAll' = NoPrintAll /\ codeSheet' = {}
  /\ overlapped' = overlapped \cup Ahead \cup {c.member : c \in Unfinished}
  /\ UNCHANGED <<codeBackend, hasCode>>

(* A refetch of the staff fails and is tried again: the page stays, its    *)
(* cards are new.                                                          *)
StaffListFails ==
  /\ "list" \in CodeFaults /\ CardsGone
  /\ overlapped' = overlapped \cup {c.member : c \in Unfinished}
  /\ UNCHANGED <<codeBackend, hasCode, codes, printAll, codeSheet, leftRuns>>

LeftRunAsks(run) ==
  /\ run.asked = 0 /\ codesAsked < MaxCodes /\ codesAsked' = codesAsked + 1
  /\ leftRuns' = (leftRuns \ {run}) \cup {[run EXCEPT !.asked = codesAsked + 1]}
  /\ UNCHANGED <<liveCode, hasCode, codes, codeCardVars, printAll, codeSheet, codeTurns, overlapped>>
LeftRunGoesOn(run) ==
  /\ run.asked # 0
  /\ \E m \in run.ahead :
       /\ \A k \in run.ahead : m <= k
       /\ leftRuns' = (leftRuns \ {run})
                      \cup {r \in {[run EXCEPT !.ahead = @ \ {m}, !.asked = 0]} : r.ahead # {}}
       /\ \/ liveCode' = [liveCode EXCEPT ![m] = run.asked]
          \/ "fail" \in CodeFaults /\ UNCHANGED liveCode
  /\ UNCHANGED <<codesAsked, hasCode, codes, codeCardVars, printAll, codeSheet, codeTurns, overlapped>>

StaffNext ==
  \/ ConfirmRegenerate \/ DismissRegenerate \/ HideFullScreen
  \/ OpenPrintAll \/ ClosePrintAll \/ ConfirmPrintAll \/ ReuseCode \/ AskCode
  \/ PrintAllCommits \/ PrintAllAnswers \/ PrintAllEnds \/ SheetPrinted \/ StaffRefetched
  \/ LeaveStaffPage \/ StaffListFails
  \/ \E m \in Staff : PressGenerate(m) \/ PressPrintCard(m) \/ ShowFullScreen(m)
  \/ \E c \in codeCalls : CodeCommits(c) \/ CodeAnswers(c) \/ CodeFails(c)
  \/ \E run \in leftRuns : LeftRunAsks(run) \/ LeftRunGoesOn(run)

StaffSpec == StaffInit /\ [][StaffNext]_codeVars

------------------------------------------------------------------------------
(* StaffPage.tsx:189-191 and StaffCard.tsx:205-208: a code known to this   *)
(* session, and so perhaps printed, is still the member's code, except for *)
(* a member whose card was waiting for one when Print all was confirmed,   *)
(* and for one that a card's call or a run of Print all had still to reach *)
(* when its page, or the cards, went away: it may kill the next code too.  *)
DeadCodesOverlapped ==
  \A m \in Staff : codes[m] \notin {0, liveCode[m]} => m \in overlapped

==============================================================================

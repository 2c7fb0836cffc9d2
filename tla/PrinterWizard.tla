---------------------------- MODULE PrinterWizard ----------------------------
(***************************************************************************)
(* The printer set-up wizard of the equipment hub (panel/src/features/     *)
(* equipment/PrinterWizard.tsx): find a printer or add one by its address, *)
(* print a test label, save it to the registry; or print a test for a      *)
(* device that is already saved.  The wizard is one component that stays   *)
(* mounted; its effects reset it whenever it opens or closes.  Each print, *)
(* save or add is an asynchronous call that remembers the session it was   *)
(* made in.                                                                *)
(***************************************************************************)
EXTENDS Naturals

CONSTANTS
  SystemPrinters,    \* printers the agent reports as system printers
  NetworkPrinters,   \* network printers, whose address the agent does not report
  AddedPrinters,     \* names typed into the manual form
  MaxWizardOpens,    \* bounds the sessions
  MaxWizardCalls     \* bounds the calls

NoPick == "none"
WizardPrinters == SystemPrinters \cup NetworkPrinters \cup AddedPrinters
ASSUME PrinterWizardAssumption ==
  /\ NoPick \notin WizardPrinters
  /\ AddedPrinters \cap (SystemPrinters \cup NetworkPrinters) = {}
  /\ MaxWizardOpens \in Nat /\ MaxWizardCalls \in Nat

VARIABLES
  wizard,       \* the open wizard's mode, "closed", "create" or "retest"
  wizStep,      \* find, test or save
  wizSelected,  \* the selected printer's name
  wizAddressed, \* its address is known, or it needs none
  wizTested,    \* testPassed
  wizFired,     \* firedForRef: the printer the automatic test print was for
  wizPrinting,  \* the printing flag
  wizSaving,    \* the saving flag
  wizAdding,    \* the printer a manual add is under way for
  wizMirror,    \* mirrorWarning: saved, but the agent refused the default
  wizSession,   \* sessionRef
  wizCalls,     \* print, create, mirror and stamp calls not yet answered
  wizSent,      \* counts the calls
  wizRegistry   \* the devices saved, with the session, the test flag sent and
                \* whether the wizard was told of them

wizState  == <<wizStep, wizSelected, wizAddressed, wizTested>>
wizFlags  == <<wizPrinting, wizSaving, wizMirror>>
wizardVars == <<wizard, wizState, wizFired, wizFlags, wizAdding, wizSession, wizCalls,
                wizSent, wizRegistry>>

WizardCall == [id : 1..MaxWizardCalls, kind : {"print", "create", "mirror", "stamp"},
               name : WizardPrinters, session : 0..2 * MaxWizardOpens]
Saved == [id : 1..MaxWizardCalls, name : WizardPrinters,
          session : 0..2 * MaxWizardOpens, tested : BOOLEAN, told : BOOLEAN]
WizardTypeOK ==
  /\ wizard \in {"closed", "create", "retest"} /\ wizStep \in {"find", "test", "save"}
  /\ {wizSelected, wizFired, wizAdding} \subseteq WizardPrinters \cup {NoPick}
  /\ {wizAddressed, wizTested, wizPrinting, wizSaving, wizMirror} \subseteq BOOLEAN
  /\ wizSession \in 0..2 * MaxWizardOpens /\ wizSent \in 0..MaxWizardCalls
  /\ wizCalls \subseteq WizardCall
  /\ wizRegistry \subseteq Saved

WizardInit ==
  /\ wizard = "closed" /\ wizStep = "find" /\ wizSelected = NoPick
  /\ wizAddressed = FALSE /\ wizTested = FALSE /\ wizFired = NoPick
  /\ wizPrinting = FALSE /\ wizSaving = FALSE /\ wizMirror = FALSE
  /\ wizAdding = NoPick /\ wizSession = 0 /\ wizCalls = {} /\ wizSent = 0
  /\ wizRegistry = {}

Busy == wizPrinting \/ wizSaving \/ wizAdding # NoPick

Call(kind, name, session) ==
  /\ wizSent < MaxWizardCalls /\ wizSent' = wizSent + 1
  /\ wizCalls' = wizCalls \cup
       {[id |-> wizSent + 1, kind |-> kind, name |-> name, session |-> session]}
NoCall == UNCHANGED <<wizSent, wizCalls>>

(* The open-keyed effect clears the session and seeds the next one.        *)
ResetWizard ==
  /\ wizSession' = wizSession + 1
  /\ wizPrinting' = FALSE /\ wizSaving' = FALSE /\ wizMirror' = FALSE
  /\ wizTested' = FALSE

(* The effect of the Test step: one automatic print for each selection.    *)
ShowTest(p, addressed) ==
  /\ wizStep' = "test" /\ wizSelected' = p /\ wizAddressed' = addressed
  /\ IF wizFired = p THEN NoCall /\ UNCHANGED <<wizFired, wizPrinting>>
     ELSE wizFired' = p /\ wizPrinting' = TRUE /\ Call("print", p, wizSession)

OpenFind ==
  /\ wizard = "closed" /\ wizSession < 2 * MaxWizardOpens /\ wizard' = "create"
  /\ ResetWizard /\ wizFired' = NoPick
  /\ wizStep' = "find" /\ wizSelected' = NoPick /\ wizAddressed' = FALSE
  /\ NoCall /\ UNCHANGED <<wizAdding, wizRegistry>>

(* A saved device's "Test print", or an unsaved row's "Save...".           *)
OpenAtTest(p, mode) ==
  /\ wizard = "closed" /\ wizSession < 2 * MaxWizardOpens /\ wizard' = mode
  /\ wizSession' = wizSession + 1
  /\ wizSaving' = FALSE /\ wizMirror' = FALSE /\ wizTested' = FALSE
  /\ wizStep' = "test" /\ wizSelected' = p
  /\ wizAddressed' = (mode = "retest" \/ p \in SystemPrinters)
  /\ wizFired' = p /\ wizPrinting' = TRUE /\ Call("print", p, wizSession + 1)
  /\ UNCHANGED <<wizAdding, wizRegistry>>

Close ==
  /\ wizard' = "closed" /\ ResetWizard /\ wizFired' = NoPick
  /\ wizStep' = "find" /\ wizSelected' = NoPick /\ wizAddressed' = FALSE
  /\ UNCHANGED wizAdding

(* A busy wizard cannot be dismissed, but for the explicit Close that      *)
(* takes Save's place once only the mirror has failed.                     *)
DismissWizard ==
  /\ wizard # "closed" /\ (~Busy \/ wizMirror)
  /\ Close /\ NoCall /\ UNCHANGED wizRegistry

------------------------------------------------------------------------------
PickPrinter(p) ==
  /\ wizard = "create" /\ wizStep = "find" /\ p \in SystemPrinters \cup NetworkPrinters
  /\ ShowTest(p, p \in SystemPrinters)
  /\ UNCHANGED <<wizard, wizTested, wizSaving, wizMirror, wizAdding, wizSession, wizRegistry>>

ManualSubmit(p) ==
  /\ wizard = "create" /\ wizStep = "find" /\ wizAdding = NoPick
  /\ p \in AddedPrinters /\ wizAdding' = p
  /\ UNCHANGED <<wizard, wizState, wizFired, wizFlags, wizSession, wizCalls, wizSent, wizRegistry>>

(* The agent's answer selects the new printer, whatever step is shown.     *)
ManualAnswers ==
  /\ wizAdding # NoPick /\ wizAdding' = NoPick
  /\ \/ ShowTest(wizAdding, TRUE)
     \/ NoCall /\ UNCHANGED <<wizStep, wizSelected, wizAddressed, wizFired, wizPrinting>>
  /\ UNCHANGED <<wizard, wizTested, wizSaving, wizMirror, wizSession, wizRegistry>>

PrintAgain ==
  /\ wizard # "closed" /\ wizStep = "test" /\ ~wizPrinting
  /\ wizPrinting' = TRUE /\ UNCHANGED wizSession /\ Call("print", wizSelected, wizSession)
  /\ UNCHANGED <<wizard, wizState, wizFired, wizSaving, wizMirror, wizAdding, wizRegistry>>

TestYes ==
  /\ wizard # "closed" /\ wizStep = "test" /\ ~wizSaving
  /\ wizTested' = TRUE
  /\ \/ /\ wizard = "create" /\ wizStep' = "save" /\ NoCall /\ UNCHANGED wizSaving
     \/ /\ wizard = "retest" /\ ~wizPrinting /\ wizSaving' = TRUE
        /\ Call("stamp", wizSelected, wizSession) /\ UNCHANGED wizStep
  /\ UNCHANGED <<wizard, wizSelected, wizAddressed, wizFired, wizPrinting, wizMirror,
                 wizAdding, wizSession, wizRegistry>>

GoBack ==
  /\ wizard = "create" /\ ~Busy /\ ~wizMirror
  /\ \/ wizStep = "save" /\ wizStep' = "test" /\ UNCHANGED <<wizSelected, wizAddressed, wizFired>>
     \/ /\ wizStep = "test" /\ wizStep' = "find"
        /\ wizSelected' = NoPick /\ wizAddressed' = FALSE /\ wizFired' = NoPick
  /\ UNCHANGED <<wizard, wizTested, wizFlags, wizAdding, wizSession, wizCalls, wizSent, wizRegistry>>

------------------------------------------------------------------------------
(* Mutant: Save stays enabled once only the mirror has failed.           *)
SaveEnabledAgain == wizard = "create" /\ wizStep # "find" /\ ~Busy

SaveEnabled == wizard = "create" /\ wizStep # "find" /\ ~Busy /\ ~wizMirror

(* A network printer without an address lands on the address form first;   *)
(* from there the form supplies it.                                        *)
SaveClick ==
  /\ SaveEnabled
  /\ \/ /\ ~wizAddressed /\ wizStep = "test" /\ wizStep' = "save"
        /\ NoCall /\ UNCHANGED wizSaving
     \/ /\ wizAddressed \/ wizStep = "save"
        /\ wizSaving' = TRUE /\ Call("create", wizSelected, wizSession) /\ UNCHANGED wizStep
  /\ UNCHANGED <<wizard, wizSelected, wizAddressed, wizTested, wizFired, wizPrinting,
                 wizMirror, wizAdding, wizSession, wizRegistry>>

Current(c) == c.session = wizSession
Answered(c) == wizCalls' = wizCalls \ {c} /\ UNCHANGED wizSent

(* A print is answered, refused or times out after 30 s.                   *)
PrintSettles(c) ==
  /\ c.kind = "print" /\ Answered(c)
  /\ wizPrinting' = (wizPrinting /\ ~Current(c))
  /\ UNCHANGED <<wizard, wizState, wizFired, wizSaving, wizMirror, wizAdding, wizSession, wizRegistry>>

Register(c, told) == wizRegistry' = wizRegistry \cup
  {[id |-> c.id, name |-> c.name, session |-> c.session, tested |-> wizTested, told |-> told]}

(* A save that is refused or never arrives, or whose answer is lost after  *)
(* the registry has taken it: the wizard shows an error and offers Save    *)
(* again.                                                                  *)
WizardSaveFails(c) ==
  /\ c.kind \in {"create", "stamp"} /\ Answered(c)
  /\ wizSaving' = (wizSaving /\ ~Current(c))
  /\ \/ UNCHANGED wizRegistry
     \/ c.kind = "create" /\ Register(c, FALSE)
  /\ UNCHANGED <<wizard, wizState, wizFired, wizPrinting, wizMirror, wizAdding, wizSession>>

(* The registry row is written; with "make default" on, the agent is told  *)
(* next and the wizard closes after that.                                  *)
CreateAnswers(c, makeDefault) ==
  /\ c.kind = "create" /\ Register(c, TRUE)
  /\ IF Current(c) /\ makeDefault
     THEN /\ wizCalls' = (wizCalls \ {c}) \cup {[c EXCEPT !.kind = "mirror"]}
          /\ UNCHANGED <<wizard, wizState, wizFired, wizFlags, wizAdding, wizSession,
                         wizSent>>
     ELSE Answered(c) /\ Close

MirrorAnswers(c) ==
  /\ c.kind = "mirror" /\ Answered(c)
  /\ UNCHANGED wizRegistry
  /\ \/ Close
     \/ /\ wizMirror' = TRUE /\ wizSaving' = FALSE
        /\ UNCHANGED <<wizard, wizState, wizFired, wizPrinting, wizAdding, wizSession>>

StampAnswers(c) == c.kind = "stamp" /\ Current(c) /\ Answered(c) /\ Close
                   /\ UNCHANGED wizRegistry

WizardNext ==
  \/ OpenFind \/ DismissWizard \/ ManualAnswers \/ PrintAgain \/ TestYes \/ GoBack \/ SaveClick
  \/ \E p \in SystemPrinters \cup NetworkPrinters : PickPrinter(p)
  \/ \E p \in SystemPrinters \cup NetworkPrinters, m \in {"create", "retest"} : OpenAtTest(p, m)
  \/ \E p \in AddedPrinters : ManualSubmit(p)
  \/ \E c \in wizCalls : \/ PrintSettles(c) \/ WizardSaveFails(c) \/ MirrorAnswers(c) \/ StampAnswers(c)
                         \/ \E d \in BOOLEAN : CreateAnswers(c, d)

WizardSpec == WizardInit /\ [][WizardNext]_wizardVars

------------------------------------------------------------------------------
(* A session that has been told of its device registers no other later,    *)
(* though Save is on screen again after the agent refused the default.     *)
(* What a session can register twice is a printer whose first save was     *)
(* committed and its answer lost: the registry takes it again.             *)
NothingAfterTold ==
  \A d, e \in wizRegistry : d.session = e.session /\ d.told => e.id <= d.id
==============================================================================

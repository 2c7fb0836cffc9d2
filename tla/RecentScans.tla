------------------------------ MODULE RecentScans ------------------------------
(***************************************************************************)
(* The check-in station's recent-scans rail                                *)
(* (panel/src/features/checkin/RecentScansRail.tsx): two confirm dialogs,  *)
(* reprint and undo, shared by all rows, over the agent, the print route   *)
(* and the undo route.  Rows are attendees.                                *)
(***************************************************************************)
EXTENDS Naturals, FiniteSets

CONSTANTS
  RailAttendees, \* attendees with a row in the rail
  Printers,      \* printers the agent may list
  MaxConfirms,   \* bounds the confirmations
  MaxRailTurns   \* bounds the changes around the rail

ASSUME RailAssumption == MaxConfirms \in Nat /\ MaxRailTurns \in Nat

VARIABLES
  railOnline,     \* the online property, from the page's connection state
  railAgent,      \* agent.state is connected
  listed,         \* agent.printers
  railDefault,    \* agent.configuredDefault
  railFonts,      \* fontsStatus is ready or error
  railDialog,     \* the open dialog and its row
  railChoice,     \* reprintPrinter: the choice where no default is configured
  reprint,        \* the confirmed reprint in flight
  undoPending,    \* the confirmed undo in flight, its row
  railNotice,     \* none, sent or warning, shown for four seconds
  confirmed, printed, logged,  \* per attendee: confirmations, badges, feed rows
  railTurns       \* counter of the bound

railEnvVars == <<railOnline, railAgent, listed, railDefault, railFonts>>
railUiVars  == <<railDialog, railChoice, railNotice>>
railCounts  == <<confirmed, printed, logged>>
railVars    == <<railEnvVars, railUiVars, reprint, undoPending, railCounts, railTurns>>

Unset == "unset"
Closed == [kind |-> "none", who |-> Unset]
NoReprint == [step |-> "none", who |-> Unset, printer |-> Unset]

RailTypeOK ==
  /\ {railOnline, railAgent, railFonts} \subseteq BOOLEAN
  /\ listed \subseteq Printers /\ railDefault \in Printers \cup {Unset}
  /\ railDialog \in [kind : {"none", "reprint", "undo"}, who : RailAttendees \cup {Unset}]
  /\ railChoice \in Printers \cup {Unset}
  /\ reprint \in [step : {"none", "fetch", "print", "mark"}, who : RailAttendees \cup {Unset},
                  printer : Printers \cup {Unset}]
  /\ undoPending \in RailAttendees \cup {Unset}
  /\ railNotice \in {"none", "sent", "warning"}
  /\ \A count \in {confirmed, printed, logged} : count \in [RailAttendees -> 0..MaxConfirms]
  /\ railTurns \in 0..MaxRailTurns

RailInit ==
  /\ railOnline = TRUE /\ railAgent = FALSE
  /\ listed = {} /\ railDefault = Unset /\ railFonts = FALSE
  /\ railDialog = Closed /\ railChoice = Unset /\ railNotice = "none"
  /\ reprint = NoReprint /\ undoPending = Unset
  /\ confirmed = [a \in RailAttendees |-> 0] /\ printed = confirmed /\ logged = confirmed
  /\ railTurns = 0

------------------------------------------------------------------------------
Printing == reprint.step # "none"
UndoIsPending == undoPending # Unset
AnyMutationPending == Printing \/ UndoIsPending
AnyDialogOpen == railDialog.kind # "none"
ConfiguredDefault == IF railDefault \in listed THEN railDefault ELSE Unset
DefaultPrinter == IF ConfiguredDefault # Unset \/ listed = {} THEN ConfiguredDefault
                  ELSE CHOOSE p \in listed : TRUE
TargetPrinter == IF ConfiguredDefault # Unset THEN ConfiguredDefault ELSE railChoice

(* The effect that repairs the choice, after the state it depends on.      *)
ChoiceEffect ==
  railChoice' = IF railDialog'.kind # "reprint" \/ ConfiguredDefault' # Unset \/ railChoice \in listed'
                THEN railChoice ELSE DefaultPrinter'

TriggersEnabled == railOnline /\ ~AnyMutationPending /\ ~AnyDialogOpen

OpenReprint(a) ==
  /\ TriggersEnabled /\ railAgent
  /\ railDialog' = [kind |-> "reprint", who |-> a]
  /\ UNCHANGED railEnvVars /\ ChoiceEffect
  /\ UNCHANGED <<railNotice, reprint, undoPending, railCounts, railTurns>>

OpenUndo(a) ==
  /\ TriggersEnabled
  /\ railDialog' = [kind |-> "undo", who |-> a]
  /\ UNCHANGED <<railEnvVars, railChoice, railNotice, reprint, undoPending, railCounts, railTurns>>

ChoosePrinter(p) ==
  /\ railDialog.kind = "reprint" /\ ConfiguredDefault = Unset /\ ~Printing /\ p \in listed
  /\ railChoice' = p
  /\ UNCHANGED <<railEnvVars, railDialog, railNotice, reprint, undoPending, railCounts, railTurns>>

(* Every way to close a dialog is refused while its own call is in flight. *)
CloseReprint ==
  /\ railDialog.kind = "reprint" /\ ~Printing
  /\ railDialog' = Closed /\ railChoice' = Unset
  /\ UNCHANGED <<railEnvVars, railNotice, reprint, undoPending, railCounts, railTurns>>

CloseUndo ==
  /\ railDialog.kind = "undo" /\ ~UndoIsPending
  /\ railDialog' = Closed
  /\ UNCHANGED <<railEnvVars, railChoice, railNotice, reprint, undoPending, railCounts, railTurns>>

Confirm(a) == confirmed[a] < MaxConfirms /\ confirmed' = [confirmed EXCEPT ![a] = @ + 1]

ConfirmReprint ==
  /\ railDialog.kind = "reprint" /\ ~Printing
  /\ railOnline /\ railAgent /\ railFonts /\ TargetPrinter # Unset
  /\ Confirm(railDialog.who)
  /\ reprint' = [step |-> "fetch", who |-> railDialog.who, printer |-> TargetPrinter]
  /\ UNCHANGED <<railEnvVars, railUiVars, undoPending, printed, logged, railTurns>>

ConfirmUndo ==
  /\ railDialog.kind = "undo" /\ ~UndoIsPending /\ railOnline
  /\ undoPending' = railDialog.who
  /\ UNCHANGED <<railEnvVars, railUiVars, reprint, railCounts, railTurns>>

------------------------------------------------------------------------------
(* The reprint: the full attendee and the template are fetched, the badge  *)
(* generated, the agent prints, the print is recorded.                     *)

ReprintFails ==
  /\ reprint' = NoReprint
  /\ UNCHANGED <<railEnvVars, railUiVars, undoPending, confirmed, logged, railTurns>>

FetchAnswers ==
  /\ reprint.step = "fetch"
  /\ \/ /\ reprint' = [reprint EXCEPT !.step = "print"]
        /\ UNCHANGED <<railEnvVars, railUiVars, undoPending, railCounts, railTurns>>
     \/ ReprintFails /\ UNCHANGED printed

(* Mutant: an unanswered print is sent again.                            *)
PrintAnswersRetried ==
  /\ reprint.step = "print"
  /\ \/ /\ railAgent /\ printed' = [printed EXCEPT ![reprint.who] = @ + 1]
        /\ \/ /\ reprint' = [reprint EXCEPT !.step = "mark"]
              /\ UNCHANGED <<railEnvVars, railUiVars, undoPending, confirmed, logged, railTurns>>
           \/ UNCHANGED <<railEnvVars, railUiVars, reprint, undoPending, confirmed, logged, railTurns>>
     \/ ReprintFails /\ UNCHANGED printed

(* An agent that times out may have printed.                               *)
PrintAnswers ==
  /\ reprint.step = "print"
  /\ \/ /\ railAgent /\ printed' = [printed EXCEPT ![reprint.who] = @ + 1]
        /\ \/ /\ reprint' = [reprint EXCEPT !.step = "mark"]
              /\ UNCHANGED <<railEnvVars, railUiVars, undoPending, confirmed, logged, railTurns>>
           \/ ReprintFails
     \/ ReprintFails /\ UNCHANGED printed

(* The dialog closes whether or not the print could be recorded; a lost    *)
(* answer leaves the row logged.                                           *)
MarkPrinted ==
  /\ reprint.step = "mark" /\ reprint' = NoReprint
  /\ railDialog' = Closed
  /\ \/ railNotice' = "sent" /\ logged' = [logged EXCEPT ![reprint.who] = @ + 1]
     \/ /\ railNotice' = "warning"
        /\ \/ logged' = [logged EXCEPT ![reprint.who] = @ + 1]
           \/ UNCHANGED logged
  /\ UNCHANGED <<railEnvVars, railChoice, undoPending, confirmed, printed, railTurns>>

UndoAnswers ==
  /\ UndoIsPending /\ undoPending' = Unset
  /\ \/ railDialog' = Closed
     \/ UNCHANGED railDialog
  /\ UNCHANGED <<railEnvVars, railChoice, railNotice, reprint, railCounts, railTurns>>

NoticeExpires ==
  /\ railNotice # "none" /\ railNotice' = "none"
  /\ UNCHANGED <<railEnvVars, railDialog, railChoice, reprint, undoPending, railCounts, railTurns>>

------------------------------------------------------------------------------
(* Around the rail.                                                        *)

RailTurn == railTurns < MaxRailTurns /\ railTurns' = railTurns + 1

ConnectivityTurns ==
  /\ RailTurn /\ railOnline' = ~railOnline
  /\ UNCHANGED <<railAgent, listed, railDefault, railFonts, railUiVars, reprint, undoPending,
                 railCounts>>

(* A focus refetch: the agent is down, or lists these printers.            *)
AgentRefetched(up, printers, default) ==
  /\ RailTurn
  /\ railAgent' = up
  /\ IF up THEN listed' = printers /\ railDefault' = default ELSE UNCHANGED <<listed, railDefault>>
  /\ UNCHANGED <<railOnline, railFonts, railDialog>> /\ ChoiceEffect
  /\ UNCHANGED <<railNotice, reprint, undoPending, railCounts>>

RailFontsSettle ==
  /\ ~railFonts /\ railFonts' = TRUE
  /\ UNCHANGED <<railOnline, railAgent, listed, railDefault, railUiVars, reprint, undoPending,
                 railCounts, railTurns>>

RailNext ==
  \/ \E a \in RailAttendees : OpenReprint(a) \/ OpenUndo(a)
  \/ \E p \in Printers : ChoosePrinter(p)
  \/ CloseReprint \/ CloseUndo \/ ConfirmReprint \/ ConfirmUndo
  \/ FetchAnswers \/ PrintAnswers \/ MarkPrinted \/ UndoAnswers \/ NoticeExpires
  \/ ConnectivityTurns \/ RailFontsSettle
  \/ \E up \in BOOLEAN, printers \in SUBSET Printers, default \in Printers \cup {Unset} :
       AgentRefetched(up, printers, default)

RailSpec == RailInit /\ [][RailNext]_railVars

------------------------------------------------------------------------------
(* One badge per confirmation at most, never a retry of the send, and a    *)
(* plain "sent" only for a badge that was printed and logged.              *)
PrintsAreConfirmed ==
  \A a \in RailAttendees : logged[a] <= printed[a] /\ printed[a] <= confirmed[a]

==============================================================================

------------------------------ MODULE BadgeEditor ------------------------------
(***************************************************************************)
(* The panel's badge editor (panel/src/features/badge/BadgeEditorPage.tsx):*)
(* one tab whose URL moves between the editors of several events, the      *)
(* react-query cache it loads from, and the backend's template rows, whose *)
(* version the PUT compares and bumps in one statement.                    *)
(*                                                                         *)
(* A template is a number, fresh for every edit; 0 is the empty one.  What *)
(* an edit does to the elements is not modelled, only that it makes a new  *)
(* document.                                                               *)
(***************************************************************************)
EXTENDS Naturals, FiniteSets

CONSTANTS
  EditorEvents,  \* events whose editors the tab visits
  MaxEdits,      \* bounds the templates made, here or by another operator
  MaxPuts,       \* bounds the PUTs this tab sends
  EditorFaults   \* subset of AllEditorFaults

Nowhere == "nowhere"
AllEditorFaults == {"other", "switch", "fail"}
ASSUME EditorAssumption ==
  /\ EditorEvents # {} /\ Nowhere \notin EditorEvents /\ EditorFaults \subseteq AllEditorFaults
  /\ MaxEdits \in Nat /\ MaxPuts \in Nat

VARIABLES
  editorEvent,     \* eventId of the URL
  loadedFor,       \* initializedForEventId
  editor,          \* the reducer's doc, version and dirty, and originalRawRef
  templateCache,   \* react-query's copy per event
  templates,       \* the backend's rows: document and version per event
  history,         \* every document the backend ever held, with its version
  editorConflict,  \* conflict: the banner shows
  editorDialog,    \* none, reload, overwrite or revert, the open dialog
  blockedNav,      \* the event a blocked navigation leads to
  refetching,      \* the confirmed reload or overwrite awaiting its GET
  puts,            \* PUTs not yet answered
  edits, sent      \* counters of the bounds

serverVars  == <<templates, history>>
dialogVars  == <<editorDialog, blockedNav>>
editorVars  == <<editorEvent, loadedFor, editor, templateCache, serverVars, editorConflict,
                 dialogVars, refetching, puts, edits, sent>>

Docs == 0..MaxEdits
Template == [doc : Docs, version : Nat]
NotCached == [missing |-> TRUE]
FirstEvent == CHOOSE e \in EditorEvents : TRUE
NoRefetch == [kind |-> "none", event |-> FirstEvent, doc |-> 0, version |-> 0]
Refetch == [kind : {"none", "reload", "overwrite"}, event : EditorEvents, doc : Docs, version : Nat]
Put == [id : 1..MaxPuts, kind : {"save", "leave", "revert", "overwrite"}, event : EditorEvents,
        doc : Docs, base : Docs, version : Nat, answer : {"none", "saved", "conflict"}]

EditorTypeOK ==
  /\ editorEvent \in EditorEvents /\ loadedFor \in EditorEvents \cup {Nowhere}
  /\ editor \in [doc : Docs, version : Nat, dirty : BOOLEAN, raw : Docs]
  /\ templateCache \in [EditorEvents -> Template \cup {NotCached}]
  /\ templates \in [EditorEvents -> Template]
  /\ history \subseteq EditorEvents \X Template
  /\ editorConflict \in BOOLEAN
  /\ editorDialog \in {"none", "reload", "overwrite", "revert"}
  /\ blockedNav \in EditorEvents \cup {Nowhere}
  /\ refetching \in Refetch /\ puts \subseteq Put
  /\ edits \in 0..MaxEdits /\ sent \in 0..MaxPuts

Loaded(t) == [doc |-> t.doc, version |-> t.version, dirty |-> FALSE, raw |-> t.doc]
EmptyTemplate == [doc |-> 0, version |-> 0]

EditorInit ==
  /\ editorEvent = FirstEvent /\ loadedFor = Nowhere
  /\ editor = Loaded(EmptyTemplate)
  /\ templateCache = [e \in EditorEvents |-> NotCached]
  /\ templates = [e \in EditorEvents |-> EmptyTemplate]
  /\ history = EditorEvents \X {EmptyTemplate}
  /\ editorConflict = FALSE /\ editorDialog = "none" /\ blockedNav = Nowhere
  /\ refetching = NoRefetch /\ puts = {} /\ edits = 0 /\ sent = 0

------------------------------------------------------------------------------
Initialized == loadedFor = editorEvent
(* isPending, and the callbacks given to mutate, belong to the latest call. *)
Pending == \E p \in puts : p.id = sent
EditorBusy == Pending \/ refetching.kind # "none"
SaveDisabled == ~Initialized \/ ~editor.dirty \/ Pending \/ editorConflict
GuardOpen == blockedNav # Nowhere \/ editorDialog = "revert"
NoModal == editorDialog = "none" /\ ~GuardOpen

(* The load effect, after a step that leaves the reducer as ed: it loads   *)
(* the URL's event from the cache, once.                                   *)
LoadEffect(ed) ==
  LET e == editorEvent' IN
  IF loadedFor # e /\ templateCache'[e] # NotCached
  THEN editor' = Loaded(templateCache'[e]) /\ loadedFor' = e
  ELSE editor' = ed /\ UNCHANGED loadedFor

(* The first fetch, or a background refetch: never loaded twice.           *)
TemplateFetched ==
  /\ templateCache[editorEvent] # templates[editorEvent]
  /\ templateCache' = [templateCache EXCEPT ![editorEvent] = templates[editorEvent]]
  /\ UNCHANGED editorEvent /\ LoadEffect(editor)
  /\ UNCHANGED <<serverVars, editorConflict, dialogVars, refetching, puts, edits, sent>>

(* The panes stay enabled while a PUT is in flight; an event whose first   *)
(* fetch is not answered shows none.                                       *)
EditDocument ==
  /\ NoModal /\ Initialized /\ edits < MaxEdits
  /\ edits' = edits + 1
  /\ editor' = [editor EXCEPT !.doc = edits + 1, !.dirty = TRUE]
  /\ UNCHANGED <<editorEvent, loadedFor, templateCache, serverVars, editorConflict, dialogVars,
                 refetching, puts, sent>>

Send(kind, event, doc, version) ==
  /\ sent < MaxPuts /\ sent' = sent + 1
  /\ puts' = puts \cup {[id |-> sent + 1, kind |-> kind, event |-> event, doc |-> doc,
                         base |-> editor.raw, version |-> version, answer |-> "none"]}

(* Mutant: the version of the last refetch is sent.                      *)
PerformSaveLatest(kind) ==
  /\ ~SaveDisabled
  /\ Send(kind, editorEvent, editor.doc, templateCache[editorEvent].version)
  /\ UNCHANGED <<editorEvent, loadedFor, editor, templateCache, serverVars, editorConflict,
                 dialogVars, refetching, edits>>

PerformSave(kind) ==
  /\ ~SaveDisabled
  /\ Send(kind, editorEvent, editor.doc, editor.version)
  /\ UNCHANGED <<editorEvent, loadedFor, editor, templateCache, serverVars, editorConflict,
                 dialogVars, refetching, edits>>

SaveClicked == NoModal /\ PerformSave("save")

------------------------------------------------------------------------------
(* The backend.                                                            *)

(* PutBadgeTemplate: UPDATE ... WHERE badge_template_version = $2.         *)
PutApplies(p) ==
  /\ p.answer = "none"
  /\ LET t == [doc |-> p.doc, version |-> p.version + 1]
         ok == templates[p.event].version = p.version
     IN /\ templates' = IF ok THEN [templates EXCEPT ![p.event] = t] ELSE templates
        /\ history' = IF ok THEN history \cup {<<p.event, t>>} ELSE history
        /\ puts' = (puts \ {p}) \cup {[p EXCEPT !.answer = IF ok THEN "saved" ELSE "conflict"]}
  /\ UNCHANGED <<editorEvent, loadedFor, editor, templateCache, editorConflict, dialogVars,
                 refetching, edits, sent>>

(* Another operator's editor saves the event's template.                   *)
OtherSaves(e) ==
  /\ "other" \in EditorFaults /\ edits < MaxEdits /\ edits' = edits + 1
  /\ LET t == [doc |-> edits + 1, version |-> templates[e].version + 1] IN
     templates' = [templates EXCEPT ![e] = t] /\ history' = history \cup {<<e, t>>}
  /\ UNCHANGED <<editorEvent, loadedFor, editor, templateCache, editorConflict, dialogVars,
                 refetching, puts, sent>>

------------------------------------------------------------------------------
(* The answer of a PUT.  The hook seeds the cache whatever happened since; *)
(* the page reacts to the latest call only, and changes the editor only if *)
(* it still shows the event the call was for.                              *)

MoveTo(e) ==
  /\ editorEvent' = e
  /\ editorConflict' = FALSE
  /\ editorDialog' = IF editorDialog = "revert" THEN "revert" ELSE "none"

StayHere == UNCHANGED <<editorEvent, editorConflict, editorDialog>>

AfterSave(p) ==
  IF p.event = editorEvent
  THEN [editor EXCEPT !.raw = p.doc, !.version = p.version + 1, !.dirty = FALSE]
  ELSE editor

PutSucceeds(p) ==
  /\ p.answer = "saved" /\ puts' = puts \ {p}
  /\ templateCache' = [templateCache EXCEPT ![p.event] = [doc |-> p.doc, version |-> p.version + 1]]
  /\ \/ /\ p.id # sent
        /\ StayHere /\ UNCHANGED blockedNav /\ LoadEffect(editor)
     \/ /\ p.id = sent /\ p.kind = "leave" /\ blockedNav # Nowhere
        /\ MoveTo(blockedNav) /\ blockedNav' = Nowhere /\ LoadEffect(AfterSave(p))
     \/ /\ p.id = sent /\ (p.kind # "leave" \/ blockedNav = Nowhere)
        /\ editorDialog' = IF p.kind = "revert" \/ (p.kind = "overwrite" /\ p.event = editorEvent)
                           THEN "none" ELSE editorDialog
        /\ editorConflict' = (editorConflict /\ ~(p.kind = "overwrite" /\ p.event = editorEvent))
        /\ UNCHANGED <<editorEvent, blockedNav>> /\ LoadEffect(AfterSave(p))
  /\ UNCHANGED <<serverVars, refetching, edits, sent>>

(* Mutant: a failed save leaves the navigation blocked.                  *)
PutFailsStuck(p) ==
  /\ p.answer = "conflict" \/ "fail" \in EditorFaults
  /\ puts' = puts \ {p}
  /\ IF p.id # sent THEN UNCHANGED <<editorConflict, dialogVars>>
     ELSE /\ editorConflict' = (editorConflict \/ (p.answer = "conflict" /\ p.event = editorEvent))
          /\ UNCHANGED blockedNav
          /\ editorDialog' = IF p.kind = "revert" THEN "none" ELSE editorDialog
  /\ UNCHANGED <<editorEvent, loadedFor, editor, templateCache, serverVars, refetching, edits, sent>>

(* A 409, or a request that failed before or after the row was written.    *)
PutFails(p) ==
  /\ p.answer = "conflict" \/ "fail" \in EditorFaults
  /\ puts' = puts \ {p}
  /\ IF p.id # sent THEN UNCHANGED <<editorConflict, dialogVars>>
     ELSE /\ editorConflict' = (editorConflict \/ (p.answer = "conflict" /\ p.event = editorEvent))
          /\ blockedNav' = IF p.kind = "leave" THEN Nowhere ELSE blockedNav
          /\ editorDialog' = IF p.kind = "revert" THEN "none" ELSE editorDialog
  /\ UNCHANGED <<editorEvent, loadedFor, editor, templateCache, serverVars, refetching, edits, sent>>

------------------------------------------------------------------------------
(* The dirty guard.  The browser's back button works under every dialog.   *)

Navigate(e) ==
  /\ "switch" \in EditorFaults /\ e # editorEvent
  /\ UNCHANGED templateCache
  /\ IF editor.dirty /\ ~Pending
     THEN blockedNav' = e /\ StayHere /\ UNCHANGED <<editor, loadedFor>>
     ELSE MoveTo(e) /\ UNCHANGED blockedNav /\ LoadEffect(editor)
  /\ UNCHANGED <<serverVars, refetching, puts, edits, sent>>

EscapePressed ==
  /\ NoModal /\ editor.dirty /\ ~Pending
  /\ editorDialog' = "revert"
  /\ UNCHANGED <<editorEvent, loadedFor, editor, templateCache, serverVars, editorConflict,
                 blockedNav, refetching, puts, edits, sent>>

GuardDiscard ==
  /\ GuardOpen /\ ~Pending /\ blockedNav' = Nowhere /\ UNCHANGED templateCache
  /\ IF blockedNav # Nowhere
     THEN MoveTo(blockedNav) /\ LoadEffect(editor)
     ELSE /\ editor' = [editor EXCEPT !.doc = editor.raw, !.dirty = FALSE]
          /\ editorConflict' = FALSE /\ editorDialog' = "none"
          /\ UNCHANGED <<editorEvent, loadedFor>>
  /\ UNCHANGED <<serverVars, refetching, puts, edits, sent>>

GuardKeep ==
  /\ GuardOpen /\ ~Pending
  /\ IF blockedNav # Nowhere THEN blockedNav' = Nowhere /\ UNCHANGED editorDialog
                             ELSE editorDialog' = "none" /\ UNCHANGED blockedNav
  /\ UNCHANGED <<editorEvent, loadedFor, editor, templateCache, serverVars, editorConflict,
                 refetching, puts, edits, sent>>

GuardSave == GuardOpen /\ PerformSave(IF blockedNav # Nowhere THEN "leave" ELSE "revert")

------------------------------------------------------------------------------
(* The conflict banner: reload, or overwrite at the version now current.   *)

OpenConflictDialog(kind) ==
  /\ editorConflict /\ NoModal /\ ~EditorBusy
  /\ editorDialog' = kind
  /\ UNCHANGED <<editorEvent, loadedFor, editor, templateCache, serverVars, editorConflict,
                 blockedNav, refetching, puts, edits, sent>>

CancelConflictDialog ==
  /\ editorDialog \in {"reload", "overwrite"} /\ blockedNav = Nowhere /\ ~EditorBusy
  /\ editorDialog' = "none"
  /\ UNCHANGED <<editorEvent, loadedFor, editor, templateCache, serverVars, editorConflict,
                 blockedNav, refetching, puts, edits, sent>>

ConfirmConflictDialog ==
  /\ editorDialog \in {"reload", "overwrite"} /\ blockedNav = Nowhere /\ ~EditorBusy
  /\ refetching' = [kind |-> editorDialog, event |-> editorEvent, doc |-> editor.doc,
                    version |-> editor.version]
  /\ UNCHANGED <<editorEvent, loadedFor, editor, templateCache, serverVars, editorConflict,
                 dialogVars, puts, edits, sent>>

(* refetch() resolves with what the query shows by then: the data of the   *)
(* event the URL has moved to, if it has.                                  *)
Refetched(ok) ==
  /\ templateCache' = IF ok THEN [templateCache EXCEPT ![refetching.event] = templates[refetching.event]]
                            ELSE templateCache
  /\ ok \/ "fail" \in EditorFaults
  /\ refetching' = NoRefetch
  /\ UNCHANGED editorEvent

ReloadAnswers(ok) ==
  /\ refetching.kind = "reload" /\ Refetched(ok)
  /\ IF ok /\ templateCache'[editorEvent] # NotCached
     THEN /\ editor' = Loaded(templateCache'[editorEvent])
          /\ editorConflict' = FALSE
          /\ editorDialog' = IF editorDialog = "reload" THEN "none" ELSE editorDialog
     ELSE UNCHANGED <<editor, editorConflict, editorDialog>>
  /\ UNCHANGED <<loadedFor, serverVars, blockedNav, puts, edits, sent>>

OverwriteAnswers(ok) ==
  /\ refetching.kind = "overwrite" /\ Refetched(ok)
  /\ Send("overwrite", refetching.event, refetching.doc,
          IF templateCache'[editorEvent] = NotCached THEN refetching.version
                                                     ELSE templateCache'[editorEvent].version)
  /\ UNCHANGED <<loadedFor, editor, serverVars, editorConflict, dialogVars, edits>>

------------------------------------------------------------------------------
EditorNext ==
  \/ TemplateFetched \/ EditDocument \/ SaveClicked
  \/ \E p \in puts : PutApplies(p) \/ PutSucceeds(p) \/ PutFails(p)
  \/ \E e \in EditorEvents : OtherSaves(e) \/ Navigate(e)
  \/ EscapePressed \/ GuardDiscard \/ GuardKeep \/ GuardSave
  \/ \E kind \in {"reload", "overwrite"} : OpenConflictDialog(kind)
  \/ CancelConflictDialog \/ ConfirmConflictDialog
  \/ \E ok \in BOOLEAN : ReloadAnswers(ok) \/ OverwriteAnswers(ok)

EditorSpec == EditorInit /\ [][EditorNext]_editorVars

------------------------------------------------------------------------------
(* The baseline and the version the editor would save against always are   *)
(* a pair the backend really held for the event on screen, whatever        *)
(* refetches, saves of another event and reloads are answered meanwhile.   *)
Coherent ==
  Initialized => <<editorEvent, [doc |-> editor.raw, version |-> editor.version]>> \in history

(* A save that is not a confirmed overwrite can only replace the document  *)
(* the operator was editing from, never one another operator saved since.  *)
SavesOnWhatWasSeen ==
  \A p \in puts :
    p.kind # "overwrite" /\ p.answer = "none" /\ templates[p.event].version = p.version
      => templates[p.event].doc = p.base

(* BadgeEditorPage.tsx:247-252: the guard's "Save and leave" ends in        *)
(* leaving or in staying, whether the save succeeds, conflicts or fails;   *)
(* unless an overwrite confirmed in another event's editor is sent         *)
(* meanwhile, which takes the callbacks of the save away.                  *)
GuardResolves ==
  (\E p \in puts : p.kind = "leave" /\ p.id = sent)
     ~> (blockedNav = Nowhere \/ \E p \in puts : p.kind = "overwrite")

(* SaveStatePill.tsx:26-32, BadgeEditorPage.tsx:350: a document shown as   *)
(* clean is the one the backend was given or loaded from.                  *)
CleanMeansSaved == ~editor.dirty => editor.doc = editor.raw
==============================================================================

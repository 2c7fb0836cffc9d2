-------------------------- MODULE BadgeEditorProofs --------------------------
(***************************************************************************)
(* Theorems about BadgeEditor, for every set of events and every number of *)
(* edits and saves.                                                        *)
(***************************************************************************)
EXTENDS BadgeEditor, TLAPS

EditorState == [doc : Docs, version : Nat, dirty : BOOLEAN, raw : Docs]

(* The backend never gives one version of a template to two documents.     *)
HistoryOK ==
  /\ templates \in [EditorEvents -> Template] /\ history \subseteq EditorEvents \X Template
  /\ \A e \in EditorEvents : <<e, templates[e]>> \in history
  /\ \A e \in EditorEvents, t \in Template : <<e, t>> \in history => t.version <= templates[e].version
  /\ \A e \in EditorEvents, t, u \in Template :
       <<e, t>> \in history /\ <<e, u>> \in history /\ t.version = u.version => t = u

Known(e, d, v) == <<e, [doc |-> d, version |-> v]>> \in history
IsCached(e) == templateCache[e] # NotCached

CacheOK ==
  /\ templateCache \in [EditorEvents -> Template \cup {NotCached}]
  /\ \A e \in EditorEvents : IsCached(e) => <<e, templateCache[e]>> \in history

PutsOK ==
  /\ puts \subseteq Put /\ edits \in 0..MaxEdits /\ sent \in 0..MaxPuts
  /\ \A p \in puts : /\ IsCached(p.event)
                     /\ p.answer = "saved" => Known(p.event, p.doc, p.version + 1)
                     /\ p.kind # "overwrite" => Known(p.event, p.base, p.version)

(* What the editor holds belongs to the event it was loaded for, and an    *)
(* event the cache has is loaded as soon as the URL shows it.              *)
PageOK ==
  /\ editorEvent \in EditorEvents /\ loadedFor \in EditorEvents \cup {Nowhere}
  /\ editor \in EditorState /\ blockedNav \in EditorEvents \cup {Nowhere}
  /\ IsCached(editorEvent) => loadedFor = editorEvent
  /\ loadedFor # Nowhere => IsCached(loadedFor) /\ Known(loadedFor, editor.raw, editor.version)

ConflictOK ==
  /\ refetching \in Refetch
  /\ editorConflict \/ editorDialog \in {"reload", "overwrite"} => IsCached(editorEvent)
  /\ refetching.kind # "none" => IsCached(refetching.event)

EditorInv == HistoryOK /\ CacheOK /\ PutsOK /\ PageOK /\ ConflictOK

------------------------------------------------------------------------------
LEMMA NotCachedIsNoTemplate == NotCached \notin Template
  BY DEF NotCached, Template

LEMMA EditorStarts == EditorInit => EditorInv
<1> SUFFICES ASSUME EditorInit PROVE EditorInv
  OBVIOUS
<1>1. FirstEvent \in EditorEvents
  BY EditorAssumption DEF FirstEvent
<1>2. EmptyTemplate \in Template /\ EmptyTemplate.version = 0
  BY EditorAssumption DEF EmptyTemplate, Template, Docs
<1>3. HistoryOK
  <2>1. \A e \in EditorEvents, t \in Template : <<e, t>> \in history => t = EmptyTemplate
    BY DEF EditorInit
  <2> QED
    BY <1>2, <2>1 DEF EditorInit, HistoryOK
<1>4. CacheOK /\ PutsOK
  BY EditorAssumption DEF EditorInit, CacheOK, IsCached, PutsOK
<1>5. editor \in EditorState
  BY EditorAssumption DEF EditorInit, Loaded, EmptyTemplate, EditorState, Docs
<1>6. PageOK
  BY <1>1, <1>5 DEF EditorInit, PageOK, IsCached
<1>7. refetching \in Refetch
  BY <1>1, EditorAssumption DEF EditorInit, NoRefetch, Refetch, Docs
<1>8. ConflictOK
  BY <1>7 DEF EditorInit, ConflictOK, NoRefetch
<1> QED
  BY <1>3, <1>4, <1>6, <1>8 DEF EditorInv

(* A save that the backend takes gives the next version to its document.   *)
LEMMA HistoryGrows ==
  ASSUME HistoryOK, NEW e \in EditorEvents, NEW t \in Template,
         t.version = templates[e].version + 1,
         templates' = [templates EXCEPT ![e] = t], history' = history \cup {<<e, t>>}
  PROVE  HistoryOK'
<1>1. \A f \in EditorEvents : templates[f].version \in Nat
  BY DEF HistoryOK, Template
<1>2. templates' \in [EditorEvents -> Template] /\ history' \subseteq EditorEvents \X Template
  BY DEF HistoryOK
<1>3. \A f \in EditorEvents : <<f, templates'[f]>> \in history'
  BY DEF HistoryOK
<1>4. \A f \in EditorEvents, u \in Template :
        <<f, u>> \in history' => <<f, u>> \in history \/ (f = e /\ u = t)
  OBVIOUS
<1>5. \A f \in EditorEvents, u \in Template : <<f, u>> \in history' => u.version <= templates'[f].version
  <2> SUFFICES ASSUME NEW f \in EditorEvents, NEW u \in Template, <<f, u>> \in history'
               PROVE  u.version <= templates'[f].version
    OBVIOUS
  <2>1. u.version \in Nat
    BY DEF Template
  <2>2. CASE f = e
    BY <1>1, <1>4, <2>1, <2>2 DEF HistoryOK
  <2>3. CASE f # e
    BY <1>4, <2>3 DEF HistoryOK
  <2> QED
    BY <2>2, <2>3
<1>6. \A f \in EditorEvents, u, w \in Template :
        <<f, u>> \in history' /\ <<f, w>> \in history' /\ u.version = w.version => u = w
  <2>1. \A u \in Template : <<e, u>> \in history => u.version # t.version
    BY <1>1 DEF HistoryOK, Template
  <2> QED
    BY <1>4, <2>1 DEF HistoryOK
<1> QED
  BY <1>2, <1>3, <1>5, <1>6 DEF HistoryOK

(* The load effect, given an editor that belongs to what is loaded.        *)
LEMMA LoadEffectLoads ==
  ASSUME NEW ed \in EditorState, LoadEffect(ed), CacheOK', UNCHANGED history,
         editorEvent' \in EditorEvents, loadedFor \in EditorEvents \cup {Nowhere},
         loadedFor # Nowhere =>
           templateCache'[loadedFor] # NotCached /\ Known(loadedFor, ed.raw, ed.version)
  PROVE  /\ loadedFor' \in EditorEvents \cup {Nowhere} /\ editor' \in EditorState
         /\ IsCached(editorEvent)' => loadedFor' = editorEvent'
         /\ loadedFor' # Nowhere => IsCached(loadedFor)' /\ Known(loadedFor, editor.raw, editor.version)'
<1> DEFINE e == editorEvent'
           t == templateCache'[e]
<1>1. CASE loadedFor # e /\ t # NotCached
  <2>1. editor' = Loaded(t) /\ loadedFor' = e
    BY <1>1 DEF LoadEffect
  <2>2. t \in Template /\ <<e, t>> \in history'
    BY <1>1 DEF CacheOK, IsCached
  <2>3. editor' \in EditorState /\ editor'.raw = t.doc /\ editor'.version = t.version
    BY <2>1, <2>2 DEF Loaded, EditorState, Template
  <2>4. t = [doc |-> t.doc, version |-> t.version]
    BY <2>2 DEF Template
  <2>5. Known(loadedFor, editor.raw, editor.version)'
    BY <2>1, <2>2, <2>3, <2>4 DEF Known
  <2> QED
    BY <1>1, <2>1, <2>3, <2>5 DEF IsCached
<1>2. CASE ~(loadedFor # e /\ t # NotCached)
  <2>1. editor' = ed /\ loadedFor' = loadedFor
    BY <1>2 DEF LoadEffect
  <2> QED
    BY <1>2, <2>1 DEF IsCached, Known
<1> QED
  BY <1>1, <1>2

(* A cache entry is only ever replaced by a template the backend held.     *)
LEMMA CacheSeeded ==
  ASSUME EditorInv, NEW e \in EditorEvents, NEW t \in Template, <<e, t>> \in history,
         templateCache' = [templateCache EXCEPT ![e] = t], UNCHANGED history
  PROVE  /\ CacheOK' /\ IsCached(e)'
         /\ \A f \in EditorEvents : IsCached(f) => IsCached(f)'
         /\ \A f \in EditorEvents \ {e} : IsCached(f)' => IsCached(f)
  BY NotCachedIsNoTemplate DEF EditorInv, CacheOK, IsCached

------------------------------------------------------------------------------
(* The steps of the backend.                                               *)

LEMMA BackendKeepsPage ==
  ASSUME EditorInv, history \subseteq history',
         UNCHANGED <<editorEvent, loadedFor, editor, templateCache, editorConflict, dialogVars, refetching>>
  PROVE  CacheOK' /\ PageOK' /\ ConflictOK'
  BY DEF EditorInv, CacheOK, PageOK, ConflictOK, IsCached, Known, dialogVars

LEMMA PutAppliesKeeps ==
  ASSUME EditorInv, NEW p \in puts, PutApplies(p)
  PROVE  EditorInv'
<1> DEFINE t == [doc |-> p.doc, version |-> p.version + 1]
           ok == templates[p.event].version = p.version
<1>1. p \in Put /\ p.event \in EditorEvents /\ t \in Template /\ t.version = p.version + 1
  BY DEF EditorInv, PutsOK, Put, Template
<1>2. HistoryOK'
  <2>1. CASE ok
    BY <1>1, <2>1, HistoryGrows DEF PutApplies, EditorInv
  <2>2. CASE ~ok
    BY <2>2 DEF PutApplies, EditorInv, HistoryOK
  <2> QED
    BY <2>1, <2>2
<1>3. history \subseteq history'
  BY DEF PutApplies
<1>4. CacheOK' /\ PageOK' /\ ConflictOK'
  BY <1>3, BackendKeepsPage DEF PutApplies
<1>5. PutsOK'
  <2>1. PICK q : q = [p EXCEPT !.answer = IF ok THEN "saved" ELSE "conflict"]
    OBVIOUS
  <2>2. puts' = (puts \ {p}) \cup {q} /\ UNCHANGED <<templateCache, edits, sent>>
    BY <2>1 DEF PutApplies
  <2>3. /\ q \in Put /\ q.event = p.event /\ q.doc = p.doc /\ q.base = p.base /\ q.kind = p.kind
        /\ q.version = p.version /\ (q.answer = "saved" => ok)
    BY <1>1, <2>1 DEF Put
  <2>4. ok => Known(p.event, p.doc, p.version + 1)'
    BY DEF PutApplies, Known
  <2>5. /\ IsCached(q.event)' /\ (q.answer = "saved" => Known(q.event, q.doc, q.version + 1)')
        /\ (q.kind # "overwrite" => Known(q.event, q.base, q.version)')
    BY <1>3, <2>2, <2>3, <2>4 DEF EditorInv, PutsOK, IsCached, Known
  <2>6. \A r \in puts : /\ IsCached(r.event)' /\ (r.answer = "saved" => Known(r.event, r.doc, r.version + 1)')
                        /\ (r.kind # "overwrite" => Known(r.event, r.base, r.version)')
    BY <1>3, <2>2 DEF EditorInv, PutsOK, IsCached, Known
  <2> QED
    BY <2>2, <2>3, <2>5, <2>6 DEF EditorInv, PutsOK
<1> QED
  BY <1>2, <1>4, <1>5 DEF EditorInv

LEMMA OtherSavesKeeps ==
  ASSUME EditorInv, NEW e \in EditorEvents, OtherSaves(e)
  PROVE  EditorInv'
<1> DEFINE t == [doc |-> edits + 1, version |-> templates[e].version + 1]
<1>1. edits + 1 \in Docs /\ edits' \in 0..MaxEdits
  BY EditorAssumption DEF OtherSaves, EditorInv, PutsOK, Docs
<1>2. t \in Template /\ t.version = templates[e].version + 1
  BY <1>1 DEF EditorInv, HistoryOK, Template
<1>3. HistoryOK' /\ history \subseteq history'
  BY <1>2, HistoryGrows DEF OtherSaves, EditorInv
<1>4. CacheOK' /\ PageOK' /\ ConflictOK'
  BY <1>3, BackendKeepsPage DEF OtherSaves
<1>5. PutsOK'
  BY <1>1, <1>3 DEF OtherSaves, EditorInv, PutsOK, IsCached, Known
<1> QED
  BY <1>3, <1>4, <1>5 DEF EditorInv

------------------------------------------------------------------------------
(* The steps of the page.                                                  *)

LEMMA SendKeeps ==
  ASSUME EditorInv, NEW kind \in {"save", "leave", "revert", "overwrite"}, NEW e \in EditorEvents,
         NEW d \in Docs, NEW v \in Nat, Send(kind, e, d, v), IsCached(e),
         kind # "overwrite" => Known(e, editor.raw, v),
         \A f \in EditorEvents : IsCached(f) => IsCached(f)', UNCHANGED <<history, edits>>
  PROVE  PutsOK'
<1>1. PICK q : q = [id |-> sent + 1, kind |-> kind, event |-> e, doc |-> d,
                    base |-> editor.raw, version |-> v, answer |-> "none"]
  OBVIOUS
<1>2. sent + 1 \in 1..MaxPuts /\ sent' \in 0..MaxPuts /\ puts' = puts \cup {q}
  BY <1>1, EditorAssumption DEF Send, EditorInv, PutsOK
<1>3. q \in Put
  BY <1>1, <1>2 DEF Put, EditorInv, PageOK, EditorState
<1>4. /\ IsCached(q.event)' /\ q.answer # "saved"
      /\ (q.kind # "overwrite" => Known(q.event, q.base, q.version)')
  BY <1>1 DEF Known
<1>5. \A r \in puts : /\ IsCached(r.event)' /\ (r.answer = "saved" => Known(r.event, r.doc, r.version + 1)')
                      /\ (r.kind # "overwrite" => Known(r.event, r.base, r.version)')
  BY DEF EditorInv, PutsOK, Put, Known
<1> QED
  BY <1>2, <1>3, <1>4, <1>5 DEF EditorInv, PutsOK

LEMMA PerformSaveKeeps ==
  ASSUME EditorInv, NEW kind \in {"save", "leave", "revert"}, PerformSave(kind)
  PROVE  EditorInv'
<1>1. /\ editorEvent \in EditorEvents /\ IsCached(editorEvent)
      /\ Known(editorEvent, editor.raw, editor.version)
  BY EditorAssumption DEF PerformSave, SaveDisabled, Initialized, EditorInv, PageOK
<1>2. editor.doc \in Docs /\ editor.version \in Nat
  BY DEF EditorInv, PageOK, EditorState
<1>3. UNCHANGED <<editorEvent, loadedFor, editor, templateCache, templates, history, editorConflict,
                  editorDialog, blockedNav, refetching, edits>>
  BY DEF PerformSave, serverVars, dialogVars
<1>4. PutsOK'
  BY <1>1, <1>2, <1>3, SendKeeps DEF PerformSave, IsCached
<1>5. HistoryOK' /\ CacheOK' /\ PageOK' /\ ConflictOK'
  BY <1>3 DEF EditorInv, HistoryOK, CacheOK, PageOK, ConflictOK, IsCached, Known
<1> QED
  BY <1>4, <1>5 DEF EditorInv

LEMMA TemplateFetchedKeeps ==
  ASSUME EditorInv, TemplateFetched
  PROVE  EditorInv'
<1> DEFINE e == editorEvent
<1>1. e \in EditorEvents /\ templates[e] \in Template /\ <<e, templates[e]>> \in history
  BY DEF EditorInv, PageOK, HistoryOK
<1>2. UNCHANGED <<editorEvent, templates, history, editorConflict, editorDialog, blockedNav,
                  refetching, puts, edits, sent>> /\ LoadEffect(editor)
  BY DEF TemplateFetched, serverVars, dialogVars
<1>3. CacheOK' /\ IsCached(e)' /\ \A f \in EditorEvents : IsCached(f) => IsCached(f)'
  BY <1>1, <1>2, CacheSeeded DEF TemplateFetched
<1>4. PageOK'
  <2>1. editor \in EditorState /\ loadedFor \in EditorEvents \cup {Nowhere}
        /\ (loadedFor # Nowhere =>
              templateCache'[loadedFor] # NotCached /\ Known(loadedFor, editor.raw, editor.version))
    BY <1>3 DEF EditorInv, PageOK, IsCached
  <2>2. editorEvent' \in EditorEvents /\ blockedNav' \in EditorEvents \cup {Nowhere}
    BY <1>2 DEF EditorInv, PageOK
  <2> QED
    BY <1>2, <1>3, <2>1, <2>2, LoadEffectLoads DEF PageOK
<1>5. HistoryOK' /\ PutsOK' /\ ConflictOK'
  BY <1>2, <1>3 DEF EditorInv, HistoryOK, PutsOK, Put, ConflictOK, Refetch, PageOK, Known
<1> QED
  BY <1>3, <1>4, <1>5 DEF EditorInv

(* The answer of a save: what the editor becomes still belongs to what is  *)
(* loaded, because the event of a save is cached and so loaded when shown. *)
LEMMA PutSucceedsKeeps ==
  ASSUME EditorInv, NEW p \in puts, PutSucceeds(p)
  PROVE  EditorInv'
<1> DEFINE t == [doc |-> p.doc, version |-> p.version + 1]
<1>1. /\ p \in Put /\ p.event \in EditorEvents /\ t \in Template /\ p.doc \in Docs
      /\ p.version + 1 \in Nat /\ IsCached(p.event) /\ Known(p.event, p.doc, p.version + 1)
  BY DEF PutSucceeds, EditorInv, PutsOK, Put, Template
<1>2. UNCHANGED <<templates, history, refetching, edits, sent>> /\ puts' = puts \ {p}
      /\ templateCache' = [templateCache EXCEPT ![p.event] = t]
  BY DEF PutSucceeds, serverVars
<1>3. CacheOK' /\ \A f \in EditorEvents : IsCached(f) => IsCached(f)'
  BY <1>1, <1>2, CacheSeeded DEF Known
<1>4. /\ editorEvent' \in EditorEvents /\ blockedNav' \in EditorEvents \cup {Nowhere}
      /\ \/ LoadEffect(editor) \/ LoadEffect(AfterSave(p))
  BY DEF PutSucceeds, MoveTo, StayHere, EditorInv, PageOK
<1>5. /\ AfterSave(p) \in EditorState
      /\ loadedFor # Nowhere => Known(loadedFor, AfterSave(p).raw, AfterSave(p).version)
  <2>1. CASE p.event = editorEvent
    <3>1. loadedFor = p.event
      BY <1>1, <2>1 DEF EditorInv, PageOK
    <3>2. AfterSave(p) \in EditorState /\ AfterSave(p).raw = p.doc /\ AfterSave(p).version = p.version + 1
      BY <1>1, <2>1 DEF AfterSave, EditorInv, PageOK, EditorState
    <3> QED
      BY <1>1, <3>1, <3>2
  <2>2. CASE p.event # editorEvent
    BY <2>2 DEF AfterSave, EditorInv, PageOK
  <2> QED
    BY <2>1, <2>2
<1>6. PageOK'
  <2>1. loadedFor \in EditorEvents \cup {Nowhere} /\ (loadedFor # Nowhere => templateCache'[loadedFor] # NotCached)
    BY <1>3 DEF EditorInv, PageOK, IsCached
  <2>2. CASE LoadEffect(editor)
    BY <1>2, <1>3, <1>4, <2>1, <2>2, LoadEffectLoads DEF EditorInv, PageOK
  <2>3. CASE LoadEffect(AfterSave(p))
    <3> HIDE DEF PageOK
    <3>1. /\ loadedFor' \in EditorEvents \cup {Nowhere} /\ editor' \in EditorState
          /\ IsCached(editorEvent)' => loadedFor' = editorEvent'
          /\ loadedFor' # Nowhere => IsCached(loadedFor)' /\ Known(loadedFor, editor.raw, editor.version)'
      BY <1>2, <1>3, <1>4, <1>5, <2>1, <2>3, LoadEffectLoads
    <3> QED
      BY <1>4, <3>1 DEF PageOK
  <2> QED
    BY <1>4, <2>2, <2>3
<1>7. ConflictOK'
  <2>1. editorConflict' \/ editorDialog' \in {"reload", "overwrite"} => IsCached(editorEvent)'
    <3>1. CASE StayHere
      BY <1>3, <3>1 DEF StayHere, EditorInv, ConflictOK, PageOK, IsCached
    <3>2. CASE MoveTo(blockedNav)
      BY <3>2 DEF MoveTo
    <3>3. CASE /\ UNCHANGED editorEvent
               /\ editorDialog' = IF p.kind = "revert" \/ (p.kind = "overwrite" /\ p.event = editorEvent)
                                  THEN "none" ELSE editorDialog
               /\ editorConflict' = (editorConflict /\ ~(p.kind = "overwrite" /\ p.event = editorEvent))
      BY <1>3, <3>3 DEF EditorInv, ConflictOK, PageOK, IsCached
    <3> QED
      BY <3>1, <3>2, <3>3 DEF PutSucceeds
  <2> QED
    BY <1>2, <1>3, <2>1 DEF EditorInv, ConflictOK, Refetch
<1>8. HistoryOK' /\ PutsOK'
  BY <1>2, <1>3 DEF EditorInv, HistoryOK, PutsOK, Put, Known
<1> QED
  BY <1>3, <1>6, <1>7, <1>8 DEF EditorInv

LEMMA PutFailsKeeps ==
  ASSUME EditorInv, NEW p \in puts, PutFails(p)
  PROVE  EditorInv'
<1>1. UNCHANGED <<editorEvent, loadedFor, editor, templateCache, templates, history, refetching, edits, sent>>
      /\ puts' = puts \ {p}
  BY DEF PutFails, serverVars
<1>2. HistoryOK' /\ CacheOK' /\ PutsOK'
  BY <1>1 DEF EditorInv, HistoryOK, CacheOK, PutsOK, IsCached, Known
<1>3. blockedNav' \in EditorEvents \cup {Nowhere}
  BY DEF PutFails, dialogVars, EditorInv, PageOK
<1>4. PageOK'
  BY <1>1, <1>3 DEF EditorInv, PageOK, IsCached, Known
<1>5. p.event = editorEvent => IsCached(editorEvent)
  BY DEF EditorInv, PutsOK
<1>6. editorConflict' \/ editorDialog' \in {"reload", "overwrite"} => IsCached(editorEvent)
  <2>1. CASE UNCHANGED <<editorConflict, dialogVars>>
    BY <2>1 DEF dialogVars, EditorInv, ConflictOK
  <2>2. CASE /\ editorConflict' = (editorConflict \/ (p.answer = "conflict" /\ p.event = editorEvent))
             /\ editorDialog' = IF p.kind = "revert" THEN "none" ELSE editorDialog
    BY <1>5, <2>2 DEF EditorInv, ConflictOK
  <2> QED
    BY <2>1, <2>2 DEF PutFails
<1>7. ConflictOK'
  BY <1>1, <1>6 DEF EditorInv, ConflictOK, IsCached
<1> QED
  BY <1>2, <1>4, <1>7 DEF EditorInv

(* The URL moves to another event's editor.                                *)
LEMMA MoveKeeps ==
  ASSUME EditorInv, NEW e \in EditorEvents, MoveTo(e), LoadEffect(editor),
         UNCHANGED <<templateCache, templates, history, refetching, puts, edits, sent>>,
         blockedNav' \in EditorEvents \cup {Nowhere}
  PROVE  EditorInv'
<1>1. HistoryOK' /\ CacheOK' /\ PutsOK'
  BY DEF EditorInv, HistoryOK, CacheOK, PutsOK, IsCached, Known
<1>2. editor \in EditorState /\ loadedFor \in EditorEvents \cup {Nowhere}
      /\ (loadedFor # Nowhere =>
            templateCache'[loadedFor] # NotCached /\ Known(loadedFor, editor.raw, editor.version))
  BY DEF EditorInv, PageOK, IsCached
<1>3. editorEvent' \in EditorEvents
  BY DEF MoveTo
<1>4. PageOK'
  BY <1>1, <1>2, <1>3, LoadEffectLoads DEF PageOK
<1>5. ConflictOK'
  BY DEF MoveTo, EditorInv, ConflictOK, IsCached
<1> QED
  BY <1>1, <1>4, <1>5 DEF EditorInv

LEMMA GuardKeeps ==
  ASSUME EditorInv, GuardDiscard \/ GuardKeep \/ \E e \in EditorEvents : Navigate(e)
  PROVE  EditorInv'
<1>1. UNCHANGED <<templateCache, templates, history, refetching, puts, edits, sent>>
  BY DEF GuardDiscard, GuardKeep, Navigate, serverVars
<1>2. blockedNav' \in EditorEvents \cup {Nowhere}
  BY DEF GuardDiscard, GuardKeep, Navigate, EditorInv, PageOK
<1>3. CASE \E e \in EditorEvents : MoveTo(e) /\ LoadEffect(editor)
  BY <1>1, <1>2, <1>3, MoveKeeps
<1>4. CASE /\ UNCHANGED <<editorEvent, loadedFor>>
           /\ editor' \in EditorState /\ editor'.raw = editor.raw /\ editor'.version = editor.version
           /\ editorConflict' => editorConflict
           /\ editorDialog' \in {"none", editorDialog}
  <2>1. HistoryOK' /\ CacheOK' /\ PutsOK'
    BY <1>1 DEF EditorInv, HistoryOK, CacheOK, PutsOK, IsCached, Known
  <2>2. PageOK'
    BY <1>1, <1>2, <1>4 DEF EditorInv, PageOK, IsCached, Known
  <2>3. ConflictOK'
    BY <1>1, <1>4 DEF EditorInv, ConflictOK, IsCached
  <2> QED
    BY <2>1, <2>2, <2>3 DEF EditorInv
<1>5. CASE GuardDiscard
  <2>1. CASE blockedNav # Nowhere
    BY <1>3, <1>5, <2>1 DEF GuardDiscard, EditorInv, PageOK
  <2>2. CASE blockedNav = Nowhere
    <3>1. editor' = [editor EXCEPT !.doc = editor.raw, !.dirty = FALSE] /\ editor \in EditorState
      BY <1>5, <2>2 DEF GuardDiscard, EditorInv, PageOK
    <3>2. editor' \in EditorState /\ editor'.raw = editor.raw /\ editor'.version = editor.version
      BY <3>1 DEF EditorState
    <3> QED
      BY <1>4, <1>5, <2>2, <3>2 DEF GuardDiscard
  <2> QED
    BY <2>1, <2>2
<1>6. CASE GuardKeep
  BY <1>4, <1>6 DEF GuardKeep, EditorInv, PageOK
<1>7. ASSUME NEW e \in EditorEvents, Navigate(e) PROVE EditorInv'
  <2>1. CASE MoveTo(e) /\ LoadEffect(editor)
    BY <1>3, <2>1
  <2>2. CASE StayHere /\ UNCHANGED <<editor, loadedFor>>
    BY <1>4, <2>2 DEF StayHere, EditorInv, PageOK
  <2> QED
    BY <1>7, <2>1, <2>2 DEF Navigate
<1> QED
  BY <1>5, <1>6, <1>7

(* The other steps of the operator at the page.                            *)
LEMMA OperatorKeeps ==
  ASSUME EditorInv,
         \/ EditDocument \/ EscapePressed \/ CancelConflictDialog \/ ConfirmConflictDialog
         \/ \E kind \in {"reload", "overwrite"} : OpenConflictDialog(kind)
         \/ UNCHANGED editorVars
  PROVE  EditorInv'
<1>1. /\ UNCHANGED <<editorEvent, loadedFor, templateCache, templates, history, editorConflict,
                     blockedNav, puts, sent>>
      /\ editor'.raw = editor.raw /\ editor'.version = editor.version /\ editor' \in EditorState
      /\ edits' \in 0..MaxEdits
  <2>1. editor \in EditorState /\ edits \in 0..MaxEdits /\ MaxEdits \in Nat
    BY EditorAssumption DEF EditorInv, PageOK, PutsOK
  <2>2. CASE EditDocument
    <3>1. edits + 1 \in 0..MaxEdits
      BY <2>1, <2>2 DEF EditDocument
    <3> QED
      BY <2>1, <2>2, <3>1 DEF EditDocument, EditorState, Docs, serverVars, dialogVars
  <2>3. CASE ~EditDocument
    BY <2>1, <2>3 DEF EscapePressed, CancelConflictDialog, ConfirmConflictDialog, OpenConflictDialog,
                      editorVars, serverVars, dialogVars
  <2> QED
    BY <2>2, <2>3
<1>2. HistoryOK' /\ CacheOK' /\ PutsOK' /\ PageOK'
  BY <1>1 DEF EditorInv, HistoryOK, CacheOK, PutsOK, PageOK, IsCached, Known
<1>3. editorDialog' \in {"reload", "overwrite"} => IsCached(editorEvent)
  BY DEF EditDocument, EscapePressed, CancelConflictDialog, ConfirmConflictDialog, OpenConflictDialog,
         editorVars, dialogVars, EditorInv, ConflictOK
<1>4. refetching' = refetching \/ (refetching' \in Refetch /\ refetching'.event = editorEvent
                                   /\ IsCached(editorEvent))
  <2>1. CASE ConfirmConflictDialog
    <3>1. IsCached(editorEvent) /\ editorDialog \in {"reload", "overwrite"}
      BY <2>1 DEF ConfirmConflictDialog, EditorInv, ConflictOK
    <3>2. editorEvent \in EditorEvents /\ editor.doc \in Docs /\ editor.version \in Nat
      BY DEF EditorInv, PageOK, EditorState
    <3> QED
      BY <2>1, <3>1, <3>2 DEF ConfirmConflictDialog, Refetch
  <2>2. CASE ~ConfirmConflictDialog
    BY <2>2 DEF EditDocument, EscapePressed, CancelConflictDialog, OpenConflictDialog, editorVars
  <2> QED
    BY <2>1, <2>2
<1>5. ConflictOK'
  BY <1>1, <1>3, <1>4 DEF EditorInv, ConflictOK, IsCached
<1> QED
  BY <1>2, <1>5 DEF EditorInv

(* A refetch brings into the cache only an event it already has.           *)
LEMMA RefetchCaches ==
  ASSUME EditorInv, NEW ok \in BOOLEAN, Refetched(ok), refetching.kind # "none", UNCHANGED serverVars
  PROVE  /\ HistoryOK' /\ CacheOK' /\ refetching' \in Refetch /\ refetching'.kind = "none"
         /\ \A f \in EditorEvents : IsCached(f)' <=> IsCached(f)
         /\ refetching.event \in EditorEvents /\ IsCached(refetching.event)
<1>1. refetching.event \in EditorEvents /\ IsCached(refetching.event)
  BY DEF EditorInv, ConflictOK, Refetch
<1>2. templates[refetching.event] \in Template /\ <<refetching.event, templates[refetching.event]>> \in history
  BY <1>1 DEF EditorInv, HistoryOK
<1>3. HistoryOK'
  BY DEF EditorInv, HistoryOK, serverVars
<1>4. FirstEvent \in EditorEvents
  BY EditorAssumption DEF FirstEvent
<1>5. refetching' \in Refetch /\ refetching'.kind = "none"
  BY <1>4, EditorAssumption DEF Refetched, NoRefetch, Refetch, Docs
<1>6. CASE ok
  <2>1. CacheOK' /\ (\A f \in EditorEvents : IsCached(f) => IsCached(f)')
        /\ (\A f \in EditorEvents \ {refetching.event} : IsCached(f)' => IsCached(f))
    BY <1>1, <1>2, <1>6, CacheSeeded DEF Refetched, serverVars
  <2> QED
    BY <1>1, <1>3, <1>5, <2>1
<1>7. CASE ~ok
  <2>1. templateCache' = templateCache /\ history' = history
    BY <1>7 DEF Refetched, serverVars
  <2> QED
    BY <1>1, <1>3, <1>5, <2>1 DEF EditorInv, CacheOK, IsCached
<1> QED
  BY <1>6, <1>7

LEMMA ReloadKeeps ==
  ASSUME EditorInv, NEW ok \in BOOLEAN, ReloadAnswers(ok)
  PROVE  EditorInv'
<1>1. /\ HistoryOK' /\ CacheOK' /\ refetching' \in Refetch /\ refetching'.kind = "none"
      /\ \A f \in EditorEvents : IsCached(f)' <=> IsCached(f)
  BY RefetchCaches DEF ReloadAnswers
<1>2. UNCHANGED <<editorEvent, loadedFor, history, blockedNav, puts, edits, sent>>
  BY DEF ReloadAnswers, Refetched, serverVars
<1>3. PutsOK'
  BY <1>1, <1>2 DEF EditorInv, PutsOK, Put, Known
<1>4. editorEvent \in EditorEvents /\ loadedFor \in EditorEvents \cup {Nowhere}
  BY DEF EditorInv, PageOK
<1>5. editor' \in EditorState /\ (loadedFor # Nowhere => Known(loadedFor, editor.raw, editor.version)')
  <2>1. CASE UNCHANGED editor
    BY <1>2, <2>1 DEF EditorInv, PageOK, Known
  <2>2. CASE templateCache'[editorEvent] # NotCached /\ editor' = Loaded(templateCache'[editorEvent])
    <3> DEFINE t == templateCache'[editorEvent]
    <3>1. t \in Template /\ <<editorEvent, t>> \in history
      BY <1>1, <1>2, <1>4, <2>2 DEF CacheOK, IsCached
    <3>2. editor' \in EditorState /\ editor'.raw = t.doc /\ editor'.version = t.version
          /\ t = [doc |-> t.doc, version |-> t.version]
      BY <2>2, <3>1 DEF Loaded, EditorState, Template
    <3>3. loadedFor = editorEvent
      BY <1>1, <1>2, <1>4, <2>2 DEF IsCached, EditorInv, PageOK
    <3> QED
      BY <1>2, <3>1, <3>2, <3>3 DEF Known
  <2> QED
    BY <2>1, <2>2 DEF ReloadAnswers
<1>6. PageOK'
  BY <1>1, <1>2, <1>4, <1>5 DEF EditorInv, PageOK, IsCached
<1>7. editorConflict' \/ editorDialog' \in {"reload", "overwrite"} => IsCached(editorEvent)
  BY DEF ReloadAnswers, EditorInv, ConflictOK
<1>8. ConflictOK'
  BY <1>1, <1>2, <1>4, <1>7 DEF ConflictOK, IsCached
<1> QED
  BY <1>1, <1>3, <1>6, <1>8 DEF EditorInv

LEMMA OverwriteKeeps ==
  ASSUME EditorInv, NEW ok \in BOOLEAN, OverwriteAnswers(ok)
  PROVE  EditorInv'
<1> DEFINE v == IF templateCache'[editorEvent] = NotCached THEN refetching.version
                                                         ELSE templateCache'[editorEvent].version
<1>1. /\ HistoryOK' /\ CacheOK' /\ refetching' \in Refetch /\ refetching'.kind = "none"
      /\ \A f \in EditorEvents : IsCached(f)' <=> IsCached(f)
      /\ refetching.event \in EditorEvents /\ IsCached(refetching.event)
  BY RefetchCaches DEF OverwriteAnswers
<1>2. UNCHANGED <<editorEvent, loadedFor, editor, history, editorConflict, editorDialog, blockedNav, edits>>
  BY DEF OverwriteAnswers, Refetched, serverVars, dialogVars
<1>3. refetching.doc \in Docs /\ refetching.version \in Nat /\ editorEvent \in EditorEvents
  BY DEF EditorInv, ConflictOK, Refetch, PageOK
<1>4. v \in Nat
  BY <1>1, <1>2, <1>3 DEF CacheOK, Template
<1>5. PutsOK'
  BY <1>1, <1>2, <1>3, <1>4, SendKeeps DEF OverwriteAnswers
<1>6. PageOK' /\ ConflictOK'
  BY <1>1, <1>2, <1>3 DEF EditorInv, PageOK, ConflictOK, IsCached, Known
<1> QED
  BY <1>1, <1>5, <1>6 DEF EditorInv

(* The editor's cache, baseline, calls and guard only ever hold pairs of  *)
(* elements and version the backend has held for one event.               *)
THEOREM EditorInvariance == EditorSpec => []EditorInv
<1>1. EditorInv /\ [EditorNext]_editorVars => EditorInv'
  <2> SUFFICES ASSUME EditorInv, [EditorNext]_editorVars PROVE EditorInv'
    OBVIOUS
  <2>1. CASE SaveClicked \/ GuardSave
    <3>1. \E kind \in {"save", "leave", "revert"} : PerformSave(kind)
      BY <2>1 DEF SaveClicked, GuardSave
    <3> QED
      BY <3>1, PerformSaveKeeps
  <2>2. CASE \E p \in puts : PutApplies(p) \/ PutSucceeds(p) \/ PutFails(p)
    BY <2>2, PutAppliesKeeps, PutSucceedsKeeps, PutFailsKeeps
  <2>3. CASE TemplateFetched
    BY <2>3, TemplateFetchedKeeps
  <2>4. CASE \E e \in EditorEvents : OtherSaves(e)
    BY <2>4, OtherSavesKeeps
  <2>5. CASE GuardDiscard \/ GuardKeep \/ \E e \in EditorEvents : Navigate(e)
    BY <2>5, GuardKeeps
  <2>6. CASE \E ok \in BOOLEAN : ReloadAnswers(ok) \/ OverwriteAnswers(ok)
    BY <2>6, ReloadKeeps, OverwriteKeeps
  <2>7. CASE \/ EditDocument \/ EscapePressed \/ CancelConflictDialog \/ ConfirmConflictDialog
             \/ \E kind \in {"reload", "overwrite"} : OpenConflictDialog(kind)
             \/ UNCHANGED editorVars
    BY <2>7, OperatorKeeps
  <2> QED
    BY <2>1, <2>2, <2>3, <2>4, <2>5, <2>6, <2>7 DEF EditorNext
<1> QED
  BY EditorStarts, <1>1, PTL DEF EditorSpec

(* What the editor would save against is a pair the backend held for the   *)
(* event on the screen, whatever is answered late or for another event.    *)
THEOREM BaselineIsReal == EditorSpec => []Coherent
<1>1. EditorInv => Coherent
  BY EditorAssumption DEF EditorInv, PageOK, Coherent, Initialized, Known
<1> QED
  BY <1>1, EditorInvariance, PTL

(* Optimistic concurrency works: a save the backend would take replaces    *)
(* the very document its author was editing from.                          *)
THEOREM NoLostTemplate == EditorSpec => []SavesOnWhatWasSeen
<1>1. EditorInv => SavesOnWhatWasSeen
  <2> SUFFICES ASSUME EditorInv, NEW p \in puts, p.kind # "overwrite",
                      templates[p.event].version = p.version
               PROVE  templates[p.event].doc = p.base
    BY DEF SavesOnWhatWasSeen
  <2> DEFINE t == templates[p.event]
             u == [doc |-> p.base, version |-> p.version]
  <2>1. p.event \in EditorEvents /\ u \in Template
    BY DEF EditorInv, PutsOK, Put, Template
  <2>2. t \in Template /\ <<p.event, t>> \in history /\ <<p.event, u>> \in history
    BY <2>1 DEF EditorInv, HistoryOK, PutsOK, Known
  <2>3. t = u
    BY <2>1, <2>2 DEF EditorInv, HistoryOK
  <2> QED
    BY <2>3
<1> QED
  BY <1>1, EditorInvariance, PTL
------------------------------------------------------------------------------
(* The banner and the open dialog are what the page can show.              *)
FlagsTyped == editorConflict \in BOOLEAN /\ editorDialog \in {"none", "reload", "overwrite", "revert"}

LEMMA FlagsKeep == ASSUME FlagsTyped, [EditorNext]_editorVars PROVE FlagsTyped'
<1>1. CASE \E p \in puts : PutApplies(p)
  BY <1>1 DEF PutApplies, FlagsTyped, dialogVars
<1>2. CASE \E p \in puts : PutSucceeds(p)
  <2>1. PICK p \in puts : PutSucceeds(p)
    BY <1>2
  <2>2. editorDialog' \in {"none", editorDialog, "revert"}
    BY <2>1 DEF PutSucceeds, MoveTo, StayHere
  <2>3. editorConflict' \in BOOLEAN
    BY <2>1 DEF PutSucceeds, MoveTo, StayHere, FlagsTyped
  <2> QED
    BY <2>2, <2>3 DEF FlagsTyped
<1>3. CASE \E p \in puts : PutFails(p)
  <2>1. PICK p \in puts : PutFails(p)
    BY <1>3
  <2>2. editorDialog' \in {"none", editorDialog} /\ editorConflict' \in BOOLEAN
    BY <2>1 DEF PutFails, FlagsTyped, dialogVars
  <2> QED
    BY <2>2 DEF FlagsTyped
<1>4. CASE \E e \in EditorEvents : OtherSaves(e) \/ Navigate(e)
  BY <1>4 DEF OtherSaves, Navigate, MoveTo, StayHere, FlagsTyped, dialogVars
<1>5. CASE EscapePressed \/ GuardDiscard \/ GuardKeep
  BY <1>5 DEF EscapePressed, GuardDiscard, GuardKeep, MoveTo, StayHere, FlagsTyped, dialogVars
<1>6. CASE SaveClicked \/ GuardSave \/ TemplateFetched \/ EditDocument
  BY <1>6 DEF SaveClicked, GuardSave, PerformSave, TemplateFetched, EditDocument, FlagsTyped, dialogVars
<1>7. CASE CancelConflictDialog \/ ConfirmConflictDialog
           \/ \E kind \in {"reload", "overwrite"} : OpenConflictDialog(kind)
  BY <1>7 DEF CancelConflictDialog, ConfirmConflictDialog, OpenConflictDialog, FlagsTyped, dialogVars
<1>8. CASE \E ok \in BOOLEAN : ReloadAnswers(ok) \/ OverwriteAnswers(ok)
  BY <1>8 DEF ReloadAnswers, OverwriteAnswers, FlagsTyped, dialogVars
<1>9. CASE UNCHANGED editorVars
  BY <1>9 DEF editorVars, FlagsTyped, dialogVars
<1> QED
  BY <1>1, <1>2, <1>3, <1>4, <1>5, <1>6, <1>7, <1>8, <1>9 DEF EditorNext

(* Every variable of the editor keeps to its type.                         *)
THEOREM EditorTypeCorrect == EditorSpec => []EditorTypeOK
<1>1. EditorInit => FlagsTyped
  BY DEF EditorInit, FlagsTyped
<1>2. EditorInv /\ FlagsTyped => EditorTypeOK
  BY DEF EditorInv, HistoryOK, CacheOK, PutsOK, PageOK, ConflictOK, FlagsTyped, EditorState, EditorTypeOK
<1> QED
  BY <1>1, <1>2, FlagsKeep, EditorInvariance, PTL DEF EditorSpec

------------------------------------------------------------------------------
(* The pill tells the truth to a patient operator.  EditorClean's finding  *)
(* needs a document edited, or an editor left, while a save or a confirmed *)
(* refetch is on its way.                                                  *)

Patient == EditDocument \/ (\E e \in EditorEvents : Navigate(e)) => ~EditorBusy

(* The save whose answer the page will act on is of the document on the    *)
(* screen, and so is the overwrite that waits for its refetch, under its   *)
(* own dialog.                                                             *)
OnePutPerId == \A p, q \in puts : p.id <= sent /\ (p.id = q.id => p = q)
SaveIsShown == \A p \in puts : p.id = sent => p.event = editorEvent /\ p.doc = editor.doc
RefetchIsShown ==
  /\ refetching.kind # "none" => ~Pending /\ editorDialog = refetching.kind /\ blockedNav = Nowhere
  /\ refetching.kind = "overwrite" => refetching.event = editorEvent /\ refetching.doc = editor.doc

PatientInv == CleanMeansSaved /\ OnePutPerId /\ SaveIsShown /\ RefetchIsShown

(* Nothing under way: only the editor itself is left to look at.           *)
LEMMA NothingUnderWay ==
  ASSUME CleanMeansSaved', OnePutPerId', ~EditorBusy'
  PROVE  PatientInv'
  BY DEF PatientInv, SaveIsShown, RefetchIsShown, EditorBusy, Pending

(* A document shown before its template is loaded has nothing under way.   *)
LEMMA BusyIsLoaded ==
  ASSUME EditorInv, PatientInv, EditorBusy
  PROVE  Initialized
<1>1. CASE Pending
  BY <1>1 DEF Pending, PatientInv, SaveIsShown, EditorInv, PutsOK, PageOK, Initialized
<1>2. CASE refetching.kind # "none"
  <2>1. editorDialog \in {"reload", "overwrite"}
    BY <1>2 DEF PatientInv, RefetchIsShown, EditorInv, ConflictOK, Refetch
  <2> QED
    BY <2>1 DEF EditorInv, ConflictOK, PageOK, Initialized
<1> QED
  BY <1>1, <1>2 DEF EditorBusy

LEMMA LoadedIsClean ==
  ASSUME NEW ed, ~ed.dirty => ed.doc = ed.raw, LoadEffect(ed)
  PROVE  CleanMeansSaved'
<1>1. \A t : Loaded(t).doc = Loaded(t).raw
  BY DEF Loaded
<1>2. editor' = ed \/ editor' = Loaded(templateCache'[editorEvent'])
  BY DEF LoadEffect
<1> QED
  BY <1>1, <1>2 DEF CleanMeansSaved

(* A step that loads or not, on the same page with fewer puts.             *)
LEMMA LoadKeepsPatience ==
  ASSUME EditorInv, PatientInv, LoadEffect(editor), puts' \subseteq puts,
         UNCHANGED <<editorEvent, sent, refetching, editorDialog, blockedNav>>
  PROVE  PatientInv'
<1>1. CleanMeansSaved' /\ OnePutPerId'
  BY LoadedIsClean DEF PatientInv, CleanMeansSaved, OnePutPerId
<1>2. EditorBusy' => EditorBusy
  BY DEF EditorBusy, Pending
<1>3. CASE EditorBusy
  <2>1. editor' = editor
    BY <1>3, BusyIsLoaded DEF LoadEffect, Initialized
  <2> QED
    BY <1>1, <2>1 DEF PatientInv, SaveIsShown, RefetchIsShown, Pending
<1>4. CASE ~EditorBusy
  BY <1>1, <1>2, <1>4, NothingUnderWay
<1> QED
  BY <1>3, <1>4

------------------------------------------------------------------------------
LEMMA ServerKeepsPatience ==
  ASSUME EditorInv, PatientInv, (\E p \in puts : PutApplies(p)) \/ (\E e \in EditorEvents : OtherSaves(e))
  PROVE  PatientInv'
<1>1. CASE \E p \in puts : PutApplies(p)
  <2>1. PICK p \in puts : PutApplies(p)
    BY <1>1
  <2>2. PICK q : q = [p EXCEPT !.answer = IF templates[p.event].version = p.version THEN "saved" ELSE "conflict"]
    OBVIOUS
  <2>3. puts' = (puts \ {p}) \cup {q} /\ q.id = p.id /\ q.event = p.event /\ q.doc = p.doc
    BY <2>1, <2>2 DEF PutApplies, EditorInv, PutsOK, Put
  <2>4. UNCHANGED <<editorEvent, editor, editorDialog, blockedNav, refetching, sent>>
    BY <2>1 DEF PutApplies, dialogVars
  <2>5. CleanMeansSaved' /\ OnePutPerId' /\ SaveIsShown'
    BY <2>3, <2>4 DEF PatientInv, CleanMeansSaved, OnePutPerId, SaveIsShown
  <2>6. Pending' => Pending
    BY <2>3, <2>4 DEF Pending
  <2> QED
    BY <2>4, <2>5, <2>6 DEF PatientInv, RefetchIsShown
<1>2. CASE \E e \in EditorEvents : OtherSaves(e)
  BY <1>2 DEF OtherSaves, dialogVars, PatientInv, CleanMeansSaved, OnePutPerId, SaveIsShown, RefetchIsShown, Pending
<1> QED
  BY <1>1, <1>2

(* What is sent is on the screen, and under the latest number.             *)
LEMMA SendIsShown ==
  ASSUME EditorInv, PatientInv, NEW kind, NEW v, Send(kind, editorEvent, editor.doc, v),
         UNCHANGED <<editorEvent, editor>>, refetching'.kind = "none"
  PROVE  PatientInv'
<1>1. PICK q : q = [id |-> sent + 1, kind |-> kind, event |-> editorEvent, doc |-> editor.doc,
                    base |-> editor.raw, version |-> v, answer |-> "none"]
  OBVIOUS
<1>2. puts' = puts \cup {q} /\ sent' = sent + 1
  BY <1>1 DEF Send
<1>3. sent \in Nat /\ \A p \in puts : p.id \in Nat /\ p.id <= sent
  BY DEF EditorInv, PutsOK, Put, PatientInv, OnePutPerId
<1>4. OnePutPerId' /\ SaveIsShown'
  BY <1>1, <1>2, <1>3 DEF PatientInv, OnePutPerId, SaveIsShown
<1> QED
  BY <1>4 DEF PatientInv, CleanMeansSaved, RefetchIsShown

LEMMA SavesKeepPatience ==
  ASSUME EditorInv, PatientInv, SaveClicked \/ GuardSave
  PROVE  PatientInv'
<1>1. PICK kind : PerformSave(kind)
  BY DEF SaveClicked, GuardSave
<1>2. refetching.kind = "none"
  BY DEF SaveClicked, GuardSave, NoModal, GuardOpen, PatientInv, RefetchIsShown, EditorInv, ConflictOK, Refetch
<1> QED
  BY <1>1, <1>2, SendIsShown DEF PerformSave

(* The answer the page acts on ends what was under way; any other leaves   *)
(* the page as it is.                                                      *)
LEMMA AnswersKeepPatience ==
  ASSUME EditorInv, PatientInv, NEW p \in puts, PutSucceeds(p) \/ PutFails(p)
  PROVE  PatientInv'
<1>1. puts' = puts \ {p} /\ UNCHANGED <<refetching, sent>>
  BY DEF PutSucceeds, PutFails
<1>2. OnePutPerId'
  BY <1>1 DEF PatientInv, OnePutPerId
<1>3. CASE p.id # sent
  <2>1. UNCHANGED <<editorEvent, editorDialog, blockedNav>> /\ (LoadEffect(editor) \/ UNCHANGED editor)
    BY <1>3 DEF PutSucceeds, PutFails, StayHere, dialogVars
  <2>2. CASE LoadEffect(editor)
    BY <1>1, <2>1, <2>2, LoadKeepsPatience
  <2>3. CASE UNCHANGED editor
    BY <1>1, <1>2, <2>1, <2>3 DEF PatientInv, CleanMeansSaved, SaveIsShown, RefetchIsShown, Pending
  <2> QED
    BY <2>1, <2>2, <2>3
<1>4. CASE p.id = sent
  <2>1. ~EditorBusy'
    BY <1>1, <1>4 DEF EditorBusy, Pending, PatientInv, OnePutPerId, RefetchIsShown
  <2>2. CleanMeansSaved'
    <3>1. CASE PutFails(p)
      BY <3>1 DEF PutFails, PatientInv, CleanMeansSaved
    <3>2. CASE PutSucceeds(p)
      <4>1. p.event = editorEvent /\ p.doc = editor.doc /\ editor \in EditorState
        BY <1>4 DEF PatientInv, SaveIsShown, EditorInv, PageOK
      <4>2. AfterSave(p).doc = AfterSave(p).raw
        BY <4>1 DEF AfterSave, EditorState
      <4>3. LoadEffect(AfterSave(p))
        BY <1>4, <3>2 DEF PutSucceeds
      <4> QED
        BY <4>2, <4>3, LoadedIsClean
    <3> QED
      BY <3>1, <3>2
  <2> QED
    BY <1>2, <2>1, <2>2, NothingUnderWay
<1> QED
  BY <1>3, <1>4

(* The guard's moves, and the steps a patient operator takes: all with     *)
(* nothing under way.                                                      *)
LEMMA MovesKeepPatience ==
  ASSUME EditorInv, PatientInv, Patient,
         EditDocument \/ GuardDiscard \/ \E e \in EditorEvents : Navigate(e)
  PROVE  PatientInv'
<1>1. editor \in EditorState
  BY DEF EditorInv, PageOK
<1>2. ~EditorBusy
  BY DEF Patient, GuardDiscard, GuardOpen, EditorBusy, PatientInv, RefetchIsShown, EditorInv, ConflictOK, Refetch
<1>3. UNCHANGED <<puts, sent, refetching>>
  BY DEF EditDocument, GuardDiscard, Navigate
<1>4. OnePutPerId' /\ ~EditorBusy'
  BY <1>2, <1>3 DEF EditorBusy, Pending, PatientInv, OnePutPerId
<1>5. CleanMeansSaved'
  <2>1. CASE EditDocument
    BY <1>1, <2>1 DEF EditDocument, CleanMeansSaved, EditorState
  <2>2. CASE LoadEffect(editor) \/ UNCHANGED editor
    BY <2>2, LoadedIsClean DEF PatientInv, CleanMeansSaved
  <2>3. CASE editor' = [editor EXCEPT !.doc = editor.raw, !.dirty = FALSE]
    BY <1>1, <2>3 DEF CleanMeansSaved, EditorState
  <2> QED
    BY <2>1, <2>2, <2>3 DEF GuardDiscard, Navigate
<1> QED
  BY <1>4, <1>5, NothingUnderWay

LEMMA DialogsKeepPatience ==
  ASSUME EditorInv, PatientInv,
         \/ EscapePressed \/ GuardKeep \/ CancelConflictDialog \/ ConfirmConflictDialog
         \/ \E kind \in {"reload", "overwrite"} : OpenConflictDialog(kind)
  PROVE  PatientInv'
<1>1. ~EditorBusy
  BY DEF EscapePressed, GuardKeep, CancelConflictDialog, ConfirmConflictDialog, OpenConflictDialog, NoModal,
         GuardOpen, EditorBusy, PatientInv, RefetchIsShown, EditorInv, ConflictOK, Refetch
<1>2. UNCHANGED <<editorEvent, editor, puts, sent>> /\ ~Pending'
  BY <1>1 DEF EscapePressed, GuardKeep, CancelConflictDialog, ConfirmConflictDialog, OpenConflictDialog,
              EditorBusy, Pending
<1>3. CleanMeansSaved' /\ OnePutPerId' /\ SaveIsShown'
  BY <1>2 DEF PatientInv, CleanMeansSaved, OnePutPerId, SaveIsShown
<1>4. CASE ConfirmConflictDialog
  BY <1>2, <1>3, <1>4 DEF ConfirmConflictDialog, PatientInv, RefetchIsShown, dialogVars
<1>5. CASE ~ConfirmConflictDialog
  <2>1. UNCHANGED refetching
    BY <1>5 DEF EscapePressed, GuardKeep, CancelConflictDialog, OpenConflictDialog
  <2> QED
    BY <1>1, <1>3, <2>1 DEF EditorBusy, PatientInv, RefetchIsShown
<1> QED
  BY <1>4, <1>5

LEMMA RefetchKeepsPatience ==
  ASSUME EditorInv, PatientInv, NEW ok \in BOOLEAN, ReloadAnswers(ok) \/ OverwriteAnswers(ok)
  PROVE  PatientInv'
<1>1. refetching'.kind = "none" /\ ~Pending
  BY DEF ReloadAnswers, OverwriteAnswers, Refetched, NoRefetch, PatientInv, RefetchIsShown
<1>2. CASE ReloadAnswers(ok)
  <2>1. OnePutPerId' /\ ~EditorBusy'
    BY <1>1, <1>2 DEF ReloadAnswers, EditorBusy, Pending, PatientInv, OnePutPerId
  <2>2. editor' = editor \/ editor' = Loaded(templateCache'[editorEvent])
    BY <1>2 DEF ReloadAnswers
  <2>3. CleanMeansSaved'
    BY <2>2 DEF PatientInv, CleanMeansSaved, Loaded
  <2> QED
    BY <2>1, <2>3, NothingUnderWay
<1>3. CASE OverwriteAnswers(ok)
  <2>1. refetching.event = editorEvent /\ refetching.doc = editor.doc
    BY <1>3 DEF OverwriteAnswers, PatientInv, RefetchIsShown
  <2>2. UNCHANGED <<editorEvent, editor>>
    BY <1>3 DEF OverwriteAnswers, Refetched
  <2> QED
    BY <1>1, <1>3, <2>1, <2>2, SendIsShown DEF OverwriteAnswers
<1> QED
  BY <1>2, <1>3

(* A document shown as clean is the one the backend was given or loaded    *)
(* from, as long as the operator neither edits nor leaves while a save or  *)
(* a confirmed refetch is under way; a save that fails, conflicts or is    *)
(* answered late, and other operators' saves, take nothing from that.      *)
THEOREM CleanWhenPatient == EditorSpec /\ [][Patient]_editorVars => []CleanMeansSaved
<1>1. EditorInit => PatientInv
  BY DEF EditorInit, Loaded, EmptyTemplate, NoRefetch, PatientInv, CleanMeansSaved, OnePutPerId, SaveIsShown, RefetchIsShown
<1>2. EditorInv /\ PatientInv /\ [EditorNext]_editorVars /\ [Patient]_editorVars => PatientInv'
  <2> SUFFICES ASSUME EditorInv, PatientInv, [EditorNext]_editorVars, [Patient]_editorVars PROVE PatientInv'
    OBVIOUS
  <2>1. CASE UNCHANGED editorVars
    BY <2>1 DEF editorVars, dialogVars, PatientInv, CleanMeansSaved, OnePutPerId, SaveIsShown, RefetchIsShown, Pending
  <2>2. CASE Patient /\ TemplateFetched
    BY <2>2, LoadKeepsPatience DEF TemplateFetched, dialogVars
  <2>3. CASE Patient /\ (EditDocument \/ GuardDiscard \/ \E e \in EditorEvents : Navigate(e))
    BY <2>3, MovesKeepPatience
  <2>4. CASE \E p \in puts : PutSucceeds(p) \/ PutFails(p)
    BY <2>4, AnswersKeepPatience
  <2>5. CASE SaveClicked \/ GuardSave
    BY <2>5, SavesKeepPatience
  <2>6. CASE (\E p \in puts : PutApplies(p)) \/ (\E e \in EditorEvents : OtherSaves(e))
    BY <2>6, ServerKeepsPatience
  <2>7. CASE \/ EscapePressed \/ GuardKeep \/ CancelConflictDialog \/ ConfirmConflictDialog
             \/ \E kind \in {"reload", "overwrite"} : OpenConflictDialog(kind)
    BY <2>7, DialogsKeepPatience
  <2>8. CASE \E ok \in BOOLEAN : ReloadAnswers(ok) \/ OverwriteAnswers(ok)
    BY <2>8, RefetchKeepsPatience
  <2> QED
    BY <2>1, <2>2, <2>3, <2>4, <2>5, <2>6, <2>7, <2>8 DEF EditorNext
<1>3. PatientInv => CleanMeansSaved
  BY DEF PatientInv
<1> QED
  BY <1>1, <1>2, <1>3, EditorInvariance, PTL DEF EditorSpec
==============================================================================

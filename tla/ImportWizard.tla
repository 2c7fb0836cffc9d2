------------------------------ MODULE ImportWizard ------------------------------
(***************************************************************************)
(* The panel's attendee import (panel/src/features/attendees/import/): a   *)
(* file is picked, previewed in an encoding and parsed in full; its        *)
(* columns are mapped; its rows are sent to the bulk route in chunks, one  *)
(* after the other, while failed rows may be skipped or sent again.        *)
(*                                                                         *)
(* A file has Rows rows after deduplication; a preview is the first few.   *)
(* Whatever is sent is built from the rows the wizard holds at that time:  *)
(* the chunks when their loop starts, a single row when it is retried.     *)
(***************************************************************************)
EXTENDS Naturals

CONSTANTS
  Files, Encodings,   \* files to pick, encodings to decode them with
  Rows, ChunkSize,    \* rows after deduplication, IMPORT_CHUNK_SIZE
  PreviewRows,        \* rows of a preview
  MaxParses,          \* bounds the parses of step 1 over all sessions
  MaxSends,           \* bounds the POSTs of step 3
  ImportFaults        \* subset of AllImportFaults

AllImportFaults == {"reject", "lose"}
ASSUME ImportAssumption ==
  /\ ImportFaults \subseteq AllImportFaults
  /\ Encodings # {} /\ {Rows, ChunkSize, PreviewRows} \subseteq Nat \ {0} /\ {MaxParses, MaxSends} \subseteq Nat

VARIABLES
  wizardOpen, session, \* open, step1SessionRef
  wizard,          \* state: step, file (and buffer), encoding, rows (and headers)
  parses,          \* step-1 operations in flight
  encToken,        \* encodingChangeTokenRef
  picking, encChanging, fullParsing,  \* the busy flags of step 1
  parsesSent,      \* counter of the bound
  uploading,       \* the chunk POST in flight, its answer still to come, or 0
  payload,         \* the sheet its loop's chunks were built from
  chunkFailure,    \* nextChunkIndex, or 0
  rowErrors,       \* the problem each listed row is listed with
  rowSkipped, rowDone, \* rows skipped, counted as done
  retryingRows,    \* per-row retries in flight
  retriedFrom,     \* the sheet each of their rows was taken from
  imported,        \* history: the sheet "Import" was clicked for
  rowsKept,        \* history: no parse replaced its rows under the import
  answered,        \* history: the rows whose chunk was answered
  bulkCreated,     \* the backend: how often each imported row was created
  sends            \* counter of the bound

stepOneVars == <<wizardOpen, session, wizard, parses, encToken, picking, encChanging,
                 fullParsing, parsesSent>>
chunkVars   == <<uploading, payload, chunkFailure, answered>>
uploadVars  == <<chunkVars, rowErrors, rowSkipped, rowDone, retryingRows, retriedFrom, imported,
                 bulkCreated, sends>>
importVars  == <<stepOneVars, rowsKept, uploadVars>>

NoFile == "no file"
NoRows == [file |-> NoFile, encoding |-> NoFile, full |-> FALSE]
Sheet == [file : Files \cup {NoFile}, encoding : Encodings \cup {NoFile}, full : BOOLEAN]
Parse == [kind : {"pick", "encoding", "full"}, file : Files, encoding : Encodings,
          session : 0..MaxParses, token : 0..MaxParses]
RowIds == 1..Rows
Problems == {"none", "duplicate", "create_failed"}
ChunkRows(c) == {r \in RowIds : ChunkSize * (c - 1) < r /\ r <= ChunkSize * c}
Chunks == {c \in RowIds : ChunkRows(c) # {}}
RowsOf(sheet) == IF sheet.full THEN RowIds ELSE {r \in RowIds : r <= PreviewRows}
SentRows(c, sheet) == ChunkRows(c) \cap RowsOf(sheet)

ImportTypeOK ==
  /\ {wizardOpen, picking, encChanging, fullParsing, rowsKept} \subseteq BOOLEAN
  /\ {session, encToken, parsesSent} \subseteq 0..MaxParses
  /\ wizard \in [step : 1..3, file : Files \cup {NoFile}, encoding : Encodings, rows : Sheet]
  /\ parses \subseteq Parse
  /\ {uploading, chunkFailure} \subseteq Chunks \cup {0} /\ {payload, imported} \subseteq Sheet
  /\ rowErrors \in [RowIds -> Problems] /\ retriedFrom \in [RowIds -> Sheet]
  /\ {rowSkipped, rowDone, retryingRows, answered} \subseteq SUBSET RowIds
  /\ bulkCreated \in [RowIds -> 0..MaxSends] /\ sends \in 0..MaxSends

DefaultEncoding == CHOOSE e \in Encodings : TRUE
FreshWizard == [step |-> 1, file |-> NoFile, encoding |-> DefaultEncoding, rows |-> NoRows]

ImportInit ==
  /\ wizardOpen = TRUE /\ session = 0 /\ wizard = FreshWizard /\ parses = {}
  /\ encToken = 0 /\ picking = FALSE /\ encChanging = FALSE /\ fullParsing = FALSE
  /\ parsesSent = 0
  /\ uploading = 0 /\ payload = NoRows /\ chunkFailure = 0 /\ answered = {}
  /\ rowErrors = [r \in RowIds |-> "none"] /\ rowSkipped = {} /\ rowDone = {}
  /\ retryingRows = {} /\ retriedFrom = [r \in RowIds |-> NoRows]
  /\ imported = NoRows /\ rowsKept = TRUE
  /\ bulkCreated = [r \in RowIds |-> 0] /\ sends = 0

------------------------------------------------------------------------------
(* Step 1.  Neither "Replace" nor the file input is disabled while another *)
(* operation of the step runs; the encoding buttons only while one of them *)
(* does.                                                                   *)

Step1Busy == picking \/ encChanging \/ fullParsing
InStep(n) == wizardOpen /\ wizard.step = n

StartParse(kind, file, encoding) ==
  /\ parsesSent < MaxParses /\ parsesSent' = parsesSent + 1
  /\ encToken' = IF kind = "encoding" THEN encToken + 1 ELSE encToken
  /\ parses' = parses \cup {[kind |-> kind, file |-> file, encoding |-> encoding,
                             session |-> session, token |-> encToken']}
  /\ UNCHANGED <<wizardOpen, session, wizard, rowsKept, uploadVars>>

FilePick(f, detected) ==
  /\ InStep(1) /\ picking' = TRUE /\ UNCHANGED <<encChanging, fullParsing>>
  /\ StartParse("pick", f, detected)

EncodingChange(e) ==
  /\ InStep(1) /\ wizard.file # NoFile /\ ~encChanging
  /\ encChanging' = TRUE /\ UNCHANGED <<picking, fullParsing>>
  /\ StartParse("encoding", wizard.file, e)

Continue ==
  /\ InStep(1) /\ wizard.file # NoFile /\ ~Step1Busy
  /\ fullParsing' = TRUE /\ UNCHANGED <<picking, encChanging>>
  /\ StartParse("full", wizard.file, wizard.encoding)

SheetOf(p) == [file |-> p.file, encoding |-> p.encoding, full |-> p.kind = "full"]

(* A parse ends; one of an earlier session of the dialog is abandoned.  A  *)
(* pick replaces the rows in whatever step the wizard has reached.         *)
ParseEnds(p) ==
  /\ parses' = parses \ {p}
  /\ IF p.session # session
     THEN UNCHANGED <<wizard, picking, encChanging, fullParsing>>
     ELSE CASE p.kind = "pick" ->
            /\ picking' = FALSE /\ UNCHANGED <<encChanging, fullParsing>>
            /\ wizard' = [wizard EXCEPT !.file = p.file, !.encoding = p.encoding, !.rows = SheetOf(p)]
          [] p.kind = "encoding" ->
            /\ UNCHANGED <<picking, fullParsing>>
            /\ IF p.token = encToken
               THEN /\ encChanging' = FALSE
                    /\ wizard' = [wizard EXCEPT !.encoding = p.encoding, !.rows = SheetOf(p)]
               ELSE UNCHANGED <<encChanging, wizard>>
          [] p.kind = "full" ->
            /\ fullParsing' = FALSE /\ UNCHANGED <<picking, encChanging>>
            /\ \/ wizard' = [wizard EXCEPT !.step = 2, !.rows = SheetOf(p)]
               \/ UNCHANGED wizard
  /\ rowsKept' = (rowsKept /\ (InStep(3) => wizard'.rows = wizard.rows))
  /\ UNCHANGED <<wizardOpen, session, encToken, parsesSent, uploadVars>>

(* A parse throws: the worker fails or the file cannot be read.            *)
ParseThrows(p) ==
  /\ parses' = parses \ {p}
  /\ picking' = (picking /\ ~(p.session = session /\ p.kind = "pick"))
  /\ encChanging' = (encChanging /\ ~(p.session = session /\ p.kind = "encoding" /\ p.token = encToken))
  /\ fullParsing' = (fullParsing /\ ~(p.session = session /\ p.kind = "full"))
  /\ UNCHANGED <<wizardOpen, session, wizard, encToken, parsesSent, rowsKept, uploadVars>>

WizardBack ==
  /\ InStep(2) /\ wizard' = [wizard EXCEPT !.step = 1]
  /\ UNCHANGED <<wizardOpen, session, parses, encToken, picking, encChanging, fullParsing,
                 parsesSent, rowsKept, uploadVars>>

------------------------------------------------------------------------------
(* Step 3.                                                                 *)

ImportRows ==
  /\ InStep(2) /\ sends < MaxSends
  /\ wizard' = [wizard EXCEPT !.step = 3] /\ imported' = wizard.rows
  /\ uploading' = 1 /\ payload' = wizard.rows /\ sends' = sends + 1
  /\ UNCHANGED <<wizardOpen, session, parses, encToken, picking, encChanging, fullParsing,
                 parsesSent, rowsKept, chunkFailure, answered, rowErrors, rowSkipped, rowDone,
                 retryingRows, retriedFrom, bulkCreated>>

(* Two sheets of one file in one encoding agree on the rows both have.     *)
OfImported(sheet) == sheet.file = imported.file /\ sheet.encoding = imported.encoding
CreateRows(created, sheet) ==
  bulkCreated' = [r \in RowIds |-> bulkCreated[r] + (IF r \in created /\ OfImported(sheet) THEN 1 ELSE 0)]

Listed == {r \in RowIds : rowErrors[r] # "none"}
UploadRows == SentRows(uploading, payload)
Refusals == [UploadRows -> IF "reject" \in ImportFaults THEN Problems ELSE {"none"}]

(* Mutant: the loop runs one chunk too far.                              *)
ChunkAnswersPastEnd(problem) ==
  /\ uploading # 0
  /\ LET created == {r \in UploadRows : problem[r] = "none"} IN
     /\ CreateRows(created, payload) /\ rowDone' = rowDone \cup created
  /\ rowErrors' = [r \in RowIds |-> IF r \in UploadRows THEN problem[r] ELSE rowErrors[r]]
  /\ answered' = answered \cup UploadRows
  /\ IF SentRows(uploading, payload) # {} /\ sends < MaxSends
     THEN uploading' = uploading + 1 /\ sends' = sends + 1 /\ UNCHANGED chunkFailure
     ELSE /\ uploading' = 0 /\ UNCHANGED sends
          /\ chunkFailure' = IF SentRows(uploading + 1, payload) # {} THEN uploading + 1 ELSE 0
  /\ UNCHANGED <<stepOneVars, rowsKept, payload, rowSkipped, retryingRows, retriedFrom, imported>>

(* The backend creates the rows it does not refuse; the loop goes on.      *)
ChunkAnswers(problem) ==
  /\ uploading # 0
  /\ LET created == {r \in UploadRows : problem[r] = "none"} IN
     /\ CreateRows(created, payload) /\ rowDone' = rowDone \cup created
  /\ rowErrors' = [r \in RowIds |-> IF r \in UploadRows THEN problem[r] ELSE rowErrors[r]]
  /\ answered' = answered \cup UploadRows
  /\ IF SentRows(uploading + 1, payload) # {} /\ sends < MaxSends
     THEN uploading' = uploading + 1 /\ sends' = sends + 1 /\ UNCHANGED chunkFailure
     ELSE /\ uploading' = 0 /\ UNCHANGED sends
          /\ chunkFailure' = IF SentRows(uploading + 1, payload) # {} THEN uploading + 1 ELSE 0
  /\ UNCHANGED <<stepOneVars, rowsKept, payload, rowSkipped, retryingRows, retriedFrom, imported>>

(* The POST fails; with "lose", after the backend created the rows.        *)
ChunkFails ==
  /\ uploading # 0 /\ uploading' = 0 /\ chunkFailure' = uploading
  /\ \/ UNCHANGED bulkCreated
     \/ "lose" \in ImportFaults /\ CreateRows(UploadRows, payload)
  /\ UNCHANGED <<stepOneVars, rowsKept, payload, answered, rowErrors, rowSkipped, rowDone,
                 retryingRows, retriedFrom, imported, sends>>

(* Mutant: the upload starts over.                                       *)
RetryFromStart ==
  /\ InStep(3) /\ uploading = 0 /\ chunkFailure # 0 /\ chunkFailure' = 0
  /\ IF SentRows(chunkFailure, wizard.rows) = {} THEN UNCHANGED <<uploading, payload, sends>>
     ELSE /\ sends < MaxSends /\ sends' = sends + 1
          /\ uploading' = 1 /\ payload' = wizard.rows
  /\ UNCHANGED <<stepOneVars, rowsKept, answered, rowErrors, rowSkipped, rowDone, retryingRows,
                 retriedFrom, imported, bulkCreated>>

(* "Retry remaining" builds the chunks again from the rows held now, and   *)
(* sends nothing when they do not reach to the chunk that failed.          *)
RetryRemaining ==
  /\ InStep(3) /\ uploading = 0 /\ chunkFailure # 0 /\ chunkFailure' = 0
  /\ IF SentRows(chunkFailure, wizard.rows) = {} THEN UNCHANGED <<uploading, payload, sends>>
     ELSE /\ sends < MaxSends /\ sends' = sends + 1
          /\ uploading' = chunkFailure /\ payload' = wizard.rows
  /\ UNCHANGED <<stepOneVars, rowsKept, answered, rowErrors, rowSkipped, rowDone, retryingRows,
                 retriedFrom, imported, bulkCreated>>

SkipRow(r) ==
  /\ InStep(3) /\ rowErrors[r] = "duplicate"
  /\ rowErrors' = [rowErrors EXCEPT ![r] = "none"] /\ rowSkipped' = rowSkipped \cup {r}
  /\ UNCHANGED <<stepOneVars, rowsKept, chunkVars, rowDone, retryingRows, retriedFrom, imported,
                 bulkCreated, sends>>

(* The row is taken from the rows held now.                                *)
RetryRow(r) ==
  /\ InStep(3) /\ rowErrors[r] = "create_failed" /\ r \notin retryingRows /\ sends < MaxSends
  /\ r \in RowsOf(wizard.rows)
  /\ retryingRows' = retryingRows \cup {r} /\ retriedFrom' = [retriedFrom EXCEPT ![r] = wizard.rows]
  /\ sends' = sends + 1
  /\ UNCHANGED <<stepOneVars, rowsKept, chunkVars, rowErrors, rowSkipped, rowDone, imported,
                 bulkCreated>>

(* Mutant: a row created by its retry stays listed.                      *)
RetryRowAnswersListed(r) ==
  /\ r \in retryingRows /\ retryingRows' = retryingRows \ {r}
  /\ \/ /\ CreateRows({r}, retriedFrom[r])
        /\ rowDone' = rowDone \cup {r} /\ UNCHANGED rowErrors
     \/ /\ "lose" \in ImportFaults /\ CreateRows({r}, retriedFrom[r]) /\ UNCHANGED <<rowDone, rowErrors>>
     \/ /\ \E problem \in Problems \ {"none"} : rowErrors' = [rowErrors EXCEPT ![r] = problem]
        /\ UNCHANGED <<bulkCreated, rowDone>>
  /\ retriedFrom' = [retriedFrom EXCEPT ![r] = NoRows]
  /\ UNCHANGED <<stepOneVars, rowsKept, chunkVars, rowSkipped, imported, sends>>

(* The row is created, refused again, or the POST fails.                   *)
RetryRowAnswers(r) ==
  /\ r \in retryingRows /\ retryingRows' = retryingRows \ {r}
  /\ \/ /\ CreateRows({r}, retriedFrom[r])
        /\ rowDone' = rowDone \cup {r} /\ rowErrors' = [rowErrors EXCEPT ![r] = "none"]
     \/ /\ "lose" \in ImportFaults /\ CreateRows({r}, retriedFrom[r]) /\ UNCHANGED <<rowDone, rowErrors>>
     \/ /\ \E problem \in Problems \ {"none"} : rowErrors' = [rowErrors EXCEPT ![r] = problem]
        /\ UNCHANGED <<bulkCreated, rowDone>>
  /\ retriedFrom' = [retriedFrom EXCEPT ![r] = NoRows]
  /\ UNCHANGED <<stepOneVars, rowsKept, chunkVars, rowSkipped, imported, sends>>

Step3Busy == uploading # 0 \/ retryingRows # {}

(* Every way out of the dialog is closed while its step is busy; closing   *)
(* resets it, and the wizard is opened again (once, to import once).       *)
CloseWizard ==
  /\ wizardOpen /\ ~(wizard.step = 1 /\ Step1Busy) /\ ~(wizard.step = 3 /\ Step3Busy)
  /\ session < MaxParses /\ session' = session + 1
  /\ wizardOpen' = (wizard.step # 3)
  /\ wizard' = FreshWizard
  /\ picking' = FALSE /\ encChanging' = FALSE /\ fullParsing' = FALSE
  /\ UNCHANGED <<parses, encToken, parsesSent, rowsKept, uploadVars>>

ImportNext ==
  \/ \E f \in Files, e \in Encodings : FilePick(f, e)
  \/ \E e \in Encodings : EncodingChange(e)
  \/ Continue \/ WizardBack \/ ImportRows \/ ChunkFails \/ RetryRemaining \/ CloseWizard
  \/ \E p \in parses : ParseEnds(p) \/ ParseThrows(p)
  \/ \E problem \in Refusals : ChunkAnswers(problem)
  \/ \E r \in RowIds : SkipRow(r) \/ RetryRow(r) \/ RetryRowAnswers(r)

ImportSpec == ImportInit /\ [][ImportNext]_importVars

------------------------------------------------------------------------------
(* Every row of an answered chunk is in exactly one place: counted as      *)
(* done, listed as an error, or skipped, however retries, skips and the    *)
(* next chunks' answers interleave; and when nothing is left to retry,     *)
(* every row has been answered, unless a pick of step 1 that ended late    *)
(* replaced the rows under the import.                                     *)
RowsAccounted ==
  /\ rowDone \cup Listed \cup rowSkipped = answered
  /\ rowDone \cap (Listed \cup rowSkipped) = {}
  /\ InStep(3) /\ uploading = 0 /\ chunkFailure = 0 /\ rowsKept => answered = RowsOf(imported)

(* A row is created at most once as long as no answer of a committed POST  *)
(* is lost, and a row counted as done was created, unless the rows were    *)
(* replaced under the import: a retry then sends a row of another file.    *)
CreatedOnce ==
  \A r \in RowIds : /\ "lose" \notin ImportFaults => bulkCreated[r] <= 1
                    /\ r \in rowDone /\ rowsKept => bulkCreated[r] > 0

==============================================================================

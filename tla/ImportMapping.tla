----------------------------- MODULE ImportMapping -----------------------------
(***************************************************************************)
(* Step 2 of the import and the payload built from it                      *)
(* (panel/src/features/attendees/import/wizardState.ts): which attendee    *)
(* key each column is written to, which rows are merged, and how the rows  *)
(* the backend refuses are traced back to the file.                        *)
(*                                                                         *)
(* A column or field name is a base with two marks: surrounding blanks and *)
(* capitals.  A sheet is a sequence of rows; a cell counts by what         *)
(* trim().toLowerCase() makes of it.                                       *)
(***************************************************************************)
EXTENDS Integers, SequencesExt

CONSTANTS
  StandardFields,  \* STANDARD_FIELD_KEYS
  OtherNames,      \* other bases a name may have; Blank is the empty one
  Headers,         \* the columns of the file, names
  Cells, Folded,   \* cell texts, and what trimming and lowering makes of each
  MaxSheet,        \* bounds the rows of a sheet
  ImportChunk      \* IMPORT_CHUNK_SIZE

Blank == ""
MapNames == [base : StandardFields \cup OtherNames \cup {Blank},
             padded : BOOLEAN, upper : BOOLEAN]
ASSUME MappingAssumption ==
  /\ Headers \subseteq MapNames /\ IsFiniteSet(Headers)
  /\ Blank \in Cells /\ Folded \in [Cells -> Cells] /\ Folded[Blank] = Blank
  /\ MaxSheet \in Nat /\ ImportChunk \in Nat \ {0}

VARIABLES
  mapping,     \* state.mapping
  sheet,       \* state.rows
  mapStep      \* state.step: 2 while mapping, 3 once "Import N rows" was pressed
mappingVars == <<mapping, sheet, mapStep>>

Standard(f) == [kind |-> "standard", name |-> [base |-> f, padded |-> FALSE, upper |-> FALSE]]
Custom(n)   == [kind |-> "custom", name |-> n]
NoName == [base |-> Blank, padded |-> FALSE, upper |-> FALSE]
Skip  == [kind |-> "skip", name |-> NoName]
Unset == [kind |-> "unset", name |-> NoName]
MappingTarget == {Standard(f) : f \in StandardFields} \cup {Custom(n) : n \in MapNames}
                 \cup {Skip, Unset}
Sheets == UNION {[1..n -> [Headers -> Cells]] : n \in 0..MaxSheet}

MappingTypeOK == mapping \in [Headers -> MappingTarget] /\ sheet \in Sheets /\ mapStep \in 2..3

------------------------------------------------------------------------------
(* validateMapping and the gate of "Import N rows".                        *)

Trimmed(n) == [n EXCEPT !.padded = FALSE]
Lowered(n) == [n EXCEPT !.upper = FALSE]
NormalizedName(n) == Lowered(Trimmed(n))
IsStandardName(n) == n.base \in StandardFields /\ n = NormalizedName(n)

BlankCustom(t) == t.kind = "custom" /\ t.name.base = Blank
Shadowing(t)   == t.kind = "custom" /\ IsStandardName(NormalizedName(t.name))
ValidationKey(t) == IF Shadowing(t) THEN NormalizedName(t.name) ELSE Trimmed(t.name)
Keyed(t) == t.kind \in {"standard", "custom"} /\ ~BlankCustom(t)

MappingProblems ==
  {h \in Headers :
     \/ BlankCustom(mapping[h]) \/ Shadowing(mapping[h])
     \/ /\ Keyed(mapping[h])
        /\ \E g \in Headers \ {h} : /\ Keyed(mapping[g])
                                    /\ ValidationKey(mapping[g]) = ValidationKey(mapping[h])}

HasUnsetColumn == \E h \in Headers : mapping[h].kind = "unset"

------------------------------------------------------------------------------
(* buildBulkPayload, dedupeByEmail, chunkArray, mapChunkRowToAbsolute.     *)

MappedTo(f) == {h \in Headers : mapping[h] = Standard(f)}

(* One turn of the loop: a row whose address was seen is merged.           *)
(* Mutant: rows without an address are merged.                             *)
VisitBlanks(acc, i, email) ==
  IF email \in acc.seen THEN acc
  ELSE [seen |-> acc.seen \cup {email}, kept |-> Append(acc.kept, i)]
Visit(acc, i, email) ==
  IF email \in acc.seen \ {Blank} THEN acc
  ELSE [seen |-> acc.seen \cup {email}, kept |-> Append(acc.kept, i)]

(* The loop of dedupeByEmail, after each row; the rows it kept.            *)
Visited(emailHeader) ==
  LET after[i \in 0..Len(sheet)] ==
        IF i = 0 THEN [seen |-> {}, kept |-> <<>>]
        ELSE Visit(after[i - 1], i, Folded[sheet[i][emailHeader]])
  IN after
Dedupe(emailHeaders) ==
  IF emailHeaders = {} THEN [i \in DOMAIN sheet |-> i]
  ELSE Visited(CHOOSE h \in emailHeaders : TRUE)[Len(sheet)].kept

OriginalRowIndices == Dedupe(MappedTo("email"))

PayloadKey(h) == mapping[h].name
PayloadHeaders == {h \in Headers : mapping[h].kind \in {"standard", "custom"}}
PayloadRow(i) == [h \in PayloadHeaders |-> sheet[i][h]]
Payload == [k \in DOMAIN OriginalRowIndices |-> PayloadRow(OriginalRowIndices[k])]

ChunkArray(items) ==
  [c \in 1..((Len(items) + ImportChunk - 1) \div ImportChunk) |->
     SubSeq(items, (c - 1) * ImportChunk + 1, Min({c * ImportChunk, Len(items)}))]

MapChunkRowToAbsolute(chunkIndex, row) == chunkIndex * ImportChunk + row

(* The row the error list names for the k-th row of chunk c (from 1; the   *)
(* code counts chunks from 0).                                             *)
ReportedRow(c, k) == OriginalRowIndices[MapChunkRowToAbsolute(c - 1, k)]

(* The bulk route (backend/internal/handler/bulk_import.go): a key that is *)
(* a standard field once lowered sets that field.                          *)
BulkSets(h, f) == h \in PayloadHeaders /\ Lowered(PayloadKey(h)) = Standard(f).name

------------------------------------------------------------------------------
DefaultTarget(h) == IF h.base \in StandardFields THEN Standard(h.base) ELSE Unset

MappingInit ==
  /\ sheet \in Sheets /\ mapStep = 2
  /\ mapping = [h \in Headers |-> DefaultTarget(h)]

(* The field select, or a key typed into the custom name.                  *)
MappingChange(h) ==
  /\ mapStep = 2
  /\ \E t \in MappingTarget \ {Unset} :
       /\ t.kind = "custom" => t.name = h \/ mapping[h].kind = "custom"
       /\ mapping' = [mapping EXCEPT ![h] = t]
  /\ UNCHANGED <<sheet, mapStep>>

PressImport ==
  /\ mapStep = 2 /\ ~HasUnsetColumn /\ MappingProblems = {}
  /\ mapStep' = 3 /\ UNCHANGED <<mapping, sheet>>

MappingNext == PressImport \/ \E h \in Headers : MappingChange(h)
MappingSpec == MappingInit /\ [][MappingNext]_mappingVars

------------------------------------------------------------------------------
(* What is imported loses no column: no two of them are written to one     *)
(* key, and the backend, which lowers keys but does not trim them, fills   *)
(* no standard field from a column that was not mapped to it.              *)
NoColumnOverwritten ==
  mapStep = 3 =>
    /\ \A g, h \in PayloadHeaders : PayloadKey(g) = PayloadKey(h) => g = h
    /\ \A h \in Headers, f \in StandardFields : BulkSets(h, f) => h \in MappedTo(f)
    /\ \A f \in StandardFields, g, h \in Headers : BulkSets(g, f) /\ BulkSets(h, f) => g = h

(* A row merged away has an earlier row with its address, and every row    *)
(* without an address is kept.                                             *)
MergesOnlyDuplicates ==
  \A h \in MappedTo("email") : Cardinality(MappedTo("email")) = 1 =>
    \A i \in DOMAIN sheet :
      \/ \E k \in DOMAIN OriginalRowIndices : OriginalRowIndices[k] = i
      \/ /\ Folded[sheet[i][h]] # Blank
         /\ \E k \in DOMAIN OriginalRowIndices :
              /\ OriginalRowIndices[k] < i
              /\ Folded[sheet[OriginalRowIndices[k]][h]] = Folded[sheet[i][h]]

(* The row an error names, and a retry or the error file uses, is the row  *)
(* of the file that was sent, in every chunk and after every merge; no two *)
(* sent rows share a number.                                               *)
ErrorsNameTheirRow ==
  LET chunks == ChunkArray(Payload) IN
  \A c \in DOMAIN chunks : \A k \in DOMAIN chunks[c] :
    /\ chunks[c][k] = PayloadRow(ReportedRow(c, k))
    /\ \A d \in DOMAIN chunks : \A l \in DOMAIN chunks[d] :
         ReportedRow(c, k) = ReportedRow(d, l) => <<c, k>> = <<d, l>>

(* What the wizard imports is what was mapped: columns, rows and the       *)
(* numbers of the rows the errors name.                                    *)
ImportsWhatWasMapped == NoColumnOverwritten /\ MergesOnlyDuplicates /\ ErrorsNameTheirRow
==============================================================================

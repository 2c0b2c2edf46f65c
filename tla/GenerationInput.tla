--------------------------- MODULE GenerationInput ---------------------------
(***************************************************************************)
(* The input of a generation from either source.  The CRM is the module    *)
(* CrmInput; this one adds the uploaded file: the request counts its rows  *)
(* and columns without parsing (api/generation/upload_shape.py), the       *)
(* worker parses (shared/data_loading.py) and counts again.  All decide    *)
(* over one limit (shared/problem_size.py), and a generation has exactly   *)
(* one source.                                                             *)
(*                                                                         *)
(* A CSV file is the sequence of its lines, by what the two counts tell    *)
(* apart:                                                                  *)
(*   record   a record and a line feed (or a carriage return before it)    *)
(*   quoted   a record with a line feed inside a quoted field              *)
(*   return   a record ended by a lone carriage return                     *)
(*   empty    nothing but the end of the line                              *)
(*   spaces   white space and a line feed                                  *)
(* The last line may lack its end.  A workbook is its true extent and the  *)
(* dimension record its writer put on the first sheet, if any.             *)
(* pandas and openpyxl are external: what they make of the lines is        *)
(* modelled as the worker relies on it (blank lines skipped, quotes and    *)
(* lone carriage returns understood, the true extent of a sheet).  The     *)
(* line feed of a quoted record is in its first field.                     *)
(***************************************************************************)
EXTENDS CrmInput, Sequences, SequencesExt

CONSTANTS
  MaxColumns,   \* bound on the columns of a file
  MaxLines,     \* bound on the lines of a file
  Unknown       \* None of measure: could not tell

ASSUME FileAssumption == MaxColumns \in Nat /\ MaxLines \in Nat

VARIABLES
  file,     \* the upload, or NoFile when the CRM is the source
  stage,    \* where the request, then the delivery, is
  shape,    \* what measure returned
  matrix    \* participants and timesteps of the parsed data

fileVars == <<file, stage, shape, matrix>>

LineKinds == {"record", "quoted", "return", "empty", "spaces"}

\* A carriage return before a line feed is one end of line, not two; and a
\* last line without its end is not empty.
WellFormed(lines, ended) ==
  /\ \A i \in 1 .. Len(lines) - 1 : lines[i] = "return" => lines[i + 1] # "empty"
  /\ ~ ended => lines # <<>> /\ lines[Len(lines)] \in {"record", "quoted", "spaces"}

CsvFiles ==
  {f \in [ext : {"csv"}, lines : BoundedSeq(LineKinds, MaxLines), ended : BOOLEAN,
          columns : 1 .. MaxColumns, injection : BOOLEAN] :
     WellFormed(f.lines, f.ended)}

\* dimension: absent, true, larger (it spans formatted cells) or
\* smaller (a writer that does not keep it).
Workbooks ==
  [ext : {"xlsx"}, columns : 1 .. MaxColumns, rows : 0 .. MaxLines,
   dimension : ((1 .. MaxColumns) \X (1 .. MaxLines)) \cup {Unknown},
   injection : BOOLEAN]

Unreadable == [ext : {"xlsx"}, broken : {TRUE}] \cup [ext : {"other"}]

Files == CsvFiles \cup Workbooks \cup Unreadable
NoFile == [ext |-> "none"]
NoMatrix == [participants |-> 0, timesteps |-> 0]

Broken(f) == "broken" \in DOMAIN f
-----------------------------------------------------------------------------
(***************************************************************************)
(* measure: (columns, data_rows), or Unknown.                              *)
(***************************************************************************)
LineFeeds(kind) ==
  CASE kind = "quoted" -> 2
    [] kind = "return" -> 0
    [] OTHER -> 1

\* The line feeds from the given line on.
Feeds(lines, first) ==
  SumFunctionOnSet([i \in 1 .. Len(lines) |-> LineFeeds(lines[i])], first .. Len(lines))

\* A plausible bug: the last line of a file counts only if it is ended.
EndedLines(f, first) ==
  IF f.ended THEN Feeds(f.lines, first) ELSE Feeds(f.lines, first) - 1

\* content.count(b"\n"), plus one for a content that does not end in one: a
\* last line without its end, which has a feed less, or one ended by a return.
PhysicalLines(f, first) ==
  IF f.ended /\ f.lines[Len(f.lines)] = "return"
  THEN Feeds(f.lines, first) + 1 ELSE Feeds(f.lines, first)

\* lstrip(b"\r\n") leaves the content from the first line that has a byte.
Filled(lines) == {i \in 1 .. Len(lines) : lines[i] # "empty"}

\* len(next(csv.reader([header]))) of the bytes up to the first line feed:
\* an open quote ends the row, white space is one field, and a carriage
\* return with more behind it is an error of csv.
HeaderFields(f, first) ==
  CASE f.lines[first] = "record" -> f.columns
    [] f.lines[first] \in {"quoted", "spaces"} -> 1
    [] OTHER -> IF first = Len(f.lines) THEN f.columns ELSE Unknown

MeasureCsvHeaderCounted(f) ==
  LET first == Min(Filled(f.lines))
  IN IF Filled(f.lines) = {} \/ HeaderFields(f, first) = Unknown THEN Unknown
     ELSE <<HeaderFields(f, first), PhysicalLines(f, first)>>

MeasureCsv(f) ==
  LET first == Min(Filled(f.lines))
  IN IF Filled(f.lines) = {} \/ HeaderFields(f, first) = Unknown THEN Unknown
     ELSE <<HeaderFields(f, first), PhysicalLines(f, first) - 1>>

\* The dimension record of the first sheet; the first row is the header.
MeasureXlsx(f) ==
  IF Broken(f) \/ f.dimension = Unknown THEN Unknown
  ELSE <<f.dimension[1], f.dimension[2] - 1>>

Measure(f) ==
  CASE f.ext = "csv" -> MeasureCsv(f)
    [] f.ext = "xlsx" -> MeasureXlsx(f)
    [] OTHER -> Unknown
-----------------------------------------------------------------------------
(***************************************************************************)
(* parse_file and to_algorithm_raw_data, as far as the size goes.          *)
(***************************************************************************)
Records(f) ==
  IF f.ext = "csv"
  THEN Cardinality({i \in 1 .. Len(f.lines) : f.lines[i] \in {"record", "quoted", "return"}})
  ELSE f.rows

\* No parser for the extension, a file its parser refuses, nothing to read a
\* header from, no such injection column: the generation fails.
Unparsable(f) ==
  f.ext = "other" \/ Broken(f) \/ Records(f) = 0 \/ ~ f.injection

Parsed(f) == [participants |-> f.columns - 1, timesteps |-> Records(f) - 1]

-----------------------------------------------------------------------------
FileInit ==
  /\ Init
  /\ file \in Files \cup {NoFile}
  /\ file # NoFile => crm = Empty
  /\ stage = "uploaded"
  /\ shape = Unknown
  /\ matrix = NoMatrix

\* start_generation after the body is read: no content is refused, then what
\* is counted to be too large; anything else is stored and queued.
HasContent(f) == f.ext = "csv" => f.lines # <<>>

AcceptUpload ==
  /\ stage = "uploaded"
  /\ shape' = IF HasContent(file) THEN Measure(file) ELSE Unknown
  /\ stage' = IF ~ HasContent(file) THEN "refused"
              ELSE IF shape' # Unknown /\ TooLarge(shape'[1] - 1, shape'[2])
              THEN "refused" ELSE "queued"
  /\ UNCHANGED <<file, matrix>>

\* _load_from_file parses what was stored.
LoadFile ==
  /\ stage = "queued"
  /\ IF Unparsable(file)
     THEN stage' = "failed" /\ UNCHANGED matrix
     ELSE stage' = "loaded" /\ matrix' = Parsed(file)
  /\ UNCHANGED <<file, shape>>

\* Step 3b of _process: the exact shape decides.
CheckSize ==
  /\ stage = "loaded"
  /\ stage' = IF TooLarge(matrix.participants, matrix.timesteps)
              THEN "too_large" ELSE "handed"
  /\ UNCHANGED <<file, shape, matrix>>

FileNext ==
  \/ file = NoFile /\ Next /\ UNCHANGED fileVars
  \/ file # NoFile /\ (AcceptUpload \/ LoadFile \/ CheckSize) /\ UNCHANGED vars

InputSpec == FileInit /\ [][FileNext]_<<vars, fileVars>>
-----------------------------------------------------------------------------
\* Lines as spreadsheet programs write them: line feeds at every end, the
\* header on one line.  Blank lines and quoted line feeds may still occur.
Ordinary(f) ==
  IF f.ext = "csv"
  THEN /\ Filled(f.lines) # {} /\ f.lines[Min(Filled(f.lines))] = "record"
       /\ \A i \in Filled(f.lines) : f.lines[i] # "return"
  ELSE /\ f.ext = "xlsx" /\ ~ Broken(f)
       /\ f.dimension # Unknown
          => f.dimension[1] >= f.columns /\ f.dimension[2] >= f.rows

(***************************************************************************)
(* A user whose ordinary file was counted and accepted is not told later   *)
(* that it is too large: the count errs on the high side                   *)
(* (api/generation/upload_shape.py:5-10), also without a final line feed,  *)
(* with blank lines and with line feeds in quoted fields.                  *)
(***************************************************************************)
CountErrsHigh ==
  stage = "too_large" => shape = Unknown \/ ~ Ordinary(file)

(***************************************************************************)
(* No file is refused at the request that the worker would take, unless it *)
(* has blank lines, quoted line feeds or a dimension record that spans     *)
(* more than its data: in particular not one of exactly the limit          *)
(* (shared/problem_size.py:27-31, api/generation/service.py:156-163).      *)
(***************************************************************************)
NotRefusedAtLimit ==
  (stage = "refused" /\ ~ Unparsable(file)) =>
    \/ TooLarge(Parsed(file).participants, Parsed(file).timesteps)
    \/ file.ext = "csv" /\ \E i \in 1 .. Len(file.lines) :
                             file.lines[i] \in {"quoted", "empty", "spaces"}
    \/ file.ext = "xlsx" /\ (\/ file.dimension[1] > file.columns
                             \/ file.dimension[2] > file.rows)

(***************************************************************************)
(* The request's rough count and the worker's exact one decide alike, up   *)
(* to what upload_shape.py:5-10 admits: neither a late refusal of an       *)
(* ordinary file nor an early one of a file that fits.                     *)
(***************************************************************************)
CountAgrees == CountErrsHigh /\ NotRefusedAtLimit

(***************************************************************************)
(* Refuted: "These counts ... err on the high side" for every file         *)
(* (api/generation/upload_shape.py:5-6).  A header behind a line of white  *)
(* space, a header field with a line feed, records ended by a carriage     *)
(* return and a dimension record that is too small are counted low.        *)
(***************************************************************************)
CountAlwaysErrsHigh ==
  stage = "too_large" => shape = Unknown
=============================================================================

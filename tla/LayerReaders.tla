---------------------------- MODULE LayerReaders ----------------------------
(***************************************************************************)
(* One dataset of a file driver, from FormatDriver::open to the last       *)
(* reader of its layer, with the check the BudgetedReader above makes of   *)
(* every batch it pulls.                                                   *)
(*                                                                         *)
(* Some drivers read the file twice, at open to infer a contract and again *)
(* for every reader (csv, geojson); some read it once and keep a spool     *)
(* (kml, dxf, xls); some find the contract declared in the file (ipc,      *)
(* geoparquet, filegdb).  Another process may put another file at the path *)
(* at any time: an open handle keeps the file it opened.                   *)
(*                                                                         *)
(* A row has one cell, its class, and a geometry, its type; "bad" is a     *)
(* cell the parser refuses, "late" one that only the reader's pass looks   *)
(* at (xy coordinates of csv, a repeated key of geojson).                  *)
(***************************************************************************)
EXTENDS Naturals, Sequences, FiniteSets, ColumnTypes

CONSTANTS
  Formats,       (* FormatDescriptor.id of the drivers tried               *)
  Files,         (* [column, types, rows]: a declared contract, the rows   *)
  Replacements,  (* what another process puts in the file's place          *)
  Readers,
  MaxRows,       (* ReadOptions::max_rows                                  *)
  MaxBatch,      (* AdaptiveBatchSizer::rows                               *)
  Target,        (* rows_per_batch of a BatchTargetReader                  *)
  MemoryRows,    (* DXF_SPOOL_MEMORY_LIMIT, in rows                        *)
  SpillCapacity  (* the spill gauge, a row weighs one                      *)

Spooled  == {"kml", "dxf", "xls"}
Declared == {"ipc", "geoparquet", "filegdb"}
Gated    == {"kml", "dxf", "xls", "filegdb"}
Targeted == {"kml", "dxf", "ipc"}

Rows == [cell : Classes \cup {"late", "bad"}, geom : STRING]

Types(row) == {row.geom} \ {"none"}

ASSUME LayerReadersAssumption ==
  /\ Formats \subseteq Spooled \cup Declared \cup {"csv", "geojson"}
  /\ Files \cup Replacements \subseteq
       [column : ColTypes, types : SUBSET STRING, rows : Seq(Rows)]
  /\ {MaxRows, MaxBatch, Target, MemoryRows, SpillCapacity} \subseteq Nat

VARIABLES
  format,
  file,       (* what is at the path                                       *)
  replaced,   (* bound: it is replaced once                                *)
  dataset,    (* "new", the pass of open, "open" or "refused"              *)
  handle,     (* the file the pass of open reads                           *)
  scanned,    (* its rows read so far                                      *)
  acc, seen,  (* the accumulator, the geometry types                       *)
  passes,     (* the files the passes of open have read                    *)
  contract,   (* [column, types]                                           *)
  spool,      (* the rows of the driver's spool                            *)
  on_disk,    (* the spool is a file                                       *)
  leases,     (* bytes the spool's writer holds of the spill gauge         *)
  gate,       (* SingleReaderGate.active                                   *)
  reader      (* the readers handed out                                    *)

vars == <<format, file, replaced, dataset, handle, scanned, acc, seen, passes,
          contract, spool, on_disk, leases, gate, reader>>

openVars  == <<scanned, acc, seen, passes, handle>>
spoolVars == <<spool, on_disk, leases>>

NoFile == [column |-> "Text", types |-> {}, rows |-> << >>]

Unused == [state |-> "none", lease |-> "none", source |-> NoFile, ready |-> FALSE,
           at |-> 0, pending |-> << >>, inner |-> FALSE, stopped |-> FALSE,
           answer |-> "none", delivered |-> << >>]

Init ==
  /\ format \in Formats
  /\ file \in Files
  /\ replaced = FALSE
  /\ dataset = "new"
  /\ handle = NoFile /\ scanned = 0 /\ acc = Fresh /\ seen = {} /\ passes = {}
  /\ contract = [column |-> "Text", types |-> {}]
  /\ spool = << >> /\ on_disk = FALSE /\ leases = 0
  /\ gate = FALSE
  /\ reader = [r \in Readers |-> Unused]

-----------------------------------------------------------------------------
(* open *)

Pass(name) ==
  /\ dataset' = name
  /\ handle' = file /\ passes' = passes \cup {file} /\ scanned' = 0
  /\ UNCHANGED <<format, file, replaced, acc, seen, contract, spoolVars, gate, reader>>

\* The first pass of the drivers that look at the rows.
Scan == dataset = "new" /\ format \notin Declared /\ Pass("scan")

More == scanned < Len(handle.rows)
Here == handle.rows[scanned + 1]

\* A row the parser takes, below the limit on rows.
Taken(row) == row.cell # "bad" /\ scanned < MaxRows

ClassOf(row) == IF row.cell = "late" THEN "null" ELSE row.cell

Advance(cells, types) ==
  /\ Taken(Here)
  /\ scanned' = scanned + 1
  /\ acc' = IF cells THEN Observe(acc, ClassOf(Here)) ELSE acc
  /\ seen' = IF types THEN seen \cup Types(Here) ELSE seen
  /\ UNCHANGED <<format, file, replaced, dataset, handle, passes, contract, gate, reader>>

\* csv reads the cells of the attributes in one pass, and the geometries in
\* another one that opens the file again.
InferCsv ==
  /\ format = "csv" /\ dataset = "scan" /\ More
  /\ Advance(TRUE, FALSE)
  /\ UNCHANGED spoolVars

ScanCsvGeometry == format = "csv" /\ dataset = "scan" /\ ~ More /\ Pass("geometry")

InferCsvGeometry ==
  /\ format = "csv" /\ dataset = "geometry" /\ More
  /\ Advance(FALSE, TRUE)
  /\ UNCHANGED spoolVars

InferGeoJson ==
  /\ format = "geojson" /\ dataset = "scan" /\ More
  /\ Advance(TRUE, TRUE)
  /\ UNCHANGED spoolVars

\* The rows that go to the spool's file with the next one.  dxf keeps rows in
\* memory up to a limit, then moves all of them to a file.
ToDisk ==
  IF format = "dxf" /\ ~ on_disk
  THEN IF Len(spool) < MemoryRows THEN 0 ELSE Len(spool) + 1
  ELSE 1

Fits == leases + ToDisk <= SpillCapacity

\* A lease of the spill gauge, then the bytes: the writer keeps the lease.
Write ==
  /\ Fits
  /\ leases' = leases + ToDisk
  /\ on_disk' = (on_disk \/ ToDisk > 0)
  /\ spool' = Append(spool, Here)

SpoolKml == format = "kml" /\ dataset = "scan" /\ More /\ Advance(FALSE, TRUE) /\ Write

SpoolDxf == format = "dxf" /\ dataset = "scan" /\ More /\ Advance(FALSE, TRUE) /\ Write

SpoolXls == format = "xls" /\ dataset = "scan" /\ More /\ Advance(TRUE, TRUE) /\ Write

\* The writer is dropped with its leases, the spool goes with the error.
RefuseRow ==
  /\ dataset \in {"scan", "geometry"} /\ More
  /\ ~ Taken(Here) \/ (format \in Spooled /\ ~ Fits)
  /\ dataset' = "refused"
  /\ spool' = << >> /\ on_disk' = FALSE /\ leases' = 0
  /\ UNCHANGED <<format, file, replaced, openVars, contract, gate, reader>>

\* finish of the spool's writer consumes it, and its leases with it.
Conclude ==
  /\ ~ More
  /\ dataset = IF format = "csv" THEN "geometry" ELSE "scan"
  /\ dataset' = "open"
  /\ contract' = [column |-> IF format \in {"kml", "dxf"} THEN "Text" ELSE ColumnType(acc),
                  types |-> seen]
  /\ leases' = 0
  /\ UNCHANGED <<format, file, replaced, openVars, spool, on_disk, gate, reader>>

\* The schema of the file is the contract: no row is read.
OpenDeclared ==
  /\ dataset = "new"
  /\ dataset' = "open"
  /\ handle' = file /\ passes' = {file}
  /\ contract' = [column |-> file.column, types |-> file.types]
  /\ UNCHANGED <<format, file, replaced, scanned, acc, seen, spoolVars, gate, reader>>

OpenIpc == format = "ipc" /\ OpenDeclared

OpenGeoParquet == format = "geoparquet" /\ OpenDeclared

OpenFileGdb == format = "filegdb" /\ OpenDeclared

-----------------------------------------------------------------------------
(* open_layer_reader *)

Set(r, value) ==
  /\ reader' = [reader EXCEPT ![r] = value]
  /\ UNCHANGED <<format, file, replaced, dataset, openVars, contract, spoolVars>>

Busy == format \in Gated /\ gate

\* What a reader made now reads: the spool, or a file opened here or by the
\* worker when it first runs.
Made(r) ==
  [Unused EXCEPT !.state = "live", !.inner = TRUE, !.stopped = reader[r].stopped,
     !.lease = IF format \in Gated THEN "held" ELSE "none",
     !.ready = format \notin {"csv", "geojson", "filegdb"},
     !.source = CASE format \in Spooled -> [NoFile EXCEPT !.rows = spool]
                  [] format \in {"ipc", "geoparquet"} -> file
                  [] OTHER -> NoFile]

\* The gate is taken by a compare_exchange before the reader is made, and
\* given back when making it fails.
OpenLayerReader(r) ==
  /\ dataset = "open" /\ reader[r].state = "none"
  /\ \/ /\ Busy
        /\ Set(r, [reader[r] EXCEPT !.state = "ended", !.answer = "busy"])
        /\ UNCHANGED gate
     \/ /\ ~ Busy
        /\ Set(r, Made(r))
        /\ gate' = (format \in Gated)
     \/ /\ ~ Busy
        /\ Set(r, [reader[r] EXCEPT !.state = "ended", !.answer = "failed"])
        /\ UNCHANGED gate

\* The worker opens the path on its own thread; filegdb compares the fields.
WorkerOpens(r) ==
  /\ reader[r].state = "live" /\ reader[r].inner /\ ~ reader[r].ready
  /\ Set(r, [reader[r] EXCEPT !.ready = TRUE, !.source = file])
  /\ UNCHANGED gate

-----------------------------------------------------------------------------
(* next_batch of the driver's reader, then of the adapters around it *)

\* What the driver's builders make of the cell of a row.  Only classes reach
\* a spool; there kml and dxf keep text, a declared column takes its own.
CellOfCsv(class) ==
  IF class \in Classes THEN AppendCell(contract.column, class) ELSE "refused"

CellOfGeoJson(class) ==
  IF class \in Classes THEN AppendJson(contract.column, class) ELSE "refused"

CellOfXls(class) ==
  IF class \in Classes THEN AppendJson(contract.column, class) ELSE "exact"

CellOfDeclared(class) == IF class \in Classes THEN "exact" ELSE "refused"

Cell(row) ==
  CASE format = "csv"            -> CellOfCsv(row.cell)
    [] format = "geojson"        -> CellOfGeoJson(row.cell)
    [] format = "xls"            -> CellOfXls(row.cell)
    [] format \in {"kml", "dxf"} -> "exact"
    [] format \in Declared       -> CellOfDeclared(row.cell)

SameColumn(r) == reader[r].source.column = contract.column

\* filegdb compares the fields before the first row (verifica_schema_invariato),
\* geoparquet puts its schema on every batch.
Readable(r, rows) ==
  /\ format = "filegdb" \/ (format = "geoparquet" /\ rows # << >>) => SameColumn(r)
  /\ \A i \in 1 .. Len(rows) : Cell(rows[i]) # "refused"

\* Mutant: only the schema of a batch is compared, not its geometries.
FitsSchema(r, rows) == format = "ipc" => SameColumn(r)

\* BudgetedReader: read_schemas_are_compatible, and the geometry types of the
\* contract when it has any (collect_read_violations).
FitsContract(r, rows) ==
  /\ format = "ipc" => SameColumn(r)
  /\ contract.types = {} \/ \A i \in 1 .. Len(rows) : Types(rows[i]) \subseteq contract.types

Rest(r) == SubSeq(reader[r].source.rows, reader[r].at + 1, Len(reader[r].source.rows))

Values(rows) == [i \in 1 .. Len(rows) |-> [row |-> rows[i], value |-> Cell(rows[i])]]

\* SingleActiveLayerReader: the lease goes with anything but a batch.
Released(r) == IF reader[r].lease = "held" THEN "released" ELSE reader[r].lease

\* Mutant: every release clears the flag, whoever took it meanwhile.
AnswerReleasing(r, answer, changed) ==
  /\ Set(r, [changed EXCEPT !.answer = answer])
  /\ gate' = (gate /\ changed.lease # "released")

\* ReaderLease::release is idempotent: only a held lease clears the flag.
Answer(r, answer, changed) ==
  /\ Set(r, [changed EXCEPT !.answer = answer])
  /\ gate' = (gate /\ ~ (reader[r].lease = "held" /\ changed.lease # "held"))

\* The driver's reader is over.  A CancellationReader drops it, a
\* BatchTargetReader keeps it.
Over(r) == [reader[r] EXCEPT !.lease = Released(r), !.inner = format \in Targeted]

\* What is over stays over.
AnswerAgain(r) ==
  /\ \/ reader[r].answer \in {"error", "stopped"}
     \/ reader[r].answer = "eof" /\ ~ reader[r].stopped
  /\ UNCHANGED vars

\* The token is asked first: the reader below is dropped, or kept as it is.
AnswerStopped(r) ==
  /\ reader[r].stopped /\ reader[r].answer \notin {"error", "stopped"}
  /\ Answer(r, "stopped",
       IF format \in Targeted THEN [reader[r] EXCEPT !.pending = << >>] ELSE Over(r))

Proceeds(r) ==
  ~ reader[r].stopped /\ reader[r].answer \in {"none", "batch"} /\ reader[r].ready

\* A batch reaches the BudgetedReader, which keeps it or fails: it does not
\* tell the readers below that it failed.
HandOut(r, rows, changed) ==
  IF FitsContract(r, rows)
  THEN Answer(r, "batch", [changed EXCEPT !.delivered = @ \o Values(rows)])
  ELSE Answer(r, "error", changed)

Slice(rows) == IF Len(rows) < Target THEN Len(rows) ELSE Target

\* A batch larger than the target is handed out in slices.
AnswerSlice(r) ==
  /\ Proceeds(r) /\ reader[r].pending # << >>
  /\ LET rows == reader[r].pending IN
     HandOut(r, SubSeq(rows, 1, Slice(rows)),
       [reader[r] EXCEPT !.pending = SubSeq(rows, Slice(rows) + 1, Len(rows))])

\* The next batch of the driver: as many rows as the sizer says, and any
\* number of those of an ipc file.
NextRows(r) ==
  {SubSeq(Rest(r), 1, k) : k \in {n \in 1 .. Len(Rest(r)) : n <= MaxBatch \/ format = "ipc"}}

AnswerBatch(r) ==
  /\ Proceeds(r) /\ reader[r].pending = << >>
  /\ \E rows \in NextRows(r) :
       /\ Readable(r, rows)
       /\ LET take == IF format \in Targeted THEN Slice(rows) ELSE Len(rows) IN
          HandOut(r, SubSeq(rows, 1, take),
            [reader[r] EXCEPT !.at = @ + Len(rows),
                              !.pending = SubSeq(rows, take + 1, Len(rows))])

\* A row of the next batch, or the whole file, is refused by the driver.
AnswerError(r) ==
  /\ Proceeds(r) /\ reader[r].pending = << >>
  /\ \E rows \in NextRows(r) \cup {<< >>} : ~ Readable(r, rows)
  /\ Answer(r, "error", Over(r))

AnswerEof(r) ==
  /\ Proceeds(r) /\ reader[r].pending = << >>
  /\ Rest(r) = << >> /\ Readable(r, << >>)
  /\ Answer(r, "eof", Over(r))

NextBatch(r) ==
  /\ reader[r].state = "live"
  /\ \/ AnswerAgain(r) \/ AnswerStopped(r) \/ AnswerSlice(r)
     \/ AnswerBatch(r) \/ AnswerError(r) \/ AnswerEof(r)

\* Early or late, a drop gives back what is still held.
DropReader(r) ==
  /\ reader[r].state = "live"
  /\ Answer(r, reader[r].answer,
       [reader[r] EXCEPT !.state = "ended", !.inner = FALSE, !.lease = Released(r),
                         !.pending = << >>])

-----------------------------------------------------------------------------
(* The caller's token, and another process *)

Stop(r) ==
  /\ ~ reader[r].stopped /\ reader[r].state # "ended"
  /\ Set(r, [reader[r] EXCEPT !.stopped = TRUE])
  /\ UNCHANGED gate

\* Bound: not under a spool that is complete, nobody reads the file any more.
Replace ==
  /\ ~ replaced /\ dataset # "refused"
  /\ dataset = "open" => format \notin Spooled
  /\ replaced' = TRUE
  /\ file' \in Replacements \ {file}
  /\ UNCHANGED <<format, dataset, openVars, contract, spoolVars, gate, reader>>

\* Nothing more to read.
Finished ==
  /\ dataset = "refused" \/ \A r \in Readers : reader[r].state = "ended"
  /\ UNCHANGED vars

Next ==
  \/ Scan \/ InferCsv \/ ScanCsvGeometry \/ InferCsvGeometry \/ InferGeoJson
  \/ SpoolKml \/ SpoolDxf \/ SpoolXls \/ RefuseRow \/ Conclude
  \/ OpenIpc \/ OpenGeoParquet \/ OpenFileGdb
  \/ \E r \in Readers :
       OpenLayerReader(r) \/ WorkerOpens(r) \/ NextBatch(r) \/ DropReader(r) \/ Stop(r)
  \/ Replace
  \/ Finished

Spec == Init /\ [][Next]_vars

-----------------------------------------------------------------------------
(* Properties *)

\* Whatever another process did to the file between the passes, a row that is
\* delivered has a geometry of the contract and a value its column can hold.
DeliveredFitsContract ==
  \A r \in Readers : \A i \in 1 .. Len(reader[r].delivered) :
    LET row == reader[r].delivered[i].row IN
    /\ contract.types = {} \/ Types(row) \subseteq contract.types
    /\ IF format \in Declared THEN SameColumn(r)
       ELSE row.cell \in Native(contract.column) \cup {"null", "late"}

\* The passes of open and the reader met the same file.
OneFile(r) ==
  Cardinality(passes \cup (IF format \in Spooled THEN {} ELSE {reader[r].source})) = 1

\* What the pass of open could not judge: what only a reader looks at, and the
\* geometry type of a row that a contract declared in the file does not name.
Unjudged(row) ==
  \/ row.cell \in {"bad", "late"}
  \/ format \in Declared /\ contract.types # {} /\ ~ Types(row) \subseteq contract.types

\* The second pass takes what the first took: a file nobody replaced is
\* delivered to its last row and without rounding, or fails on a row that the
\* first pass could not have judged.
UnchangedFileIsDelivered ==
  \A r \in Readers : OneFile(r) =>
    /\ reader[r].answer = "eof" =>
         reader[r].delivered =
           [i \in 1 .. Len(handle.rows) |-> [row |-> handle.rows[i], value |-> "exact"]]
    /\ reader[r].answer = "error" =>
         \E i \in 1 .. Len(handle.rows) : Unjudged(handle.rows[i])

\* However readers of a gated driver end, in whatever order: the gate is shut
\* while one of them holds it, only then, and never for two of them.
GateIsExact ==
  /\ gate <=> \E r \in Readers : reader[r].lease = "held"
  /\ \A r, s \in Readers : reader[r].lease = "held" /\ reader[s].lease = "held" => r = s
  /\ \A r \in Readers :
       reader[r].state = "ended" \/ reader[r].answer = "eof" => reader[r].lease # "held"

\* What the drivers' comments say of the reservations of a spool: they live as
\* long as the temporary file.
SpoolStaysReserved == on_disk => leases >= Len(spool)

=============================================================================

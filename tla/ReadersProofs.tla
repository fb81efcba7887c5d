---------------------------- MODULE ReadersProofs -----------------------------
(***************************************************************************)
(* One reader at a time, for any number of readers of a layer, any file    *)
(* and any way in which each of them ends; what the readers deliver while  *)
(* another process replaces the file: rows of the contract, and of a file  *)
(* that stays in its place all of them, each with its exact value; the     *)
(* pages of a GeoPackage layer while others write to it; the row groups a  *)
(* GeoParquet reader may skip; and the rows of a shapefile.                *)
(***************************************************************************)
EXTENDS LayerReaders, GpkgPaging, RowGroupPruning, ShapefileRows, FiniteSetTheorems,
        SequenceTheorems, TLAPS

Fields == {"state", "lease", "source", "ready", "at", "pending", "inner", "stopped",
           "answer", "delivered"}

Lookups ==
  /\ gate \in BOOLEAN
  /\ DOMAIN reader = Readers
  /\ \A r \in Readers : DOMAIN reader[r] = Fields

\* Only readers of a gated driver hold a lease, and only once they are made.
LeaseOfMade ==
  \A r \in Readers :
    reader[r].lease = "held" => format \in Gated /\ reader[r].state = "live"

GateInv == Lookups /\ LeaseOfMade /\ GateIsExact

LEMMA GateInit == Init => GateInv
<1>. SUFFICES ASSUME Init PROVE GateInv
  OBVIOUS
<1>1. DOMAIN Unused = Fields /\ Unused.lease = "none"
  BY DEF Unused, Fields
<1>2. gate = FALSE /\ reader = [r \in Readers |-> Unused]
  BY DEF Init
<1>. QED  BY <1>1, <1>2 DEF GateInv, Lookups, LeaseOfMade, GateIsExact

\* What any step of a reader does to its lease: it keeps it or gives it back,
\* and the gate opens if it does.
LeaseMove(r, new) ==
  /\ DOMAIN new = Fields
  /\ reader' = [reader EXCEPT ![r] = new]
  /\ format' = format
  /\ new.lease = reader[r].lease \/ (reader[r].lease = "held" /\ new.lease = "released")
  /\ gate' = (gate /\ ~ (reader[r].lease = "held" /\ new.lease # "held"))
  /\ new.state = reader[r].state \/ new.lease # "held"
  /\ new.answer = "eof" => new.lease # "held"

LEMMA MoveKeeps ==
  ASSUME GateInv, NEW r \in Readers, NEW new, LeaseMove(r, new)
  PROVE  GateInv'
<1>. USE DEF GateInv, Lookups, LeaseMove
<1>1. /\ reader'[r] = new
      /\ \A s \in Readers \ {r} : reader'[s] = reader[s]
  OBVIOUS
<1>2. Lookups'
  BY <1>1
<1>3. LeaseOfMade'
  BY <1>1 DEF LeaseOfMade
<1>4. GateIsExact'
  <2>1. gate' <=> \E s \in Readers : reader'[s].lease = "held"
    BY <1>1 DEF GateIsExact
  <2>2. \A s, t \in Readers : reader'[s].lease = "held" /\ reader'[t].lease = "held" => s = t
    BY <1>1 DEF GateIsExact
  <2>3. \A s \in Readers :
          reader'[s].state = "ended" \/ reader'[s].answer = "eof" => reader'[s].lease # "held"
    BY <1>1 DEF GateIsExact, LeaseOfMade
  <2>. QED  BY <2>1, <2>2, <2>3 DEF GateIsExact
<1>. QED  BY <1>2, <1>3, <1>4

\* A reader that failed to be made, or found the gate shut, holds nothing; one
\* that is made holds the lease if the driver has a gate.
LEMMA OpenKeeps == ASSUME GateInv, NEW r \in Readers, OpenLayerReader(r) PROVE GateInv'
<1>. USE DEF GateInv, Lookups
<1>1. reader[r].state = "none" /\ reader[r].lease # "held"
  BY DEF OpenLayerReader, LeaseOfMade
<1>2. ASSUME NEW why, UNCHANGED gate,
             Set(r, [reader[r] EXCEPT !.state = "ended", !.answer = why])
      PROVE  GateInv'
  <2>. DEFINE new == [reader[r] EXCEPT !.state = "ended", !.answer = why]
  <2>1. DOMAIN new = Fields /\ new.lease = reader[r].lease
    BY DEF Fields
  <2>2. reader' = [reader EXCEPT ![r] = new] /\ format' = format
    BY <1>2 DEF Set
  <2>. HIDE DEF new
  <2>3. LeaseMove(r, new)
    BY <1>1, <1>2, <2>1, <2>2 DEF LeaseMove
  <2>. QED  BY <2>3, MoveKeeps
<1>3. ASSUME ~ Busy, Set(r, Made(r)), gate' = (format \in Gated) PROVE GateInv'
  <2>1. /\ DOMAIN Made(r) = Fields /\ Made(r).state = "live" /\ Made(r).answer = "none"
        /\ Made(r).lease = IF format \in Gated THEN "held" ELSE "none"
    BY DEF Made, Unused, Fields
  <2>2. reader' = [reader EXCEPT ![r] = Made(r)] /\ format' = format
    BY <1>3 DEF Set
  <2>3. \A s \in Readers : reader[s].lease # "held"
    BY <1>3 DEF Busy, GateIsExact, LeaseOfMade
  <2>4. /\ reader'[r] = Made(r)
        /\ \A s \in Readers \ {r} : reader'[s] = reader[s]
    BY <2>2
  <2>5. Lookups' /\ LeaseOfMade'
    BY <1>3, <2>1, <2>2, <2>4 DEF LeaseOfMade
  <2>6. gate' <=> \E s \in Readers : reader'[s].lease = "held"
    BY <1>3, <2>1, <2>3, <2>4
  <2>7. \A s, t \in Readers : reader'[s].lease = "held" /\ reader'[t].lease = "held" => s = t
    BY <2>3, <2>4
  <2>8. \A s \in Readers :
          reader'[s].state = "ended" \/ reader'[s].answer = "eof" => reader'[s].lease # "held"
    BY <2>1, <2>3, <2>4
  <2>. QED  BY <2>5, <2>6, <2>7, <2>8 DEF GateIsExact
<1>. QED  BY <1>2, <1>3 DEF OpenLayerReader

\* What a reader answers, with the lease it had or without it.
LEMMA AnswerKeeps ==
  ASSUME GateInv, NEW r \in Readers, NEW answer, NEW changed,
         Answer(r, answer, changed), DOMAIN changed = Fields,
         changed.lease \in {reader[r].lease, Released(r)},
         changed.state = reader[r].state \/ changed.lease = Released(r),
         answer = "eof" => changed.lease # "held"
  PROVE  GateInv'
<1>. DEFINE new == [changed EXCEPT !.answer = answer]
<1>1. /\ DOMAIN new = Fields /\ new.lease = changed.lease /\ new.state = changed.state
      /\ new.answer = answer
  BY DEF Fields
<1>2. reader' = [reader EXCEPT ![r] = new] /\ format' = format
      /\ gate' = (gate /\ ~ (reader[r].lease = "held" /\ changed.lease # "held"))
  BY DEF Answer, Set
<1>. HIDE DEF new
<1>3. LeaseMove(r, new)
  BY <1>1, <1>2 DEF LeaseMove, Released
<1>. QED  BY <1>3, MoveKeeps

\* A batch, and the error of one that does not fit, leave the lease alone.
LEMMA HandOutKeeps ==
  ASSUME GateInv, NEW r \in Readers, NEW taken, NEW changed, HandOut(r, taken, changed),
         DOMAIN changed = Fields, changed.lease = reader[r].lease, changed.state = reader[r].state
  PROVE  GateInv'
<1>. DEFINE more == [changed EXCEPT !.delivered = @ \o Values(taken)]
<1>1. DOMAIN more = Fields /\ more.lease = reader[r].lease /\ more.state = reader[r].state
  BY DEF Fields
<1>. HIDE DEF more
<1>2. Answer(r, "batch", more) \/ Answer(r, "error", changed)
  BY DEF HandOut, more
<1>. QED  BY <1>1, <1>2, AnswerKeeps

LEMMA NextBatchKeeps == ASSUME GateInv, NEW r \in Readers, NextBatch(r) PROVE GateInv'
<1>. USE DEF GateInv, Lookups
<1>1. /\ DOMAIN Over(r) = Fields /\ Over(r).lease = Released(r) /\ Over(r).state = reader[r].state
  BY DEF Over, Fields
<1>2. CASE AnswerAgain(r)
  BY <1>2 DEF AnswerAgain, vars, LeaseOfMade, GateIsExact
<1>3. CASE AnswerStopped(r)
  <2>. DEFINE halted == [reader[r] EXCEPT !.pending = << >>]
  <2>1. DOMAIN halted = Fields /\ halted.lease = reader[r].lease /\ halted.state = reader[r].state
    BY DEF Fields
  <2>. HIDE DEF halted
  <2>2. Answer(r, "stopped", halted) \/ Answer(r, "stopped", Over(r))
    BY <1>3 DEF AnswerStopped, halted
  <2>. QED  BY <1>1, <2>1, <2>2, AnswerKeeps
<1>4. CASE AnswerSlice(r)
  <2>1. PICK taken, rest : HandOut(r, taken, [reader[r] EXCEPT !.pending = rest])
    BY <1>4 DEF AnswerSlice
  <2>. DEFINE changed == [reader[r] EXCEPT !.pending = rest]
  <2>2. DOMAIN changed = Fields /\ changed.lease = reader[r].lease /\ changed.state = reader[r].state
    BY DEF Fields
  <2>. HIDE DEF changed
  <2>3. HandOut(r, taken, changed)
    BY <2>1 DEF changed
  <2>. QED  BY <2>2, <2>3, HandOutKeeps
<1>5. CASE AnswerBatch(r)
  <2>1. PICK taken, place, rest : HandOut(r, taken, [reader[r] EXCEPT !.at = place, !.pending = rest])
    BY <1>5 DEF AnswerBatch
  <2>. DEFINE changed == [reader[r] EXCEPT !.at = place, !.pending = rest]
  <2>2. DOMAIN changed = Fields /\ changed.lease = reader[r].lease /\ changed.state = reader[r].state
    BY DEF Fields
  <2>. HIDE DEF changed
  <2>3. HandOut(r, taken, changed)
    BY <2>1 DEF changed
  <2>. QED  BY <2>2, <2>3, HandOutKeeps
<1>6. CASE AnswerError(r)
  BY <1>1, <1>6, AnswerKeeps DEF AnswerError
<1>7. CASE AnswerEof(r)
  <2>1. Answer(r, "eof", Over(r)) /\ Released(r) # "held"
    BY <1>7 DEF AnswerEof, Released
  <2>. QED  BY <1>1, <2>1, AnswerKeeps
<1>. QED  BY <1>2, <1>3, <1>4, <1>5, <1>6, <1>7 DEF NextBatch

LEMMA DropKeeps == ASSUME GateInv, NEW r \in Readers, DropReader(r) PROVE GateInv'
<1>. USE DEF GateInv, Lookups
<1>. DEFINE new == [reader[r] EXCEPT !.state = "ended", !.inner = FALSE, !.lease = Released(r),
                                     !.pending = << >>]
<1>1. DOMAIN new = Fields /\ new.lease = Released(r) /\ Released(r) # "held"
  BY DEF Fields, Released
<1>. HIDE DEF new
<1>2. Answer(r, reader[r].answer, new)
  BY DEF DropReader, new
<1>. QED  BY <1>1, <1>2, AnswerKeeps

LEMMA GateStep == GateInv /\ [Next]_vars => GateInv'
<1>. SUFFICES ASSUME GateInv, [Next]_vars PROVE GateInv'
  OBVIOUS
<1>. USE DEF GateInv, Lookups
\* open, another process, and what changes nothing
<1>1. ASSUME UNCHANGED <<format, gate, reader>> PROVE GateInv'
  BY <1>1 DEF LeaseOfMade, GateIsExact
<1>2. CASE \/ Scan \/ InferCsv \/ ScanCsvGeometry \/ InferCsvGeometry \/ InferGeoJson
           \/ SpoolKml \/ SpoolDxf \/ SpoolXls \/ RefuseRow \/ Conclude
           \/ OpenIpc \/ OpenGeoParquet \/ OpenFileGdb \/ Replace \/ Finished \/ UNCHANGED vars
  BY <1>1, <1>2 DEF Scan, Pass, Advance, InferCsv, ScanCsvGeometry, InferCsvGeometry, InferGeoJson,
       SpoolKml, SpoolDxf, SpoolXls, RefuseRow, Conclude, OpenDeclared, OpenIpc, OpenGeoParquet,
       OpenFileGdb, Replace, Finished, vars
\* a worker opens its file, a caller stops a reader
<1>3. ASSUME NEW r \in Readers, WorkerOpens(r) \/ Stop(r) PROVE GateInv'
  <2>1. ASSUME NEW new, Set(r, new), gate' = gate, DOMAIN new = Fields, new.lease = reader[r].lease,
               new.state = reader[r].state, new.answer = reader[r].answer
        PROVE  GateInv'
    <3>1. LeaseMove(r, new)
      BY <2>1 DEF LeaseMove, Set, GateIsExact
    <3>. QED  BY <3>1, MoveKeeps
  <2>2. CASE WorkerOpens(r)
    <3>. DEFINE new == [reader[r] EXCEPT !.ready = TRUE, !.source = file]
    <3>1. /\ DOMAIN new = Fields /\ new.lease = reader[r].lease
          /\ new.state = reader[r].state /\ new.answer = reader[r].answer
      BY DEF Fields
    <3>2. Set(r, new) /\ gate' = gate
      BY <2>2 DEF WorkerOpens
    <3>. QED  BY <2>1, <3>1, <3>2
  <2>3. CASE Stop(r)
    <3>. DEFINE new == [reader[r] EXCEPT !.stopped = TRUE]
    <3>1. /\ DOMAIN new = Fields /\ new.lease = reader[r].lease
          /\ new.state = reader[r].state /\ new.answer = reader[r].answer
      BY DEF Fields
    <3>2. Set(r, new) /\ gate' = gate
      BY <2>3 DEF Stop
    <3>. QED  BY <2>1, <3>1, <3>2
  <2>. QED  BY <1>3, <2>2, <2>3
<1>. QED  BY <1>2, <1>3, OpenKeeps, NextBatchKeeps, DropKeeps DEF Next

\* The gate of a layer is shut exactly while one of its readers holds it: no
\* two hold it, and it opens at the end of the scan, at an error of the driver
\* and at the drop, once (SingleReaderGate, ReaderLease::release).
THEOREM GateExact == Spec => []GateIsExact
<1>1. Init => GateInv
  BY GateInit
<1>2. GateInv /\ [Next]_vars => GateInv'
  BY GateStep
<1>3. GateInv => GateIsExact
  BY DEF GateInv
<1>. QED  BY <1>1, <1>2, <1>3, PTL DEF Spec

-----------------------------------------------------------------------------
(* What is delivered *)

Judging == {"csv", "geojson", "xls"}     \* the column is inferred from the cells

\* A class that an accumulator has been told of.
Told(total, class) ==
  class # "null" =>
    /\ total.any
    /\ total.all_int => class \in {"int", "wide"}
    /\ total.all_num => class \in {"int", "wide", "frac"}
    /\ total.all_bool => class = "bool"
    /\ class = "frac" => total.has_fractional_number
    /\ class = "wide" => total.has_wide_integer

\* What is a number and not always whole was fractional once.
Sound(total) == total.all_num /\ ~ total.all_int => total.has_fractional_number

Accumulators == [any : BOOLEAN, all_int : BOOLEAN, all_num : BOOLEAN, all_bool : BOOLEAN,
           has_fractional_number : BOOLEAN, has_wide_integer : BOOLEAN]

\* Files, and what stands for one in a reader.
Content == [column : ColTypes, types : SUBSET STRING, rows : Seq(Rows)]

DatasetOK ==
  /\ format \in Formats
  /\ dataset \in {"new", "scan", "geometry", "open", "refused"}
  /\ file \in Content
  /\ handle \in Content
  /\ scanned \in 0 .. Len(handle.rows)
  /\ acc \in Accumulators /\ Sound(acc)
  /\ seen \in SUBSET STRING
  /\ IsFiniteSet(passes)
  /\ contract \in [column : ColTypes, types : SUBSET STRING]
  /\ spool \in Seq(Rows)

\* The first n rows of a file were taken by the pass that infers the column.
JudgedTo(f, n) ==
  \A i \in 1 .. n :
    f.rows[i].cell # "bad" /\ (format \in Judging => Told(acc, ClassOf(f.rows[i])))

TypesTo(n) == \A i \in 1 .. n : Types(handle.rows[i]) \subseteq seen

\* What the passes of open know of the files they read: the last of them read
\* the handle, the one before it (csv) may have read another file.
PassesOK ==
  /\ dataset = "new" => passes = {} /\ scanned = 0 /\ spool = << >>
  /\ dataset # "new" => handle \in passes /\ (format # "csv" => passes = {handle})
  /\ dataset = "scan" =>
       /\ format \notin Declared /\ passes = {handle} /\ JudgedTo(handle, scanned)
       /\ format # "csv" => TypesTo(scanned)
  /\ dataset = "geometry" => format = "csv" /\ TypesTo(scanned)
  /\ dataset = "geometry" \/ (dataset = "open" /\ format \notin Declared) =>
       \E f \in passes : JudgedTo(f, Len(f.rows))
  /\ dataset = "open" /\ format \notin Declared =>
       /\ scanned = Len(handle.rows) /\ TypesTo(scanned)
       /\ contract = [column |-> IF format \in {"kml", "dxf"} THEN "Text" ELSE ColumnType(acc),
                      types |-> seen]
  /\ dataset = "open" /\ format \in Declared =>
       contract = [column |-> handle.column, types |-> handle.types]
  /\ dataset # "refused" /\ format \in Spooled =>
       Len(spool) = scanned /\ \A i \in 1 .. scanned : spool[i] = handle.rows[i]

Delivered == [row : Rows, value : {"exact", "rounded", "refused"}]

Record == [state : {"none", "live", "ended"}, lease : {"none", "held", "released"},
           source : Content, ready : BOOLEAN, at : Nat, pending : Seq(Rows), inner : BOOLEAN,
           stopped : BOOLEAN, answer : {"none", "batch", "eof", "error", "stopped", "busy", "failed"},
           delivered : Seq(Delivered)]

\* A row that the driver made a batch of.
Fine(row) == Cell(row) # "refused" /\ (format \in Spooled => row.cell # "bad")

Admitted(row) == contract.types = {} \/ Types(row) \subseteq contract.types

\* The rows delivered are the first ones of the source.
Follows(x) ==
  /\ Len(x.delivered) <= Len(x.source.rows)
  /\ \A i \in 1 .. Len(x.delivered) :
       x.delivered[i] = [row |-> x.source.rows[i], value |-> Cell(x.source.rows[i])]

OneSource(x) == Cardinality(passes \cup (IF format \in Spooled THEN {} ELSE {x.source})) = 1

\* A reader reads one source from a row to the next one: it has delivered the
\* first rows, it keeps the next ones, and all of them are fine.
GoodReader(x) ==
  /\ x.state # "none" => dataset = "open"
  /\ x.state = "none" => ~ x.ready
  /\ ~ x.ready =>
       /\ x.delivered = << >> /\ x.pending = << >> /\ x.at = 0
       /\ x.answer \notin {"batch", "eof", "error"}
  /\ x.state = "live" /\ format \in Spooled => x.ready
  /\ x.ready /\ format \in Spooled => x.source.rows = spool
  /\ format \notin Targeted => x.pending = << >>
  /\ \A i \in 1 .. Len(x.pending) : Fine(x.pending[i])
  /\ \A i \in 1 .. Len(x.delivered) :
       Fine(x.delivered[i].row) /\ Admitted(x.delivered[i].row)
  /\ format \in Declared /\ x.delivered # << >> => x.source.column = contract.column
  /\ x.state = "live" /\ x.answer \in {"none", "batch"} =>
       /\ Follows(x)
       /\ x.at = Len(x.delivered) + Len(x.pending) /\ x.at <= Len(x.source.rows)
       /\ \A i \in 1 .. Len(x.pending) : x.pending[i] = x.source.rows[Len(x.delivered) + i]
  /\ x.answer = "eof" => Follows(x) /\ Len(x.delivered) = Len(x.source.rows)
  /\ x.answer = "error" /\ OneSource(x) =>
       \E i \in 1 .. Len(handle.rows) : Unjudged(handle.rows[i])

ReadersOK ==
  /\ reader \in [Readers -> Record]
  /\ \A x \in {reader[r] : r \in Readers} : GoodReader(x)

DeliveryInv == DatasetOK /\ PassesOK /\ ReadersOK

LEMMA ObserveTells ==
  ASSUME NEW total \in Accumulators, Sound(total), NEW class \in Classes
  PROVE  /\ Observe(total, class) \in Accumulators /\ Sound(Observe(total, class))
         /\ Told(Observe(total, class), class)
         /\ \A other : Told(total, other) => Told(Observe(total, class), other)
<1>1. CASE class = "null"
  BY <1>1 DEF Observe, Told
<1>2. CASE class # "null"
  <2>. DEFINE new == Observe(total, class)
  <2>1. /\ new.any
        /\ new.all_int <=> total.all_int /\ class \in {"int", "wide"}
        /\ new.all_num <=> total.all_num /\ class \in {"int", "wide", "frac"}
        /\ new.all_bool <=> total.all_bool /\ class = "bool"
        /\ new.has_fractional_number <=> total.has_fractional_number \/ class = "frac"
        /\ new.has_wide_integer <=> total.has_wide_integer \/ class = "wide"
    BY <1>2 DEF Observe
  <2>2. new \in Accumulators
    BY <1>2 DEF Observe, Accumulators
  <2>. HIDE DEF new
  <2>3. Sound(new) /\ Told(new, class)
    BY <2>1 DEF Sound, Told
  <2>4. ASSUME NEW other, Told(total, other) PROVE Told(new, other)
    BY <2>1, <2>4 DEF Told
  <2>. QED  BY <2>2, <2>3, <2>4 DEF new
<1>. QED  BY <1>1, <1>2

\* The type that is inferred holds every cell that was observed, exactly.
LEMMA ColumnHoldsTold ==
  ASSUME NEW total \in Accumulators, Sound(total), NEW class \in Classes, Told(total, class)
  PROVE  /\ AppendJson(ColumnType(total), class) = "exact"
         /\ AppendCell(ColumnType(total), class) = "exact"
<1>1. /\ class \in Native(ColumnType(total)) \cup {"null"}
      /\ ~ (ColumnType(total) = "Number" /\ class = "wide")
  BY DEF Accumulators, Sound, Classes, Told, ColumnType, Native
<1>. QED  BY <1>1 DEF AppendJson, AppendCell

LEMMA ColumnTypeIn == ASSUME NEW total PROVE ColumnType(total) \in ColTypes
BY DEF ColumnType, ColTypes

\* What the drivers' builders answer.
LEMMA CellIs ==
  ASSUME format \in Formats, NEW row \in Rows
  PROVE  /\ Cell(row) \in {"exact", "rounded", "refused"}
         /\ format \in Declared \cup {"kml", "dxf"} => Cell(row) \in {"exact", "refused"}
         /\ format \in Declared /\ Cell(row) = "refused" => row.cell \in {"bad", "late"}
         /\ format \in {"kml", "dxf"} => Cell(row) = "exact"
         /\ format = "csv" => Cell(row) = CellOfCsv(row.cell)
         /\ format = "geojson" => Cell(row) = CellOfGeoJson(row.cell)
         /\ format = "xls" => Cell(row) = CellOfXls(row.cell)
<1>. USE LayerReadersAssumption DEF Spooled, Declared
<1>1. row.cell \in Classes \cup {"late", "bad"}
  BY DEF Rows
<1>2. \A column, class : AppendJson(column, class) \in {"exact", "rounded", "refused"}
  BY DEF AppendJson
<1>3. \A column, class : AppendCell(column, class) \in {"exact", "rounded", "refused"}
  BY <1>2 DEF AppendCell
<1>4. CASE format = "csv"
  <2>1. Cell(row) = CellOfCsv(row.cell)
    BY <1>4 DEF Cell
  <2>. QED  BY <1>3, <1>4, <2>1 DEF CellOfCsv
<1>5. CASE format = "geojson"
  <2>1. Cell(row) = CellOfGeoJson(row.cell)
    BY <1>5 DEF Cell
  <2>. QED  BY <1>2, <1>5, <2>1 DEF CellOfGeoJson
<1>6. CASE format = "xls"
  <2>1. Cell(row) = CellOfXls(row.cell)
    BY <1>6 DEF Cell
  <2>. QED  BY <1>2, <1>6, <2>1 DEF CellOfXls
<1>7. CASE format \in {"kml", "dxf"}
  BY <1>7 DEF Cell
<1>8. CASE format \in Declared
  <2>1. Cell(row) = CellOfDeclared(row.cell)
    BY <1>8 DEF Cell
  <2>. QED  BY <1>1, <1>8, <2>1 DEF CellOfDeclared
<1>. QED  BY <1>4, <1>5, <1>6, <1>7, <1>8

\* A row that the driver made a batch of fits the column of the contract.
LEMMA FineFits ==
  ASSUME DatasetOK, PassesOK, dataset = "open", format \notin Declared, NEW row \in Rows, Fine(row)
  PROVE  row.cell \in Native(contract.column) \cup {"null", "late"}
<1>1. row.cell \in Classes \cup {"late", "bad"} /\ format \in Formats
  BY DEF Rows, DatasetOK
<1>2. \A class : AppendJson(contract.column, class) # "refused" => class \in Native(contract.column) \cup {"null"}
  BY DEF AppendJson
<1>3. \A class : AppendCell(contract.column, class) # "refused" => class \in Native(contract.column) \cup {"null"}
  BY <1>2 DEF AppendCell
<1>4. CASE format = "csv"
  BY <1>1, <1>3, <1>4, CellIs DEF Fine, CellOfCsv
<1>5. CASE format = "geojson"
  BY <1>1, <1>2, <1>5, CellIs DEF Fine, CellOfGeoJson
<1>6. CASE format = "xls"
  BY <1>1, <1>2, <1>6, CellIs DEF Fine, CellOfXls, Spooled
<1>7. CASE format \in {"kml", "dxf"}
  <2>1. contract.column = "Text"
    BY <1>7 DEF PassesOK
  <2>2. row.cell # "bad"
    BY <1>7 DEF Fine, Spooled
  <2>. QED  BY <1>1, <2>1, <2>2 DEF Native
<1>. QED  BY <1>1, <1>4, <1>5, <1>6, <1>7, LayerReadersAssumption DEF Spooled, Declared

\* Of the one file that open read: a row is admitted, and is delivered as it
\* is unless only the reader's pass could refuse it.
LEMMA JudgedCell ==
  ASSUME DatasetOK, PassesOK, dataset = "open", passes = {handle}, NEW i \in 1 .. Len(handle.rows)
  PROVE  LET row == handle.rows[i] IN
         /\ Cell(row) \in {"exact", "refused"}
         /\ Cell(row) = "refused" \/ ~ Admitted(row) => Unjudged(row)
<1>. DEFINE row == handle.rows[i]
<1>1. handle.rows \in Seq(Rows) /\ format \in Formats
  BY DEF DatasetOK, Content
<1>2. row \in Rows /\ row.cell \in Classes \cup {"late", "bad"}
  <2>1. row \in Rows
    BY <1>1
  <2>. QED  BY <2>1 DEF Rows
<1>3. CASE format \in Declared
  <2>1. ~ Admitted(row) => Unjudged(row)
    BY <1>3 DEF Admitted, Unjudged
  <2>2. Cell(row) \in {"exact", "refused"} /\ (Cell(row) = "refused" => row.cell \in {"bad", "late"})
    BY <1>1, <1>2, <1>3, CellIs
  <2>. QED  BY <2>1, <2>2 DEF Unjudged
<1>4. CASE format \notin Declared
  <2>1. JudgedTo(handle, Len(handle.rows)) /\ TypesTo(Len(handle.rows)) /\ contract.types = seen
    BY <1>4 DEF PassesOK
  <2>2. Admitted(row)
    BY <2>1 DEF TypesTo, Admitted
  <2>3. row.cell # "bad" /\ (format \in Judging => Told(acc, ClassOf(row)))
    BY <2>1 DEF JudgedTo
  <2>4. ASSUME format \in Judging, row.cell \in Classes
        PROVE  /\ AppendJson(contract.column, row.cell) = "exact"
               /\ AppendCell(contract.column, row.cell) = "exact"
    <3>1. contract.column = ColumnType(acc)
      BY <1>4, <2>4 DEF PassesOK, Judging
    <3>2. ClassOf(row) = row.cell
      BY <2>4 DEF ClassOf, Classes
    <3>3. acc \in Accumulators /\ Sound(acc)
      BY DEF DatasetOK
    <3>. QED  BY <2>3, <2>4, <3>1, <3>2, <3>3, ColumnHoldsTold
  <2>. HIDE DEF row
  <2>5. ASSUME format = "csv"
        PROVE  /\ Cell(row) \in {"exact", "refused"}
               /\ Cell(row) = "refused" => row.cell \in {"bad", "late"}
    BY <1>1, <1>2, <2>3, <2>4, <2>5, CellIs DEF CellOfCsv, Judging
  <2>6. ASSUME format = "geojson"
        PROVE  /\ Cell(row) \in {"exact", "refused"}
               /\ Cell(row) = "refused" => row.cell \in {"bad", "late"}
    BY <1>1, <1>2, <2>3, <2>4, <2>6, CellIs DEF CellOfGeoJson, Judging
  <2>7. ASSUME format = "xls"
        PROVE  /\ Cell(row) \in {"exact", "refused"}
               /\ Cell(row) = "refused" => row.cell \in {"bad", "late"}
    BY <1>1, <1>2, <2>3, <2>4, <2>7, CellIs DEF CellOfXls, Judging
  <2>8. ASSUME format \in {"kml", "dxf"}
        PROVE  /\ Cell(row) \in {"exact", "refused"}
               /\ Cell(row) = "refused" => row.cell \in {"bad", "late"}
    BY <1>1, <1>2, <2>8, CellIs
  <2>9. /\ Admitted(row) /\ Cell(row) \in {"exact", "refused"}
        /\ Cell(row) = "refused" => row.cell \in {"bad", "late"}
    BY <1>1, <1>4, <2>2, <2>5, <2>6, <2>7, <2>8, LayerReadersAssumption DEF Spooled, Declared
  <2>. QED  BY <2>9 DEF row, Unjudged
<1>. QED  BY <1>3, <1>4

LEMMA FilesGood ==
  \A f \in Files \cup Replacements : f \in Content
BY LayerReadersAssumption DEF Content

LEMMA DeliveryInit == Init => DeliveryInv
<1>. SUFFICES ASSUME Init PROVE DeliveryInv
  OBVIOUS
<1>. USE DEF Init
<1>1. NoFile \in Content /\ NoFile.rows = << >>
  BY DEF NoFile, Content, ColTypes
<1>2. DatasetOK
  <2>1. IsFiniteSet({})
    BY FS_EmptySet
  <2>2. Fresh \in Accumulators /\ Sound(Fresh)
    BY DEF Fresh, Accumulators, Sound
  <2>3. file \in Content
    BY FilesGood
  <2>4. contract \in [column : ColTypes, types : SUBSET STRING]
    BY DEF ColTypes
  <2>. QED  BY <1>1, <2>1, <2>2, <2>3, <2>4 DEF DatasetOK
<1>3. PassesOK
  BY DEF PassesOK
<1>4. ReadersOK
  <2>1. /\ Unused \in Record /\ Unused.state = "none" /\ Unused.ready = FALSE
        /\ Unused.delivered = << >> /\ Unused.pending = << >> /\ Unused.at = 0
        /\ Unused.answer = "none"
    BY <1>1 DEF Unused, Record
  <2>2. GoodReader(Unused)
    BY <2>1 DEF GoodReader
  <2>. QED  BY <2>1, <2>2 DEF ReadersOK
<1>. QED  BY <1>2, <1>3, <1>4 DEF DeliveryInv

\* Nobody reads before the dataset is open.
LEMMA NobodyReads ==
  ASSUME ReadersOK, dataset # "open", reader' = reader
  PROVE  ReadersOK'
<1>1. ASSUME NEW x, x.state = "none", GoodReader(x) PROVE GoodReader(x)'
  <2>1. /\ ~ x.ready /\ x.delivered = << >> /\ x.pending = << >> /\ x.at = 0
        /\ x.answer \notin {"batch", "eof", "error"}
    BY <1>1 DEF GoodReader
  <2>2. Len(x.delivered) = 0 /\ Len(x.pending) = 0
    BY <2>1
  <2>. QED  BY <1>1, <2>1, <2>2 DEF GoodReader
<1>2. ASSUME NEW x \in {reader'[r] : r \in Readers} PROVE GoodReader(x)'
  <2>1. x.state = "none" /\ GoodReader(x)
    BY DEF ReadersOK, GoodReader
  <2>. QED  BY <1>1, <2>1
<1>. QED  BY <1>2 DEF ReadersOK

LEMMA ScanKeeps == ASSUME DeliveryInv, Scan \/ ScanCsvGeometry PROVE DeliveryInv'
<1>. USE DEF DeliveryInv
<1>1. ASSUME NEW name, Pass(name), dataset # "open" PROVE ReadersOK'
  BY <1>1, NobodyReads DEF Pass
<1>2. ASSUME NEW name \in {"scan", "geometry"}, Pass(name) PROVE DatasetOK'
  <2>1. IsFiniteSet(passes')
    BY <1>2, FS_AddElement DEF Pass, DatasetOK
  <2>2. scanned' \in 0 .. Len(handle'.rows)
    BY <1>2 DEF Pass, DatasetOK, Content
  <2>. QED  BY <1>2, <2>1, <2>2 DEF Pass, DatasetOK, spoolVars
<1>3. CASE Scan
  <2>1. /\ dataset = "new" /\ format \notin Declared /\ Pass("scan") /\ dataset' = "scan"
        /\ passes' = {handle'} /\ scanned' = 0 /\ spool' = << >> /\ format' = format
    BY <1>3 DEF Scan, Pass, PassesOK, spoolVars
  <2>2. PassesOK'
    BY <2>1 DEF PassesOK, JudgedTo, TypesTo
  <2>. QED  BY <1>1, <1>2, <2>1, <2>2
<1>4. CASE ScanCsvGeometry
  <2>1. /\ dataset = "scan" /\ format = "csv" /\ Pass("geometry") /\ dataset' = "geometry"
        /\ passes' = passes \cup {handle'} /\ scanned' = 0 /\ UNCHANGED <<format, acc, spool>>
        /\ ~ (scanned < Len(handle.rows))
    BY <1>4 DEF ScanCsvGeometry, Pass, spoolVars, More
  <2>2. scanned = Len(handle.rows)
    BY <2>1 DEF DatasetOK, Content
  <2>3. handle \in passes' /\ JudgedTo(handle, Len(handle.rows))
    BY <2>1, <2>2 DEF PassesOK
  <2>4. \E f \in passes' : JudgedTo(f, Len(f.rows))'
    <3>1. ASSUME NEW f, f = handle PROVE JudgedTo(f, Len(f.rows))'
      BY <2>1, <2>3, <3>1 DEF JudgedTo
    <3>. QED  BY <2>3, <3>1
  <2>5. PassesOK'
    BY <2>1, <2>4 DEF PassesOK, TypesTo, Spooled, Declared
  <2>. QED  BY <1>1, <1>2, <2>1, <2>5
<1>. QED  BY <1>3, <1>4

\* A row is taken by the pass that infers the column or fills the spool.
LEMMA TakeKeeps ==
  ASSUME DeliveryInv, dataset = "scan", More,
         NEW cells \in BOOLEAN, NEW types \in BOOLEAN, Advance(cells, types),
         cells <=> format \in Judging, types <=> format # "csv",
         spool' = IF format \in Spooled THEN Append(spool, Here) ELSE spool
  PROVE  DeliveryInv'
<1>. USE DEF DeliveryInv
<1>1. /\ Here.cell # "bad" /\ scanned' = scanned + 1
      /\ acc' = IF cells THEN Observe(acc, ClassOf(Here)) ELSE acc
      /\ seen' = IF types THEN seen \cup Types(Here) ELSE seen
      /\ UNCHANGED <<format, file, dataset, handle, passes, contract, reader>>
  BY DEF Advance, Taken
<1>2. handle.rows \in Seq(Rows) /\ scanned \in Nat /\ scanned + 1 \in 1 .. Len(handle.rows)
  BY DEF More, DatasetOK, Content
<1>3. Here = handle.rows[scanned + 1] /\ Here \in Rows
  BY <1>2 DEF Here
<1>4. Here.cell \in Classes \cup {"late", "bad"} /\ Types(Here) \in SUBSET STRING
  BY <1>3 DEF Rows, Types
<1>5. ClassOf(Here) \in Classes
  BY <1>1, <1>4 DEF ClassOf, Classes
<1>. HIDE DEF Here
<1>6. /\ acc' \in Accumulators /\ Sound(acc')
      /\ \A class : Told(acc, class) => Told(acc', class)
      /\ cells => Told(acc', ClassOf(Here))
  BY <1>1, <1>5, ObserveTells DEF DatasetOK
<1>7. seen' \in SUBSET STRING /\ seen \subseteq seen' /\ (types => Types(Here) \subseteq seen')
  BY <1>1, <1>4 DEF DatasetOK
<1>8. spool' \in Seq(Rows) /\ (format \in Spooled => spool' = Append(spool, Here))
  BY <1>3 DEF DatasetOK
<1>9. DatasetOK'
  <2>1. scanned' \in 0 .. Len(handle'.rows)
    BY <1>1, <1>2
  <2>2. Sound(acc)'
    BY <1>6 DEF Sound
  <2>. QED  BY <1>1, <1>6, <1>7, <1>8, <2>1, <2>2 DEF DatasetOK
<1>10. JudgedTo(handle, scanned)'
  <2>1. ASSUME NEW i \in 1 .. scanned + 1
        PROVE  handle.rows[i].cell # "bad" /\ (format \in Judging => Told(acc', ClassOf(handle.rows[i])))
    <3>1. CASE i = scanned + 1
      BY <1>1, <1>3, <1>6, <3>1
    <3>2. CASE i \in 1 .. scanned
      BY <1>6, <3>2 DEF PassesOK, JudgedTo
    <3>. QED  BY <1>2, <3>1, <3>2
  <2>. QED  BY <1>1, <2>1 DEF JudgedTo, Told
<1>11. format # "csv" => TypesTo(scanned)'
  <2>1. ASSUME NEW i \in 1 .. scanned + 1, format # "csv" PROVE Types(handle.rows[i]) \subseteq seen'
    <3>1. CASE i = scanned + 1
      BY <1>3, <1>7, <2>1, <3>1
    <3>2. CASE i \in 1 .. scanned
      BY <1>7, <2>1, <3>2 DEF PassesOK, TypesTo
    <3>. QED  BY <1>2, <3>1, <3>2
  <2>. QED  BY <1>1, <2>1 DEF TypesTo
<1>12. format \in Spooled => Len(spool') = scanned' /\ \A i \in 1 .. scanned' : spool'[i] = handle.rows[i]
  <2>1. SUFFICES ASSUME format \in Spooled
                 PROVE  Len(spool') = scanned' /\ \A i \in 1 .. scanned' : spool'[i] = handle.rows[i]
    OBVIOUS
  <2>2. spool \in Seq(Rows) /\ Len(spool) = scanned /\ \A i \in 1 .. scanned : spool[i] = handle.rows[i]
    BY <2>1 DEF PassesOK, DatasetOK
  <2>3. Len(spool') = scanned + 1 /\ spool'[scanned + 1] = Here /\ \A i \in 1 .. scanned : spool'[i] = spool[i]
    BY <1>2, <1>8, <2>1, <2>2
  <2>. QED  BY <1>1, <1>2, <1>3, <2>2, <2>3
<1>13. PassesOK'
  BY <1>1, <1>10, <1>11, <1>12 DEF PassesOK
<1>14. ReadersOK'
  BY <1>1, NobodyReads
<1>. QED  BY <1>9, <1>13, <1>14

\* Only the file at the path changes, or another reader.
LEMMA GoodSame ==
  ASSUME NEW x, UNCHANGED <<format, dataset, handle, passes, contract, spool>>, GoodReader(x)
  PROVE  GoodReader(x)'
<1>1. ASSUME NEW row PROVE Cell(row)' = Cell(row)
  BY DEF Cell, CellOfCsv, CellOfGeoJson, CellOfXls, CellOfDeclared
<1>2. \A row : (Fine(row)' <=> Fine(row)) /\ (Admitted(row)' <=> Admitted(row))
  BY <1>1 DEF Fine, Admitted
<1>3. Follows(x)' <=> Follows(x)
  BY <1>1 DEF Follows
<1>4. OneSource(x)' <=> OneSource(x)
  BY DEF OneSource
<1>5. \A row : Unjudged(row)' <=> Unjudged(row)
  BY DEF Unjudged
<1>. QED  BY <1>2, <1>3, <1>4, <1>5 DEF GoodReader

LEMMA OpenDatasetKeeps ==
  ASSUME DeliveryInv,
         \/ InferCsv \/ InferCsvGeometry \/ InferGeoJson \/ SpoolKml \/ SpoolDxf \/ SpoolXls
         \/ RefuseRow \/ Conclude \/ OpenIpc \/ OpenGeoParquet \/ OpenFileGdb \/ Replace
  PROVE  DeliveryInv'
<1>. USE DEF DeliveryInv
<1>1. CASE InferCsv
  BY <1>1, TakeKeeps DEF InferCsv, Judging, Spooled, spoolVars
<1>2. CASE InferGeoJson
  BY <1>2, TakeKeeps DEF InferGeoJson, Judging, Spooled, spoolVars
<1>3. CASE SpoolKml \/ SpoolDxf
  BY <1>3, TakeKeeps DEF SpoolKml, SpoolDxf, Write, Judging, Spooled
<1>4. CASE SpoolXls
  BY <1>4, TakeKeeps DEF SpoolXls, Write, Judging, Spooled
<1>5. CASE InferCsvGeometry
  <2>1. /\ format = "csv" /\ dataset = "geometry" /\ More /\ scanned' = scanned + 1
        /\ seen' = seen \cup Types(Here)
        /\ UNCHANGED <<format, file, dataset, handle, acc, passes, contract, reader, spool>>
    BY <1>5 DEF InferCsvGeometry, Advance, spoolVars
  <2>2. handle.rows \in Seq(Rows) /\ scanned \in Nat /\ scanned + 1 \in 1 .. Len(handle.rows)
    BY <2>1 DEF More, DatasetOK, Content
  <2>3. Here = handle.rows[scanned + 1] /\ Here \in Rows
    BY <2>2 DEF Here
  <2>4. seen' \in SUBSET STRING
    BY <2>1, <2>3 DEF DatasetOK, Rows, Types
  <2>5. DatasetOK'
    <3>1. scanned' \in 0 .. Len(handle'.rows)
      BY <2>1, <2>2
    <3>. QED  BY <2>1, <2>4, <3>1 DEF DatasetOK, Sound
  <2>6. TypesTo(scanned)'
    <3>1. ASSUME NEW i \in 1 .. scanned + 1 PROVE Types(handle.rows[i]) \subseteq seen'
      <4>1. CASE i = scanned + 1
        BY <2>1, <2>3, <4>1
      <4>2. CASE i \in 1 .. scanned
        BY <2>1, <4>2 DEF PassesOK, TypesTo
      <4>. QED  BY <2>2, <4>1, <4>2
    <3>. QED  BY <2>1, <3>1 DEF TypesTo
  <2>7. PassesOK'
    BY <2>1, <2>6 DEF PassesOK, JudgedTo, Spooled
  <2>. QED  BY <2>1, <2>5, <2>7, NobodyReads
<1>6. CASE RefuseRow
  <2>1. /\ dataset \in {"scan", "geometry"} /\ dataset' = "refused" /\ spool' = << >>
        /\ UNCHANGED <<format, file, handle, scanned, acc, seen, passes, contract, reader>>
    BY <1>6 DEF RefuseRow, openVars
  <2>2. DatasetOK'
    BY <2>1 DEF DatasetOK, Sound
  <2>3. PassesOK'
    BY <2>1 DEF PassesOK
  <2>. QED  BY <2>1, <2>2, <2>3, NobodyReads
<1>7. CASE Conclude
  <2>1. /\ ~ (scanned < Len(handle.rows)) /\ dataset' = "open"
        /\ dataset = IF format = "csv" THEN "geometry" ELSE "scan"
        /\ contract' = [column |-> IF format \in {"kml", "dxf"} THEN "Text" ELSE ColumnType(acc),
                        types |-> seen]
        /\ UNCHANGED <<format, file, handle, scanned, acc, seen, passes, spool, reader>>
    BY <1>7 DEF Conclude, openVars, More
  <2>2. scanned = Len(handle.rows)
    BY <2>1 DEF DatasetOK, Content
  <2>3. contract' \in [column : ColTypes, types : SUBSET STRING]
    <3>1. ColumnType(acc) \in ColTypes /\ "Text" \in ColTypes
      BY ColumnTypeIn DEF ColTypes
    <3>. QED  BY <2>1, <3>1 DEF DatasetOK
  <2>4. DatasetOK'
    BY <2>1, <2>3 DEF DatasetOK, Sound
  <2>5. format \notin Declared /\ handle \in passes
    BY <2>1 DEF PassesOK, Declared
  <2>6. \E f \in passes : JudgedTo(f, Len(f.rows))
    BY <2>1, <2>2, <2>5 DEF PassesOK
  <2>7. TypesTo(scanned)
    BY <2>1 DEF PassesOK
  <2>8. PassesOK'
    BY <2>1, <2>2, <2>5, <2>6, <2>7 DEF PassesOK, JudgedTo, TypesTo
  <2>. QED  BY <2>1, <2>4, <2>8, NobodyReads
<1>8. CASE OpenIpc \/ OpenGeoParquet \/ OpenFileGdb
  <2>1. /\ dataset = "new" /\ dataset' = "open" /\ format \in Declared
        /\ handle' = file /\ passes' = {file}
        /\ contract' = [column |-> file.column, types |-> file.types]
        /\ UNCHANGED <<format, file, scanned, acc, seen, spool, reader>>
    BY <1>8 DEF OpenIpc, OpenGeoParquet, OpenFileGdb, OpenDeclared, Declared, spoolVars
  <2>2. DatasetOK'
    <3>1. IsFiniteSet(passes')
      BY <2>1, FS_Singleton
    <3>2. contract' \in [column : ColTypes, types : SUBSET STRING]
      BY <2>1 DEF DatasetOK, Content
    <3>3. scanned' \in 0 .. Len(handle'.rows)
      BY <2>1 DEF DatasetOK, PassesOK, Content
    <3>. QED  BY <2>1, <3>1, <3>2, <3>3 DEF DatasetOK, Sound
  <2>3. PassesOK'
    BY <2>1 DEF PassesOK, Declared, Spooled
  <2>. QED  BY <2>1, <2>2, <2>3, NobodyReads
<1>9. CASE Replace
  <2>1. file' \in Replacements
        /\ UNCHANGED <<format, dataset, handle, scanned, acc, seen, passes, contract, spool, reader>>
    BY <1>9 DEF Replace, openVars, spoolVars
  <2>2. DatasetOK'
    BY <2>1, FilesGood DEF DatasetOK, Sound
  <2>3. PassesOK'
    BY <2>1 DEF PassesOK, JudgedTo, TypesTo
  <2>4. ReadersOK'
    <3>1. ASSUME NEW x \in {reader'[r] : r \in Readers} PROVE GoodReader(x)'
      BY <2>1, GoodSame DEF ReadersOK
    <3>. QED  BY <2>1, <3>1 DEF ReadersOK
  <2>. QED  BY <2>2, <2>3, <2>4
<1>. QED  BY <1>1, <1>2, <1>3, <1>4, <1>5, <1>6, <1>7, <1>8, <1>9

LEMMA ReaderMoves ==
  ASSUME DeliveryInv, NEW r \in Readers, NEW new \in Record, GoodReader(new), Set(r, new)
  PROVE  DeliveryInv'
<1>. USE DEF DeliveryInv
<1>1. /\ reader' = [reader EXCEPT ![r] = new]
      /\ UNCHANGED <<format, file, dataset, handle, scanned, acc, seen, passes, contract, spool>>
  BY DEF Set, openVars, spoolVars
<1>2. DatasetOK'
  BY <1>1 DEF DatasetOK, Sound
<1>3. PassesOK'
  BY <1>1 DEF PassesOK, JudgedTo, TypesTo
<1>4. reader' \in [Readers -> Record] /\ reader'[r] = new /\ \A s \in Readers \ {r} : reader'[s] = reader[s]
  BY <1>1 DEF ReadersOK
<1>5. ASSUME NEW x \in {reader'[s] : s \in Readers} PROVE GoodReader(x)'
  <2>1. GoodReader(x)
    BY <1>4 DEF ReadersOK
  <2>. QED  BY <1>1, <2>1, GoodSame
<1>6. ReadersOK'
  BY <1>4, <1>5 DEF ReadersOK
<1>. QED  BY <1>2, <1>3, <1>6

LEMMA OpenLayerKeeps == ASSUME DeliveryInv, NEW r \in Readers, OpenLayerReader(r) PROVE DeliveryInv'
<1>. USE DEF DeliveryInv
<1>1. /\ reader[r] \in Record /\ reader[r].state = "none" /\ GoodReader(reader[r]) /\ dataset = "open"
  BY DEF OpenLayerReader, ReadersOK
<1>2. ASSUME NEW why \in {"busy", "failed"}, Set(r, [reader[r] EXCEPT !.state = "ended", !.answer = why])
      PROVE  DeliveryInv'
  <2>. DEFINE new == [reader[r] EXCEPT !.state = "ended", !.answer = why]
  <2>1. /\ new \in Record /\ new.state = "ended" /\ new.answer = why /\ ~ new.ready
        /\ new.delivered = << >> /\ new.pending = << >> /\ new.at = 0
    BY <1>1 DEF Record, GoodReader
  <2>2. Set(r, new)
    BY <1>2
  <2>. HIDE DEF new
  <2>3. GoodReader(new)
    BY <1>1, <2>1 DEF GoodReader
  <2>. QED  BY <2>1, <2>2, <2>3, ReaderMoves
<1>3. ASSUME Set(r, Made(r)) PROVE DeliveryInv'
  <2>1. NoFile \in Content /\ [NoFile EXCEPT !.rows = spool] \in Content /\ file \in Content
        /\ [NoFile EXCEPT !.rows = spool].rows = spool
    BY DEF NoFile, Content, ColTypes, DatasetOK
  <2>. DEFINE source == CASE format \in Spooled -> [NoFile EXCEPT !.rows = spool]
                          [] format \in {"ipc", "geoparquet"} -> file
                          [] OTHER -> NoFile
  <2>2. source \in Content /\ (format \in Spooled => source.rows = spool)
    BY <2>1 DEF Spooled
  <2>. HIDE DEF source
  <2>3. /\ Made(r) \in Record /\ Made(r).state = "live" /\ Made(r).answer = "none"
        /\ Made(r).ready = (format \notin {"csv", "geojson", "filegdb"})
        /\ Made(r).delivered = << >> /\ Made(r).pending = << >> /\ Made(r).at = 0
        /\ Made(r).source = source
    <3>1. /\ (format \notin {"csv", "geojson", "filegdb"}) \in BOOLEAN
          /\ reader[r].stopped \in BOOLEAN /\ << >> \in Seq(Rows) /\ << >> \in Seq(Delivered)
      BY <1>1 DEF Record
    <3>2. PICK ready \in BOOLEAN : ready = (format \notin {"csv", "geojson", "filegdb"})
      BY <3>1
    <3>3. PICK lease \in {"none", "held"} : lease = IF format \in Gated THEN "held" ELSE "none"
      OBVIOUS
    <3>4. Made(r) = [Unused EXCEPT !.state = "live", !.inner = TRUE, !.stopped = reader[r].stopped,
                                   !.lease = lease, !.ready = ready, !.source = source]
      BY <3>2, <3>3 DEF Made, source
    <3>5. /\ Made(r) \in Record /\ Made(r).state = "live" /\ Made(r).answer = "none"
          /\ Made(r).ready = ready /\ Made(r).source = source
          /\ Made(r).delivered = << >> /\ Made(r).pending = << >> /\ Made(r).at = 0
      <4>1. Made(r) = [state |-> "live", lease |-> lease, source |-> source, ready |-> ready,
                       at |-> 0, pending |-> << >>, inner |-> TRUE, stopped |-> reader[r].stopped,
                       answer |-> "none", delivered |-> << >>]
        BY <3>4 DEF Unused
      <4>2. TRUE \in BOOLEAN /\ 0 \in Nat
        OBVIOUS
      <4>3. Made(r) \in Record
        BY <2>2, <3>1, <4>1, <4>2 DEF Record
      <4>. QED  BY <4>1, <4>3
    <3>. QED  BY <3>2, <3>5
  <2>4. Len(Made(r).delivered) = 0 /\ Len(Made(r).pending) = 0 /\ Len(source.rows) \in Nat
    BY <2>2, <2>3 DEF Content
  <2>5. GoodReader(Made(r))
    <3>. DEFINE x == Made(r)
    <3>1. x.state = "live" => x.answer = "none"
      BY <2>3
    <3>2. Follows(x) /\ x.at = Len(x.delivered) + Len(x.pending) /\ x.at <= Len(x.source.rows)
      BY <2>3, <2>4 DEF Follows
    <3>3. format \in Spooled => x.ready
      BY <2>3 DEF Spooled
    <3>4. x.ready /\ format \in Spooled => x.source.rows = spool
      BY <2>2, <2>3
    <3>. HIDE DEF x
    <3>5. /\ x.state = "live" /\ x.answer = "none"
          /\ x.delivered = << >> /\ x.pending = << >> /\ x.at = 0
          /\ Len(x.delivered) = 0 /\ Len(x.pending) = 0
      BY <2>3, <2>4 DEF x
    <3>6. GoodReader(x)
      BY <1>1, <3>2, <3>3, <3>4, <3>5 DEF GoodReader
    <3>. QED  BY <3>6 DEF x
  <2>. QED  BY <1>3, <2>3, <2>5, ReaderMoves
<1>. QED  BY <1>2, <1>3 DEF OpenLayerReader

LEMMA WorkerOpensKeeps == ASSUME DeliveryInv, NEW r \in Readers, WorkerOpens(r) PROVE DeliveryInv'
<1>. USE DEF DeliveryInv
<1>. DEFINE new == [reader[r] EXCEPT !.ready = TRUE, !.source = file]
<1>1. /\ reader[r] \in Record /\ reader[r].state = "live" /\ ~ reader[r].ready
      /\ GoodReader(reader[r]) /\ Set(r, new)
  BY DEF WorkerOpens, ReadersOK
<1>2. file \in Content
  BY DEF DatasetOK
<1>3. /\ new \in Record /\ new.state = "live" /\ new.answer = reader[r].answer /\ new.ready
      /\ new.delivered = << >> /\ new.pending = << >> /\ new.at = 0 /\ new.source = file
  BY <1>1, <1>2 DEF Record, GoodReader
<1>. HIDE DEF new
<1>4. Len(new.delivered) = 0 /\ Len(new.pending) = 0 /\ Len(file.rows) \in Nat
  BY <1>2, <1>3 DEF Content
<1>5. GoodReader(new)
  BY <1>1, <1>3, <1>4 DEF GoodReader, Follows
<1>. QED  BY <1>1, <1>3, <1>5, ReaderMoves

\* The reader is over, stopped or dropped, or was only told to stop.
LEMMA SettledGood ==
  ASSUME NEW x \in Record, GoodReader(x), NEW y \in Record,
         y.source = x.source, y.ready = x.ready, y.delivered = x.delivered, y.at = x.at,
         y.pending \in {x.pending, << >>},
         y.state = x.state \/ (x.state # "none" /\ y.state = "ended"),
         \/ y.answer = x.answer
         \/ y.answer = "stopped"
         \/ /\ y.answer = "error" /\ x.ready
            /\ OneSource(x) => \E i \in 1 .. Len(handle.rows) : Unjudged(handle.rows[i])
         \/ y.answer = "eof" /\ x.ready /\ Follows(x) /\ Len(x.delivered) = Len(x.source.rows),
         y.state = "live" /\ y.answer \in {"none", "batch"} => y.pending = x.pending
  PROVE  GoodReader(y)
<1>1. (Follows(y) <=> Follows(x)) /\ (OneSource(y) <=> OneSource(x))
  BY DEF Follows, OneSource
<1>2. \A i \in 1 .. Len(y.pending) : Fine(y.pending[i])
  <2>1. Len(<< >>) = 0
    OBVIOUS
  <2>. QED  BY <2>1 DEF GoodReader
<1>3. /\ y.state # "none" => dataset = "open"
      /\ y.state = "none" => ~ y.ready
      /\ y.state = "live" /\ format \in Spooled => y.ready
      /\ y.ready /\ format \in Spooled => y.source.rows = spool
      /\ format \notin Targeted => y.pending = << >>
      /\ format \in Declared /\ y.delivered # << >> => y.source.column = contract.column
  BY DEF GoodReader
<1>4. ~ y.ready => /\ y.delivered = << >> /\ y.pending = << >> /\ y.at = 0
                   /\ y.answer \notin {"batch", "eof", "error"}
  BY DEF GoodReader
<1>5. \A i \in 1 .. Len(y.delivered) : Fine(y.delivered[i].row) /\ Admitted(y.delivered[i].row)
  BY DEF GoodReader
<1>6. y.state = "live" /\ y.answer \in {"none", "batch"} =>
        /\ Follows(y)
        /\ y.at = Len(y.delivered) + Len(y.pending) /\ y.at <= Len(y.source.rows)
        /\ \A i \in 1 .. Len(y.pending) : y.pending[i] = y.source.rows[Len(y.delivered) + i]
  BY <1>1 DEF GoodReader
<1>7. /\ y.answer = "eof" => Follows(y) /\ Len(y.delivered) = Len(y.source.rows)
      /\ y.answer = "error" /\ OneSource(y) =>
           \E i \in 1 .. Len(handle.rows) : Unjudged(handle.rows[i])
  BY <1>1 DEF GoodReader
<1>. QED  BY <1>2, <1>3, <1>4, <1>5, <1>6, <1>7 DEF GoodReader

LEMMA StopReaderKeeps == ASSUME DeliveryInv, NEW r \in Readers, Stop(r) PROVE DeliveryInv'
<1>. USE DEF DeliveryInv
<1>. DEFINE new == [reader[r] EXCEPT !.stopped = TRUE]
<1>1. reader[r] \in Record /\ GoodReader(reader[r]) /\ Set(r, new)
  BY DEF Stop, ReadersOK
<1>2. /\ new \in Record /\ new.state = reader[r].state /\ new.source = reader[r].source
      /\ new.ready = reader[r].ready /\ new.delivered = reader[r].delivered
      /\ new.at = reader[r].at /\ new.pending = reader[r].pending /\ new.answer = reader[r].answer
  BY <1>1 DEF Record
<1>. HIDE DEF new
<1>3. GoodReader(new)
  BY <1>1, <1>2, SettledGood
<1>. QED  BY <1>1, <1>2, <1>3, ReaderMoves

LEMMA DropReaderKeeps == ASSUME DeliveryInv, NEW r \in Readers, DropReader(r) PROVE DeliveryInv'
<1>. USE DEF DeliveryInv
<1>. DEFINE changed == [reader[r] EXCEPT !.state = "ended", !.inner = FALSE, !.lease = Released(r),
                                         !.pending = << >>]
            new == [changed EXCEPT !.answer = reader[r].answer]
<1>1. reader[r] \in Record /\ GoodReader(reader[r]) /\ Set(r, new) /\ reader[r].state = "live"
  BY DEF DropReader, Answer, ReadersOK
<1>2. Released(r) \in {"none", "held", "released"}
  BY <1>1 DEF Released, Record
<1>3. /\ new \in Record /\ new.state = "ended" /\ new.source = reader[r].source
      /\ new.ready = reader[r].ready /\ new.delivered = reader[r].delivered
      /\ new.at = reader[r].at /\ new.pending = << >> /\ new.answer = reader[r].answer
  <2>1. /\ changed \in Record /\ changed.state = "ended" /\ changed.source = reader[r].source
        /\ changed.ready = reader[r].ready /\ changed.delivered = reader[r].delivered
        /\ changed.at = reader[r].at /\ changed.pending = << >>
    <3>1. << >> \in Seq(Rows)
      OBVIOUS
    <3>. QED  BY <1>1, <1>2, <3>1 DEF Record
  <2>. HIDE DEF changed
  <2>. QED  BY <1>1, <2>1 DEF Record
<1>. HIDE DEF new
<1>4. GoodReader(new)
  BY <1>1, <1>3, SettledGood
<1>. QED  BY <1>1, <1>3, <1>4, ReaderMoves

\* One file only: the reader reads the rows that open judged.
LEMMA OneSourceIs ==
  ASSUME DeliveryInv, dataset = "open", NEW x \in Record, x.ready, GoodReader(x),
         OneSource(x)
  PROVE  /\ passes = {handle} /\ x.source.rows = handle.rows
         /\ format \in Declared => x.source = handle
<1>. USE DEF DeliveryInv
<1>1. handle \in passes /\ IsFiniteSet(passes)
  BY DEF PassesOK, DatasetOK
<1>2. CASE format \in Spooled
  <2>1. passes = {handle} /\ format \notin Declared
    BY <1>2 DEF PassesOK, Spooled, Declared
  <2>2. Len(spool) = Len(handle.rows) /\ \A i \in 1 .. Len(handle.rows) : spool[i] = handle.rows[i]
    BY <1>2, <2>1 DEF PassesOK
  <2>3. spool = handle.rows
    <3>1. spool \in Seq(Rows) /\ handle.rows \in Seq(Rows)
      BY DEF DatasetOK, Content
    <3>. HIDE DEF DeliveryInv
    <3>. QED  BY <2>2, <3>1
  <2>. QED  BY <1>2, <2>1, <2>3 DEF GoodReader
<1>3. CASE format \notin Spooled
  <2>1. IsFiniteSet(passes \cup {x.source}) /\ Cardinality(passes \cup {x.source}) = 1
    BY <1>1, <1>3, FS_AddElement DEF OneSource
  <2>2. PICK f : passes \cup {x.source} = {f}
    BY <2>1, FS_Singleton
  <2>. QED  BY <1>1, <2>2
<1>. QED  BY <1>2, <1>3

\* The next rows of the source are handed out, or do not fit the contract, and
\* then the file is not the one that open read.
LEMMA HandOutGood ==
  ASSUME DeliveryInv, NEW r \in Readers, reader[r].state = "live",
         reader[r].answer \in {"none", "batch"}, reader[r].ready,
         NEW taken \in Seq(Rows), NEW changed \in Record, HandOut(r, taken, changed),
         changed.state = "live", changed.ready, changed.source = reader[r].source,
         changed.delivered = reader[r].delivered,
         changed.at = Len(changed.delivered) + Len(taken) + Len(changed.pending),
         changed.at <= Len(changed.source.rows),
         \A i \in 1 .. Len(taken) :
           taken[i] = changed.source.rows[Len(changed.delivered) + i] /\ Fine(taken[i]),
         \A i \in 1 .. Len(changed.pending) :
           /\ changed.pending[i] = changed.source.rows[Len(changed.delivered) + Len(taken) + i]
           /\ Fine(changed.pending[i]),
         format \notin Targeted => changed.pending = << >>,
         format \in Declared \ {"ipc"} => SameColumn(r)
  PROVE  DeliveryInv'
<1>. USE DEF DeliveryInv
<1>. DEFINE old == changed.delivered
            src == changed.source.rows
            n == Len(old)
            m == Len(taken)
            p == Len(changed.pending)
<1>1. /\ reader[r] \in Record /\ GoodReader(reader[r]) /\ dataset = "open" /\ format \in Formats
      /\ n \in Nat /\ m \in Nat /\ old \in Seq(Delivered) /\ src \in Seq(Rows) /\ Len(src) \in Nat
      /\ Len(changed.pending) \in Nat
  <2>1. reader[r] \in Record /\ GoodReader(reader[r]) /\ format \in Formats
    BY DEF ReadersOK, DatasetOK
  <2>2. dataset = "open"
    BY <2>1 DEF GoodReader
  <2>3. old \in Seq(Delivered) /\ src \in Seq(Rows) /\ changed.pending \in Seq(Rows)
    BY DEF Record, Content
  <2>. QED  BY <2>1, <2>2, <2>3
<1>2. n <= Len(src) /\ \A i \in 1 .. n : old[i] = [row |-> src[i], value |-> Cell(src[i])]
  <2>1. Follows(reader[r])
    BY <1>1 DEF GoodReader
  <2>2. reader[r].delivered = old /\ reader[r].source.rows = src
    OBVIOUS
  <2>. HIDE DEF old, src
  <2>. QED  BY <2>1, <2>2 DEF Follows
<1>5. /\ changed.at = n + m + Len(changed.pending) /\ changed.at <= Len(src)
      /\ \A i \in 1 .. m : taken[i] = src[n + i] /\ Fine(taken[i])
      /\ \A i \in 1 .. Len(changed.pending) :
           changed.pending[i] = src[n + m + i] /\ Fine(changed.pending[i])
      /\ \A i \in 1 .. n : Fine(old[i].row) /\ Admitted(old[i].row)
      /\ changed.delivered = old /\ changed.source.rows = src /\ Len(old) = n /\ Len(taken) = m
  BY <1>1 DEF GoodReader
<1>6. /\ n \in Nat /\ m \in Nat /\ p \in Nat /\ Len(src) \in Nat
      /\ changed.at = n + m + p /\ n + m + p <= Len(src)
  BY <1>1, <1>5
<1>. HIDE DEF n, m, p, old, src
<1>7. n + m <= Len(src) /\ \A i \in 1 .. m : n + i \in 1 .. Len(src)
  BY <1>6
<1>3. CASE FitsContract(r, taken)
  <2>. DEFINE more == [changed EXCEPT !.delivered = @ \o Values(taken)]
              new == [more EXCEPT !.answer = "batch"]
  <2>1. Set(r, new)
    BY <1>3 DEF HandOut, Answer
  <2>2. Values(taken) \in Seq(Delivered) /\ Len(Values(taken)) = m
        /\ \A i \in 1 .. m : Values(taken)[i] = [row |-> taken[i], value |-> Cell(taken[i])]
    <3>1. \A i \in 1 .. m : [row |-> taken[i], value |-> Cell(taken[i])] \in Delivered
      BY <1>1, <1>5, CellIs DEF Delivered
    <3>. QED  BY <1>1, <1>5, <3>1 DEF Values
  <2>. DEFINE all == old \o Values(taken)
  <2>3. /\ all \in Seq(Delivered) /\ Len(all) = n + m
        /\ \A i \in 1 .. n : all[i] = old[i]
        /\ \A i \in 1 .. m : all[n + i] = Values(taken)[i]
    <3>1. old \in Seq(Delivered) /\ Values(taken) \in Seq(Delivered)
          /\ Len(old) = n /\ Len(Values(taken)) = m
      BY <1>1, <1>5, <2>2
    <3>2. \A front, back \in Seq(Delivered) :
            /\ front \o back \in Seq(Delivered) /\ Len(front \o back) = Len(front) + Len(back)
            /\ \A i \in 1 .. Len(front) : (front \o back)[i] = front[i]
            /\ \A i \in 1 .. Len(back) : (front \o back)[Len(front) + i] = back[i]
      <4>. HIDE DEF DeliveryInv, Delivered
      <4>. QED  OBVIOUS
    <3>. DEFINE told == Values(taken)
    <3>. HIDE DEF told
    <3>3. old \in Seq(Delivered) /\ told \in Seq(Delivered) /\ Len(old) = n /\ Len(told) = m
      BY <3>1 DEF told
    <3>. HIDE DEF DeliveryInv, Delivered
    <3>4. /\ old \o told \in Seq(Delivered) /\ Len(old \o told) = Len(old) + Len(told)
          /\ \A i \in 1 .. Len(old) : (old \o told)[i] = old[i]
          /\ \A i \in 1 .. Len(told) : (old \o told)[Len(old) + i] = told[i]
      BY <3>2, <3>3
    <3>5. all = old \o told
      BY DEF told
    <3>. HIDE DEF all
    <3>. QED  BY <3>3, <3>4, <3>5 DEF told
  <2>. HIDE DEF all
  <2>4. /\ new \in Record /\ new.state = "live" /\ new.ready /\ new.answer = "batch"
        /\ new.source = changed.source /\ new.delivered = all /\ new.at = changed.at
        /\ new.pending = changed.pending
    <3>1. /\ more \in Record /\ more.state = "live" /\ more.ready /\ more.source = changed.source
          /\ more.delivered = all /\ more.at = changed.at /\ more.pending = changed.pending
      BY <1>5, <2>3 DEF Record, all
    <3>. HIDE DEF more
    <3>. QED  BY <3>1 DEF Record
  <2>. HIDE DEF new
  <2>5. ASSUME NEW i \in 1 .. n + m
        PROVE  all[i] = [row |-> src[i], value |-> Cell(src[i])]
    <3>1. CASE i \in 1 .. n
      BY <1>2, <2>3, <3>1
    <3>2. CASE i \notin 1 .. n
      <4>1. i - n \in 1 .. m /\ i = n + (i - n)
        BY <1>1, <3>2
      <4>2. all[i] = Values(taken)[i - n] /\ taken[i - n] = src[i]
        BY <1>5, <2>3, <4>1
      <4>. QED  BY <2>2, <4>1, <4>2
    <3>. QED  BY <3>1, <3>2
  <2>6. Follows(new)
    <3>. QED  BY <1>5, <1>7, <2>3, <2>4, <2>5 DEF Follows
  <2>7. ASSUME NEW i \in 1 .. n + m PROVE Fine(all[i].row) /\ Admitted(all[i].row)
    <3>1. CASE i \in 1 .. n
      BY <1>5, <2>3, <3>1
    <3>2. CASE i \notin 1 .. n
      <4>1. i - n \in 1 .. m /\ i = n + (i - n)
        BY <1>1, <3>2
      <4>2. all[i].row = taken[i - n]
        <5>1. all[i] = Values(taken)[i - n]
          BY <2>3, <4>1
        <5>2. Values(taken)[i - n].row = taken[i - n]
          BY <2>2, <4>1
        <5>. QED  BY <5>1, <5>2
      <4>. QED  BY <1>3, <1>5, <4>1, <4>2 DEF FitsContract, Admitted
    <3>. QED  BY <3>1, <3>2
  <2>8. format \in Declared => new.source.column = contract.column
    BY <1>3, <2>4 DEF FitsContract, SameColumn, Declared
  <2>9. /\ new.at = Len(new.delivered) + Len(new.pending) /\ new.at <= Len(new.source.rows)
        /\ \A i \in 1 .. Len(new.pending) : new.pending[i] = new.source.rows[Len(new.delivered) + i]
    <3>1. Len(new.delivered) = n + m /\ Len(new.pending) = p /\ new.at = n + m + p
          /\ new.source.rows = src
      BY <1>5, <1>6, <2>3, <2>4 DEF p
    <3>2. \A i \in 1 .. p : new.pending[i] = src[n + m + i]
      BY <1>5, <2>4 DEF p
    <3>. QED  BY <1>6, <3>1, <3>2
  <2>10. GoodReader(new)
    <3>1. /\ \A i \in 1 .. Len(new.pending) : Fine(new.pending[i])
          /\ \A i \in 1 .. Len(new.delivered) :
               Fine(new.delivered[i].row) /\ Admitted(new.delivered[i].row)
      BY <1>5, <2>3, <2>4, <2>7
    <3>2. /\ new.ready /\ format \in Spooled => new.source.rows = spool
          /\ format \notin Targeted => new.pending = << >>
      BY <1>1, <2>4 DEF GoodReader
    <3>. QED  BY <1>1, <2>4, <2>6, <2>8, <2>9, <3>1, <3>2 DEF GoodReader
  <2>. QED  BY <2>1, <2>4, <2>10, ReaderMoves
<1>4. CASE ~ FitsContract(r, taken)
  <2>. DEFINE new == [changed EXCEPT !.answer = "error"]
  <2>1. Set(r, new)
    BY <1>4 DEF HandOut, Answer
  <2>2. /\ new \in Record /\ new.state = "live" /\ new.ready /\ new.answer = "error"
        /\ new.source = changed.source /\ new.delivered = old /\ new.at = changed.at
        /\ new.pending = changed.pending
    BY <1>5 DEF Record
  <2>. HIDE DEF new
  <2>3. ASSUME OneSource(new) PROVE \E i \in 1 .. Len(handle.rows) : Unjudged(handle.rows[i])
    <3>1. OneSource(reader[r])
      BY <1>5, <2>2, <2>3 DEF OneSource
    <3>2. passes = {handle} /\ src = handle.rows /\ (format \in Declared => reader[r].source = handle)
      BY <1>1, <1>5, <3>1, OneSourceIs
    <3>3. format = "ipc" => SameColumn(r)
      BY <1>1, <3>2 DEF SameColumn, PassesOK, Declared
    <3>4. PICK i \in 1 .. m : ~ Admitted(taken[i])
      BY <1>4, <3>3 DEF FitsContract, Admitted, m
    <3>5. n + i \in 1 .. Len(handle.rows) /\ taken[i] = handle.rows[n + i]
      BY <1>5, <1>7, <3>2
    <3>. QED  BY <1>1, <3>2, <3>4, <3>5, JudgedCell
  <2>4. GoodReader(new)
    <3>1. \A i \in 1 .. Len(new.pending) : Fine(new.pending[i])
      BY <1>5, <2>2
    <3>2. \A i \in 1 .. Len(new.delivered) : Fine(new.delivered[i].row) /\ Admitted(new.delivered[i].row)
      BY <1>5, <2>2
    <3>3. /\ new.ready /\ format \in Spooled => new.source.rows = spool
          /\ format \notin Targeted => new.pending = << >>
          /\ format \in Declared /\ new.delivered # << >> => new.source.column = contract.column
      BY <1>1, <1>5, <2>2 DEF GoodReader
    <3>. QED  BY <1>1, <2>2, <2>3, <3>1, <3>2, <3>3 DEF GoodReader
  <2>. QED  BY <2>1, <2>2, <2>4, ReaderMoves
<1>. QED  BY <1>3, <1>4

LEMMA SliceIn ==
  ASSUME NEW taken \in Seq(Rows)
  PROVE  Slice(taken) \in 0 .. Len(taken)
BY LayerReadersAssumption DEF Slice

\* Cut in two.
LEMMA CutRows ==
  ASSUME NEW taken \in Seq(Rows), NEW k \in 0 .. Len(taken)
  PROVE  /\ SubSeq(taken, 1, k) \in Seq(Rows) /\ Len(SubSeq(taken, 1, k)) = k
         /\ \A i \in 1 .. k : SubSeq(taken, 1, k)[i] = taken[i]
         /\ SubSeq(taken, k + 1, Len(taken)) \in Seq(Rows)
         /\ Len(SubSeq(taken, k + 1, Len(taken))) = Len(taken) - k
         /\ \A i \in 1 .. Len(taken) - k : SubSeq(taken, k + 1, Len(taken))[i] = taken[k + i]
<1>1. Len(taken) \in Nat /\ k \in Nat /\ k <= Len(taken)
  OBVIOUS
<1>2. (\A i \in 1 .. k : taken[i] \in Rows) /\ (\A i \in k + 1 .. Len(taken) : taken[i] \in Rows)
  BY <1>1
<1>. QED  BY <1>1, <1>2

LEMMA SliceKeeps == ASSUME DeliveryInv, NEW r \in Readers, AnswerSlice(r), reader[r].state = "live" PROVE DeliveryInv'
<1>. USE DEF DeliveryInv
<1>. DEFINE taken == reader[r].pending
            k == Slice(taken)
            head == SubSeq(taken, 1, k)
            tail == SubSeq(taken, k + 1, Len(taken))
            changed == [reader[r] EXCEPT !.pending = tail]
            n == Len(reader[r].delivered)
            src == reader[r].source.rows
<1>1. /\ reader[r] \in Record /\ GoodReader(reader[r]) /\ reader[r].ready
      /\ reader[r].answer \in {"none", "batch"} /\ taken # << >>
      /\ HandOut(r, head, changed) /\ taken \in Seq(Rows)
  BY DEF AnswerSlice, Proceeds, ReadersOK, Record
<1>2. k \in 0 .. Len(taken)
  BY <1>1, SliceIn
<1>3. /\ n \in Nat /\ reader[r].at = n + Len(taken) /\ reader[r].at <= Len(src)
      /\ \A i \in 1 .. Len(taken) : taken[i] = src[n + i] /\ Fine(taken[i])
      /\ format \in Targeted /\ Len(src) \in Nat
  <2>1. reader[r].delivered \in Seq(Delivered) /\ reader[r].source \in Content
    BY <1>1 DEF Record
  <2>2. n \in Nat /\ Len(src) \in Nat
    BY <2>1 DEF Content
  <2>3. reader[r].at = n + Len(taken) /\ reader[r].at <= Len(src) /\ format \in Targeted
    BY <1>1 DEF GoodReader
  <2>4. \A i \in 1 .. Len(taken) : taken[i] = src[n + i] /\ Fine(taken[i])
    BY <1>1 DEF GoodReader
  <2>. QED  BY <2>2, <2>3, <2>4
<1>. HIDE DEF k
<1>4. /\ head \in Seq(Rows) /\ Len(head) = k /\ \A i \in 1 .. k : head[i] = taken[i]
      /\ tail \in Seq(Rows) /\ Len(tail) = Len(taken) - k
      /\ \A i \in 1 .. Len(taken) - k : tail[i] = taken[k + i]
  BY <1>1, <1>2, CutRows
<1>. HIDE DEF head, tail
<1>5. /\ changed \in Record /\ changed.state = "live" /\ changed.ready
      /\ changed.source = reader[r].source /\ changed.delivered = reader[r].delivered
      /\ changed.at = reader[r].at /\ changed.pending = tail
  BY <1>1, <1>4 DEF Record
<1>6. HandOut(r, head, changed)
  BY <1>1
<1>. HIDE DEF changed
<1>7. /\ k \in Nat /\ Len(taken) \in Nat /\ k <= Len(taken)
      /\ \A i \in 1 .. k : i \in 1 .. Len(taken)
      /\ \A i \in 1 .. Len(taken) - k : k + i \in 1 .. Len(taken) /\ n + (k + i) = n + k + i
  <2>1. k \in Nat /\ Len(taken) \in Nat /\ k <= Len(taken) /\ n \in Nat
    BY <1>1, <1>2, <1>3
  <2>. HIDE DEF taken, n
  <2>. QED  BY <2>1
<1>8. \A i \in 1 .. Len(head) : head[i] = src[n + i] /\ Fine(head[i])
  BY <1>3, <1>4, <1>7
<1>9. \A i \in 1 .. Len(tail) : tail[i] = src[n + Len(head) + i] /\ Fine(tail[i])
  <2>1. ASSUME NEW i \in 1 .. Len(tail) PROVE tail[i] = src[n + Len(head) + i] /\ Fine(tail[i])
    <3>1. tail[i] = taken[k + i] /\ k + i \in 1 .. Len(taken) /\ n + (k + i) = n + k + i
      BY <1>4, <1>7
    <3>2. taken[k + i] = src[n + (k + i)] /\ Fine(taken[k + i])
      BY <1>3, <3>1
    <3>. QED  BY <1>4, <3>1, <3>2
  <2>. QED  BY <2>1
<1>10. changed.at = n + Len(head) + Len(tail)
  <2>1. n \in Nat /\ reader[r].at = n + Len(taken)
    BY <1>3
  <2>. HIDE DEF taken, n
  <2>. QED  BY <1>4, <1>5, <1>7, <2>1
<1>11. format \notin Declared \ {"ipc"}
  BY <1>3 DEF Targeted, Declared
<1>12. /\ changed.at = Len(changed.delivered) + Len(head) + Len(changed.pending)
       /\ changed.at <= Len(changed.source.rows)
       /\ \A i \in 1 .. Len(head) :
            head[i] = changed.source.rows[Len(changed.delivered) + i] /\ Fine(head[i])
       /\ \A i \in 1 .. Len(changed.pending) :
            /\ changed.pending[i] = changed.source.rows[Len(changed.delivered) + Len(head) + i]
            /\ Fine(changed.pending[i])
  BY <1>3, <1>5, <1>8, <1>9, <1>10
<1>. HIDE DEF taken, n, src
<1>. QED  BY <1>1, <1>3, <1>4, <1>5, <1>6, <1>11, <1>12, HandOutGood

\* What is left of the source of a reader that keeps nothing back.
LEMMA RestIs ==
  ASSUME DeliveryInv, NEW r \in Readers, reader[r].state = "live",
         Proceeds(r), reader[r].pending = << >>
  PROVE  LET src == reader[r].source.rows
             n == Len(reader[r].delivered)
         IN  /\ src \in Seq(Rows) /\ n \in 0 .. Len(src) /\ reader[r].at = n
             /\ Rest(r) \in Seq(Rows) /\ Len(Rest(r)) = Len(src) - n
             /\ \A i \in 1 .. Len(src) - n : Rest(r)[i] = src[n + i]
<1>. USE DEF DeliveryInv
<1>. DEFINE src == reader[r].source.rows
            n == Len(reader[r].delivered)
<1>1. reader[r] \in Record /\ GoodReader(reader[r])
  BY DEF ReadersOK
<1>2. src \in Seq(Rows) /\ n \in Nat /\ Len(src) \in Nat
  BY <1>1 DEF Record, Content
<1>3. Len(<< >>) = 0
  OBVIOUS
<1>4. reader[r].at = n /\ n <= Len(src)
  BY <1>1, <1>2, <1>3 DEF GoodReader, Proceeds
<1>5. Rest(r) = SubSeq(src, n + 1, Len(src))
  BY <1>4 DEF Rest
<1>6. n \in 0 .. Len(src)
  BY <1>2, <1>4
<1>. HIDE DEF n, src
<1>7. /\ Rest(r) \in Seq(Rows) /\ Len(Rest(r)) = Len(src) - n
      /\ \A i \in 1 .. Len(src) - n : Rest(r)[i] = src[n + i]
  BY <1>2, <1>5, <1>6, CutRows
<1>. QED  BY <1>2, <1>4, <1>6, <1>7 DEF n, src

\* The next batch is a piece of the source.
LEMMA NextRowsAre ==
  ASSUME DeliveryInv, NEW r \in Readers, reader[r].state = "live",
         Proceeds(r), reader[r].pending = << >>, NEW taken \in NextRows(r)
  PROVE  LET src == reader[r].source.rows
             n == Len(reader[r].delivered)
         IN  /\ taken \in Seq(Rows) /\ Len(taken) > 0 /\ n + Len(taken) <= Len(src)
             /\ \A i \in 1 .. Len(taken) : taken[i] = src[n + i]
<1>. DEFINE src == reader[r].source.rows
            n == Len(reader[r].delivered)
<1>1. /\ n \in 0 .. Len(src) /\ src \in Seq(Rows)
      /\ Rest(r) \in Seq(Rows) /\ Len(Rest(r)) = Len(src) - n
      /\ \A i \in 1 .. Len(src) - n : Rest(r)[i] = src[n + i]
  BY RestIs
<1>2. PICK k \in 1 .. Len(Rest(r)) : taken = SubSeq(Rest(r), 1, k)
  BY DEF NextRows
<1>. HIDE DEF n, src
<1>3. k \in 0 .. Len(Rest(r)) /\ k > 0
  BY <1>1, <1>2
<1>4. taken \in Seq(Rows) /\ Len(taken) = k /\ \A i \in 1 .. k : taken[i] = Rest(r)[i]
  BY <1>1, <1>2, <1>3, CutRows
<1>5. Len(src) \in Nat
  BY <1>1
<1>6. k <= Len(src) - n /\ n \in Nat /\ k \in Nat
  BY <1>1, <1>2, <1>5
<1>7. \A i \in 1 .. k : i \in 1 .. Len(src) - n
  BY <1>5, <1>6
<1>8. n + Len(taken) <= Len(src)
  BY <1>4, <1>5, <1>6
<1>9. \A i \in 1 .. Len(taken) : taken[i] = src[n + i]
  BY <1>1, <1>4, <1>7
<1>. QED  BY <1>3, <1>4, <1>8, <1>9 DEF n, src

LEMMA OverIs ==
  ASSUME NEW r \in Readers, reader[r] \in Record, NEW answer \in {"stopped", "error", "eof"}
  PROVE  LET new == [Over(r) EXCEPT !.answer = answer] IN
         /\ new \in Record /\ new.state = reader[r].state /\ new.source = reader[r].source
         /\ new.ready = reader[r].ready /\ new.delivered = reader[r].delivered
         /\ new.at = reader[r].at /\ new.pending = reader[r].pending /\ new.answer = answer
<1>1. Released(r) \in {"none", "held", "released"}
  BY DEF Released, Record
<1>2. PICK inner \in BOOLEAN : inner = (format \in Targeted)
  <2>1. (format \in Targeted) \in BOOLEAN
    OBVIOUS
  <2>. QED  BY <2>1
<1>3. Over(r) = [reader[r] EXCEPT !.lease = Released(r), !.inner = inner]
  BY <1>2 DEF Over
<1>4. /\ Over(r) \in Record /\ Over(r).state = reader[r].state /\ Over(r).source = reader[r].source
      /\ Over(r).ready = reader[r].ready /\ Over(r).delivered = reader[r].delivered
      /\ Over(r).at = reader[r].at /\ Over(r).pending = reader[r].pending
  BY <1>1, <1>3 DEF Record
<1>. QED  BY <1>4 DEF Record

LEMMA BatchKeeps == ASSUME DeliveryInv, NEW r \in Readers, AnswerBatch(r), reader[r].state = "live" PROVE DeliveryInv'
<1>. USE DEF DeliveryInv
<1>1. /\ Proceeds(r) /\ reader[r].pending = << >> /\ reader[r] \in Record /\ GoodReader(reader[r])
      /\ reader[r].ready /\ reader[r].answer \in {"none", "batch"} /\ dataset = "open"
  BY DEF AnswerBatch, Proceeds, ReadersOK, GoodReader
<1>2. PICK taken \in NextRows(r) :
        /\ Readable(r, taken)
        /\ LET take == IF format \in Targeted THEN Slice(taken) ELSE Len(taken) IN
           HandOut(r, SubSeq(taken, 1, take),
             [reader[r] EXCEPT !.at = @ + Len(taken), !.pending = SubSeq(taken, take + 1, Len(taken))])
  BY DEF AnswerBatch
<1>. DEFINE src == reader[r].source.rows
            n == Len(reader[r].delivered)
            k == IF format \in Targeted THEN Slice(taken) ELSE Len(taken)
            head == SubSeq(taken, 1, k)
            tail == SubSeq(taken, k + 1, Len(taken))
            changed == [reader[r] EXCEPT !.at = @ + Len(taken), !.pending = tail]
<1>3. /\ src \in Seq(Rows) /\ n \in 0 .. Len(src) /\ reader[r].at = n
      /\ taken \in Seq(Rows) /\ Len(taken) > 0 /\ n + Len(taken) <= Len(src)
      /\ \A i \in 1 .. Len(taken) : taken[i] = src[n + i]
  BY <1>1, RestIs, NextRowsAre
<1>4. ASSUME NEW i \in 1 .. Len(taken) PROVE Fine(taken[i])
  <2>1. Cell(taken[i]) # "refused"
    BY <1>2 DEF Readable
  <2>2. ASSUME format \in Spooled PROVE taken[i].cell # "bad"
    <3>1. src = spool /\ passes = {handle} /\ format \notin Declared
      BY <1>1, <2>2 DEF GoodReader, PassesOK, Spooled, Declared
    <3>2. n + i \in 1 .. Len(spool) /\ taken[i] = spool[n + i]
      <4>1. n \in Nat /\ Len(src) \in Nat /\ Len(taken) \in Nat /\ n + Len(taken) <= Len(src)
        BY <1>3
      <4>. HIDE DEF n, src
      <4>2. n + i \in 1 .. Len(src)
        BY <4>1
      <4>. QED  BY <1>3, <3>1, <4>2
    <3>3. spool[n + i] = handle.rows[n + i] /\ n + i \in 1 .. Len(handle.rows)
      BY <1>1, <2>2, <3>1, <3>2 DEF PassesOK
    <3>4. JudgedTo(handle, Len(handle.rows))
      BY <1>1, <3>1 DEF PassesOK
    <3>. QED  BY <3>2, <3>3, <3>4 DEF JudgedTo
  <2>. QED  BY <2>1, <2>2 DEF Fine
<1>5. k \in 0 .. Len(taken)
  BY <1>3, SliceIn
<1>6. HandOut(r, head, changed)
  BY <1>2
<1>7. format \notin Targeted => k = Len(taken)
  OBVIOUS
<1>. HIDE DEF k
<1>8. /\ head \in Seq(Rows) /\ Len(head) = k /\ \A i \in 1 .. k : head[i] = taken[i]
      /\ tail \in Seq(Rows) /\ Len(tail) = Len(taken) - k
      /\ \A i \in 1 .. Len(taken) - k : tail[i] = taken[k + i]
  BY <1>3, <1>5, CutRows
<1>. HIDE DEF head, tail
<1>9. n \in Nat /\ Len(taken) \in Nat /\ k \in Nat /\ k <= Len(taken)
  BY <1>3, <1>5
<1>10. format \notin Targeted => tail = << >>
  <2>1. format \notin Targeted => Len(tail) = 0
    BY <1>7, <1>8, <1>9
  <2>. QED  BY <1>8, <2>1
<1>11. /\ changed \in Record /\ changed.state = "live" /\ changed.ready
       /\ changed.source = reader[r].source /\ changed.delivered = reader[r].delivered
       /\ changed.at = n + Len(taken) /\ changed.pending = tail
  <2>1. reader[r].at + Len(taken) \in Nat /\ reader[r].at + Len(taken) = n + Len(taken)
    BY <1>3, <1>9
  <2>. HIDE DEF n
  <2>. QED  BY <1>1, <1>8, <2>1 DEF Record
<1>. HIDE DEF changed
<1>12. \A i \in 1 .. Len(head) : head[i] = src[n + i] /\ Fine(head[i])
  <2>1. \A i \in 1 .. k : i \in 1 .. Len(taken)
    BY <1>9
  <2>. QED  BY <1>3, <1>4, <1>8, <2>1
<1>13. \A i \in 1 .. Len(tail) : tail[i] = src[n + Len(head) + i] /\ Fine(tail[i])
  <2>1. ASSUME NEW i \in 1 .. Len(tail) PROVE tail[i] = src[n + Len(head) + i] /\ Fine(tail[i])
    <3>1. i \in 1 .. Len(taken) - k
      BY <1>8
    <3>2. k + i \in 1 .. Len(taken) /\ n + (k + i) = n + k + i
      <4>. HIDE DEF n
      <4>. QED  BY <1>9, <3>1
    <3>3. tail[i] = taken[k + i] /\ taken[k + i] = src[n + (k + i)] /\ Fine(taken[k + i])
      BY <1>3, <1>4, <1>8, <3>1, <3>2
    <3>. QED  BY <1>8, <3>2, <3>3
  <2>. QED  BY <2>1
<1>14. changed.at = n + Len(head) + Len(tail)
  <2>. HIDE DEF n
  <2>. QED  BY <1>8, <1>9, <1>11
<1>15. format \in Declared \ {"ipc"} => SameColumn(r)
  <2>1. taken # << >>
    BY <1>3
  <2>. QED  BY <1>2, <2>1 DEF Readable, Declared
<1>16. /\ changed.at = Len(changed.delivered) + Len(head) + Len(changed.pending)
       /\ changed.at <= Len(changed.source.rows)
       /\ \A i \in 1 .. Len(head) :
            head[i] = changed.source.rows[Len(changed.delivered) + i] /\ Fine(head[i])
       /\ \A i \in 1 .. Len(changed.pending) :
            /\ changed.pending[i] = changed.source.rows[Len(changed.delivered) + Len(head) + i]
            /\ Fine(changed.pending[i])
       /\ format \notin Targeted => changed.pending = << >>
  BY <1>3, <1>10, <1>11, <1>12, <1>13, <1>14
<1>. HIDE DEF n, src
<1>. QED  BY <1>1, <1>6, <1>8, <1>11, <1>15, <1>16, HandOutGood

LEMMA ErrorKeeps == ASSUME DeliveryInv, NEW r \in Readers, AnswerError(r), reader[r].state = "live" PROVE DeliveryInv'
<1>. USE DEF DeliveryInv
<1>1. /\ Proceeds(r) /\ reader[r].pending = << >> /\ reader[r] \in Record /\ GoodReader(reader[r])
      /\ reader[r].ready /\ dataset = "open" /\ Set(r, [Over(r) EXCEPT !.answer = "error"])
  BY DEF AnswerError, Answer, Proceeds, ReadersOK, GoodReader
<1>2. PICK taken \in NextRows(r) \cup {<< >>} : ~ Readable(r, taken)
  BY DEF AnswerError
<1>3. ASSUME OneSource(reader[r])
      PROVE  \E i \in 1 .. Len(handle.rows) : Unjudged(handle.rows[i])
  <2>1. /\ passes = {handle} /\ reader[r].source.rows = handle.rows
        /\ format \in Declared => reader[r].source = handle
    BY <1>1, <1>3, OneSourceIs
  <2>2. format \in Declared => SameColumn(r)
    BY <1>1, <2>1 DEF SameColumn, PassesOK
  <2>3. PICK i \in 1 .. Len(taken) : Cell(taken[i]) = "refused"
    BY <1>2, <2>2 DEF Readable, Declared
  <2>4. taken \in NextRows(r)
    BY <2>3
  <2>5. /\ Len(reader[r].delivered) \in Nat /\ Len(handle.rows) \in Nat /\ Len(taken) \in Nat
        /\ Len(reader[r].delivered) + Len(taken) <= Len(handle.rows)
        /\ taken[i] = handle.rows[Len(reader[r].delivered) + i]
    BY <1>1, <2>1, <2>4, RestIs, NextRowsAre
  <2>. DEFINE j == Len(reader[r].delivered) + i
  <2>6. j \in 1 .. Len(handle.rows)
    BY <2>5
  <2>7. Cell(handle.rows[j]) = "refused"
    BY <2>3, <2>5
  <2>. HIDE DEF j
  <2>. QED  BY <1>1, <2>1, <2>6, <2>7, JudgedCell
<1>. DEFINE new == [Over(r) EXCEPT !.answer = "error"]
<1>4. /\ new \in Record /\ new.state = reader[r].state /\ new.source = reader[r].source
      /\ new.ready = reader[r].ready /\ new.delivered = reader[r].delivered
      /\ new.at = reader[r].at /\ new.pending = reader[r].pending /\ new.answer = "error"
  BY <1>1, OverIs
<1>5. Set(r, new)
  BY <1>1
<1>. HIDE DEF new
<1>6. GoodReader(new)
  BY <1>1, <1>3, <1>4, SettledGood
<1>. QED  BY <1>4, <1>5, <1>6, ReaderMoves

LEMMA EofKeeps == ASSUME DeliveryInv, NEW r \in Readers, AnswerEof(r), reader[r].state = "live" PROVE DeliveryInv'
<1>. USE DEF DeliveryInv
<1>1. /\ Proceeds(r) /\ reader[r].pending = << >> /\ reader[r] \in Record /\ GoodReader(reader[r])
      /\ reader[r].ready /\ reader[r].answer \in {"none", "batch"}
      /\ Rest(r) = << >> /\ Set(r, [Over(r) EXCEPT !.answer = "eof"])
  BY DEF AnswerEof, Answer, Proceeds, ReadersOK
<1>2. Follows(reader[r])
  BY <1>1 DEF GoodReader
<1>3. Len(reader[r].delivered) = Len(reader[r].source.rows)
  <2>. DEFINE n == Len(reader[r].delivered)
              m == Len(reader[r].source.rows)
  <2>1. n \in 0 .. m /\ Len(Rest(r)) = m - n /\ reader[r].source.rows \in Seq(Rows)
    BY <1>1, RestIs
  <2>2. m \in Nat /\ Len(Rest(r)) = 0
    BY <1>1, <2>1
  <2>. HIDE DEF n, m
  <2>3. n = m
    BY <2>1, <2>2
  <2>. QED  BY <2>3 DEF n, m
<1>. DEFINE new == [Over(r) EXCEPT !.answer = "eof"]
<1>4. /\ new \in Record /\ new.state = reader[r].state /\ new.source = reader[r].source
      /\ new.ready = reader[r].ready /\ new.delivered = reader[r].delivered
      /\ new.at = reader[r].at /\ new.pending = reader[r].pending /\ new.answer = "eof"
  BY <1>1, OverIs
<1>5. Set(r, new)
  BY <1>1
<1>. HIDE DEF new
<1>6. GoodReader(new)
  BY <1>1, <1>2, <1>3, <1>4, SettledGood
<1>. QED  BY <1>4, <1>5, <1>6, ReaderMoves

LEMMA StoppedKeeps == ASSUME DeliveryInv, NEW r \in Readers, AnswerStopped(r) PROVE DeliveryInv'
<1>. USE DEF DeliveryInv
<1>1. reader[r] \in Record /\ GoodReader(reader[r])
  BY DEF ReadersOK
<1>. DEFINE halted == [reader[r] EXCEPT !.pending = << >>]
            new == IF format \in Targeted THEN [halted EXCEPT !.answer = "stopped"]
                   ELSE [Over(r) EXCEPT !.answer = "stopped"]
<1>2. Set(r, new)
  BY DEF AnswerStopped, Answer
<1>3. /\ halted \in Record /\ halted.state = reader[r].state /\ halted.source = reader[r].source
      /\ halted.ready = reader[r].ready /\ halted.delivered = reader[r].delivered
      /\ halted.at = reader[r].at /\ halted.pending = << >>
  <2>1. << >> \in Seq(Rows)
    OBVIOUS
  <2>. QED  BY <1>1, <2>1 DEF Record
<1>. HIDE DEF halted
<1>4. /\ new \in Record /\ new.state = reader[r].state /\ new.source = reader[r].source
      /\ new.ready = reader[r].ready /\ new.delivered = reader[r].delivered
      /\ new.at = reader[r].at /\ new.pending \in {reader[r].pending, << >>} /\ new.answer = "stopped"
  <2>1. CASE format \in Targeted
    BY <1>3, <2>1 DEF Record
  <2>2. CASE format \notin Targeted
    BY <1>1, <2>2, OverIs
  <2>. QED  BY <2>1, <2>2
<1>. HIDE DEF new
<1>5. GoodReader(new)
  BY <1>1, <1>4, SettledGood
<1>. QED  BY <1>2, <1>4, <1>5, ReaderMoves

LEMMA DeliveryStep == DeliveryInv /\ [Next]_vars => DeliveryInv'
<1>. SUFFICES ASSUME DeliveryInv, [Next]_vars PROVE DeliveryInv'
  OBVIOUS
<1>1. ASSUME UNCHANGED vars PROVE DeliveryInv'
  <2>1. UNCHANGED <<format, file, dataset, handle, scanned, acc, seen, passes, contract, spool, reader>>
    BY <1>1 DEF vars
  <2>2. DatasetOK'
    BY <2>1 DEF DeliveryInv, DatasetOK, Sound
  <2>3. PassesOK'
    BY <2>1 DEF DeliveryInv, PassesOK, JudgedTo, TypesTo
  <2>4. ReadersOK'
    <3>1. ASSUME NEW x \in {reader'[r] : r \in Readers} PROVE GoodReader(x)'
      BY <2>1, GoodSame DEF DeliveryInv, ReadersOK
    <3>. QED  BY <2>1, <3>1 DEF DeliveryInv, ReadersOK
  <2>. QED  BY <2>2, <2>3, <2>4 DEF DeliveryInv
<1>2. CASE Scan \/ ScanCsvGeometry
  BY <1>2, ScanKeeps
<1>3. CASE \/ InferCsv \/ InferCsvGeometry \/ InferGeoJson \/ SpoolKml \/ SpoolDxf \/ SpoolXls
           \/ RefuseRow \/ Conclude \/ OpenIpc \/ OpenGeoParquet \/ OpenFileGdb \/ Replace
  BY <1>3, OpenDatasetKeeps
<1>4. ASSUME NEW r \in Readers, NextBatch(r) PROVE DeliveryInv'
  <2>1. CASE AnswerAgain(r)
    BY <1>1, <2>1 DEF AnswerAgain
  <2>. QED  BY <1>4, <2>1, StoppedKeeps, SliceKeeps, BatchKeeps, ErrorKeeps, EofKeeps DEF NextBatch
<1>5. ASSUME NEW r \in Readers,
             OpenLayerReader(r) \/ WorkerOpens(r) \/ DropReader(r) \/ Stop(r)
      PROVE  DeliveryInv'
  BY <1>5, OpenLayerKeeps, WorkerOpensKeeps, DropReaderKeeps, StopReaderKeeps
<1>6. CASE Finished
  BY <1>1, <1>6 DEF Finished
<1>. QED  BY <1>1, <1>2, <1>3, <1>4, <1>5, <1>6 DEF Next

LEMMA DeliveryFits == DeliveryInv => DeliveredFitsContract
<1>. SUFFICES ASSUME DeliveryInv, NEW r \in Readers, NEW i \in 1 .. Len(reader[r].delivered)
              PROVE  LET row == reader[r].delivered[i].row IN
                     /\ contract.types = {} \/ Types(row) \subseteq contract.types
                     /\ IF format \in Declared THEN SameColumn(r)
                        ELSE row.cell \in Native(contract.column) \cup {"null", "late"}
  BY DEF DeliveredFitsContract
<1>. DEFINE row == reader[r].delivered[i].row
<1>1. reader[r] \in Record /\ GoodReader(reader[r])
  BY DEF DeliveryInv, ReadersOK
<1>2. reader[r].delivered \in Seq(Delivered) /\ reader[r].delivered # << >>
  BY <1>1 DEF Record
<1>3. row \in Rows
  <2>1. reader[r].delivered[i] \in Delivered
    BY <1>2
  <2>. QED  BY <2>1 DEF Delivered
<1>4. Fine(row) /\ Admitted(row) /\ dataset = "open"
  BY <1>1, <1>2 DEF GoodReader
<1>5. format \in Declared => SameColumn(r)
  BY <1>1, <1>2 DEF GoodReader, SameColumn
<1>6. format \notin Declared => row.cell \in Native(contract.column) \cup {"null", "late"}
  BY <1>3, <1>4, FineFits DEF DeliveryInv
<1>. QED  BY <1>4, <1>5, <1>6 DEF Admitted

LEMMA DeliveryWhole == DeliveryInv => UnchangedFileIsDelivered
<1>. SUFFICES ASSUME DeliveryInv, NEW r \in Readers, OneFile(r)
              PROVE  /\ reader[r].answer = "eof" =>
                          reader[r].delivered =
                            [i \in 1 .. Len(handle.rows) |-> [row |-> handle.rows[i], value |-> "exact"]]
                     /\ reader[r].answer = "error" =>
                          \E i \in 1 .. Len(handle.rows) : Unjudged(handle.rows[i])
  BY DEF UnchangedFileIsDelivered
<1>1. reader[r] \in Record /\ GoodReader(reader[r]) /\ OneSource(reader[r])
  BY DEF DeliveryInv, ReadersOK, OneFile, OneSource
<1>2. ASSUME reader[r].answer = "eof"
      PROVE  reader[r].delivered =
               [i \in 1 .. Len(handle.rows) |-> [row |-> handle.rows[i], value |-> "exact"]]
  <2>1. reader[r].ready /\ dataset = "open" /\ reader[r].state # "none"
    BY <1>1, <1>2 DEF GoodReader
  <2>2. /\ passes = {handle} /\ reader[r].source.rows = handle.rows
    BY <1>1, <2>1, OneSourceIs
  <2>3. /\ Follows(reader[r]) /\ Len(reader[r].delivered) = Len(handle.rows)
    BY <1>1, <1>2, <2>2 DEF GoodReader
  <2>4. ASSUME NEW i \in 1 .. Len(handle.rows)
        PROVE  reader[r].delivered[i] = [row |-> handle.rows[i], value |-> "exact"]
    <3>1. reader[r].delivered[i] = [row |-> handle.rows[i], value |-> Cell(handle.rows[i])]
      BY <2>2, <2>3 DEF Follows
    <3>2. Fine(handle.rows[i])
      <4>1. reader[r].delivered[i].row = handle.rows[i]
        BY <3>1
      <4>2. Fine(reader[r].delivered[i].row)
        BY <1>1, <2>3 DEF GoodReader
      <4>. QED  BY <4>1, <4>2
    <3>3. Cell(handle.rows[i]) \in {"exact", "refused"}
      BY <2>1, <2>2, JudgedCell DEF DeliveryInv
    <3>. QED  BY <3>1, <3>2, <3>3 DEF Fine
  <2>5. reader[r].delivered \in Seq(Delivered)
    BY <1>1 DEF Record
  <2>. QED  BY <2>3, <2>4, <2>5
<1>. QED  BY <1>1, <1>2 DEF GoodReader

\* Whatever another process puts at the path between the passes of open and
\* those of the readers, a row that is delivered has a geometry type of the
\* contract and a value that its column can hold (second passes of the
\* drivers, read_schemas_are_compatible, collect_read_violations).
THEOREM FitsAlways == Spec => []DeliveredFitsContract
<1>. QED  BY DeliveryInit, DeliveryStep, DeliveryFits, PTL DEF Spec

\* A file that nobody replaced is delivered to its last row, every value as it
\* was read; a reader fails only on a row the pass of open could not judge.
THEOREM DeliveredWhole == Spec => []UnchangedFileIsDelivered
<1>. QED  BY DeliveryInit, DeliveryStep, DeliveryWhole, PTL DEF Spec

-----------------------------------------------------------------------------
(* The places of rowids in a finite set *)

LEMMA RankGrows ==
  ASSUME NEW S \in SUBSET Int, IsFiniteSet(S)
  PROVE  /\ Cardinality(S) \in Nat
         /\ \A id \in S : Rank(S, id) \in 1 .. Cardinality(S)
         /\ \A a, b \in S : a < b => Rank(S, a) < Rank(S, b)
<1>. DEFINE Upto(id) == {other \in S : other <= id}
<1>1. Cardinality(S) \in Nat
  BY FS_CardinalityType
<1>2. ASSUME NEW id \in S
      PROVE  IsFiniteSet(Upto(id)) /\ Cardinality(Upto(id)) \in 1 .. Cardinality(S)
  <2>1. Upto(id) \in SUBSET S /\ id \in Upto(id)
    OBVIOUS
  <2>2. IsFiniteSet(Upto(id)) /\ Cardinality(Upto(id)) <= Cardinality(S)
    BY <2>1, FS_Subset
  <2>3. Cardinality(Upto(id)) \in Nat /\ Cardinality(Upto(id)) # 0
    BY <2>1, <2>2, FS_CardinalityType, FS_EmptySet
  <2>. HIDE DEF Upto
  <2>. QED  BY <1>1, <2>2, <2>3
<1>3. ASSUME NEW a \in S, NEW b \in S, a < b
      PROVE  Cardinality(Upto(a)) < Cardinality(Upto(b))
  <2>1. Upto(a) \in SUBSET Upto(b) /\ b \in Upto(b) /\ b \notin Upto(a)
    <3>1. a \in Int /\ b \in Int
      OBVIOUS
    <3>2. b \in Upto(b) /\ b \notin Upto(a)
      BY <1>3, <3>1
    <3>3. ASSUME NEW x \in Upto(a) PROVE x \in Upto(b)
      <4>1. x \in S /\ x \in Int /\ x <= a
        OBVIOUS
      <4>. QED  BY <4>1, <1>3, <3>1
    <3>. QED  BY <3>2, <3>3
  <2>2. /\ Cardinality(Upto(a)) <= Cardinality(Upto(b))
        /\ Cardinality(Upto(b)) # Cardinality(Upto(a))
    BY <1>2, <2>1, FS_Subset
  <2>3. Cardinality(Upto(a)) \in Int /\ Cardinality(Upto(b)) \in Int
    BY <1>1, <1>2
  <2>. HIDE DEF Upto
  <2>. QED  BY <2>2, <2>3
<1>. QED  BY <1>1, <1>2, <1>3 DEF Rank

\* Every place up to the last is taken.
LEMMA RankReaches ==
  ASSUME NEW S \in SUBSET Int, IsFiniteSet(S)
  PROVE  \A n \in 1 .. Cardinality(S) : \E id \in S : Rank(S, id) = n
<1>. DEFINE N == Cardinality(S)
            f == [id \in S |-> Rank(S, id)]
<1>1. N \in Nat /\ (\A id \in S : Rank(S, id) \in 1 .. N)
  BY RankGrows
<1>2. \A a, b \in S : Rank(S, a) = Rank(S, b) => a = b
  <2>1. ASSUME NEW a \in S, NEW b \in S, Rank(S, a) = Rank(S, b) PROVE a = b
    <3>1. a \in Int /\ b \in Int /\ Rank(S, a) \in Int /\ Rank(S, b) \in Int
      BY <1>1
    <3>2. ~ (a < b) /\ ~ (b < a)
      BY <2>1, <3>1, RankGrows
    <3>. QED  BY <3>1, <3>2
  <2>. QED  BY <2>1
<1>3. IsFiniteSet(1 .. N) /\ Cardinality(1 .. N) = N
  BY <1>1, FS_Interval
<1>. HIDE DEF N
<1>4. f \in Injection(S, 1 .. N)
  BY <1>1, <1>2 DEF Injection, IsInjective
<1>. HIDE DEF f
<1>5. f \in Surjection(S, 1 .. N)
  BY <1>3, <1>4, FS_Injection DEF N
<1>6. \A n \in 1 .. N : \E id \in S : f[id] = n
  BY <1>5 DEF Surjection
<1>. QED  BY <1>6 DEF f, N

LEMMA GreatestIs ==
  ASSUME NEW S \in SUBSET Int, IsFiniteSet(S), S # {}
  PROVE  Greatest(S) \in S /\ \A other \in S : other <= Greatest(S)
<1>1. Cardinality(S) \in Nat \ {0}
  BY FS_CardinalityType, FS_EmptySet
<1>2. PICK id \in S : Rank(S, id) = Cardinality(S)
  BY <1>1, RankReaches
<1>3. {other \in S : other <= id} \in SUBSET S
  OBVIOUS
<1>4. {other \in S : other <= id} = S
  BY <1>2, <1>3, FS_Subset DEF Rank
<1>5. \A other \in S : other <= id
  BY <1>4
<1>. QED  BY <1>5 DEF Greatest

\* The rows of a page in their order: all of them, each once.
LEMMA InOrderIs ==
  ASSUME NEW S \in SUBSET Int, IsFiniteSet(S)
  PROVE  /\ InOrder(S) \in Seq(S) /\ Len(InOrder(S)) \in Nat
         /\ IdsOf(InOrder(S)) = S
         /\ \A i, j \in 1 .. Len(InOrder(S)) : i < j => InOrder(S)[i] < InOrder(S)[j]
<1>. DEFINE N == Cardinality(S)
            s == InOrder(S)
<1>1. N \in Nat /\ (\A id \in S : Rank(S, id) \in 1 .. N)
  BY RankGrows
<1>2. \A i \in 1 .. N : s[i] \in S /\ Rank(S, s[i]) = i
  BY RankReaches DEF InOrder
<1>3. s = [i \in 1 .. N |-> s[i]]
  BY DEF InOrder
<1>. HIDE DEF N, s
<1>4. s \in Seq(S) /\ Len(s) = N
  BY <1>1, <1>2, <1>3
<1>5. ASSUME NEW i \in 1 .. N, NEW j \in 1 .. N, i < j PROVE s[i] < s[j]
  <2>1. s[i] \in Int /\ s[j] \in Int /\ Rank(S, s[i]) = i /\ Rank(S, s[j]) = j
    BY <1>2
  <2>2. ~ (s[j] < s[i])
    BY <1>2, <1>5, <2>1, <1>1, RankGrows
  <2>3. s[i] # s[j]
    BY <1>5, <2>1, <1>1
  <2>. QED  BY <2>1, <2>2, <2>3
<1>6. ASSUME NEW id \in S PROVE \E i \in 1 .. N : s[i] = id
  <2>1. Rank(S, id) \in 1 .. N
    BY <1>1
  <2>2. PICK i \in 1 .. N : i = Rank(S, id)
    BY <2>1
  <2>3. s[i] \in S /\ Rank(S, s[i]) = Rank(S, id) /\ s[i] \in Int /\ id \in Int
    BY <1>2, <2>2
  <2>4. ~ (s[i] < id) /\ ~ (id < s[i])
    BY <1>1, <2>1, <2>3, RankGrows
  <2>5. s[i] = id
    BY <2>3, <2>4
  <2>. QED  BY <2>5
<1>7. IdsOf(s) = S
  BY <1>2, <1>4, <1>6 DEF IdsOf
<1>. QED  BY <1>1, <1>4, <1>5, <1>7 DEF s, N

\* A limit cuts a set at one place and takes one row at least.
LEMMA FirstIs ==
  ASSUME NEW S \in SUBSET Int, IsFiniteSet(S), NEW limit \in Nat \ {0}
  PROVE  /\ First(S, limit) \in SUBSET S /\ IsFiniteSet(First(S, limit))
         /\ S # {} => First(S, limit) # {}
         /\ \A id \in First(S, limit) : \A other \in S : other <= id => other \in First(S, limit)
<1>1. First(S, limit) \in SUBSET S
  BY DEF First
<1>2. IsFiniteSet(First(S, limit))
  BY <1>1, FS_Subset
<1>3. ASSUME S # {} PROVE First(S, limit) # {}
  <2>1. Cardinality(S) \in Nat \ {0}
    BY <1>3, FS_CardinalityType, FS_EmptySet
  <2>2. PICK id \in S : Rank(S, id) = 1
    BY <2>1, RankReaches
  <2>. QED  BY <2>2 DEF First
<1>4. ASSUME NEW id \in First(S, limit), NEW other \in S, other <= id PROVE other \in First(S, limit)
  <2>1. id \in S /\ Rank(S, id) <= limit /\ id \in Int /\ other \in Int
    BY <1>4 DEF First
  <2>2. Rank(S, id) \in Int /\ Rank(S, other) \in Int
    BY <2>1, RankGrows
  <2>3. Rank(S, other) <= Rank(S, id)
    <3>1. CASE other = id
      BY <3>1, <2>2
    <3>2. CASE other < id
      BY <3>2, <2>1, <2>2, RankGrows
    <3>. QED  BY <1>4, <2>1, <3>1, <3>2
  <2>. QED  BY <2>1, <2>2, <2>3 DEF First
<1>. QED  BY <1>1, <1>2, <1>3, <1>4

-----------------------------------------------------------------------------
(* What is true between two pages *)

PagingTyped ==
  /\ DOMAIN table \subseteq RowIds
  /\ last_rowid \in RowIds \cup {NoRowId}
  /\ delivered \in Seq(RowIds) /\ pages \in Nat
  /\ steady \subseteq Selected

\* The rowids the cursor has gone past: one more, at least, with every page.
Passed == {id \in RowIds : last_rowid # NoRowId /\ id <= last_rowid}

PagesKept == pages <= Cardinality(Passed)

\* What is delivered is in order and behind the cursor, and no row that nobody
\* touched is behind the cursor without having been delivered.
OrderKept ==
  consistent =>
    /\ last_rowid = NoRowId => delivered = << >>
    /\ \A i \in 1 .. Len(delivered) : last_rowid # NoRowId /\ delivered[i] <= last_rowid
    /\ \A i, j \in 1 .. Len(delivered) : i < j => delivered[i] < delivered[j]
    /\ steady \cap Passed \subseteq IdsOf(delivered)
    /\ page_answer = "eof" => steady \subseteq IdsOf(delivered)

PagingInv == PagingTyped /\ PagesKept /\ OrderKept

LEMMA PassedIs ==
  ASSUME PagingTyped
  PROVE  /\ IsFiniteSet(Passed) /\ Cardinality(Passed) \in Nat
         /\ Cardinality(Passed) <= Cardinality(RowIds) /\ Cardinality(RowIds) \in Nat
<1>1. Passed \in SUBSET RowIds
  BY DEF Passed
<1>. QED  BY <1>1, GpkgPagingAssumption, FS_Subset, FS_CardinalityType

LEMMA PagingInvImplies ==
  ASSUME PagingInv PROVE PagingIsExact
<1>1. pages <= Cardinality(RowIds)
  BY PassedIs DEF PagingInv, PagingTyped, PagesKept
<1>. QED  BY <1>1 DEF PagingInv, OrderKept, PagingIsExact

LEMMA PagingStarts == PagingInit => PagingInv
<1>. SUFFICES ASSUME PagingInit PROVE PagingInv
  OBVIOUS
<1>1. DOMAIN table \subseteq RowIds
  BY DEF PagingInit
<1>2. PagingTyped
  BY <1>1 DEF PagingInit, PagingTyped
<1>3. PagesKept
  BY <1>2, PassedIs DEF PagingInit, PagesKept
<1>4. OrderKept
  <2>1. Passed = {}
    BY DEF PagingInit, Passed
  <2>. QED  BY <2>1 DEF PagingInit, OrderKept
<1>. QED  BY <1>2, <1>3, <1>4 DEF PagingInv

\* A step that leaves the cursor and what is delivered alone, and takes no row
\* among those nobody touched away but from their set.
LEMMA QuietKeeps ==
  ASSUME PagingInv, UNCHANGED <<consistent, last_rowid, delivered, pages>>,
         DOMAIN table' \subseteq RowIds, steady' \subseteq Selected', steady' \subseteq steady,
         (consistent /\ page_answer' = "eof") => steady' \subseteq IdsOf(delivered)
  PROVE  PagingInv'
<1>1. Passed' = Passed /\ IdsOf(delivered)' = IdsOf(delivered)
  BY DEF Passed, IdsOf
<1>2. PagingTyped'
  BY DEF PagingInv, PagingTyped
<1>3. PagesKept'
  BY <1>1 DEF PagingInv, PagesKept
<1>4. OrderKept'
  BY <1>1 DEF PagingInv, OrderKept
<1>. QED  BY <1>2, <1>3, <1>4 DEF PagingInv

LEMMA ChangeKeeps ==
  ASSUME PagingInv, NEW id \in RowIds, NEW feature,
         Delete(id) \/ Insert(id, feature) \/ Update(id, feature)
  PROVE  PagingInv'
<1>1. /\ UNCHANGED <<joined, consistent, last_rowid, page_answer, delivered, pages>>
      /\ page_answer # "eof" /\ steady' = steady \ {id}
  BY DEF Delete, Insert, Update, Change
<1>2. /\ DOMAIN table' \subseteq RowIds
      /\ \A other \in DOMAIN table \ {id} : other \in DOMAIN table' /\ table'[other] = table[other]
  <2>1. CASE Delete(id)
    BY <2>1 DEF Delete, Change, PagingInv, PagingTyped
  <2>2. CASE Insert(id, feature)
    BY <2>2 DEF Insert, Change, PagingInv, PagingTyped
  <2>3. CASE Update(id, feature)
    BY <2>3 DEF Update, Change, PagingInv, PagingTyped
  <2>. QED  BY <2>1, <2>2, <2>3
<1>3. steady' \subseteq Selected'
  BY <1>1, <1>2 DEF PagingInv, PagingTyped, Selected
<1>. QED  BY <1>1, <1>2, <1>3, QuietKeeps

\* An answer that is no batch; an end only when nothing is past the cursor.
LEMMA ConcludeKeeps ==
  ASSUME PagingInv, NEW final, ConcludePage(final),
         final = "eof" => (consistent => \A id \in Selected : ~ Past(id))
  PROVE  PagingInv'
<1>1. /\ UNCHANGED <<table, joined, consistent, last_rowid, delivered, pages, steady>>
      /\ page_answer' = final
  BY DEF ConcludePage
<1>2. Selected' = Selected
  BY <1>1 DEF Selected
<1>3. ASSUME consistent, final = "eof" PROVE steady \subseteq IdsOf(delivered)
  <2>1. \A id \in steady : id \in RowIds /\ ~ Past(id)
    BY <1>3 DEF PagingInv, PagingTyped, Selected
  <2>2. ASSUME NEW id \in steady PROVE id \in Passed
    <3>1. id \in RowIds /\ last_rowid # NoRowId /\ ~ (id > last_rowid)
      BY <2>1 DEF Past
    <3>2. id \in Int /\ last_rowid \in Int
      BY <3>1, GpkgPagingAssumption DEF PagingInv, PagingTyped
    <3>. QED  BY <3>1, <3>2 DEF Passed
  <2>. QED  BY <2>2, <1>3 DEF PagingInv, OrderKept
<1>. QED  BY <1>1, <1>2, <1>3, QuietKeeps DEF PagingInv, PagingTyped

\* The query of a consistent file gives the rows past the cursor, from the
\* first on.
LEMMA AnswerIs ==
  ASSUME PagingInv, NEW limit \in PageSizes, consistent, NEW page \in Answers(limit)
  PROVE  /\ page \in Seq(RowIds) /\ Len(page) \in Nat
         /\ IdsOf(page) \subseteq Selected /\ \A id \in IdsOf(page) : Past(id)
         /\ \A i, j \in 1 .. Len(page) : i < j => page[i] < page[j]
         /\ \A id \in IdsOf(page) : \A other \in Selected :
              Past(other) /\ other <= id => other \in IdsOf(page)
         /\ page = << >> => \A id \in Selected : ~ Past(id)
<1>. DEFINE S == {id \in Selected : Past(id)}
            F == First(S, limit)
<1>1. S \subseteq RowIds /\ RowIds \subseteq Int /\ IsFiniteSet(RowIds) /\ limit \in Nat \ {0}
  BY GpkgPagingAssumption DEF PagingInv, PagingTyped, Selected
<1>2. S \in SUBSET Int /\ IsFiniteSet(S)
  BY <1>1, FS_Subset
<1>3. page = InOrder(F)
  BY DEF Answers, Page
<1>4. \A id : id \in S <=> id \in Selected /\ Past(id)
  OBVIOUS
<1>. HIDE DEF S
<1>5. /\ F \in SUBSET S /\ IsFiniteSet(F) /\ (S # {} => F # {})
      /\ \A id \in F : \A other \in S : other <= id => other \in F
  BY <1>1, <1>2, FirstIs
<1>. HIDE DEF F
<1>6. F \in SUBSET Int
  BY <1>2, <1>5
<1>7. /\ page \in Seq(F) /\ Len(page) \in Nat /\ IdsOf(page) = F
      /\ \A i, j \in 1 .. Len(page) : i < j => page[i] < page[j]
  BY <1>3, <1>5, <1>6, InOrderIs
<1>8. page \in Seq(RowIds)
  <2>1. \A i \in 1 .. Len(page) : page[i] \in RowIds
    BY <1>1, <1>5, <1>7 DEF IdsOf
  <2>2. page = [i \in 1 .. Len(page) |-> page[i]]
    BY <1>7
  <2>. QED  BY <1>7, <2>1, <2>2
<1>9. page = << >> => F = {}
  BY <1>7 DEF IdsOf
<1>. QED  BY <1>4, <1>5, <1>7, <1>8, <1>9

LEMMA PageTyped ==
  ASSUME PagingInv, NEW limit \in PageSizes, NEW page \in Answers(limit)
  PROVE  page \in Seq(RowIds) /\ Len(page) \in Nat
<1>1. CASE consistent
  BY <1>1, AnswerIs
<1>2. CASE ~ consistent
  <2>1. PICK n \in 0 .. limit : page \in [1 .. n -> DOMAIN table]
    BY <1>2 DEF Answers
  <2>2. n \in Nat /\ page \in [1 .. n -> RowIds]
    BY <2>1, GpkgPagingAssumption DEF PagingInv, PagingTyped
  <2>. QED  BY <2>2
<1>. QED  BY <1>1, <1>2

\* The cursor goes to a row of the page, or stays.
LEMMA ObservedIs ==
  ASSUME PagingInv, NEW page \in Seq(RowIds), Len(page) \in Nat, page # << >>
  PROVE  /\ ObservedMax(page) \in RowIds
         /\ ObservedMax(page) \in IdsOf(page) \/ ObservedMax(page) = last_rowid
         /\ \A id \in IdsOf(page) : id <= ObservedMax(page)
<1>. DEFINE U == IdsOf(page) \cup (IF last_rowid = NoRowId THEN {} ELSE {last_rowid})
<1>1. \A i \in 1 .. Len(page) : page[i] \in RowIds
  OBVIOUS
<1>2. U \in SUBSET RowIds
  BY <1>1 DEF IdsOf, PagingInv, PagingTyped
<1>3. U # {}
  <2>1. Len(page) > 0
    BY EmptySeq
  <2>2. page[1] \in IdsOf(page)
    BY <2>1 DEF IdsOf
  <2>. QED  BY <2>2
<1>4. U \in SUBSET Int /\ IsFiniteSet(U)
  BY <1>2, GpkgPagingAssumption, FS_Subset
<1>5. ObservedMax(page) = Greatest(U)
  BY DEF ObservedMax
<1>6. \A id : id \in IdsOf(page) => id \in U
  OBVIOUS
<1>7. \A id : id \in U => id \in IdsOf(page) \/ id = last_rowid
  OBVIOUS
<1>. HIDE DEF U
<1>. QED  BY <1>2, <1>3, <1>4, <1>5, <1>6, <1>7, GreatestIs

LEMMA PageKeeps ==
  ASSUME PagingInv, NEW limit \in PageSizes, NEW page \in Answers(limit),
         page # << >>, Moves(page),
         last_rowid' = ObservedMax(page), page_answer' = "batch",
         delivered' = delivered \o page, pages' = pages + 1,
         UNCHANGED <<table, joined, consistent, steady>>
  PROVE  PagingInv'
<1>. DEFINE m == ObservedMax(page)
<1>1. page \in Seq(RowIds) /\ Len(page) \in Nat
  BY PageTyped
<1>2. /\ m \in RowIds /\ (m \in IdsOf(page) \/ m = last_rowid)
      /\ \A id \in IdsOf(page) : id <= m
  BY <1>1, ObservedIs
<1>3. /\ \A id \in RowIds : id \in Int
      /\ NoRowId \notin RowIds /\ m \in Int /\ m # NoRowId
      /\ last_rowid # NoRowId => last_rowid \in RowIds /\ last_rowid < m
      /\ delivered \in Seq(RowIds) /\ Len(delivered) \in Nat /\ pages \in Nat
  <2>1. \A id \in RowIds : id \in Int
    BY GpkgPagingAssumption
  <2>2. NoRowId \notin RowIds
    BY <2>1, GpkgPagingAssumption
  <2>3. delivered \in Seq(RowIds) /\ pages \in Nat /\ last_rowid \in RowIds \cup {NoRowId}
    BY DEF PagingInv, PagingTyped
  <2>4. last_rowid # NoRowId => m > last_rowid
    BY DEF Moves
  <2>. HIDE DEF m
  <2>5. m \in Int /\ m # NoRowId /\ (last_rowid # NoRowId => last_rowid \in RowIds /\ last_rowid \in Int)
    BY <1>2, <2>1, <2>2, <2>3
  <2>6. Len(delivered) \in Nat
    BY <2>3
  <2>. QED  BY <2>1, <2>2, <2>3, <2>4, <2>5, <2>6
<1>4. last_rowid' = m
  OBVIOUS
<1>. HIDE DEF m
<1>5. PagingTyped'
  <2>1. Selected' = Selected
    BY DEF Selected
  <2>2. delivered \o page \in Seq(RowIds)
    BY <1>1, <1>3
  <2>. QED  BY <1>2, <1>4, <2>1, <2>2 DEF PagingInv, PagingTyped
<1>6. Passed' = {id \in RowIds : id <= m}
  BY <1>3, <1>4 DEF Passed
<1>7. PagesKept'
  <2>1. \A id \in Passed : id \in RowIds /\ id < m
    <3>1. SUFFICES ASSUME NEW id \in Passed PROVE id \in RowIds /\ id < m
      OBVIOUS
    <3>2. id \in RowIds /\ last_rowid # NoRowId /\ id <= last_rowid
      BY DEF Passed
    <3>3. id \in Int /\ last_rowid \in Int /\ last_rowid < m
      BY <1>3, <3>2
    <3>. QED  BY <1>3, <3>2, <3>3
  <2>2. Passed \in SUBSET Passed' /\ m \in Passed' /\ m \notin Passed
    <3>1. \A id \in Passed : id \in Passed'
      BY <1>3, <1>6, <2>1
    <3>2. m \in Passed'
      BY <1>2, <1>3, <1>6
    <3>3. ~ (m < m)
      BY <1>3
    <3>. QED  BY <2>1, <3>1, <3>2, <3>3
  <2>3. IsFiniteSet(Passed') /\ Cardinality(Passed') \in Nat
    BY <1>6, GpkgPagingAssumption, FS_Subset, FS_CardinalityType
  <2>4. Cardinality(Passed) <= Cardinality(Passed') /\ Cardinality(Passed') # Cardinality(Passed)
    BY <2>2, <2>3, FS_Subset
  <2>. QED  BY <1>3, <2>3, <2>4, PassedIs DEF PagingInv, PagesKept
<1>8. OrderKept'
  <2>1. SUFFICES ASSUME consistent PROVE OrderKept'
    BY DEF OrderKept
  <2>2. /\ IdsOf(page) \subseteq Selected /\ \A id \in IdsOf(page) : Past(id)
        /\ \A i, j \in 1 .. Len(page) : i < j => page[i] < page[j]
        /\ \A id \in IdsOf(page) : \A other \in Selected :
             Past(other) /\ other <= id => other \in IdsOf(page)
    BY <2>1, AnswerIs
  <2>3. \A i \in 1 .. Len(page) : page[i] \in IdsOf(page) /\ page[i] \in Int /\ page[i] <= m
    <3>1. SUFFICES ASSUME NEW i \in 1 .. Len(page)
                   PROVE  page[i] \in IdsOf(page) /\ page[i] \in Int /\ page[i] <= m
      OBVIOUS
    <3>2. page[i] \in IdsOf(page)
      BY DEF IdsOf
    <3>3. page[i] \in RowIds
      BY <1>1
    <3>. QED  BY <1>2, <1>3, <3>2, <3>3
  <2>4. ASSUME NEW i \in 1 .. Len(delivered)
        PROVE  /\ last_rowid # NoRowId /\ delivered[i] <= last_rowid
               /\ delivered[i] \in Int /\ delivered[i] < m
    <3>1. last_rowid # NoRowId /\ delivered[i] <= last_rowid
      BY <2>1 DEF PagingInv, OrderKept
    <3>2. delivered[i] \in RowIds
      BY <1>3
    <3>. QED  BY <1>3, <3>1, <3>2
  <2>. DEFINE D == Len(delivered)
              w == delivered \o page
  <2>5. /\ D \in Nat /\ Len(w) = D + Len(page)
        /\ \A i \in 1 .. D : w[i] = delivered[i]
        /\ \A i \in 1 .. Len(page) : w[i + D] = page[i]
    BY <1>1, <1>3
  <2>6. \A i \in 1 .. Len(w) : i \notin 1 .. D => i - D \in 1 .. Len(page) /\ w[i] = page[i - D]
    <3>1. SUFFICES ASSUME NEW i \in 1 .. Len(w), i \notin 1 .. D
                   PROVE  i - D \in 1 .. Len(page) /\ w[i] = page[i - D]
      OBVIOUS
    <3>2. i - D \in 1 .. Len(page) /\ i = (i - D) + D
      BY <1>1, <2>5, <3>1
    <3>. QED  BY <2>5, <3>2
  <2>. HIDE DEF D, w
  <2>7. \A i \in 1 .. Len(w) : w[i] \in Int /\ w[i] <= m
    <3>1. SUFFICES ASSUME NEW i \in 1 .. Len(w) PROVE w[i] \in Int /\ w[i] <= m
      OBVIOUS
    <3>2. CASE i \in 1 .. D
      BY <1>3, <2>4, <2>5, <3>2 DEF D
    <3>3. CASE i \notin 1 .. D
      BY <2>3, <2>6, <3>3
    <3>. QED  BY <3>2, <3>3
  <2>8. ASSUME NEW i \in 1 .. Len(w), NEW j \in 1 .. Len(w), i < j PROVE w[i] < w[j]
    <3>1. CASE j \in 1 .. D
      <4>1. i \in 1 .. D
        BY <2>5, <2>8, <3>1
      <4>. QED  BY <2>1, <2>5, <2>8, <3>1, <4>1 DEF D, PagingInv, OrderKept
    <3>2. CASE j \notin 1 .. D /\ i \in 1 .. D
      <4>1. w[j] = page[j - D] /\ j - D \in 1 .. Len(page)
        BY <2>6, <3>2
      <4>2. Past(w[j]) /\ w[j] \in Int
        BY <2>2, <2>3, <4>1
      <4>3. last_rowid # NoRowId /\ w[i] <= last_rowid /\ w[i] \in Int
        BY <2>4, <2>5, <3>2 DEF D
      <4>4. w[j] > last_rowid /\ last_rowid \in Int
        BY <1>3, <4>2, <4>3 DEF Past
      <4>. QED  BY <4>2, <4>3, <4>4
    <3>3. CASE j \notin 1 .. D /\ i \notin 1 .. D
      <4>1. /\ w[i] = page[i - D] /\ i - D \in 1 .. Len(page)
            /\ w[j] = page[j - D] /\ j - D \in 1 .. Len(page)
        BY <2>6, <3>3
      <4>2. i - D < j - D
        BY <2>5, <2>8
      <4>. QED  BY <2>2, <4>1, <4>2
    <3>. QED  BY <3>1, <3>2, <3>3
  <2>9. ASSUME NEW id \in steady, id \in Passed' PROVE id \in IdsOf(w)
    <3>1. id \in Selected /\ id \in RowIds /\ id <= m
      BY <1>6, <2>9 DEF PagingInv, PagingTyped
    <3>2. CASE Past(id)
      <4>1. m \in IdsOf(page)
        <5>1. SUFFICES ASSUME m = last_rowid PROVE FALSE
          BY <1>2
        <5>. QED  BY <1>3, <5>1
      <4>2. id \in IdsOf(page)
        BY <2>2, <3>1, <3>2, <4>1
      <4>3. PICK i \in 1 .. Len(page) : page[i] = id
        BY <4>2 DEF IdsOf
      <4>4. i + D \in 1 .. Len(w) /\ w[i + D] = id
        BY <1>1, <2>5, <4>3
      <4>. QED  BY <4>4 DEF IdsOf
    <3>3. CASE ~ Past(id)
      <4>1. last_rowid # NoRowId /\ ~ (id > last_rowid) /\ last_rowid \in RowIds
        BY <1>3, <3>3 DEF Past
      <4>2. id \in Passed
        BY <1>3, <3>1, <4>1 DEF Passed
      <4>3. id \in IdsOf(delivered)
        BY <2>1, <4>2 DEF PagingInv, OrderKept
      <4>4. PICK i \in 1 .. Len(delivered) : delivered[i] = id
        BY <4>3 DEF IdsOf
      <4>5. i \in 1 .. Len(w) /\ w[i] = id
        BY <1>1, <2>5, <4>4 DEF D
      <4>. QED  BY <4>5 DEF IdsOf
    <3>. QED  BY <3>2, <3>3
  <2>10. delivered' = w /\ IdsOf(delivered)' = IdsOf(w)
    BY DEF w, IdsOf
  <2>. QED  BY <1>3, <1>4, <2>7, <2>8, <2>9, <2>10 DEF OrderKept
<1>. QED  BY <1>5, <1>7, <1>8 DEF PagingInv

LEMMA PagingKeeps == PagingInv /\ [PagingNext]_pagingVars => PagingInv'
<1>. SUFFICES ASSUME PagingInv, [PagingNext]_pagingVars PROVE PagingInv'
  OBVIOUS
<1>1. CASE NextPage
  <2>0. PICK limit \in PageSizes :
           \E page \in Answers(limit) :
              \/ Refuses(page) /\ ConcludePage("error")
              \/ page = << >> /\ ConcludePage("eof")
              \/ /\ page # << >> /\ ~ Refuses(page)
                 /\ last_rowid' = ObservedMax(page)
                 /\ page_answer' = "batch"
                 /\ delivered' = delivered \o page
                 /\ pages' = pages + 1
                 /\ UNCHANGED <<table, joined, consistent, page_stopped, steady, changes>>
    BY <1>1 DEF NextPage
  <2>1. PICK page \in Answers(limit) :
           \/ Refuses(page) /\ ConcludePage("error")
           \/ page = << >> /\ ConcludePage("eof")
           \/ /\ page # << >> /\ ~ Refuses(page)
              /\ last_rowid' = ObservedMax(page)
              /\ page_answer' = "batch"
              /\ delivered' = delivered \o page
              /\ pages' = pages + 1
              /\ UNCHANGED <<table, joined, consistent, page_stopped, steady, changes>>
    BY <2>0
  <2>2. CASE Refuses(page) /\ ConcludePage("error")
    BY <2>2, ConcludeKeeps
  <2>3. CASE page = << >> /\ ConcludePage("eof")
    <3>1. consistent => \A id \in Selected : ~ Past(id)
      BY <2>3, AnswerIs
    <3>. QED  BY <2>3, <3>1, ConcludeKeeps
  <2>4. CASE /\ page # << >> /\ ~ Refuses(page)
             /\ last_rowid' = ObservedMax(page)
             /\ page_answer' = "batch"
             /\ delivered' = delivered \o page
             /\ pages' = pages + 1
             /\ UNCHANGED <<table, joined, consistent, page_stopped, steady, changes>>
    <3>1. Moves(page)
      BY <2>4 DEF Refuses
    <3>. QED  BY <2>4, <3>1, PageKeeps
  <2>. QED  BY <2>1, <2>2, <2>3, <2>4
<1>2. CASE AnswerPageStopped
  BY <1>2, ConcludeKeeps DEF AnswerPageStopped
<1>3. CASE StopPaging \/ PagingFinished \/ UNCHANGED pagingVars
  <2>1. UNCHANGED <<table, joined, consistent, last_rowid, page_answer, delivered, pages, steady>>
    BY <1>3 DEF StopPaging, PagingFinished, pagingVars
  <2>2. Selected' = Selected
    BY <2>1 DEF Selected
  <2>3. (consistent /\ page_answer = "eof") => steady \subseteq IdsOf(delivered)
    BY DEF PagingInv, OrderKept
  <2>. QED  BY <2>1, <2>2, <2>3, QuietKeeps DEF PagingInv, PagingTyped
<1>4. CASE \E id \in RowIds : Delete(id) \/ \E feature \in Features : Insert(id, feature) \/ Update(id, feature)
  BY <1>4, ChangeKeeps
<1>. QED  BY <1>1, <1>2, <1>3, <1>4 DEF PagingNext

\* The pages of a GeoPackage layer, whatever rowids it has, whatever the pages
\* hold and however often other connections write: rows in the order of their
\* rowids and none twice, an end only after every row nobody touched, and no
\* more pages than rowids even from an inconsistent file (GpkgReader::next_batch).
THEOREM PagingExact == PagingSpec => []PagingIsExact
<1>1. PagingInv => PagingIsExact
  BY PagingInvImplies
<1>. QED  BY <1>1, PagingStarts, PagingKeeps, PTL DEF PagingSpec

-----------------------------------------------------------------------------
(* The least and the greatest of a finite set *)

LEMMA ExtremesAre ==
  ASSUME NEW S \in SUBSET Int, IsFiniteSet(S), S # {}
  PROVE  /\ Min(S) \in S /\ \A x \in S : Min(S) <= x
         /\ Max(S) \in S /\ \A x \in S : x <= Max(S)
<1>1. Cardinality(S) \in Nat \ {0}
  BY FS_CardinalityType, FS_EmptySet
<1>2. \E x \in S : \A y \in S : x <= y
  <2>1. PICK x \in S : Rank(S, x) = 1
    BY <1>1, RankReaches
  <2>2. \A y \in S : ~ (y < x)
    <3>1. SUFFICES ASSUME NEW y \in S, y < x PROVE FALSE
      OBVIOUS
    <3>2. Rank(S, y) < 1 /\ Rank(S, y) \in 1 .. Cardinality(S)
      BY <2>1, <3>1, RankGrows
    <3>. QED  BY <1>1, <3>2
  <2>3. x \in Int /\ \A y \in S : y \in Int
    OBVIOUS
  <2>4. \A y \in S : x <= y
    BY <2>2, <2>3
  <2>. QED  BY <2>4
<1>3. \E x \in S : \A y \in S : y <= x
  BY GreatestIs
<1>4. \A x, y \in S : x <= y <=> y >= x
  OBVIOUS
<1>. QED  BY <1>2, <1>3, <1>4 DEF Min, Max

-----------------------------------------------------------------------------
(* Statistics of a row group *)

PruningInv ==
  /\ kind \in Kinds /\ \E n \in 1 .. GroupRows : rows \in [1 .. n -> [value : Cells(kind), box : Boxes]]
  /\ footer \in Footers(kind, rows)
  /\ predicate \in Predicates(kind) /\ hint \in Hints \cup {None}
  /\ kept = "skipped" => ~ KeptByValue \/ ~ KeptByBox

\* Every number of a column lies between the statistics of its group, in any
\* type that is stored in its own order.
LEMMA ExtentHolds ==
  ASSUME NEW k, k # "uint", NEW S \in SUBSET Int, IsFiniteSet(S), NEW x \in S
  PROVE  /\ Extent(k, S).min \in Int /\ Extent(k, S).max \in Int
         /\ Extent(k, S).min <= x /\ x <= Extent(k, S).max
<1>1. S # {}
  OBVIOUS
<1>2. Extent(k, S) = [min |-> Min(S), max |-> Max(S)]
  BY <1>1 DEF Extent, Physical
<1>3. Min(S) \in Int /\ Max(S) \in Int /\ Min(S) <= x /\ x <= Max(S)
  BY <1>1, ExtremesAre
<1>. QED  BY <1>2, <1>3

LEMMA GroupTyped ==
  ASSUME PruningInv
  PROVE  /\ Len(rows) \in Nat
         /\ \A i \in 1 .. Len(rows) : /\ rows[i].value \in Cells(kind)
                                      /\ rows[i].box \in Boxes
                                      /\ rows[i].box[1] \in Int /\ rows[i].box[2] \in Int
         /\ Column(rows) \in SUBSET Int /\ IsFiniteSet(Column(rows))
         /\ Edge(rows, 1) \in SUBSET Int /\ IsFiniteSet(Edge(rows, 1))
         /\ Edge(rows, 2) \in SUBSET Int /\ IsFiniteSet(Edge(rows, 2))
<1>1. PICK n \in 1 .. GroupRows : rows \in [1 .. n -> [value : Cells(kind), box : Boxes]]
  BY DEF PruningInv
<1>2. n \in Nat /\ Len(rows) = n
  BY <1>1, RowGroupPruningAssumption
<1>3. \A i \in 1 .. n : rows[i].value \in Cells(kind) /\ rows[i].box \in Boxes
  BY <1>1
<1>4. \A box \in Boxes : box[1] \in Int /\ box[2] \in Int
  BY RowGroupPruningAssumption
<1>5. IsFiniteSet(1 .. n)
  BY <1>2, FS_Interval
<1>6. Column(rows) \in SUBSET Int
  <2>1. Numbers(kind) \subseteq Int
    BY RowGroupPruningAssumption DEF Numbers, PruningInv
  <2>2. \A x \in Column(rows) : x \in Cells(kind) /\ x # Null /\ x # NaN
    BY <1>2, <1>3 DEF Column
  <2>. QED  BY <2>1, <2>2 DEF Cells
<1>7. IsFiniteSet(Column(rows))
  <2>. DEFINE f == [i \in 1 .. n |-> rows[i].value]
              T == {rows[i].value : i \in 1 .. n}
  <2>1. f \in Surjection(1 .. n, T)
    BY DEF Surjection
  <2>. HIDE DEF f
  <2>2. IsFiniteSet(T)
    BY <1>5, <2>1, FS_Surjection
  <2>3. Column(rows) \in SUBSET T
    BY <1>2 DEF Column
  <2>. HIDE DEF T
  <2>. QED  BY <2>2, <2>3, FS_Subset
<1>8. ASSUME NEW e \in {1, 2} PROVE Edge(rows, e) \in SUBSET Int /\ IsFiniteSet(Edge(rows, e))
  <2>. DEFINE f == [i \in 1 .. n |-> rows[i].box[e]]
              T == {rows[i].box[e] : i \in 1 .. n}
  <2>1. f \in Surjection(1 .. n, T)
    BY DEF Surjection
  <2>2. T \in SUBSET Int
    BY <1>3, <1>4
  <2>3. Edge(rows, e) = T
    BY <1>2 DEF Edge
  <2>. HIDE DEF f, T
  <2>4. IsFiniteSet(T)
    BY <1>5, <2>1, FS_Surjection
  <2>. QED  BY <2>2, <2>3, <2>4
<1>. QED  BY <1>2, <1>3, <1>4, <1>6, <1>7, <1>8

\* A group with a number that satisfies the predicate is kept by its statistics.
LEMMA ValueIsKept ==
  ASSUME PruningInv, kind # "uint", NEW i \in 1 .. Len(rows), Satisfies(rows[i].value)
  PROVE  KeptByValue
<1>. DEFINE v == rows[i].value
            x == Extent(kind, Column(rows))
<1>1. CASE predicate = None \/ StatRange(footer.value) = None
  BY <1>1 DEF KeptByValue
<1>2. CASE predicate # None /\ StatRange(footer.value) # None
  <2>1. footer.value = x
    BY <1>2 DEF PruningInv, Footers, StatRange
  <2>2. v \in Column(rows)
    BY <1>2 DEF Satisfies, Column
  <2>3. StatRange(footer.value) = x
    BY <1>2, <2>1 DEF StatRange
  <2>4. /\ v \in Int /\ x.min \in Int /\ x.max \in Int /\ x.min <= v /\ v <= x.max
    BY <2>2, GroupTyped, ExtentHolds
  <2>5. predicate.comparison \in Comparisons /\ predicate.value \in Int
    <3>1. Numbers(kind) \subseteq Int
      BY RowGroupPruningAssumption DEF Numbers, PruningInv
    <3>. QED  BY <1>2, <3>1 DEF PruningInv, Predicates
  <2>. HIDE DEF v, x
  <2>7. ComparisonMatches(x, predicate.comparison, predicate.value)
    <3>1. CASE predicate.comparison = ">"
      <4>1. v > predicate.value
        BY <1>2, <3>1 DEF Satisfies, v
      <4>. QED  BY <2>4, <2>5, <3>1, <4>1 DEF ComparisonMatches
    <3>2. CASE predicate.comparison = ">="
      <4>1. v >= predicate.value
        BY <1>2, <3>2 DEF Satisfies, v
      <4>. QED  BY <2>4, <2>5, <3>2, <4>1 DEF ComparisonMatches
    <3>3. CASE predicate.comparison = "<"
      <4>1. v < predicate.value
        BY <1>2, <3>3 DEF Satisfies, v
      <4>. QED  BY <2>4, <2>5, <3>3, <4>1 DEF ComparisonMatches
    <3>4. CASE predicate.comparison = "<="
      <4>1. v <= predicate.value
        BY <1>2, <3>4 DEF Satisfies, v
      <4>. QED  BY <2>4, <2>5, <3>4, <4>1 DEF ComparisonMatches
    <3>5. CASE predicate.comparison = "="
      <4>1. v = predicate.value
        BY <1>2, <3>5 DEF Satisfies, v
      <4>. QED  BY <2>4, <2>5, <3>5, <4>1 DEF ComparisonMatches
    <3>. QED  BY <2>5, <3>1, <3>2, <3>3, <3>4, <3>5 DEF Comparisons
  <2>. QED  BY <2>3, <2>7 DEF KeptByValue, RangeMatches
<1>. QED  BY <1>1, <1>2

\* A group with a box that meets the hint is kept by its extents, when no box
\* goes round the antimeridian.
LEMMA BoxIsKept ==
  ASSUME PruningInv, \A box \in Boxes : box[1] <= box[2],
         NEW i \in 1 .. Len(rows), Meets(rows[i].box)
  PROVE  KeptByBox
<1>. DEFINE low == Extent("float", Edge(rows, 1))
            high == Extent("float", Edge(rows, 2))
            a == rows[i].box[1]
            b == rows[i].box[2]
<1>1. SUFFICES ASSUME hint # None, StatRange(footer.low) # None, StatRange(footer.high) # None
               PROVE  KeptByBox
  BY DEF KeptByBox
<1>2. footer.low = low /\ footer.high = high
  BY <1>1 DEF PruningInv, Footers, StatRange
<1>3. StatRange(footer.low) = low /\ StatRange(footer.high) = high
  BY <1>1, <1>2 DEF StatRange
<1>4. a \in Edge(rows, 1) /\ b \in Edge(rows, 2) /\ a <= b /\ a \in Int /\ b \in Int
  BY GroupTyped DEF Edge
<1>5. low.min \in Int /\ low.min <= a /\ high.max \in Int /\ b <= high.max
  BY <1>4, GroupTyped, ExtentHolds
<1>6. hint[1] \in Int /\ hint[2] \in Int
  BY <1>1, RowGroupPruningAssumption DEF PruningInv
<1>7. ~ (b < hint[1]) /\ ~ (a > hint[2])
  BY <1>1, <1>4 DEF Meets
<1>. HIDE DEF low, high, a, b
<1>8. ~ (high.max < hint[1]) /\ ~ (low.min > hint[2])
  BY <1>4, <1>5, <1>6, <1>7
<1>. QED  BY <1>3, <1>8 DEF KeptByBox

\* gruppi_da_leggere never skips a row group that holds a row the caller asked
\* for: for signed and float columns of any width, with nulls and NaN, with
\* statistics present or not, predicates of any comparison, and boxes that do
\* not go round the antimeridian.
THEOREM PruningSafe ==
  ASSUME "uint" \notin Kinds, \A box \in Boxes : box[1] <= box[2]
  PROVE  PruningSpec => []PruningKeepsMatches
<1>1. PruningInit => PruningInv
  BY DEF PruningInit, PruningInv
<1>2. PruningInv /\ [PruningNext]_pruningVars => PruningInv'
  <2>. SUFFICES ASSUME PruningInv, [PruningNext]_pruningVars PROVE PruningInv'
    OBVIOUS
  <2>1. UNCHANGED <<kind, rows, footer, predicate, hint>>
    BY DEF PruningNext, GruppiDaLeggere, PruningDone, pruningVars
  <2>2. KeptByValue' = KeptByValue /\ KeptByBox' = KeptByBox
    BY <2>1 DEF KeptByValue, KeptByBox, RangeMatches
  <2>3. kept' = "skipped" => ~ KeptByValue \/ ~ KeptByBox
    BY DEF PruningNext, GruppiDaLeggere, PruningDone, pruningVars, PruningInv
  <2>. QED  BY <2>1, <2>2, <2>3 DEF PruningInv
<1>3. PruningInv => PruningKeepsMatches
  <2>. SUFFICES ASSUME PruningInv, kept = "skipped", NEW i \in 1 .. Len(rows),
                       Satisfies(rows[i].value), Meets(rows[i].box)
                PROVE  FALSE
    BY DEF PruningKeepsMatches
  <2>1. kind # "uint"
    BY DEF PruningInv
  <2>. QED  BY <2>1, ValueIsKept, BoxIsKept DEF PruningInv
<1>. QED  BY <1>1, <1>2, <1>3, PTL DEF PruningSpec

-----------------------------------------------------------------------------
(* The active records of a table, in their order *)

LEMMA ActiveRowsAre ==
  ASSUME NEW t, Len(t) \in Nat
  PROVE  /\ ActiveAt(t) \in SUBSET Int /\ IsFiniteSet(ActiveAt(t))
         /\ Active(t) \in Nat /\ Len(ActiveRows(t)) = Active(t)
         /\ \A n \in 1 .. Active(t) : /\ ActiveRows(t)[n] \in ActiveAt(t)
                                      /\ Rank(ActiveAt(t), ActiveRows(t)[n]) = n
<1>1. ActiveAt(t) \in SUBSET (1 .. Len(t)) /\ IsFiniteSet(1 .. Len(t))
  BY FS_Interval DEF ActiveAt
<1>2. ActiveAt(t) \in SUBSET Int /\ IsFiniteSet(ActiveAt(t))
  BY <1>1, FS_Subset
<1>3. Active(t) \in Nat
  BY <1>2, FS_CardinalityType DEF Active
<1>4. ActiveRows(t) = [n \in 1 .. Active(t) |-> CHOOSE i \in ActiveAt(t) : Rank(ActiveAt(t), i) = n]
  BY DEF ActiveRows, Rank
<1>5. Len(ActiveRows(t)) = Active(t)
  BY <1>3, <1>4
<1>6. \A n \in 1 .. Active(t) : \E i \in ActiveAt(t) : Rank(ActiveAt(t), i) = n
  BY <1>2, RankReaches DEF Active
<1>7. \A n \in 1 .. Active(t) :
        ActiveRows(t)[n] \in ActiveAt(t) /\ Rank(ActiveAt(t), ActiveRows(t)[n]) = n
  BY <1>4, <1>6
<1>. QED  BY <1>2, <1>3, <1>5, <1>7

\* One physical record further: the place of the iterator grows by one exactly
\* when the record is active, and then the iterator stands at that record.
LEMMA OneRecord ==
  ASSUME NEW t, Len(t) \in Nat, NEW n \in Nat
  PROVE  LET S == ActiveAt(t) IN
         /\ Rank(S, n) \in 0 .. Active(t) /\ Rank(S, 0) = 0
         /\ n + 1 \notin S => Rank(S, n + 1) = Rank(S, n)
         /\ n + 1 \in S => /\ Rank(S, n + 1) = Rank(S, n) + 1
                           /\ ActiveRows(t)[Rank(S, n) + 1] = n + 1
<1>. DEFINE S == ActiveAt(t)
            Upto(k) == {i \in S : i <= k}
<1>1. S \in SUBSET Int /\ IsFiniteSet(S) /\ \A i \in S : i >= 1
  BY ActiveRowsAre DEF ActiveAt
<1>2. \A k \in Nat : Rank(S, k) = Cardinality(Upto(k))
  BY DEF Rank
<1>3. \A k \in Nat : Upto(k) \in SUBSET S
  OBVIOUS
<1>4. \A k \in Nat : IsFiniteSet(Upto(k)) /\ Cardinality(Upto(k)) \in 0 .. Active(t)
  BY <1>1, <1>3, FS_Subset, FS_CardinalityType, ActiveRowsAre DEF Active
<1>5. Upto(0) = {}
  BY <1>1
<1>6. Rank(S, 0) = 0
  BY <1>2, <1>5, FS_EmptySet
<1>7. ASSUME n + 1 \notin S PROVE Upto(n + 1) = Upto(n)
  BY <1>1, <1>7
<1>8. ASSUME n + 1 \in S PROVE Upto(n + 1) = Upto(n) \cup {n + 1} /\ n + 1 \notin Upto(n)
  BY <1>1, <1>8
<1>. HIDE DEF S, Upto
<1>9. n + 1 \in S => Rank(S, n + 1) = Rank(S, n) + 1
  BY <1>2, <1>4, <1>8, FS_AddElement
<1>10. ASSUME n + 1 \in S PROVE ActiveRows(t)[Rank(S, n) + 1] = n + 1
  <2>. DEFINE place == Rank(S, n) + 1
              found == ActiveRows(t)[place]
  <2>1. Rank(S, n + 1) = place /\ place \in 1 .. Active(t)
    BY <1>2, <1>4, <1>9, <1>10
  <2>2. found \in S /\ Rank(S, found) = place /\ found \in Int /\ n + 1 \in Int
    BY <1>1, <2>1, ActiveRowsAre DEF S
  <2>. HIDE DEF place, found
  <2>3. ~ (found < n + 1) /\ ~ (n + 1 < found)
    BY <1>1, <1>10, <2>1, <2>2, RankGrows
  <2>4. found = n + 1
    BY <2>2, <2>3
  <2>. QED  BY <2>4 DEF found, place
<1>. QED  BY <1>2, <1>4, <1>6, <1>7, <1>9, <1>10 DEF S

-----------------------------------------------------------------------------
(* The rows of a shapefile *)

MadeRow == [shape : Nat, record : Nat, exact : Nat]
ShapeKinds == {"ok", "wrong", "broken"}
RecordKinds == {"active", "deleted", "garbled", "invalid", "unfit", "broken"}

RowsTyped ==
  /\ shp \in Seq(ShapeKinds) /\ shapes \in Seq(ShapeKinds)
  /\ dbf \in Seq(RecordKinds) /\ records \in Seq(RecordKinds) /\ exact \in Seq(RecordKinds)
  /\ source_rows_seen \in Nat /\ records_read \in Nat
  /\ sent \in Seq(MadeRow) /\ built \in Seq(MadeRow)

\* Nothing is read before all three handles are open.
NothingYet ==
  /\ at \notin {"scan", "done"} =>
       /\ source_rows_seen = 0 /\ records_read = 0
       /\ sent = << >> /\ built = << >> /\ diagnosed = {}
  /\ at # "done" => outcome = "none"

\* A sequence of the first rows of the layer, each of two fine parts.
Aligned(made) ==
  \A i \in 1 .. Len(made) :
    /\ made[i] = Whole[i]
    /\ records[made[i].record] = "active" /\ shapes[made[i].shape] = "ok"

\* The iterator has given the active records among the physical ones seen; each
\* of them became a row, in order, until one was rejected.
ScanAligned ==
  at = "scan" /\ records = exact =>
    /\ records_read = Rank(ActiveAt(records), source_rows_seen)
    /\ Len(sent \o built) <= records_read
    /\ diagnosed = {} => Len(sent \o built) = records_read
    /\ Aligned(sent \o built)

EndAligned ==
  at = "done" /\ records = exact =>
    /\ Aligned(sent)
    /\ outcome = "end" /\ scope # 0 => sent = Whole /\ Len(shapes) = layout.records

RowsInv == RowsTyped /\ NothingYet /\ ScanAligned /\ EndAligned

LEMMA RowsBegin == RowsInit => RowsInv
<1>. SUFFICES ASSUME RowsInit PROVE RowsInv
  OBVIOUS
<1>1. RowsTyped
  BY ShapefileRowsAssumption DEF RowsInit, RowsTyped, ShapeKinds, RecordKinds
<1>2. NothingYet /\ ScanAligned /\ EndAligned
  BY DEF RowsInit, NothingYet, ScanAligned, EndAligned
<1>. QED  BY <1>1, <1>2 DEF RowsInv

\* A worker that ends otherwise than with the end of the layer.
LEMMA EndKeeps ==
  ASSUME RowsInv, NEW how, ConcludeRows(how), how # "end" \/ scope = 0, UNCHANGED built
  PROVE  RowsInv'
<1>1. RowsTyped'
  BY DEF RowsInv, RowsTyped, ConcludeRows, fileVars, layoutVars, handleVars, countVars
<1>2. NothingYet' /\ ScanAligned'
  BY DEF NothingYet, ScanAligned, ConcludeRows
<1>3. EndAligned'
  <2>. SUFFICES ASSUME records = exact PROVE Aligned(sent)'
    BY DEF EndAligned, ConcludeRows, handleVars, layoutVars
  <2>1. UNCHANGED <<shapes, records, exact, sent>>
    BY DEF ConcludeRows, handleVars
  <2>2. Aligned(sent)
    <3>1. CASE at = "scan"
      <4>1. Aligned(sent \o built)
        BY <3>1 DEF RowsInv, ScanAligned
      <4>2. \A i \in 1 .. Len(sent) : i \in 1 .. Len(sent \o built) /\ (sent \o built)[i] = sent[i]
        BY DEF RowsInv, RowsTyped
      <4>. QED  BY <4>1, <4>2 DEF Aligned
    <3>2. CASE at = "done"
      BY <3>2 DEF RowsInv, EndAligned
    <3>3. CASE at \notin {"scan", "done"}
      BY <3>3 DEF RowsInv, NothingYet, Aligned
    <3>. QED  BY <3>1, <3>2, <3>3
  <2>. QED  BY <2>1, <2>2 DEF Aligned, Whole
<1>. QED  BY <1>1, <1>2, <1>3 DEF RowsInv

\* Before the scan only the handles and the place change.
LEMMA OpeningKeeps ==
  ASSUME RowsInv, Open \/ OpenShapes \/ OpenRecords \/ OpenExact
  PROVE  RowsInv'
<1>. USE DEF Open, OpenShapes, OpenRecords, OpenExact, Step, fileVars, layoutVars, handleVars,
             countVars, rowVars
<1>1. RowsTyped'
  BY DEF RowsInv, RowsTyped
<1>2. /\ source_rows_seen' = 0 /\ records_read' = 0 /\ sent' = << >> /\ built' = << >>
      /\ diagnosed' = {} /\ outcome' = "none" /\ at' # "done"
  BY DEF RowsInv, NothingYet
<1>. HIDE DEF Open, OpenShapes, OpenRecords, OpenExact, Step
<1>3. ScanAligned'
  <2>1. records' \in Seq(RecordKinds)
    BY <1>1 DEF RowsTyped
  <2>2. Len(records') \in Nat
    BY <2>1
  <2>3. Rank(ActiveAt(records'), 0) = 0
    BY <2>2, OneRecord
  <2>4. << >> \o << >> = << >> /\ Len(<< >>) = 0
    OBVIOUS
  <2>5. (sent \o built)' = << >> /\ Len((sent \o built)') = 0
    BY <1>2, <2>4
  <2>. QED  BY <1>2, <2>3, <2>5 DEF ScanAligned, Aligned
<1>. QED  BY <1>1, <1>2, <1>3 DEF RowsInv, NothingYet, EndAligned

\* What a row that can be read is, when both readers of the .dbf met one file.
LEMMA ReadableIs ==
  ASSUME RowsInv, RowReadable
  PROVE  LET here == source_rows_seen + 1 IN
         /\ at = "scan" /\ here \in 1 .. Len(shapes) /\ shapes[here] # "broken"
         /\ here \in 1 .. Len(exact) /\ ExactRow = exact[here] /\ ExactRow # "broken"
<1>. QED  BY DEF RowReadable, InScan, Unreadable, ExactRow, RowsInv, RowsTyped

\* The record the iterator gives is a record of its file.
LEMMA RecordIs ==
  ASSUME RowsInv, ~ NoRecord
  PROVE  ActiveRecord \in 1 .. Len(records) /\ records_read + 1 \in 1 .. Active(records)
<1>1. records \in Seq(RecordKinds) /\ records_read \in Nat /\ Len(records) \in Nat
  BY DEF RowsInv, RowsTyped
<1>2. records_read + 1 \in 1 .. Active(records)
  BY <1>1, ActiveRowsAre DEF NoRecord
<1>3. ActiveRecord \in ActiveAt(records)
  BY <1>1, <1>2, ActiveRowsAre DEF ActiveRecord
<1>. QED  BY <1>2, <1>3 DEF ActiveAt

\* In step, it is the record of the row.
LEMMA InStep ==
  ASSUME RowsInv, RowReadable, records = exact
  PROVE  LET here == source_rows_seen + 1 IN
         /\ Deleted(ExactRow) => Rank(ActiveAt(records), here) = records_read
         /\ ~ Deleted(ExactRow) => /\ Rank(ActiveAt(records), here) = records_read + 1
                                   /\ ActiveRecord = here
<1>. DEFINE here == source_rows_seen + 1
<1>1. at = "scan" /\ here \in 1 .. Len(records) /\ ExactRow = records[here]
  BY ReadableIs
<1>2. records_read = Rank(ActiveAt(records), source_rows_seen)
  BY <1>1 DEF RowsInv, ScanAligned
<1>3. source_rows_seen \in Nat /\ records \in Seq(RecordKinds) /\ Len(records) \in Nat
  BY DEF RowsInv, RowsTyped
<1>4. here \in ActiveAt(records) <=> ~ Deleted(ExactRow)
  BY <1>1 DEF ActiveAt
<1>. QED  BY <1>2, <1>3, <1>4, OneRecord DEF ActiveRecord

\* A row that goes by leaves what was made as it is.
LEMMA PassingKeeps ==
  ASSUME RowsInv, RowReadable, NEW n \in {0, 1}, Passing(n),
         n = 1 <=> ~ Deleted(ExactRow),
         UNCHANGED <<shp, dbf, handleVars, layoutVars, at, built, sent, outcome>>,
         diagnosed' # {} \/ (n = 0 /\ diagnosed' = diagnosed)
  PROVE  RowsInv'
<1>. USE DEF Passing, handleVars
<1>1. RowsTyped'
  BY DEF RowsInv, RowsTyped
<1>2. at = "scan" /\ NothingYet' /\ EndAligned'
  BY ReadableIs DEF RowsInv, NothingYet, EndAligned
<1>3. ScanAligned'
  <2>. SUFFICES ASSUME records = exact PROVE ScanAligned'
    BY DEF ScanAligned
  <2>1. /\ Len(sent \o built) <= records_read /\ Aligned(sent \o built)
        /\ diagnosed = {} => Len(sent \o built) = records_read
    BY <1>2 DEF RowsInv, ScanAligned
  <2>2. records_read' = Rank(ActiveAt(records), source_rows_seen')
    <3>1. CASE n = 0
      <4>1. records_read' = records_read /\ Deleted(ExactRow)
        BY <3>1 DEF RowsInv, RowsTyped
      <4>. QED  BY <4>1, InStep
    <3>2. CASE n = 1
      BY <3>2, InStep
    <3>. QED  BY <3>1, <3>2
  <2>3. Aligned(sent \o built)'
    <3>1. Whole' = Whole /\ records' = records /\ shapes' = shapes /\ sent' = sent /\ built' = built
      BY DEF Whole
    <3>. QED  BY <2>1, <3>1 DEF Aligned
  <2>4. Len(sent \o built) \in Nat /\ records_read \in Nat
    BY DEF RowsInv, RowsTyped
  <2>5. Len(sent \o built)' <= records_read'
    BY <2>1, <2>4
  <2>6. diagnosed' = {} => Len(sent \o built)' = records_read'
    BY <2>1, <2>4
  <2>. QED  BY <2>2, <2>3, <2>5, <2>6 DEF ScanAligned
<1>. QED  BY <1>1, <1>2, <1>3 DEF RowsInv

\* One more row is the next one of the layer.
LEMMA AppendKeeps ==
  ASSUME RowsInv, AppendRow, Appends
  PROVE  RowsInv'
<1>. DEFINE here == source_rows_seen + 1
            new == [shape |-> here, record |-> ActiveRecord, exact |-> here]
            made == sent \o built
<1>1. /\ RowReadable /\ ~ Deleted(ExactRow) /\ ~ NoRecord /\ ~ Rejected /\ Passing(1)
      /\ records[ActiveRecord] # "unfit"
      /\ UNCHANGED <<shp, dbf, shapes, records, exact, layout, scope, at, diagnosed, outcome>>
  BY DEF AppendRow, Accepted, Appends, fileVars, handleVars, layoutVars
<1>2. /\ here \in Nat /\ ActiveRecord \in Nat /\ new \in MadeRow
      /\ sent \in Seq(MadeRow) /\ built \in Seq(MadeRow) /\ records_read \in Nat
  BY <1>1, RecordIs DEF RowsInv, RowsTyped, MadeRow
<1>3. Appended = Append(built, new)
  BY DEF Appended
<1>. HIDE DEF new
<1>4. \/ sent' = sent \o Append(built, new) /\ built' = << >>
      \/ sent' = sent /\ built' = Append(built, new)
  BY <1>3 DEF AppendRow, Appends
<1>5. sent' \in Seq(MadeRow) /\ built' \in Seq(MadeRow)
  <2>1. Append(built, new) \in Seq(MadeRow)
    BY <1>2
  <2>2. sent \o Append(built, new) \in Seq(MadeRow)
    BY <1>2, <2>1
  <2>3. << >> \in Seq(MadeRow)
    OBVIOUS
  <2>4. CASE built' = << >>
    BY <1>2, <1>4, <2>2, <2>3, <2>4
  <2>5. CASE sent' = sent /\ built' = Append(built, new)
    BY <1>2, <2>1, <2>5
  <2>. QED  BY <1>4, <2>4, <2>5
<1>6. (sent \o built)' = Append(made, new)
  <2>1. sent \o Append(built, new) = Append(made, new)
    BY <1>2
  <2>2. Append(made, new) \in Seq(MadeRow)
    BY <1>2
  <2>. HIDE DEF made
  <2>3. Append(made, new) \o << >> = Append(made, new)
    BY <2>2
  <2>. QED  BY <1>4, <2>1, <2>3
<1>7. RowsTyped'
  BY <1>1, <1>5 DEF RowsInv, RowsTyped, Passing
<1>8. at = "scan" /\ NothingYet' /\ EndAligned'
  BY <1>1, ReadableIs DEF RowsInv, NothingYet, EndAligned
<1>9. ScanAligned'
  <2>. SUFFICES ASSUME records = exact PROVE ScanAligned'
    BY <1>1 DEF ScanAligned
  <2>1. records_read' = Rank(ActiveAt(records), source_rows_seen') /\ ActiveRecord = here
    BY <1>1, InStep DEF Passing
  <2>2. Aligned(made) /\ Len(made) = records_read
    BY <1>8 DEF RowsInv, ScanAligned, Appends
  <2>3. made \in Seq(MadeRow) /\ records_read + 1 \in 1 .. Active(records)
    BY <1>1, <1>2, RecordIs
  <2>4. Whole[records_read + 1] = new
    BY <2>1, <2>3 DEF Whole, ActiveRecord, new
  <2>5. records[here] = "active" /\ shapes[here] = "ok"
    <3>1. /\ ExactRow = records[here] /\ ExactRow # "broken" /\ here \in 1 .. Len(records)
          /\ shapes[here] # "broken" /\ here \in 1 .. Len(shapes)
      BY <1>1, ReadableIs
    <3>2. ExactRow \notin {"deleted", "garbled", "invalid", "unfit"} /\ shapes[here] # "wrong"
      BY <1>1, <2>1, <3>1 DEF Rejected, Deleted
    <3>3. records[here] \in RecordKinds /\ shapes[here] \in ShapeKinds
      BY <3>1 DEF RowsInv, RowsTyped
    <3>. QED  BY <3>1, <3>2, <3>3 DEF RecordKinds, ShapeKinds
  <2>6. new.record = here /\ new.shape = here
    BY <2>1 DEF new
  <2>. HIDE DEF made
  <2>7. ASSUME NEW i \in 1 .. Len(Append(made, new))
        PROVE  /\ Append(made, new)[i] = Whole[i]
               /\ records[Append(made, new)[i].record] = "active"
               /\ shapes[Append(made, new)[i].shape] = "ok"
    <3>1. CASE i = records_read + 1
      <4>1. Append(made, new)[i] = new
        BY <1>2, <2>2, <2>3, <3>1
      <4>. QED  BY <2>4, <2>5, <2>6, <3>1, <4>1
    <3>2. CASE i # records_read + 1
      <4>1. i \in 1 .. Len(made) /\ Append(made, new)[i] = made[i]
        BY <1>2, <2>2, <2>3, <3>2
      <4>. QED  BY <2>2, <4>1 DEF Aligned
    <3>. QED  BY <3>1, <3>2
  <2>8. Aligned(sent \o built)'
    <3>1. Whole' = Whole /\ records' = records /\ shapes' = shapes
      BY <1>1 DEF Whole
    <3>. QED  BY <1>6, <2>7, <3>1 DEF Aligned
  <2>9. Len(Append(made, new)) = records_read + 1
    BY <1>2, <2>2, <2>3
  <2>10. Len((sent \o built)') = records_read' /\ records_read' \in Nat
    BY <1>1, <1>2, <1>6, <2>9 DEF Passing
  <2>. QED  BY <1>1, <2>1, <2>8, <2>10 DEF ScanAligned
<1>. QED  BY <1>7, <1>8, <1>9 DEF RowsInv

\* The end of the layer, with the counts of open and nothing left over.
LEMMA EndScanKeeps ==
  ASSUME RowsInv, EndScan
  PROVE  RowsInv'
<1>. DEFINE made == sent \o built
<1>1. CASE Fails
  BY <1>1, EndKeeps DEF Fails
<1>2. CASE ~ Fails
  <2>1. /\ CardinalityHolds /\ diagnosed = {} /\ at = "scan" /\ at' = "done" /\ outcome' = "end"
        /\ sent' = made /\ built' = << >>
        /\ UNCHANGED <<shp, dbf, shapes, records, exact, layout, scope, source_rows_seen,
                       active_rows_seen, records_read, diagnosed>>
    BY <1>2 DEF EndScan, InScan, fileVars, layoutVars, handleVars, countVars
  <2>2. RowsTyped' /\ NothingYet' /\ ScanAligned'
    BY <2>1 DEF RowsInv, RowsTyped, NothingYet, ScanAligned
  <2>3. EndAligned'
    <3>. SUFFICES ASSUME records = exact PROVE EndAligned'
      BY <2>1 DEF EndAligned
    <3>1. /\ Aligned(made) /\ Len(made) = records_read
          /\ records_read = Rank(ActiveAt(records), source_rows_seen)
      BY <2>1 DEF RowsInv, ScanAligned
    <3>2. made \in Seq(MadeRow) /\ Len(records) \in Nat /\ source_rows_seen \in Nat
      BY DEF RowsInv, RowsTyped
    <3>3. records_read \in 0 .. Active(records) /\ records_read >= Active(records)
      BY <2>1, <3>1, <3>2, OneRecord, ActiveRowsAre DEF CardinalityHolds, NoRecord
    <3>4. records_read = Active(records) /\ Active(records) \in Nat
      BY <3>2, <3>3, ActiveRowsAre
    <3>. HIDE DEF made
    <3>5. made = [n \in 1 .. Active(records) |-> Whole[n]]
      BY <3>1, <3>2, <3>4 DEF Aligned
    <3>6. made = Whole
      BY <3>5 DEF Whole
    <3>7. Len(shapes) = layout.records
      BY <2>1 DEF CardinalityHolds
    <3>8. Whole' = Whole
      BY <2>1 DEF Whole
    <3>9. Aligned(sent)'
      BY <2>1, <3>1, <3>8 DEF Aligned
    <3>. QED  BY <2>1, <3>6, <3>7, <3>8, <3>9 DEF EndAligned
  <2>. QED  BY <2>2, <2>3 DEF RowsInv
<1>. QED  BY <1>1, <1>2

\* A row of a shapefile is one position of its two files, in any files, with
\* any records deleted and any part replaced since open, as long as both
\* readers of the .dbf met the same file; and an end of the layer is told only
\* with every row delivered.
THEOREM RowsAligned == RowsSpec => []RowsStayAligned
<1>1. RowsInv /\ [RowsNext]_shapefileVars => RowsInv'
  <2>. SUFFICES ASSUME RowsInv, [RowsNext]_shapefileVars PROVE RowsInv'
    OBVIOUS
  <2>1. CASE Open \/ OpenShapes \/ OpenRecords \/ OpenExact
    BY <2>1, OpeningKeeps
  <2>2. CASE OpenFails \/ Interrupt \/ ScanFails \/ EndOfNothing \/ ReaderGone \/ AppendFails
    BY <2>2, EndKeeps
       DEF OpenFails, Interrupt, ScanFails, EndOfNothing, ReaderGone, AppendFails, Fails
  <2>3. CASE SkipDeleted
    BY <2>3, PassingKeeps DEF SkipDeleted, fileVars, rowVars
  <2>4. CASE Diagnose
    BY <2>4, PassingKeeps DEF Diagnose, fileVars
  <2>5. CASE AppendRow
    <3>1. CASE Appends
      BY <2>5, <3>1, AppendKeeps
    <3>2. CASE ~ Appends
      BY <2>5, <3>2, PassingKeeps DEF AppendRow, Accepted, Appends, fileVars
    <3>. QED  BY <3>1, <3>2
  <2>6. CASE EndScan
    BY <2>6, EndScanKeeps
  <2>7. CASE StopRows \/ UNCHANGED shapefileVars
    <3>1. UNCHANGED <<shp, dbf, shapes, records, exact, at, layout, scope, source_rows_seen,
                      records_read, diagnosed, built, sent, outcome>>
      BY <2>7 DEF StopRows, shapefileVars, fileVars, layoutVars, handleVars, countVars, rowVars
    <3>2. Whole' = Whole
      BY <3>1 DEF Whole
    <3>3. Aligned(sent)' <=> Aligned(sent)
      BY <3>1, <3>2 DEF Aligned
    <3>4. Aligned(sent \o built)' <=> Aligned(sent \o built)
      BY <3>1, <3>2 DEF Aligned
    <3>. QED  BY <3>1, <3>2, <3>3, <3>4 DEF RowsInv, RowsTyped, NothingYet, ScanAligned, EndAligned
  <2>8. CASE ReplaceFile
    <3>1. /\ UNCHANGED <<shapes, records, exact, at, layout, scope, source_rows_seen,
                         records_read, diagnosed, built, sent, outcome>>
          /\ at \notin {"scan", "done"}
          /\ shp' \in Seq(ShapeKinds) /\ dbf' \in Seq(RecordKinds)
      BY <2>8, ShapefileRowsAssumption
         DEF ReplaceFile, ReplaceOne, layoutVars, handleVars, countVars, rowVars, RowsInv, RowsTyped,
             ShapeKinds, RecordKinds
    <3>. QED  BY <3>1 DEF RowsInv, RowsTyped, NothingYet, ScanAligned, EndAligned
  <2>9. CASE RowsFinished
    <3>1. UNCHANGED shapefileVars
      BY <2>9 DEF RowsFinished
    <3>. QED  BY <2>7, <3>1
  <2>. QED  BY <2>1, <2>2, <2>3, <2>4, <2>5, <2>6, <2>7, <2>8, <2>9 DEF RowsNext
<1>2. RowsInv => RowsStayAligned
  <2>. SUFFICES ASSUME RowsInv, at \in {"scan", "done"}, records = exact
                PROVE  /\ \A i \in 1 .. Len(sent) : sent[i] = Whole[i]
                       /\ outcome = "end" /\ scope # 0 =>
                            /\ sent = Whole /\ Len(shapes) = layout.records
                            /\ \A row \in {sent[i] : i \in 1 .. Len(sent)} :
                                 records[row.record] = "active" /\ shapes[row.shape] = "ok"
    BY DEF RowsStayAligned
  <2>1. CASE at = "scan"
    <3>1. Aligned(sent \o built) /\ outcome = "none"
      BY <2>1 DEF RowsInv, ScanAligned, NothingYet
    <3>2. \A i \in 1 .. Len(sent) : i \in 1 .. Len(sent \o built) /\ (sent \o built)[i] = sent[i]
      BY DEF RowsInv, RowsTyped
    <3>. QED  BY <3>1, <3>2 DEF Aligned
  <2>2. CASE at = "done"
    BY <2>2 DEF RowsInv, EndAligned, Aligned
  <2>. QED  BY <2>1, <2>2
<1>. QED  BY RowsBegin, <1>1, <1>2, PTL DEF RowsSpec

=============================================================================

--------------------------- MODULE FormatWriters ----------------------------
(***************************************************************************)
(* The ten backends a FormatWriter can be: what each driver's create,      *)
(* write and finish puts in its staging, in which order, and where each    *)
(* can stop half way.                                                      *)
(*                                                                         *)
(* A document is the sequence of parts that reached the staging: "open"    *)
(* and "close" are what a reader needs at the two ends (a schema and a     *)
(* footer, the tables and the COMMIT, the brackets), "header" a line of    *)
(* column names, "sep" a separator, "half" a row cut by a failure.  A row  *)
(* is what the backends tell apart: a point, a line, a null geometry, or   *)
(* an odd one, whose cell or geometry the format cannot represent.         *)
(***************************************************************************)
EXTENDS Naturals, Sequences, SequencesExt

VARIABLES
  format,      (* the sink's FormatDescriptor.id                           *)
  xy,          (* geometry_encoding=xy (csv, xls)                          *)
  staged,      (* the document in the staging, << >> before the first byte *)
  buffer,      (* batches the backend keeps until finish (xls, dxf)        *)
  started,     (* csv header_written, geojson ~first                       *)
  shape_type   (* ShpWriter.shape_type                                     *)

backendVars == <<format, xy, staged, buffer, started, shape_type>>

Formats     == {"ipc", "geoparquet", "csv", "geojson", "kml", "gpkg",
                "filegdb", "shp", "xls", "dxf"}
MultiLayer  == {"gpkg", "filegdb"}
RowKinds    == {"point", "line", "null", "odd"}

Open == [part |-> "open", layer |-> 0, row |-> "none"]
Footer == [Open EXCEPT !.part = "close"]
Header == [Open EXCEPT !.part = "header"]
Separator == [Open EXCEPT !.part = "sep"]
Half == [Open EXCEPT !.part = "half"]
Row(layer, row) == [part |-> "row", layer |-> layer, row |-> row]

RowParts(layer, rows) == [i \in 1 .. Len(rows) |-> Row(layer, rows[i])]

-----------------------------------------------------------------------------
(* What a format can hold *)

\* The encodings the writers refuse row by row: write_cell and the xy arm of
\* csv and xls, the rejections of dxf, the decoding of a geometry elsewhere.
Fits(row) ==
  CASE format = "ipc" -> TRUE
    [] format \in {"csv", "xls"} -> row # "odd" /\ (xy => row # "line")
    [] format = "dxf" -> row \notin {"odd", "null"}
    [] OTHER -> row # "odd"

Shapes(rows) == {rows[i] : i \in 1 .. Len(rows)} \ {"null", "odd"}

\* A shapefile holds one shape type: the first row with a geometry fixes it,
\* for the batches that follow too.
OneShape(rows) ==
  format = "shp" =>
    \A shape \in Shapes(rows) : (Shapes(rows) \cup shape_type) \subseteq {shape}

Encodable(rows) == (\A i \in 1 .. Len(rows) : Fits(rows[i])) /\ OneShape(rows)

-----------------------------------------------------------------------------
(* create *)

Begin(parts) ==
  /\ staged' = parts
  /\ buffer' = << >>
  /\ started' = FALSE
  /\ shape_type' = {}
  /\ UNCHANGED <<format, xy>>

CreateIpc        == format = "ipc" /\ Begin(<<Open>>)
CreateGeoParquet == format = "geoparquet" /\ Begin(<<Open>>)
CreateCsv        == format = "csv" /\ Begin(<< >>)
CreateGeoJson    == format = "geojson" /\ Begin(<<Open>>)
CreateKml        == format = "kml" /\ Begin(<<Open>>)
CreateGpkg       == format = "gpkg" /\ Begin(<<Open>>)
CreateFileGdb    == format = "filegdb" /\ Begin(<<Open>>)
CreateShp        == format = "shp" /\ Begin(<<Open>>)
CreateXls        == format = "xls" /\ Begin(<< >>)
CreateDxf        == format = "dxf" /\ Begin(<< >>)

CreateBackend ==
  \/ CreateIpc \/ CreateGeoParquet \/ CreateCsv \/ CreateGeoJson \/ CreateKml
  \/ CreateGpkg \/ CreateFileGdb \/ CreateShp \/ CreateXls \/ CreateDxf

-----------------------------------------------------------------------------
(* write: n rows of the batch reach the document, all of them when it is Ok. *)
(* A row that does not fit stops a row by row writer, and the disk may stop  *)
(* any of them.                                                              *)

Ok(n, rows) == n = Len(rows)

Reachable(n, rows) ==
  n \in 0 .. Len(rows) /\ \A i \in 1 .. n : Fits(rows[i])

Torn(n, rows) == IF Ok(n, rows) THEN << >> ELSE <<Half>>

Put(parts) == staged' = staged \o parts

\* One call of the library's writer for the whole batch.
WriteWhole(n, layer, rows) ==
  /\ n \in {0, Len(rows)}
  /\ Put(IF Ok(n, rows) THEN RowParts(layer, rows) ELSE <<Half>>)
  /\ UNCHANGED <<format, xy, buffer, started, shape_type>>

WriteIpc(n, layer, rows) == format = "ipc" /\ WriteWhole(n, layer, rows)

\* The geometry types are accumulated first, and refuse before a row is out.
WriteGeoParquet(n, layer, rows) ==
  /\ format = "geoparquet"
  /\ Ok(n, rows) => Encodable(rows)
  /\ WriteWhole(n, layer, rows)

WriteCsv(n, layer, rows) ==
  /\ format = "csv"
  /\ Reachable(n, rows)
  /\ Put((IF started THEN << >> ELSE <<Header>>)
           \o RowParts(layer, SubSeq(rows, 1, n)) \o Torn(n, rows))
  /\ started' = TRUE
  /\ UNCHANGED <<format, xy, buffer, shape_type>>

\* A separator before every part but the first of the document.
Separated(after, parts) ==
  FlattenSeq([i \in 1 .. Len(parts) |->
                IF i = 1 /\ ~ after THEN <<parts[i]>> ELSE <<Separator, parts[i]>>])

\* `first` is copied out, and back only when the whole batch was written.
WriteGeoJson(n, layer, rows) ==
  /\ format = "geojson"
  /\ Reachable(n, rows)
  /\ Put(Separated(started, RowParts(layer, SubSeq(rows, 1, n)) \o Torn(n, rows)))
  /\ started' = (started \/ (Ok(n, rows) /\ rows # << >>))
  /\ UNCHANGED <<format, xy, buffer, shape_type>>

\* Every row is prepared first: one rejection, and nothing of the batch is out.
WritePrepared(n, layer, rows) ==
  IF Encodable(rows)
  THEN n \in 0 .. Len(rows) /\ Put(RowParts(layer, SubSeq(rows, 1, n)) \o Torn(n, rows))
  ELSE n = 0 /\ UNCHANGED staged

WriteKml(n, layer, rows) ==
  /\ format = "kml"
  /\ WritePrepared(n, layer, rows)
  /\ UNCHANGED <<format, xy, buffer, started, shape_type>>

WriteShp(n, layer, rows) ==
  /\ format = "shp"
  /\ WritePrepared(n, layer, rows)
  /\ shape_type' = IF Ok(n, rows) THEN shape_type \cup Shapes(rows) ELSE shape_type
  /\ UNCHANGED <<format, xy, buffer, started>>

\* Rows are inserted one by one inside the one transaction of the writer.
WriteInserted(n, layer, rows) ==
  /\ Reachable(n, rows)
  /\ Put(RowParts(layer, SubSeq(rows, 1, n)))
  /\ UNCHANGED <<format, xy, buffer, started, shape_type>>

WriteGpkg(n, layer, rows)    == format = "gpkg" /\ WriteInserted(n, layer, rows)
WriteFileGdb(n, layer, rows) == format = "filegdb" /\ WriteInserted(n, layer, rows)

Keep(layer, rows) ==
  /\ buffer' = Append(buffer, RowParts(layer, rows))
  /\ UNCHANGED <<format, xy, staged, started, shape_type>>

\* The batch is kept as it is: nothing is looked at before finish.
WriteXls(n, layer, rows) == format = "xls" /\ Ok(n, rows) /\ Keep(layer, rows)

\* The entities go to the drawing in memory, all of the batch or none.
WriteDxf(n, layer, rows) ==
  /\ format = "dxf"
  /\ IF Encodable(rows) THEN Ok(n, rows) /\ Keep(layer, rows)
                        ELSE n = 0 /\ UNCHANGED backendVars

WriteBackend(n, layer, rows) ==
  \/ WriteIpc(n, layer, rows)     \/ WriteGeoParquet(n, layer, rows)
  \/ WriteCsv(n, layer, rows)     \/ WriteGeoJson(n, layer, rows)
  \/ WriteKml(n, layer, rows)     \/ WriteGpkg(n, layer, rows)
  \/ WriteFileGdb(n, layer, rows) \/ WriteShp(n, layer, rows)
  \/ WriteXls(n, layer, rows)     \/ WriteDxf(n, layer, rows)

-----------------------------------------------------------------------------
(* finish: the document that is ready to be published *)

FinishIpc        == format = "ipc" /\ Put(<<Footer>>)
FinishGeoParquet == format = "geoparquet" /\ Put(<<Footer>>)
FinishCsv        == format = "csv" /\ UNCHANGED staged
FinishGeoJson    == format = "geojson" /\ Put(<<Footer>>)
FinishKml        == format = "kml" /\ Put(<<Footer>>)
FinishGpkg       == format = "gpkg" /\ Put(<<Footer>>)
FinishFileGdb    == format = "filegdb" /\ Put(<<Footer>>)
FinishShp        == format = "shp" /\ Put(<<Footer>>)

\* The workbook is encoded now: a cell that does not fit is found here.
FinishXls ==
  /\ format = "xls"
  /\ LET rows == FlattenSeq(buffer)
     IN  /\ \A i \in 1 .. Len(rows) : Fits(rows[i].row)
         /\ Put(<<Open>> \o (IF buffer = << >> THEN << >> ELSE <<Header>>) \o rows \o <<Footer>>)

FinishDxf == format = "dxf" /\ Put(<<Open>> \o FlattenSeq(buffer) \o <<Footer>>)

FinishBackend ==
  /\ \/ FinishIpc \/ FinishGeoParquet \/ FinishCsv \/ FinishGeoJson \/ FinishKml
     \/ FinishGpkg \/ FinishFileGdb \/ FinishShp \/ FinishXls \/ FinishDxf
  /\ UNCHANGED <<format, xy, buffer, started, shape_type>>

-----------------------------------------------------------------------------
(* What a reader of the format expects *)

Delimited == {"ipc", "geoparquet", "geojson", "kml", "gpkg", "filegdb", "shp", "xls", "dxf"}

Framed(body) == IF format \in Delimited THEN <<Open>> \o body \o <<Footer>> ELSE body

HeaderOf(batches) ==
  IF format \in {"csv", "xls"} /\ batches # << >> THEN <<Header>> ELSE << >>

\* The document that holds these batches, each a sequence of rows with its
\* layer, and nothing else.
DocumentOf(batches) ==
  LET rows == FlattenSeq(batches)
  IN  Framed(HeaderOf(batches)
               \o (IF format = "geojson" THEN Separated(FALSE, rows) ELSE rows))

\* The format's own rules about the rows together.
Readable(document) ==
  LET rows == {document[i].row : i \in 1 .. Len(document)} \ {"none"}
  IN  /\ \A row \in rows : Fits(row)
      /\ format = "shp" => ~ {"point", "line"} \subseteq rows
      /\ format \notin MultiLayer =>
           {document[i].layer : i \in 1 .. Len(document)} \subseteq {0, 1}

=============================================================================

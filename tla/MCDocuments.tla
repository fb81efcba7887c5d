----------------------------- MODULE MCDocuments -----------------------------
(***************************************************************************)
(* Instances for TLC of what the drivers read from a file cell by cell and *)
(* event by event: columns of attributes on their way through a conversion *)
(* and back, worksheets, and KML documents.  A behaviour is of one topic,  *)
(* and the variables of the others idle.                                   *)
(***************************************************************************)
EXTENDS Integers, Sequences, SequencesExt, TLC

CONSTANTS
  Topics,   (* a subset of {"columns", "sheets", "cells below", "placemarks", "none"} *)
  None, Null

VARIABLES
  topic,
  source, batch_column, batch_cells, told, written_as, promised, file_cells, back, cell_stage,
  sheet, request, bounds, sheet_step, taken, sheet_row, values, columns, kinds, sheet_rows,
  document, events_read, element_stack, open_points, ancestors, calls, kml_step

columnVars    == <<source, batch_column, batch_cells, told, written_as, promised, file_cells, back, cell_stage>>
sheetVars     == <<sheet, request, bounds, sheet_step, taken, sheet_row, values, columns, kinds, sheet_rows>>
placemarkVars == <<document, events_read, element_stack, open_points, ancestors, calls, kml_step>>

-----------------------------------------------------------------------------
(* A column of each type with its values, in pairs; every declared type of a  *)
(* GeoPackage with every storage class; the fields of a DBF in each encoding. *)

V == INSTANCE AttributePath WITH Unsaid <- None, Denial <- Null, Origins <- {}, Destinations <- {}, Names <- << >>

Several(kind, whats) == {V!Value(kind, w) : w \in whats}

MCNumbers == V!Finite \cup {"inf", "nan"}
MCReals   == MCNumbers \ {"wide", "max"}
MCTexts   == {"word", "", "padded", "nul", "oversized", "unkept", "1", "01", "1.5", "-0", "true", "huge", "day"}

MCValuesOf ==
  ("Boolean" :> Several("bool", {"true", "false"})) @@ ("Int64" :> Several("int", V!InI64)) @@
  ("UInt64" :> Several("int", V!InI64 \cup {"huge"})) @@ ("Float16" :> Several("real", {"1", "-0", "1.5", "nan"})) @@
  ("Float64" :> Several("real", MCReals)) @@ ("Utf8" :> Several("text", MCTexts)) @@
  ("LargeUtf8" :> Several("text", {"", "1", "true", "word"})) @@ ("Binary" :> Several("blob", {"bytes"})) @@
  ("Date64" :> Several("day", {"day", "moment"})) @@ ("Time64" :> Several("day", {"hour", "beyond"})) @@
  ("Duration" :> Several("day", {"hour"})) @@ ("Decimal128" :> Several("decimal", {"1.5"})) @@ ("List" :> Several("list", {"1"}))

MCStorage ==
  {V!NullValue} \cup Several("blob", {"bytes"}) \cup Several("int", V!InI64) \cup Several("real", MCReals \ {"nan"})
    \cup Several("text", {"word", "", "1", "01", "broken", "day"})

Origin == [file |-> "arrow", type |-> None, declared |-> None, nullable |-> TRUE, cpg |-> None, ldid |-> "none",
           field |-> None, raw |-> << >>, beside |-> "b"]

MCFields == {V!Field("C", FALSE), V!Field("N", TRUE), V!Field("N", FALSE), V!Field("F", FALSE), V!Field("L", FALSE), V!Field("D", FALSE)}

MCRaw(field) ==
  {"blank"} \cup CASE field.type = "C" -> {"nuls", "nul", "word", "1", "80", "81", "a9", "c3a9"}
                   [] field.type \in {"N", "F"} -> MCNumbers \cup {"stars"}
                   [] field.type = "L" -> {"true", "false"} [] field.type = "D" -> {"day"}

NameOf(folded, ascii, long) == [folded |-> folded, ascii |-> ascii, long |-> long]

MCNames == ("a" :> NameOf("a", TRUE, FALSE)) @@ ("A" :> NameOf("a", TRUE, FALSE)) @@ ("b" :> NameOf("b", TRUE, FALSE)) @@
           ("accented" :> NameOf("accented", FALSE, FALSE)) @@ ("of eleven letters" :> NameOf("of eleven letters", TRUE, TRUE))

MCOrigins ==
  UNION {{[Origin EXCEPT !.type = t, !.raw = <<v, w>>] : v \in MCValuesOf[t] \cup {V!NullValue}, w \in MCValuesOf[t] \cup {V!NullValue}}
           : t \in DOMAIN MCValuesOf}
  \cup {[Origin EXCEPT !.type = t, !.declared = d, !.raw = <<v>>, !.beside = n] :
          t \in {"Utf8"}, d \in {None, "DATE", "TEXT", "REAL", "VARCHAR"}, v \in Several("text", MCTexts), n \in DOMAIN MCNames }
  \cup UNION {{[Origin EXCEPT !.type = t, !.nullable = FALSE, !.raw = <<v>>] : v \in MCValuesOf[t] \ Several("text", {""})}
           : t \in DOMAIN MCValuesOf}
  \cup {[Origin EXCEPT !.file = "gpkg", !.declared = d, !.raw = <<V!Stored(d, v)>>] :
          d \in V!Recognized \cup {"VARCHAR", "DECIMAL"}, v \in MCStorage}
  \cup {[Origin EXCEPT !.file = "shp", !.cpg = c, !.ldid = l, !.field = V!Field("C", FALSE), !.raw = <<r>>] :
          c \in {None, "ascii", "latin1", "1252", "utf8", "unknown"}, l \in {"none", "x57", "x03", "xf0", "other"},
          r \in MCRaw(V!Field("C", FALSE))}
  \cup UNION {{[Origin EXCEPT !.file = "shp", !.field = f, !.raw = <<r, q>>] :
                  r \in MCRaw(f), q \in MCRaw(f)} : f \in MCFields \ {V!Field("C", FALSE)}}

MCDestinations == {"csv", "geojson", "gpkg", "shp", "xls"}

ColumnTopic == INSTANCE AttributePath WITH
  Unsaid <- None, Denial <- Null, Origins <- MCOrigins, Destinations <- MCDestinations, Names <- MCNames

-----------------------------------------------------------------------------
(* Sheets whose cells are in order or not, missing, repeated, or outside of   *)
(* the frame; every value as a geometry and as an attribute; dates about the  *)
(* ends of both calendars, alone and in pairs.                                *)

Cell(r, c, v) == [row |-> r, column |-> c, value |-> v]
Text(t) == <<"text", t>>
Serial(h, code) == <<"serial", h, code>>
Frame(t, l, b, r) == [top |-> t, left |-> l, bottom |-> b, right |-> r]
Day == {"d", "y"}

\* Headers, and up to two rows of a geometry and an attribute.
MCTwoRows(a, b) ==
  <<Cell(1, 1, Text("shape")), Cell(1, 2, Text("name")), Cell(2, 1, a), Cell(2, 2, b)>>
MCThreeRows(a, b, c) == MCTwoRows(Text("POINT"), a) \o <<Cell(3, 1, b), Cell(3, 2, c)>>
MCTwoShapes == [MCTwoRows(Text("POINT"), Text("POINT")) EXCEPT ![2].value = Text("shape")]
MCXy(a, b) == <<Cell(0, 0, Text("x")), Cell(0, 1, Text("y")), Cell(1, 0, a), Cell(1, 1, b)>>

Sheet(f, cells, epoch) == [frame |-> f, cells |-> cells, epoch |-> epoch]
Nowhere == Frame(0, 0, 0, 0)

MCDates ==
  {Serial(h, code) :
     h \in {-1, 0, 1, 2, 118, 119, 120, 121, 122, 123, 2 * 2957004 - 1, 2 * 2957004, 2 * 2958466 - 2, 2 * 2958466},
     code \in {Day, {"h", "s"}, {"d", "h"}, {"[h]"}}}

MCPlain == {<<"empty">>, Text(""), Text("POINT"), Text("name"), Text("5"), <<"number", 5>>, <<"wide", 6>>, <<"error">>}
MCPairs == {Serial(200, Day), Serial(201, Day), Serial(300, Day), Serial(1, {"h"}), <<"number", 1>>, <<"empty">>}

\* The same cells in another order, but one, with one changed by a later cell, or by an earlier one.
MCReordered(s) ==
  {s, Reverse(s)}
    \cup {SubSeq(s, 1, i - 1) \o <<s[i + 1], s[i]>> \o SubSeq(s, i + 2, Len(s)) : i \in 1 .. Len(s) - 1}
    \cup {RemoveAt(s, i) : i \in DOMAIN s}
    \cup {Append(s, [s[i] EXCEPT !.value = <<"number", 7>>]) : i \in DOMAIN s}
    \cup {InsertAt(s, i, [s[i] EXCEPT !.value = Text("POINT")]) : i \in DOMAIN s}

MCRows == MCThreeRows(<<"number", 5>>, <<"empty">>, <<"number", 6>>)

\* The frame of MCRows, smaller, larger and inverted ones, and those past a quota.
MCFrames ==
  {Nowhere, Frame(1, 1, 3, 2), Frame(1, 1, 2, 2), Frame(0, 0, 3, 2), Frame(1, 1, 3, 1), Frame(1, 2, 3, 2),
   Frame(2, 1, 3, 2), Frame(3, 1, 1, 2), Frame(1, 2, 3, 1), Frame(1, 1, 5, 3), Frame(1, 1, 9, 2), Frame(1, 1, 3, 9)}

MCAllSheets ==
  {Sheet(Nowhere, MCTwoShapes, FALSE)}
  \cup {Sheet(f, s, FALSE) : f \in MCFrames, s \in MCReordered(MCRows) \cup {<< >>}}
  \cup {Sheet(Nowhere, MCTwoRows(a, b), e) : a \in MCPlain, b \in MCPlain \cup MCDates, e \in BOOLEAN}
  \cup {Sheet(Nowhere, MCXy(a, b), FALSE) : a \in MCPlain, b \in MCPlain \cup {Serial(200, Day)}}
  \cup {Sheet(Nowhere, MCThreeRows(a, Text("POINT"), b), e) : a \in MCPairs, b \in MCPairs, e \in BOOLEAN}

\* A cell below the last row of the frame is in no sheet of the passing run.
HasCellsBelow(s) == s.frame # Nowhere /\ \E i \in DOMAIN s.cells : s.cells[i].row > s.frame.bottom

MCSheets == {s \in MCAllSheets : HasCellsBelow(s) = ("cells below" \in Topics)}

Asked(w, x, y) == [wkt |-> w, x |-> x, y |-> y]
MCRequests ==
  {Asked("shape", None, None), Asked("name", None, None), Asked(None, "x", "y"), Asked("shape", "x", None), Asked(None, "x", None)}

MCNumerals == "5" :> 5

SheetTopic == INSTANCE SheetCells WITH
  Refusal <- Null, Nothing <- None, Sheets <- MCSheets, Requests <- MCRequests, WktTexts <- {"POINT"},
  Numerals <- MCNumerals, MaxColumns <- 4, MaxSheetRows <- 6

-----------------------------------------------------------------------------
(* Documents with one event added, removed or moved, or one element renamed   *)
(* or repeated.                                                               *)

Element(name, inside) == <<<<"start", name>>>> \o inside \o <<<<"end", name>>>>
Words(words) == <<<<"text", words>>>>
Coordinates(words) == Element("coordinates", Words(words))
Shape(name, words) == Element(name, Coordinates(words))
Ring(words) == Shape("LinearRing", words)
Outer(inside) == Element("outerBoundaryIs", inside)
Inner(inside) == Element("innerBoundaryIs", inside)
Placemark(inside) == Element("Placemark", inside)

MCBodies ==
  { Element("name", Words(<<"n">>)) \o Shape("Point", <<"a">>),
    Shape("LineString", <<"a", "b">>),
    Element("Polygon", Outer(Ring(<<"a">>)) \o Inner(Ring(<<"b">>) \o Ring(<<"c">>))),
    Element("MultiGeometry", Shape("Point", <<"a">>) \o Element("MultiGeometry", Ring(<<"b">>))),
    Element("extra", Placemark(Shape("Point", <<"a">>))) \o Element("description", Words(<<"d">>) \o Words(<<"e">>)) }

MCEvents ==
  {<<"comment">>, <<"doctype">>, <<"text", <<"z">>>>, <<"text", << >>>>, <<"text", <<"bad">>>>}
    \cup {<<"empty", n>> : n \in {"Point", "Placemark", "name", "Polygon"}}

\* Where an element that starts at i may end: the first end of its name.
Ends(d, i) == {j \in i .. Len(d) : d[i][1] = "start" /\ d[j] = <<"end", d[i][2]>>}
FirstEnd(d, i) == CHOOSE j \in Ends(d, i) : \A k \in Ends(d, i) : j <= k
Elements(d) == {i \in DOMAIN d : Ends(d, i) # {}}

MCRenamed(d) ==
  {[d EXCEPT ![i] = <<"start", n>>, ![FirstEnd(d, i)] = <<"end", n>>] :
     i \in Elements(d), n \in {"Folder", "Placemark", "Point", "coordinates", "Model", "name", "LinearRing"}}

MCRepeated(d) == {SubSeq(d, 1, FirstEnd(d, i)) \o SubSeq(d, i, Len(d)) : i \in Elements(d)}

MCMutated(d) ==
  {d} \cup {RemoveAt(d, i) : i \in DOMAIN d} \cup {InsertAt(d, i, e) : i \in DOMAIN d, e \in MCEvents}
    \cup {[d EXCEPT ![i] = d[i + 1], ![i + 1] = d[i]] : i \in 1 .. Len(d) - 1} \cup MCRenamed(d) \cup MCRepeated(d)

MCDocumentsRead ==
  MCMutated(Element("kml", <<<<"empty", "Placemark">>>>)) \cup
  UNION {MCMutated(Element("kml", Element("Folder", Placemark(b)) \o <<<<"empty", "Placemark">>>>)) : b \in MCBodies}

PlacemarkTopic == INSTANCE PlacemarkStream WITH
  Refused <- Null, Documents <- MCDocumentsRead, MaxXmlDepth <- 7,
  at <- events_read, open_points_with_coordinates <- open_points, step <- kml_step

-----------------------------------------------------------------------------
DocumentsInit ==
  /\ topic \in Topics
  /\ IF topic = "columns" THEN ColumnTopic!AttributesInit
     ELSE /\ source = None /\ batch_column = None /\ batch_cells = None /\ told = None /\ written_as = None
          /\ promised = None /\ file_cells = None /\ back = None /\ cell_stage = "idle"
  /\ IF topic \in {"sheets", "cells below"} THEN SheetTopic!SheetInit
     ELSE /\ sheet = None /\ request = None /\ bounds = None /\ sheet_step = "idle" /\ taken = 0 /\ sheet_row = 0
          /\ values = None /\ columns = None /\ kinds = None /\ sheet_rows = None
  /\ IF topic = "placemarks" THEN PlacemarkTopic!Init
     ELSE /\ document = None /\ events_read = 0 /\ element_stack = None /\ open_points = None
          /\ ancestors = None /\ calls = None /\ kml_step = "idle"

DocumentsNext ==
  \/ topic = "columns" /\ ColumnTopic!AttributesNext /\ UNCHANGED <<topic, sheetVars, placemarkVars>>
  \/ topic \in {"sheets", "cells below"} /\ SheetTopic!SheetNext /\ UNCHANGED <<topic, columnVars, placemarkVars>>
  \/ topic = "placemarks" /\ PlacemarkTopic!Next /\ UNCHANGED <<topic, columnVars, sheetVars>>

DocumentsSpec == DocumentsInit /\ [][DocumentsNext]_<<topic, columnVars, sheetVars, placemarkVars>>

CellsComeBack          == ColumnTopic!CellsComeBack
PlacemarksAreReadWhole == PlacemarkTopic!PlacemarksAreReadWhole
CellsKeepToTheFrame    == SheetTopic!CellsKeepToTheFrame

=============================================================================

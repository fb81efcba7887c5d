------------------------------ MODULE MCValues ------------------------------
(***************************************************************************)
(* Instances for TLC of the geometries: as bytes, on their way through a   *)
(* conversion, and as the text of WKT and GeoJSON; of the CRS of a layer;  *)
(* and of the files of a shapefile.  A behaviour is of one topic, and the  *)
(* variables of the others idle.                                           *)
(***************************************************************************)
EXTENDS Integers, Sequences, SequencesExt, TLC

CONSTANTS
  Topics,   (* of "geometry", "text", "nested text", "crs", "files", "none" *)
  None, Null

VARIABLES
  topic,
  payload, contract, driver, planned, cells, stage, cause, stored,
  form, origin, text, text_cells, first, charged, text_stage,
  original, assumed, held, target, announced, emitted, reread, crs_stage,
  opened, checked, fault, end

geometryVars == <<payload, contract, driver, planned, cells, stage, cause, stored>>
writtenVars  == <<form, origin, text, text_cells, first, charged, text_stage>>
crsVars      == <<original, assumed, held, target, announced, emitted, reread, crs_stage>>
fileVars     == <<opened, checked, fault, end>>

W == INSTANCE ShapefileGeometry WITH MaxDepth <- 1, MaxComponents <- 7, MaxCells <- 30

G(base, dims, srid, parts) == [base |-> base, dims |-> dims, srid |-> srid, parts |-> parts]
Plain(base, parts) == G(base, "xy", W!NoSrid, parts)
P(x, y)  == Plain(1, <<x, y>>)
Line(n)  == Plain(2, [i \in 1 .. n |-> <<i, 0>>])
Segment  == <<<<0, 0>>, <<1, 1>>>>

\* A ring one way round and a smaller one the other, and a ring without area.
Ring == <<<<0, 0>>, <<2, 0>>, <<0, 2>>, <<0, 0>>>>
Hole == <<<<0, 0>>, <<1, 0>>, <<0, 1>>, <<0, 0>>>>
Flat == <<<<0, 0>>, <<1, 1>>, <<2, 2>>, <<0, 0>>>>

-----------------------------------------------------------------------------
(* One geometry of each type and shape, as WKB and as EWKB, whole or with one *)
(* cell changed, cut off or added.                                            *)

MCGeometries ==
  { P(1, 2), P(W!NotANumber, W!NotANumber), P(W!NotANumber, 0), G(1, "xyzm", W!NoSrid, <<1, 2, 3, 4>>),
    G(1, "xyzm", W!NoSrid, <<1, 2, 3, W!NoData>>), G(1, "xyz", W!NoSrid, <<1, 2, 0>>),
    G(1, "xym", W!NoSrid, <<1, 2, W!NoData>>), G(1, "xy", 0, <<1, 2>>), G(1, "xyz", 7, <<1, 2, 0>>),
    Plain(2, << >>), Plain(2, Segment), Plain(8, Append(Segment, <<2, 0>>)),
    Plain(3, << >>), Plain(3, <<Ring>>), Plain(3, <<Reverse(Ring), Hole>>), Plain(3, <<Flat>>),
    Plain(17, <<Ring>>), Plain(4, <<P(0, 1), P(2, 0)>>), G(4, "xy", 7, << >>),
    G(4, "xyz", W!NoSrid, <<G(1, "xyz", W!NoSrid, <<1, 2, 0>>)>>),
    Plain(5, <<Plain(2, Segment), Plain(2, Reverse(Segment))>>),
    Plain(6, <<Plain(3, <<Ring>>), Plain(3, <<Hole>>)>>),
    Plain(7, << >>), G(7, "xy", 7, <<P(1, 1), Plain(2, << >>)>>), Plain(7, <<G(1, "xy", 7, <<1, 1>>)>>),
    Plain(7, <<Plain(7, <<P(1, 0)>>)>>), Plain(9, <<Plain(2, Segment)>>), Plain(10, << >>),
    Plain(15, <<Plain(3, <<Ring>>)>>), Plain(16, <<Plain(17, <<Ring>>)>>), Plain(12, <<Plain(3, <<Ring>>)>>) }

MCEncoded == {W!EncodeWkb(g, f) : g \in MCGeometries, f \in {"iso", "ewkb"}} \ {W!Refused}
MCCells   == {0, 1, 2, 3, 7, 1001, 3002, W!FlagZ + 1, W!FlagSrid + 2, W!NotANumber}

Mutated(p) == {[p EXCEPT ![i] = c] : i \in 1 .. Len(p), c \in MCCells} \cup {Front(p), Append(p, 0)}

MCPayloads == MCEncoded \cup UNION {Mutated(p) : p \in MCEncoded} \cup {Null}

Column(encoding, types, dims, srid, crs) ==
  [encoding |-> encoding, types |-> types, dims |-> dims, srid |-> srid,
   nullable |-> srid = W!NoSrid, crs_id |-> crs, crs_definition |-> None]

MCContracts ==
  { Column("wkb", {}, "unknown", W!NoSrid, None), Column("ewkb", {}, "unknown", 7, 7),
    Column("ewkb", {1, 4, 7}, "xy", 7, 3), Column("ewkb", {}, "xyz", W!NoSrid, None) }

Path == INSTANCE GeometryPath WITH
  MaxDepth <- 1, MaxComponents <- 7, MaxCells <- 30,
  Payloads <- MCPayloads, Contracts <- MCContracts, Drivers <- {"ipc", "gpkg", "geoparquet", "shp"}

-----------------------------------------------------------------------------
(* Texts of both forms, whole or with one token or one branch changed *)

T == INSTANCE WellKnownBinary WITH MaxDepth <- 4, MaxComponents <- 9, MaxCells <- 40

Printer == INSTANCE GeometryText WITH
  MaxDepth <- 4, MaxComponents <- 9, MaxCells <- 40, MaxText <- 60, Texts <- {}, Binaries <- {},
  cells <- text_cells, stage <- text_stage

MCTextGeometries ==
  { P(1, 2), P(W!NotANumber, W!NotANumber), G(1, "xyz", W!NoSrid, <<1, 2, 3>>), G(1, "xym", W!NoSrid, <<1, 2, 3>>),
    G(1, "xyzm", W!NoSrid, <<1, 2, 3, 4>>), Line(0), Line(2), G(2, "xym", W!NoSrid, << >>),
    Plain(3, << >>), Plain(3, <<Ring>>), Plain(3, <<Ring, Hole>>), Plain(4, << >>),
    Plain(4, <<P(0, 1), P(2, 0)>>), G(4, "xyz", W!NoSrid, <<G(1, "xyz", W!NoSrid, <<1, 2, 3>>)>>),
    Plain(5, <<Line(2), Line(2)>>), Plain(5, <<Line(2), Line(0)>>), Plain(5, << >>),
    Plain(6, <<Plain(3, <<Ring>>), Plain(3, << >>)>>), Plain(6, <<Plain(3, <<Ring>>)>>),
    Plain(7, << >>), Plain(7, <<P(1, 1), Line(0)>>), Plain(7, <<Plain(7, <<P(1, 0)>>)>>),
    Plain(7, <<Plain(7, << >>)>>), Plain(8, << >>), Plain(7, <<Plain(7, <<Line(2)>>)>>),
    Plain(7, <<Plain(7, <<Plain(3, <<Ring>>)>>)>>), Plain(7, <<Plain(7, <<Plain(6, <<Plain(3, <<Ring>>)>>)>>)>>) }

MCBinaries == {[form |-> f, cells |-> T!EncodeWkb(g, "iso")] : f \in {"wkt", "geojson"}, g \in MCTextGeometries}

MCTokens ==
  { Printer!Open, Printer!Comma, Printer!Close, Printer!Empty, <<"Z">>, <<"M">>, <<"number", 1>>,
    <<"type", 1, "none">>, <<"type", 7, "xyz">>, <<"type", 4, "none">>, <<"type", 2, "xym">> }

MCWkt == {Printer!FormatWkt(g) : g \in MCTextGeometries} \ {W!Refused}

MutatedWkt(t) ==
  {[t EXCEPT ![i] = w] : i \in 1 .. Len(t), w \in MCTokens} \cup {RemoveAt(t, i) : i \in 1 .. Len(t)}
    \cup {InsertAt(t, i, w) : i \in 1 .. Len(t) + 1, w \in MCTokens}

MCGeoJson == {Printer!WriteGeoJson(g) : g \in MCTextGeometries} \ {W!Refused}

List(items) == [list |-> items]

RECURSIVE Trees(_)
Trees(t) ==
  {t, List(<<t>>), List(<< >>)} \cup
  IF Printer!Number(t) THEN {}
  ELSE ToSet(t.list) \cup {List(Append(t.list, [number |-> 0])), List(Append(t.list, t))}
         \cup {List([t.list EXCEPT ![1] = u]) : u \in Trees(t.list[1])}

MutatedGeoJson(t) ==
  {<<t[2], t[1]>>, <<t[1]>>, <<t[2]>>, <<t[1], t[2], t[1]>>, <<t[1], t[2], t[2]>>}
    \cup {<<<<"crs", ok>>, t[1], t[2]>> : ok \in BOOLEAN}
    \cup {<<<<"type", b>>, t[2]>> : b \in 1 .. 8}
    \cup (IF t[2][1] = "coordinates" THEN {<<t[1], <<"coordinates", u>>>> : u \in Trees(t[2][2])}
          ELSE {<<t[1], <<"geometries", Append(t[2][2], u)>>>> : u \in MCGeoJson})

\* A list of one number, somewhere in the coordinates.
RECURSIVE Lonely(_)
Lonely(t) ==
  IF Printer!Number(t) THEN FALSE
  ELSE (Len(t.list) = 1 /\ \E i \in DOMAIN t.list : Printer!Number(t.list[i])) \/ \E i \in DOMAIN t.list : Lonely(t.list[i])

HasLonely(t) == \E i \in DOMAIN t : t[i][1] = "coordinates" /\ Lonely(t[i][2])

MCAllGeoJson == MCGeoJson \cup UNION {MutatedGeoJson(t) : t \in MCGeoJson}

MCTexts ==
  [wkt |-> MCWkt \cup UNION {MutatedWkt(t) : t \in {u \in MCWkt : Len(u) <= 14}},
   geojson |-> {t \in MCAllGeoJson : ~HasLonely(t)}]

MCLonelyTexts == [geojson |-> {t \in MCAllGeoJson : HasLonely(t)}]

Text == INSTANCE GeometryText WITH
  MaxDepth <- 4, MaxComponents <- 9, MaxCells <- 40, MaxText <- 60,
  Texts <- IF "nested text" \in Topics THEN MCLonelyTexts ELSE MCTexts, Binaries <- MCBinaries,
  cells <- text_cells, stage <- text_stage

-----------------------------------------------------------------------------
(* Identifiers and definitions that agree, contradict, repeat or leave out *)

MCCodes == {"4326", "3003", "3857", "102100", "1", "0", "-1"}

MCNegatives == {"-1"}
MCCapitals  == [epsg |-> "EPSG", ogc |-> "OGC", none |-> "NONE"]

Crs == INSTANCE CrsPath WITH
  Strings <- STRING, IntegerCodes <- MCCodes, NegativeCodes <- MCNegatives, Capitals <- MCCapitals,
  Nil <- None, Declined <- Null,
  Originals <- << >>, Assumable <- {}, Targets <- {}

Wgs84Id  == <<"EPSG", "4326">>
Crs84Id  == <<"OGC", "CRS84">>
RomeId   == <<"EPSG", "3003">>
WebId    == <<"EPSG", "3857">>
PaddedId == <<"EPSG", "04326">>
LocalId  == <<"POSTGIS", "1">>
LowerIds == {<<"epsg", "4326">>, <<"epsg", "3003">>}

MCIds       == {Wgs84Id, Crs84Id, RomeId, WebId, PaddedId, LocalId} \cup LowerIds
MCAssumable == {None, Wgs84Id, Crs84Id, RomeId, WebId, LocalId, <<"epsg", "3003">>}

Wkt(root, children)  == [json |-> FALSE, root |-> root, children |-> children]
Json(root, children) == [json |-> TRUE, root |-> root, children |-> children]
Tag(word, id)  == <<word, id[1], id[2]>>
Axis(way)      == <<"AXIS", way, "none">>
MCWktCrs ==
  { Wkt("PROJCS", << >>), Wkt("PROJCS", << <<"PROJECTION", "polar", "none">> >>),
    Wkt("PROJCS", <<Axis("north"), Axis("east")>>), Wkt("PROJCS", <<Axis("north"), Axis("north")>>),
    Wkt("PROJCS", <<Tag("AUTHORITY", RomeId), Tag("ID", RomeId)>>),
    Wkt("PROJCS", <<Tag("AUTHORITY", RomeId), Tag("ID", WebId)>>),
    Wkt("PROJCS", <<Tag("AUTHORITY", WebId)>>), Wkt("VERT_CS", <<Tag("AUTHORITY", Wgs84Id)>>),
    Wkt("COMPD_CS", <<Tag("AUTHORITY", RomeId)>>), Wkt("GEOGCS", << <<"AUTHORITY", "EPSG", "none">> >>),
    Wkt("PROJCRS", <<Axis("east"), Axis("north"), Tag("ID", RomeId)>>), Wkt("PROJCRS", <<Tag("ID", <<"epsg", "3003">>)>>),
    Wkt("GEODCRS", << <<"CS", "ellipsoidal", "none">>, Axis("north"), Axis("east")>>),
    Wkt("GEOGCRS", <<Tag("ID", Crs84Id)>>), Wkt("GEOGCRS", <<Tag("ID", Wgs84Id), Tag("ID", Crs84Id)>>),
    Wkt("BOUNDCRS", <<Tag("ID", Wgs84Id)>>), Wkt("BOUNDCRS", << >>), Wkt("malformed", << >>), Wkt("GEOGCS", Crs!Wgs84Parts) }
  \cup {Wkt("GEOGCS", <<Tag("AUTHORITY", id)>>) : id \in MCIds \cup {<<"ESRI", "102100">>}}

MCProjjson ==
  { Json("untyped", <<Tag("id", RomeId)>>), Json("GeographicCRS", << >>),
    Json("GeographicCRS", <<Tag("id", RomeId), Tag("ids", RomeId)>>),
    Json("GeographicCRS", <<Tag("ids", Wgs84Id), Tag("ids", Crs84Id)>>), Json("BoundCRS", <<Tag("id", Wgs84Id)>>),
    Json("GeographicCRS", <<Axis("north"), Axis("east"), Tag("id", Wgs84Id)>>),
    Json("ProjectedCRS", << <<"AXIS", "east", "meridian">>, Axis("north"), Tag("id", RomeId)>>) }
  \cup {Json(root, <<Tag("id", id)>>) : root \in {"GeographicCRS", "ProjectedCRS"}, id \in MCIds}

Metadata(status, id, axis, t, code) ==
  [crs |-> [Crs!System(status, id, "unknown", t) EXCEPT !.axis = axis], srid |-> code]

MCMetadata ==
  {Metadata("missing", None, "unknown", None, code) : code \in {None, "4326"}} \cup
  {Metadata(status, id, axis, t, code) :
     status \in {"resolved", "unresolved"}, id \in {None, Wgs84Id, Crs84Id, RomeId, LocalId, <<"epsg", "3003">>},
     axis \in {"lonLat", "latLon"}, code \in {None, "4326"},
     t \in {None, Wkt("GEOGCS", Crs!Wgs84Parts), Wkt("PROJCS", <<Tag("AUTHORITY", RomeId)>>),
            Wkt("GEOGCRS", <<Tag("ID", Crs84Id)>>)}
            \cup {Json("GeographicCRS", <<Tag("id", id2)>>) : id2 \in {Wgs84Id, Crs84Id}}
            \cup {Json("ProjectedCRS", <<Tag("id", RomeId)>>)}}

Says == [said |-> "no", text |-> None, id |-> None, srid |-> None, meta |-> None, key |-> None]

Textual(codes) == Wkt("textual", [i \in DOMAIN codes |-> <<"EPSG", "EPSG", codes[i]>>])

MCOriginals ==
  [csv     |-> {Says},
   geojson |-> {Says},
   shp     |-> {[Says EXCEPT !.text = t] : t \in MCWktCrs \cup {None, Wkt("OGC:CRS84", << >>)}},
   dxf     |-> {[Says EXCEPT !.text = t] :
                  t \in MCWktCrs \cup {None, Wkt("OGC:CRS84", << >>), Json("GeographicCRS", << >>)}
                         \cup {Textual(codes) : codes \in {<< >>, <<"3003">>, <<"04326">>, <<"3003", "4326">>}}},
   gpkg    |-> {[Says EXCEPT !.id = id, !.text = t, !.srid = code] :
                  id \in {None, <<"NONE", "0">>, <<"epsg", "3003">>, Wgs84Id, <<"ESRI", "102100">>, <<"SQLITE", "3003">>},
                  t \in MCWktCrs \cup MCProjjson \cup {None}, code \in {"4326", "3003"}},
   geoparquet |->
     {[Says EXCEPT !.said = word] : word \in {"absent", "null"}}
       \cup {[Says EXCEPT !.said = "document", !.text = t] : t \in MCProjjson}
       \cup {[Says EXCEPT !.said = "legacy", !.id = id] : id \in MCIds}
       \cup {[Says EXCEPT !.said = "none", !.key = id] : id \in {None} \cup MCIds},
   ipc     |->
     {[Says EXCEPT !.meta = meta, !.key = id] : meta \in {None} \cup MCMetadata, id \in {None, Wgs84Id, LocalId}}
       \cup {[Says EXCEPT !.key = <<authority, "0">>] : authority \in {"NONE", "none"}}]

CrsTopic == INSTANCE CrsPath WITH
  Strings <- STRING, IntegerCodes <- MCCodes, NegativeCodes <- MCNegatives, Capitals <- MCCapitals,
  Nil <- None, Declined <- Null, Originals <- MCOriginals, Assumable <- MCAssumable, Targets <- DOMAIN MCOriginals

-----------------------------------------------------------------------------
(* The files of a shapefile: records of each form, alone and in pairs, with   *)
(* an index or none, and every cell changed; tables with every tail.          *)

MCRecords ==
  { <<1, 1>>, <<2, 1, 0>>, <<3, 8, 1, 0>>, <<2, 8, 0>>, <<4, 3, 1, 0, 0>>, <<5, 3, 1, 1, 0, 0>>,
    <<7, 5, 2, 2, 0, 1, 0, 0>>, <<1, 9>>, <<3, 5, 1, 0>>, <<1, 3>> }

Cells(s) == FlattenSeq(s)
Sized(c) == [declared |-> 1 + Len(c), cells |-> c]

\* The true index of records: where each begins, and its length.
IndexOf(s) ==
  Sized(FlattenSeq([i \in DOMAIN s |-> <<1 + Len(Cells(SubSeq(s, 1, i - 1))), s[i][1]>>]))

MCChains == {<< >>} \cup {<<r>> : r \in MCRecords} \cup {<<r, q>> : r \in MCRecords, q \in {<<1, 1>>, <<3, 8, 1, 0>>}}

ChangedCells(f) ==
  {f} \cup {[f EXCEPT !.cells[i] = c] : i \in DOMAIN f.cells, c \in {-1, 0, 1, 2, 3, 4, 8, 30}}
      \cup {[f EXCEPT !.declared = f.declared + d] : d \in {-2, -1, 1, 30}}

MCShapes ==
  UNION {{[shp |-> f, shx |-> None] : f \in ChangedCells(Sized(Cells(s)))}
    \cup {[shp |-> f, shx |-> IndexOf(s)] : f \in ChangedCells(Sized(Cells(s)))}
    \cup {[shp |-> Sized(Cells(s)), shx |-> x] : x \in ChangedCells(IndexOf(s))} : s \in MCChains}

DbfField(type, width, name) == [type |-> type, width |-> width, name |-> name]
DbfEnd == [type |-> "end", width |-> 0, name |-> "end"]

MCHeaders ==
  {<<DbfField("T", 8, "a"), DbfField("N", 2, n), DbfEnd>> : n \in {"a", "b", ""}}
    \cup {<<DbfField("D", w, "a"), DbfEnd>> : w \in {4, 8}} \cup {<<DbfField("L", w, "a"), DbfEnd>> : w \in {0, 1}}
    \cup {<<DbfEnd>>, <<DbfField("D", 8, "a"), DbfField("N", 2, "b")>>}

MCRows == [mark : {"active", "deleted"}, values : {<<v, "text">> : v \in {"digits", "blank", "bad", "overflow"}}]

Table(version, first0, cells0, count, length, rows, tail) ==
  [version |-> version, first |-> first0, cells |-> cells0, count |-> count, length |-> length, rows |-> rows, tail |-> tail]

MCSomeRows == {<< >>} \cup {<<r>> : r \in MCRows} \cup {<<r, q>> : r, q \in MCRows}

MCTables ==
  {Table(version, n, h, 0, length, << >>, tail) :
     version \in {3, 48, 49}, n \in 0 .. 12, h \in MCHeaders, length \in {1, 2, 8, 9, 11}, tail \in {"none", "byte"}}
    \cup {Table(48, 8, <<DbfField("D", 8, "a"), DbfEnd>>, count, 9, rows, tail) :
            count \in 1 .. 2, rows \in MCSomeRows, tail \in {"none", "eof", "cut"}}
    \cup {Table(3, 5, <<DbfField(type, 8, "a"), DbfEnd>>, count, 9, rows, tail) :
            type \in {"D", "T"}, count \in 0 .. 2, rows \in MCSomeRows, tail \in {"none", "eof", "byte", "more", "cut"}}

FileTopic == INSTANCE ShapefileStructure WITH
  Absent <- None, MaxWords <- 20, ShapeFiles <- MCShapes, TableFiles <- MCTables

-----------------------------------------------------------------------------
ValuesInit ==
  /\ topic \in Topics
  /\ IF topic = "geometry" THEN Path!Init
     ELSE /\ payload = None /\ contract = None /\ driver = None /\ planned = None
          /\ cells = None /\ stage = "idle" /\ cause = None /\ stored = None
  /\ IF topic \in {"text", "nested text"} THEN Text!TextInit
     ELSE /\ form = None /\ origin = None /\ text = None /\ text_cells = None
          /\ first = None /\ charged = 0 /\ text_stage = "idle"
  /\ IF topic = "crs" THEN CrsTopic!CrsInit
     ELSE /\ original = None /\ assumed = None /\ held = None /\ target = None
          /\ announced = None /\ emitted = None /\ reread = None /\ crs_stage = "idle"
  /\ IF topic = "files" THEN FileTopic!StructureInit
     ELSE /\ opened = None /\ checked = "idle" /\ fault = None /\ end = None

ValuesNext ==
  \/ topic = "geometry" /\ Path!Next /\ UNCHANGED <<topic, writtenVars, crsVars, fileVars>>
  \/ topic \in {"text", "nested text"} /\ Text!TextNext /\ UNCHANGED <<topic, geometryVars, crsVars, fileVars>>
  \/ topic = "crs" /\ CrsTopic!CrsNext /\ UNCHANGED <<topic, geometryVars, writtenVars, fileVars>>
  \/ topic = "files" /\ FileTopic!StructureNext /\ UNCHANGED <<topic, geometryVars, writtenVars, crsVars>>

ValuesSpec == ValuesInit /\ [][ValuesNext]_<<topic, geometryVars, writtenVars, crsVars, fileVars>>

(* What the readers admit every driver stores, what is stored is what the      *)
(* source said, and what is read from a text is written as that text: see      *)
(* AdmittedIsStored, StoredGeometryIsTheSource and TextIsLossless.             *)
GeometryIsKept == Path!AdmittedIsStored /\ Path!StoredGeometryIsTheSource /\ Text!TextIsLossless

CrsIsNotMisread         == CrsTopic!CrsIsNotMisread
AdmittedFileIsSurvived  == FileTopic!AdmittedFileIsSurvived
ExactEndIsAdmitted      == FileTopic!ExactEndIsAdmitted
AcceptsNoMoreThanBefore == Text!AcceptsNoMoreThanBefore

=============================================================================

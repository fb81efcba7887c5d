---------------------------- MODULE GeometryPath -----------------------------
(***************************************************************************)
(* What happens to one geometry of a conversion: the reader's contract is  *)
(* planned for the destination, the reader's adapter inspects the payload, *)
(* an EWKB payload becomes WKB where the destination has no SRIDs, the     *)
(* writer's wrapper inspects it again, and the driver stores it.           *)
(***************************************************************************)
EXTENDS ShapefileGeometry

CONSTANTS
  Payloads,   (* those tried: cells, or Null                                *)
  Contracts,  (* those of the column: [encoding, types, dims, srid, nullable, crs_id, crs_definition] *)
  Drivers,    (* a subset of {"ipc", "gpkg", "geoparquet", "shp"}           *)
  Null,       (* no payload                                                 *)
  None        (* no CRS, no cause                                           *)

VARIABLES
  payload,   (* as the source has it                                        *)
  contract,  (* as the source declares it                                   *)
  driver,    (* of the destination                                          *)
  planned,   (* the contract the destination is given                       *)
  cells,     (* the payload on its way                                      *)
  stage,     (* "open", "planned", "read", "converted", "valid", "stored", or how it ended *)
  cause,     (* of a rejection                                              *)
  stored     (* what the destination holds                                  *)

vars == <<payload, contract, driver, planned, cells, stage, cause, stored>>

Init ==
  /\ payload \in Payloads /\ contract \in Contracts /\ driver \in Drivers
  /\ planned = contract /\ cells = payload
  /\ stage = "open" /\ cause = None /\ stored = None

-----------------------------------------------------------------------------
(* The plan *)

WritesEwkb(d) == d = "ipc"

Adapts == contract.encoding = "ewkb" /\ ~WritesEwkb(driver)

\* An SRID is dropped only where a CRS of the layer says the same.
SridIsRepresented ==
  LET authorities == {contract.crs_id, contract.crs_definition} \ {None}
  IN  contract.srid # NoSrid => authorities = {contract.srid}

Plan ==
  /\ stage = "open"
  /\ IF Adapts /\ ~SridIsRepresented
     THEN stage' = "refused" /\ UNCHANGED planned
     ELSE /\ stage' = "planned"
          /\ planned' = IF Adapts THEN [contract EXCEPT !.encoding = "wkb", !.srid = NoSrid]
                                  ELSE contract
  /\ UNCHANGED <<payload, contract, driver, cells, cause, stored>>

-----------------------------------------------------------------------------
(* Reading: collect_read_violations *)

\* What an inspected payload breaks of a contract, the first rule first.
Broken(seen, c) ==
  CASE seen.srid_on_member \/ (c.encoding # "ewkb" /\ seen.contains_srid) -> "geometry_encoding"
    [] c.encoding = "ewkb" /\ seen.srid \notin {NoSrid, c.srid} -> "srid"
    [] c.types # {} /\ seen.base \notin c.types -> "geometry_type"
    [] c.dims # "unknown" /\ seen.dims # c.dims -> "coordinate_dimensions"
    [] OTHER -> None

Verdict(c, Rule(_, _)) ==
  LET Of(seen) == IF Whole(cells, seen) THEN Rule(seen.value, c) ELSE "invalid_geometry"
  IN  IF cells = Null THEN IF c.nullable THEN None ELSE "nullability" ELSE Of(Inspect(cells))

Read ==
  /\ stage = "planned"
  /\ cause' = Verdict(contract, Broken)
  /\ stage' = IF cause' = None THEN "read" ELSE "rejected"
  /\ UNCHANGED <<payload, contract, driver, planned, cells, stored>>

-----------------------------------------------------------------------------
(* Writing: the conversion, the wrapper and the driver *)

Convert ==
  /\ stage = "read"
  /\ cells' = IF Adapts /\ cells # Null THEN ConvertiValore(cells, contract.srid) ELSE cells
  /\ stage' = IF cells' = Refused THEN "failed" ELSE "converted"
  /\ UNCHANGED <<payload, contract, driver, planned, cause, stored>>

\* validate_inspected_geometry: the drivers here support every dimensionality.
Unsupported(seen, c) == Broken(seen, c)

Validate ==
  /\ stage = "converted"
  /\ cause' = Verdict(planned, Unsupported)
  /\ stage' = IF cause' = None THEN "valid" ELSE "rejected"
  /\ UNCHANGED <<payload, contract, driver, planned, cells, stored>>

Store(ok, value) ==
  /\ stage = "valid"
  /\ IF ok THEN stage' = "stored" /\ stored' = value ELSE stage' = "failed" /\ UNCHANGED stored
  /\ UNCHANGED <<payload, contract, driver, planned, cells, cause>>

StoreIpc == driver = "ipc" /\ Store(TRUE, [cells |-> cells])

\* insert_batch: the header of a geometry says whether it is empty.
StoreGpkg ==
  /\ driver = "gpkg"
  /\ LET Keep(seen) == Store(seen.ok, [cells |-> cells, empty |-> seen.value.empty])
     IN  IF cells = Null THEN Store(TRUE, [cells |-> Null]) ELSE Keep(WkbShape(cells))

\* build_bbox_columns: a geometry without a box, and no geometry, have no covering.
StoreGeoParquet ==
  /\ driver = "geoparquet"
  /\ Store(TRUE, [cells |-> cells, box |-> IF cells = Null THEN NoBox ELSE WkbBbox(cells)])

\* ShpWriter::write: a geometry the format cannot hold rejects the row.
StoreShp ==
  /\ driver = "shp"
  /\ IF cells = Null THEN Store(TRUE, [shape |-> Null])
     ELSE Store(Decoded(cells, Holds), [shape |-> ShapeFromWkb(Geometry(cells))])

Done == stage \in {"refused", "rejected", "failed", "stored"} /\ UNCHANGED vars

Next ==
  \/ Plan \/ Read \/ Convert \/ Validate
  \/ StoreIpc \/ StoreGpkg \/ StoreGeoParquet \/ StoreShp
  \/ Done

Spec == Init /\ [][Next]_vars

-----------------------------------------------------------------------------
(* Properties *)

\* Every coordinate of a geometry, wherever it is in it.
RECURSIVE Coordinates(_)
Coordinates(g) ==
  CASE g.base = 1 -> {g.parts}
    [] g.base \in Sequential -> ToSet(g.parts)
    [] g.base \in Ringed -> UNION {ToSet(g.parts[i]) : i \in DOMAIN g.parts}
    [] OTHER -> UNION {Coordinates(g.parts[i]) : i \in DOMAIN g.parts}

\* A point of nothing but NaN is how an empty point is written.
RECURSIVE IsEmpty(_)
IsEmpty(g) ==
  CASE g.base = 1 -> ToSet(g.parts) = {NotANumber}
    [] g.base \in Aggregate -> \A i \in DOMAIN g.parts : IsEmpty(g.parts[i])
    [] OTHER -> Coordinates(g) = {}

RECURSIVE BasesOf(_)
BasesOf(g) ==
  {g.base} \cup IF g.base \in Aggregate THEN UNION {BasesOf(g.parts[i]) : i \in DOMAIN g.parts} ELSE {}

\* The bounds of the ordinates that are numbers; curves have no covering.
BoundsOf(g) ==
  LET X == {c[1] : c \in Coordinates(g)} \ {NotANumber}
      Y == {c[2] : c \in Coordinates(g)} \ {NotANumber}
  IN  IF X = {} \/ Y = {} \/ BasesOf(g) \cap (8 .. 17) # {} THEN NoBox
      ELSE <<Min(X), Min(Y), Max(X), Max(Y)>>

\* A geometry as a shapefile has it: its parts in a collection, its rings
\* turned outwards in, and nothing else changed.
Turned(rings) ==
  [i \in DOMAIN rings |-> IF (TwiceArea(rings[i]) < 0) = (i = 1) THEN rings[i] ELSE Reverse(rings[i])]

Normal(g) ==
  CASE g.base = 2 -> Simple(5, g.dims, <<g>>)
    [] g.base = 3 -> Simple(6, g.dims, <<[g EXCEPT !.parts = Turned(@)]>>)
    [] g.base = 6 -> [g EXCEPT !.parts = [i \in DOMAIN @ |-> [@[i] EXCEPT !.parts = Turned(@)]]]
    [] OTHER -> g

\* The reader rejects flat rings, and takes a file without a measure for XYZ.
Readable(shape) == ~ShapeRejected(Stored(shape))
Unmeasured(g) == g.dims = "xyzm" /\ \A c \in Coordinates(g) : c[4] = NoData

\* The geometry a destination holds is the source's: the same coordinates, parts
\* and dimensions, without an SRID only where the layer's CRS says it; what a
\* driver derives from its bytes (an emptiness, a box) is true of the geometry;
\* and a shape read back from a shapefile is the geometry that was written.
StoredGeometryIsTheSource ==
  LET Represented(g) == g.srid \in {NoSrid, contract.crs_id, contract.crs_definition}
      Faithful(g, held) ==
        CASE driver = "ipc"        -> stored.cells = payload
          [] driver = "gpkg"       -> held = SenzaSrid(g) /\ Represented(g) /\ stored.empty = IsEmpty(g)
          [] driver = "geoparquet" -> held = SenzaSrid(g) /\ Represented(g) /\ stored.box = BoundsOf(g)
          [] driver = "shp"        -> Readable(stored.shape) /\ ~Unmeasured(g) =>
                                        ReadBack(Stored(stored.shape)) = Normal(SenzaSrid(g))
  IN  stage = "stored" /\ payload # Null => Faithful(Geometry(payload), Geometry(stored.cells))

RECURSIVE MemberSrids(_)
MemberSrids(g) ==
  IF g.base \in Aggregate THEN UNION {{g.parts[i].srid} \cup MemberSrids(g.parts[i]) : i \in DOMAIN g.parts}
                          ELSE {}

\* A payload a contract admits, told from the geometry it decodes to.
Admitted ==
  LET Admits(g) ==
        /\ MemberSrids(g) \subseteq {NoSrid}
        /\ g.srid \in {NoSrid} \cup (IF contract.encoding = "ewkb" THEN {contract.srid} ELSE {})
        /\ contract.types = {} \/ g.base \in contract.types
        /\ contract.dims \in {"unknown", g.dims}
  IN  IF payload = Null THEN contract.nullable ELSE Decoded(payload, Admits)

\* The two inspections, the decoder and the drivers agree on what a geometry is:
\* a payload is rejected when it is not admitted, by the reader and never later,
\* and what it admits every driver stores, but a shapefile what it cannot hold.
AdmittedIsStored ==
  LET Agrees(admitted) ==
        /\ stage = "rejected" => ~admitted
        /\ stage \in {"read", "converted", "valid", "stored"} => admitted
  IN  /\ stage \in {"rejected", "read", "converted", "valid", "stored"} => Agrees(Admitted)
      /\ stage = "failed" => driver = "shp" /\ ~Holds(SenzaSrid(Geometry(payload)))

=============================================================================

-------------------------- MODULE ShapefileGeometry --------------------------
(***************************************************************************)
(* The geometries a shapefile can hold: what driver-shp makes of one it is *)
(* given, and of the shape it reads back.                                  *)
(*                                                                         *)
(* A shape is [family, variant, parts].  The points of the Z variant have  *)
(* a measure whether or not the geometry has one: NoData stands for none.  *)
(* The rings of a polygon are in one list, outer and inner, and only their *)
(* direction tells which is which when they are read.                      *)
(***************************************************************************)
EXTENDS WellKnownBinary

NoData == 2 ^ 16 - 2     \* the measure of a point that has none

Families == <<"point", "polyline", "polygon", "multipoint">>

Variant(dims) == CASE dims = "xy" -> "xy" [] dims = "xym" -> "m" [] dims \in {"xyz", "xyzm"} -> "z"

-----------------------------------------------------------------------------
(* Writing *)

\* The family of a geometry, when a shapefile can hold it.
Family(g) == CASE g.base = 1 -> "point" [] g.base \in {2, 5} -> "polyline"
               [] g.base \in {3, 6} -> "polygon" [] g.base = 4 -> "multipoint" [] OTHER -> "none"

Outer(rings) == [i \in DOMAIN rings |-> [outer |-> i = 1, points |-> rings[i]]]

Members(g) == [i \in DOMAIN g.parts |-> g.parts[i].parts]

\* take_child: a member has no SRID and its parent's dimensions.
Nested(g) == g.base \in {4, 5, 6} =>
               \A i \in DOMAIN g.parts : g.parts[i].srid = NoSrid /\ g.parts[i].dims = g.dims

\* A shape without points, or a line of one, is not written.
Holds(g) ==
  /\ Family(g) # "none" /\ g.srid = NoSrid /\ Nested(g)
  /\ CASE g.base = 1 -> TRUE
       [] g.base = 2 -> Len(g.parts) >= 2
       [] g.base = 3 -> g.parts # << >>
       [] g.base = 4 -> g.parts # << >>
       [] g.base = 5 -> g.parts # << >> /\ \A i \in DOMAIN g.parts : Len(g.parts[i].parts) >= 2
       [] g.base = 6 -> g.parts # << >> /\ \A i \in DOMAIN g.parts : g.parts[i].parts # << >>

TopologyFromWkb(g) ==
  CASE g.base = 1 -> g.parts
    [] g.base = 2 -> <<g.parts>>
    [] g.base = 3 -> Outer(g.parts)
    [] g.base \in {4, 5} -> Members(g)
    [] g.base = 6 -> FlattenSeq([i \in DOMAIN g.parts |-> Outer(g.parts[i].parts)])

\* Mutant: a point without a measure is given the measure zero.
NativePointZero(dims, coordinate) == IF dims = "xyz" THEN Append(coordinate, 0) ELSE coordinate

NativePoint(dims, coordinate) == IF dims = "xyz" THEN Append(coordinate, NoData) ELSE coordinate

\* Every point of a topology, changed.
MapPoints(family, parts, F(_)) ==
  LET Points(points) == [i \in DOMAIN points |-> F(points[i])]
  IN  CASE family = "point"      -> F(parts)
        [] family = "multipoint" -> Points(parts)
        [] family = "polyline"   -> [i \in DOMAIN parts |-> Points(parts[i])]
        [] family = "polygon"    -> [i \in DOMAIN parts |->
                                       [parts[i] EXCEPT !.points = Points(@)]]

\* Twice the area under a ring, the sign its direction.  That of a ring with a
\* NaN is not a number, and is flat to who reads it, clockwise to the crate.
TwiceArea(points) ==
  IF \E i \in DOMAIN points : NotANumber \in {points[i][1], points[i][2]} THEN 0
  ELSE FoldLeft(LAMBDA area, i :
                  area + points[i][1] * points[i + 1][2] - points[i + 1][1] * points[i][2],
                0, [i \in 1 .. Len(points) - 1 |-> i])

Clockwise(points) == TwiceArea(points) <= 0

\* The shapefile crate turns a ring that goes the wrong way round.
WithRings(rings) ==
  [i \in DOMAIN rings |->
     IF Clockwise(rings[i].points) = rings[i].outer THEN rings[i]
                                                    ELSE [rings[i] EXCEPT !.points = Reverse(@)]]

ShapeFromWkb(g) ==
  LET shape == MapPoints(Family(g), TopologyFromWkb(g), LAMBDA c : NativePoint(g.dims, c))
  IN  [family |-> Family(g), variant |-> Variant(g.dims),
       parts |-> IF Family(g) = "polygon" THEN WithRings(shape) ELSE shape]

-----------------------------------------------------------------------------
(* Reading *)

\* The crate tells an outer ring from an inner one by its direction.
Stored(shape) ==
  IF shape.family # "polygon" THEN shape
  ELSE [shape EXCEPT !.parts = [i \in DOMAIN shape.parts |-> [shape.parts[i] EXCEPT !.outer = Clockwise(shape.parts[i].points)]]]

Points(shape) ==
  CASE shape.family = "point"      -> {shape.parts}
    [] shape.family = "multipoint" -> ToSet(shape.parts)
    [] shape.family = "polyline"   -> UNION {ToSet(shape.parts[i]) : i \in DOMAIN shape.parts}
    [] shape.family = "polygon"    -> UNION {ToSet(shape.parts[i].points) : i \in DOMAIN shape.parts}

ShapeHasValidMeasure(shape) == shape.variant = "z" /\ \E point \in Points(shape) : point[4] # NoData

DimensionsForShapeTag(variant, measured) ==
  CASE variant = "xy" -> "xy" [] variant = "m" -> "xym" [] variant = "z" /\ measured -> "xyzm"
    [] OTHER -> "xyz"

HeaderGeometry(family) ==
  CASE family = "point" -> 1 [] family = "polyline" -> 5 [] family = "polygon" -> 6
    [] family = "multipoint" -> 4

\* A row whose rings are open, flat, or without an outer one is diagnosed.
ShapeRejected(shape) ==
  /\ shape.family = "polygon"
  /\ LET ring(i) == shape.parts[i].points
     IN  \/ shape.parts = << >> \/ ~shape.parts[1].outer
         \/ \E i \in DOMAIN shape.parts :
              \/ Len(ring(i)) < 4 \/ TwiceArea(ring(i)) = 0
              \/ SubSeq(Head(ring(i)), 1, 2) # SubSeq(Last(ring(i)), 1, 2)

\* In a dataset declared XYZ no point has a measure.
NativeCoordinate(dims, point) == IF dims = "xyz" THEN SubSeq(point, 1, 3) ELSE point

\* Every outer ring begins a polygon.
PolygonWkb(rings, dims) ==
  FoldLeft(LAMBDA polygons, ring :
             IF ring.outer THEN Append(polygons, Simple(3, dims, <<ring.points>>))
             ELSE [polygons EXCEPT ![Len(polygons)].parts = Append(@, ring.points)],
           << >>, rings)

ShapeToWkb(shape, dims) ==
  LET parts == MapPoints(shape.family, shape.parts, LAMBDA point : NativeCoordinate(dims, point))
  IN  Simple(HeaderGeometry(shape.family), dims,
             CASE shape.family = "point"      -> parts
               [] shape.family = "multipoint" -> [i \in DOMAIN parts |-> Simple(1, dims, parts[i])]
               [] shape.family = "polyline"   -> [i \in DOMAIN parts |-> Simple(2, dims, parts[i])]
               [] shape.family = "polygon"    -> PolygonWkb(parts, dims))

\* The geometry of a file of one row, read as the layer it is inferred to be.
ReadBack(shape) ==
  ShapeToWkb(shape, DimensionsForShapeTag(shape.variant, ShapeHasValidMeasure(shape)))

=============================================================================

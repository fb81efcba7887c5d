--------------------------- MODULE WellKnownBinary ---------------------------
(***************************************************************************)
(* The geometry codecs of the model crate and of the drivers, each as it   *)
(* walks the bytes: decode_wkb builds a geometry, inspect_wkb only         *)
(* measures one, the gpkg driver looks for an empty one, the geoparquet    *)
(* driver for its bounding box, and write_geometry encodes one.            *)
(*                                                                         *)
(* A payload is a sequence of cells, one for the byte order, one for each  *)
(* 32 bit word and one for each ordinate: a count of cells stands for a    *)
(* count of bytes, and a word read where an ordinate was is that number.   *)
(* The three high bits of a type word are bits 13, 14 and 15 of its cell.  *)
(*                                                                         *)
(* A geometry is [base, dims, srid, parts]: the code of its type, its      *)
(* dimensions, its SRID or NoSrid, and a coordinate, coordinates, rings or *)
(* members.  A codec's state is [ok, at, left, value]: the next cell, the  *)
(* components it may still charge, and what it has read.                   *)
(***************************************************************************)
EXTENDS Integers, Sequences, SequencesExt, FiniteSets, FiniteSetsExt

CONSTANTS
  MaxDepth,       (* PROFONDITA_WKB_CONTRATTO, the deepest member           *)
  MaxComponents,  (* WkbLimits::max_components                              *)
  MaxCells        (* WkbLimits::max_cell_bytes, and a writer's ceiling      *)

FlagSrid   == 2 ^ 13
FlagM      == 2 ^ 14
FlagZ      == 2 ^ 15
NotANumber == 2 ^ 16 - 1   \* an ordinate whose high bits are all set
NoSrid     == -1           \* the SRIDs tried are not negative

Types      == (1 .. 12) \cup (15 .. 17)
Sequential == {2, 8}
Ringed     == {3, 17}
Aggregate  == Types \ ({1} \cup Sequential \cup Ringed)

Dimensions(z, m) == CASE z /\ m -> "xyzm" [] z /\ ~m -> "xyz" [] ~z /\ m -> "xym" [] OTHER -> "xy"
HasZ(dims) == dims \in {"xyz", "xyzm"}
HasM(dims) == dims \in {"xym", "xyzm"}

Simple(base, dims, parts) == [base |-> base, dims |-> dims, srid |-> NoSrid, parts |-> parts]

CoordinateSize(dims) == 2 + (IF HasZ(dims) THEN 1 ELSE 0) + (IF HasM(dims) THEN 1 ELSE 0)

-----------------------------------------------------------------------------
(* What a geometry may be (GEO-011) *)

ChildTypeAllowed(parent, child) ==
  child \in CASE parent = 4 -> {1} [] parent = 5 -> {2} [] parent = 6 -> {3}
              [] parent = 7 -> Types [] parent = 9 -> {2, 8}
              [] parent \in {10, 11} -> {2, 8, 9} [] parent = 12 -> {3, 10}
              [] parent = 15 -> {3} [] parent = 16 -> {17} [] OTHER -> {}

PuntiAmmessi(base, points) ==
  CASE base = 2 -> points # 1
    [] base = 8 -> points = 0 \/ (points >= 3 /\ points % 2 = 1)

VerificaAnelli(base, rings) == base = 17 => rings <= 1
VerificaAnello(points, closed) == points >= 4 /\ closed

-----------------------------------------------------------------------------
(* Reading cells *)

Failed == [ok |-> FALSE, at |-> 0, left |-> 0, value |-> 0]

\* What follows a state, and a state that is as it should be.
Then(s, F(_))       == IF s.ok THEN F(s) ELSE Failed
Checked(s, Good(_)) == Then(s, LAMBDA t : IF Good(t.value) THEN t ELSE Failed)

\* The step taken n times, from a state to the next one, until one fails.
Times(n, state, Step(_)) ==
  FoldLeft(LAMBDA s, i : IF s.ok THEN Step(s) ELSE s, state, [i \in 1 .. n |-> i])

Remaining(p, s) == Len(p) - s.at + 1

\* A count is believed only if the cells left can hold that many.
EnsureCount(p, s, unit) ==
  IF s.ok /\ Remaining(p, s) >= 1 /\ p[s.at] * unit <= Remaining(p, s) - 1
  THEN [s EXCEPT !.at = @ + 1, !.value = p[s.at]]
  ELSE Failed

Charge(s, components) ==
  IF s.ok /\ components <= s.left THEN [s EXCEPT !.left = @ - components] ELSE Failed

Take(p, s, cells) ==
  IF s.ok /\ cells <= Remaining(p, s)
  THEN [s EXCEPT !.at = @ + cells, !.value = SubSeq(p, s.at, s.at + cells - 1)]
  ELSE Failed

DecodeType(word) ==
  IF word >= FlagSrid
  THEN [base |-> word % FlagSrid, srid |-> (word \div FlagSrid) % 2 = 1,
        dims |-> Dimensions(word \div FlagZ = 1, (word \div FlagM) % 2 = 1)]
  ELSE [base |-> IF word < 4000 THEN word % 1000 ELSE 0, srid |-> FALSE,
        dims |-> <<"xy", "xyz", "xym", "xyzm">>[((word \div 1000) % 4) + 1]]

\* The byte order, the type word and the SRID of a geometry.
Header(p, s, depth) ==
  IF depth > MaxDepth \/ Remaining(p, s) < 2 \/ p[s.at] \notin {0, 1} THEN Failed
  ELSE LET type == DecodeType(p[s.at + 1])
           next == s.at + 2 + (IF type.srid THEN 1 ELSE 0)
       IN  IF type.base \in Types /\ next - 1 <= Len(p)
           THEN [s EXCEPT !.at = next,
                          !.value = [base |-> type.base, dims |-> type.dims,
                                     srid |-> IF type.srid THEN p[s.at + 2] ELSE NoSrid]]
           ELSE Failed

-----------------------------------------------------------------------------
(* decode_wkb *)

Chunks(cells, size) ==
  [i \in 1 .. Len(cells) \div size |-> SubSeq(cells, (i - 1) * size + 1, i * size)]

ReadCoordinates(p, s, dims) ==
  LET size == CoordinateSize(dims)
      Counted(n) == Then(Take(p, Charge(n, n.value), n.value * size),
                         LAMBDA all : [all EXCEPT !.value = Chunks(@, size)])
  IN  Then(EnsureCount(p, s, size), Counted)

AnelloChiuso(ring) == ring # << >> /\ Head(ring) = Last(ring)

\* s with what a part was read as appended, if it was read and is Good.
Collect(s, part, Good(_)) ==
  Then(Checked(part, Good), LAMBDA read : [read EXCEPT !.value = Append(s.value, @)])

ReadRings(p, s, base, dims) ==
  LET Ring(t) == Collect(t, ReadCoordinates(p, t, dims),
                         LAMBDA ring : VerificaAnello(Len(ring), AnelloChiuso(ring)))
  IN  Then(Checked(EnsureCount(p, s, 1), LAMBDA rings : VerificaAnelli(base, rings)),
           LAMBDA n : Times(n.value, [n EXCEPT !.value = << >>], Ring))

RECURSIVE ReadGeometry(_, _, _)
ReadGeometry(p, s, depth) ==
  LET Member(type, t) == Collect(t, ReadGeometry(p, t, depth + 1),
                                 LAMBDA child : /\ ChildTypeAllowed(type.base, child.base)
                                                /\ child.dims = type.dims)
      Members(type, n) == Times(n.value, [Charge(n, n.value) EXCEPT !.value = << >>],
                                LAMBDA t : Member(type, t))
      Elements(h, type) ==
        CASE type.base = 1 -> Take(p, Charge(h, 1), CoordinateSize(type.dims))
          [] type.base \in Sequential -> Checked(ReadCoordinates(p, h, type.dims),
                                                 LAMBDA points : PuntiAmmessi(type.base, Len(points)))
          [] type.base \in Ringed -> ReadRings(p, h, type.base, type.dims)
          [] OTHER -> Then(EnsureCount(p, h, 3), LAMBDA n : Members(type, n))
      Read(h) == Then(Elements(h, h.value),
                      LAMBDA read : [read EXCEPT !.value = h.value @@ [parts |-> @]])
  IN  Then(Header(p, s, depth), Read)

Start == [ok |-> TRUE, at |-> 1, left |-> MaxComponents, value |-> 0]

\* A payload within its limits that a codec reads to its last cell.
Whole(p, read) == Len(p) <= MaxCells /\ read.ok /\ read.at = Len(p) + 1

Decode(p)   == ReadGeometry(p, Start, 0)
Decodes(p)  == Whole(p, Decode(p))
Geometry(p) == Decode(p).value

\* What is so of the geometry of a payload that decodes.
Decoded(p, F(_)) == LET Of(read) == Whole(p, read) /\ F(read.value) IN Of(Decode(p))

-----------------------------------------------------------------------------
(* inspect_wkb *)

\* How many coordinates were passed over, and whether the first is the last.
SkipCoordinates(p, s, dims) ==
  LET size == CoordinateSize(dims)
      Closed(cells) == cells # << >> /\ SubSeq(cells, 1, size)
                                          = SubSeq(cells, Len(cells) - size + 1, Len(cells))
      Counted(n) == Then(Take(p, Charge(n, n.value), n.value * size),
                         LAMBDA all : [all EXCEPT !.value = [points |-> n.value, closed |-> Closed(@)]])
  IN  Then(EnsureCount(p, s, size), Counted)

SkipRings(p, s, base, dims) ==
  LET SkipRing(t) == Checked(SkipCoordinates(p, t, dims),
                             LAMBDA ring : VerificaAnello(ring.points, ring.closed))
  IN  Then(Checked(EnsureCount(p, s, 1), LAMBDA rings : VerificaAnelli(base, rings)),
           LAMBDA n : Times(n.value, n, SkipRing))

RECURSIVE InspectGeometry(_, _, _)
InspectGeometry(p, s, depth) ==
  LET Member(type, t) ==
        Then(Checked(InspectGeometry(p, t, depth + 1),
                     LAMBDA child : ChildTypeAllowed(type.base, child.base) /\ child.dims = type.dims),
             LAMBDA child : [child EXCEPT !.value = t.value \/ @.contains_srid])
      Members(type, n) == Times(n.value, [Charge(n, n.value) EXCEPT !.value = FALSE],
                                LAMBDA t : Member(type, t))
      \* The value of the members is srid_on_member.
      Elements(h, type) ==
        CASE type.base = 1 -> Take(p, Charge(h, 1), CoordinateSize(type.dims))
          [] type.base \in Sequential -> Checked(SkipCoordinates(p, h, type.dims),
                                                 LAMBDA line : PuntiAmmessi(type.base, line.points))
          [] type.base \in Ringed -> SkipRings(p, h, type.base, type.dims)
          [] OTHER -> Then(EnsureCount(p, h, 3), LAMBDA n : Members(type, n))
      Seen(type, on_member, components) ==
        [base |-> type.base, dims |-> type.dims, srid |-> type.srid, components |-> components,
         contains_srid |-> type.srid # NoSrid \/ on_member, srid_on_member |-> on_member]
      Measure(h) ==
        Then(Elements(h, h.value),
             LAMBDA read : [read EXCEPT !.value = Seen(h.value, h.value.base \in Aggregate /\ @,
                                                       s.left - read.left)])
  IN  Then(Header(p, s, depth), Measure)

Inspect(p)     == InspectGeometry(p, Start, 0)
Inspects(p)    == Whole(p, Inspect(p))
Inspection(p)  == Inspect(p).value

-----------------------------------------------------------------------------
(* wkb_shape of driver-gpkg: whether a geometry is empty *)

\* Every type has a shape, or is Indeterminate at its first cell.
Indeterminate == [base |-> 0, empty |-> FALSE]

TipoEDimensioni(word) ==
  IF word >= FlagSrid
  THEN [base |-> word % 256, srid |-> (word \div FlagSrid) % 2 = 1,
        size |-> 2 + word \div FlagZ + ((word \div FlagM) % 2)]
  ELSE [base |-> word % 1000, srid |-> FALSE,
        size |-> IF word < 4000 THEN <<2, 3, 3, 4>>[word \div 1000 + 1] ELSE 0]

SaltaIPunti(p, s, size) ==
  Then(EnsureCount(p, s, size),
       LAMBDA n : [Take(p, Charge(n, n.value), n.value * size) EXCEPT !.value = n.value])

FormaDelPoligono(p, s, size) ==
  LET Salta(t) == Then(SaltaIPunti(p, t, size), LAMBDA ring : [ring EXCEPT !.value = t.value + @])
  IN  Then(EnsureCount(p, s, 1), LAMBDA n : Times(n.value, [n EXCEPT !.value = 0], Salta))

RECURSIVE FormaELunghezza(_, _, _)
FormaELunghezza(p, s, depth) ==
  LET Figlio(base, t) ==
        IF t.value = Indeterminate THEN t
        ELSE Then(FormaELunghezza(p, t, depth + 1),
                  LAMBDA child :
                    IF child.value = Indeterminate THEN child
                    ELSE IF ChildTypeAllowed(base, child.value.base)
                    THEN [child EXCEPT !.value = [base |-> base, empty |-> t.value.empty /\ @.empty]]
                    ELSE Failed)
      Figli(base, n) ==
        Times(n.value, [Charge(n, n.value) EXCEPT !.value = [base |-> base, empty |-> TRUE]],
              LAMBDA t : Figlio(base, t))
      Foglia(base, read, Empty(_)) ==
        Then(read, LAMBDA t : [t EXCEPT !.value = [base |-> base, empty |-> Empty(@)]])
      Forma(h, type) ==
        CASE type.base = 1 -> Foglia(1, Take(p, Charge(h, 1), type.size),
                                     LAMBDA point : ToSet(point) = {NotANumber})
          [] type.base \in Sequential -> Foglia(type.base, SaltaIPunti(p, h, type.size), LAMBDA n : n = 0)
          [] type.base \in Ringed -> Foglia(type.base, FormaDelPoligono(p, h, type.size), LAMBDA n : n = 0)
          [] type.base \in Aggregate -> Then(EnsureCount(p, h, 3), LAMBDA n : Figli(type.base, n))
          [] OTHER -> [h EXCEPT !.value = Indeterminate]
      Dopo(type) ==
        LET next == s.at + 2 + (IF type.srid THEN 1 ELSE 0)
        IN  IF type.size = 0 \/ next - 1 > Len(p) THEN Failed ELSE Forma([s EXCEPT !.at = next], type)
  IN  IF depth > MaxDepth \/ Remaining(p, s) < 2 \/ p[s.at] \notin {0, 1} THEN Failed
      ELSE Dopo(TipoEDimensioni(p[s.at + 1]))

WkbShape(p) == IF Len(p) <= MaxCells THEN FormaELunghezza(p, Start, 0) ELSE Failed

-----------------------------------------------------------------------------
(* wkb_bbox of driver-geoparquet *)

\* A box, <<least x, least y, greatest x, greatest y>>, that nothing is in.
NoBox == <<NotANumber, NotANumber, -1, -1>>

\* NaN is neither less nor greater.
Upd(box, x, y) ==
  LET X == {x} \ {NotANumber}
      Y == {y} \ {NotANumber}
  IN  <<Min({box[1]} \cup X), Min({box[2]} \cup Y), Max({box[3]} \cup X), Max({box[4]} \cup Y)>>

\* A count is not checked first: a loop longer than the payload runs off its end.
Loops(p, s) == IF s.ok THEN Min({s.value, Len(p) + 1}) ELSE 0

CountOf(p, s) == Then(Take(p, s, 1), LAMBDA n : [n EXCEPT !.value = @[1]])

RECURSIVE ScanWkb(_, _, _)
ScanWkb(p, s, depth) ==
  LET Repeat(t, Scan(_)) ==
        Then(CountOf(p, t), LAMBDA n : Times(Loops(p, n), [n EXCEPT !.value = t.value], Scan))
      ScanCoord(dims, t) == Then(Take(p, t, CoordinateSize(dims)),
                                 LAMBDA c : [c EXCEPT !.value = Upd(t.value, @[1], @[2])])
      ScanCoords(dims, t) == Repeat(t, LAMBDA u : ScanCoord(dims, u))
      Scan(type, t) ==
        CASE type.base = 1 -> ScanCoord(type.dims, t)
          [] type.base = 2 -> ScanCoords(type.dims, t)
          [] type.base = 3 -> Repeat(t, LAMBDA u : ScanCoords(type.dims, u))
          [] type.base \in 4 .. 7 -> Repeat(t, LAMBDA u : ScanWkb(p, u, depth + 1))
          [] OTHER -> Failed
  IN  Then(Header(p, s, depth), LAMBDA h : Scan(h.value, [h EXCEPT !.value = s.value]))

\* The box of a payload, or NoBox.
WkbBbox(p) ==
  LET Finite(box) == box[1] # NotANumber /\ box[2] # NotANumber
      Box(scan) == IF scan.ok /\ scan.at = Len(p) + 1 /\ Finite(scan.value) THEN scan.value ELSE NoBox
  IN  Box(ScanWkb(p, [Start EXCEPT !.value = NoBox], 0))

-----------------------------------------------------------------------------
(* encode_wkb, and the conversion of EWKB *)

Refused == << >>

RECURSIVE WriteGeometry(_, _, _)
\* The cells of a geometry, or Refused.
WriteGeometry(g, flavor, depth) ==
  LET points == g.base \in Sequential => PuntiAmmessi(g.base, Len(g.parts))
      rings  == g.base \in Ringed =>
                  /\ VerificaAnelli(g.base, Len(g.parts))
                  /\ \A i \in DOMAIN g.parts :
                       VerificaAnello(Len(g.parts[i]), AnelloChiuso(g.parts[i]))
      fits   == g.base \in Aggregate =>
                  \A i \in DOMAIN g.parts :
                    ChildTypeAllowed(g.base, g.parts[i].base) /\ g.parts[i].dims = g.dims
      word   == IF flavor = "iso"
                THEN g.base + 1000 * ((IF HasZ(g.dims) THEN 1 ELSE 0) + IF HasM(g.dims) THEN 2 ELSE 0)
                ELSE g.base + (IF HasZ(g.dims) THEN FlagZ ELSE 0) + (IF HasM(g.dims) THEN FlagM ELSE 0)
                            + IF g.srid # NoSrid THEN FlagSrid ELSE 0
      head   == <<1, word>> \o IF g.srid # NoSrid THEN <<g.srid>> ELSE << >>
      Counted(coordinates) == <<Len(coordinates)>> \o FlattenSeq(coordinates)
      Members == [i \in DOMAIN g.parts |-> WriteGeometry(g.parts[i], flavor, depth + 1)]
      body   == CASE g.base = 1 -> g.parts
                  [] g.base \in Sequential -> Counted(g.parts)
                  [] g.base \in Ringed ->
                       <<Len(g.parts)>> \o FlattenSeq([i \in DOMAIN g.parts |-> Counted(g.parts[i])])
                  [] OTHER -> <<Len(g.parts)>> \o FlattenSeq(Members)
  IN  IF \/ depth > MaxDepth \/ ~points \/ ~rings \/ ~fits
         \/ flavor = "iso" /\ g.srid # NoSrid
         \/ g.base \in Aggregate /\ Refused \in {Members[i] : i \in DOMAIN Members}
      THEN Refused ELSE head \o body

\* What is past the ceiling leaves nothing in the buffer.
EncodeWkb(g, flavor) ==
  LET Bounded(cells) == IF Len(cells) <= MaxCells THEN cells ELSE Refused
  IN  Bounded(WriteGeometry(g, flavor, 0))

RECURSIVE SridsAgree(_, _)
SridsAgree(g, expected) ==
  /\ g.srid \in {NoSrid, expected}
  /\ g.base \in Aggregate => \A i \in DOMAIN g.parts : SridsAgree(g.parts[i], expected)

RECURSIVE SenzaSrid(_)
SenzaSrid(g) ==
  [g EXCEPT !.srid = NoSrid,
            !.parts = IF g.base \in Aggregate THEN [i \in DOMAIN g.parts |-> SenzaSrid(g.parts[i])]
                                              ELSE @]

\* An EWKB payload as WKB, under the SRID its contract declares.
ConvertiValore(p, declared) ==
  LET Convertita(read) == IF Whole(p, read) /\ SridsAgree(read.value, declared)
                          THEN EncodeWkb(SenzaSrid(read.value), "iso") ELSE Refused
  IN  Convertita(Decode(p))

=============================================================================

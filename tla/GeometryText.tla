---------------------------- MODULE GeometryText -----------------------------
(***************************************************************************)
(* Geometries as text: WKT, which driver-csv and driver-xls keep in cells, *)
(* and GeoJSON.  Both parsers charge what they read to the budget of       *)
(* inspect_wkb while they read it, and both end in WKB.                    *)
(*                                                                         *)
(* A WKT text is a sequence of tokens: <<"type", base, dims>>, with the    *)
(* dimensions attached to the word or "none", other words and signs as     *)
(* <<word>>, and <<"number", n>>.  A GeoJSON text is the sequence of the   *)
(* entries of its object, <<key, value>>; coordinates are a tree of        *)
(* [number |-> n] and [list |-> items].                                    *)
(***************************************************************************)
EXTENDS WellKnownBinary

CONSTANTS
  MaxText,   (* max_cell_bytes, of a text                                   *)
  Texts,     (* those tried of each form                                    *)
  Binaries,  (* the payloads tried, [form, cells]                           *)
  None

VARIABLES
  form,    (* "wkt" or "geojson"                                            *)
  origin,  (* what the geometry comes in: "text" or "cells"                 *)
  text,
  cells,
  first,   (* the payload first read or given                               *)
  charged, (* the components charged by the first reading                   *)
  stage    (* "text", "cells", "written", or how it ended                   *)

textVars == <<form, origin, text, cells, first, charged, stage>>

-----------------------------------------------------------------------------
(* wkt_progressivo *)

Open == <<"(">>
Comma == <<",">>
Close == <<")">>
Empty == <<"EMPTY">>
Suffix == [xyz |-> <<"Z">>, xym |-> <<"M">>, xyzm |-> <<"ZM">>]

Sees(p, s, token) == s.ok /\ s.at <= Len(p) /\ p[s.at] = token
Attende(p, s, token) == IF Sees(p, s, token) THEN [s EXCEPT !.at = @ + 1] ELSE Failed
IsNumber(p, at) == at <= Len(p) /\ p[at][1] = "number"

\* The value of a list, of a geometry and of their items is [dims, part].
Read(s, dims, part) == Then(s, LAMBDA t : [t EXCEPT !.value = [dims |-> dims, part |-> part]])

DelVuoto(given) == IF given = "none" THEN "xy" ELSE given

\* A coordinate of the given dimensions, or of those its ordinates show.
Coordinata(p, state, given) ==
  LET Lette(s) == CHOOSE n \in 0 .. 4 : /\ \A i \in 0 .. n - 1 : IsNumber(p, s.at + i)
                                        /\ n = 4 \/ ~IsNumber(p, s.at + n)
      Scelte(n) == IF given = "none" THEN <<"xy", "xyz", "xyzm">>[n - 1] ELSE given
      Ordinate(s, n) ==
        IF n < 2 \/ (given # "none" /\ CoordinateSize(given) # n) THEN Failed
        ELSE Read([s EXCEPT !.at = @ + n], Scelte(n), [i \in 1 .. n |-> p[s.at + i - 1][2]])
  IN  Then(Charge(state, 1), LAMBDA s : Ordinate(s, Lette(s)))

\* "(", items and "," between them, ")": the first settles the dimensions.
Elenco(p, s, given, Item(_, _)) ==
  LET Also(t) == Then(Item(Attende(p, t, Comma), t.value.dims),
                      LAMBDA item : Read(item, t.value.dims, Append(t.value.part, item.value.part)))
      Another(t) == IF Sees(p, t, Comma) THEN Also(t) ELSE t
      Others(t) == Attende(p, Times(Len(p), Read(t, t.value.dims, <<t.value.part>>), Another), Close)
  IN  Then(Item(Attende(p, s, Open), given), Others)

\* The same, or EMPTY.
ElencoOVuoto(p, s, given, Item(_, _)) ==
  IF Sees(p, s, Empty) THEN Read(Attende(p, s, Empty), DelVuoto(given), << >>)
                       ELSE Elenco(p, s, given, Item)

As(base, s) ==
  Then(s, LAMBDA t : Read(t, t.value.dims, Simple(base, t.value.dims, t.value.part)))

PuntoMembro(p, state, given) ==
  LET Inside(s) == Attende(p, Coordinata(p, Attende(p, s, Open), given), Close)
      Punto(s)  == IF Sees(p, s, Open) THEN Inside(s) ELSE Coordinata(p, s, given)
  IN  As(1, Then(Charge(state, 1), Punto))

RECURSIVE GeometriaWkt(_, _, _, _)
\* given is "none", or what a declaration or the collection above says.
GeometriaWkt(p, s, depth, given) ==
  LET Attached(t) == {d \in DOMAIN Suffix : Sees(p, t, Suffix[d])}
      Point(t, d)   == Coordinata(p, t, d)
      Ring(t, d)    == Elenco(p, t, d, Point)
      Line(t, d)    == As(2, ElencoOVuoto(p, Charge(t, 1), d, Point))
      Polygon(t, d) == As(3, ElencoOVuoto(p, Charge(t, 1), d, Ring))
      Child(t, d)   == GeometriaWkt(p, Charge(t, 1), depth + 1, d)
      Body(base, t, d) ==
        CASE base = 1 -> Attende(p, Coordinata(p, Attende(p, t, Open), d), Close)
          [] base = 2 -> ElencoOVuoto(p, t, d, Point)
          [] base = 3 -> ElencoOVuoto(p, t, d, Ring)
          [] base = 4 -> ElencoOVuoto(p, t, d, LAMBDA u, e : PuntoMembro(p, u, e))
          [] base = 5 -> ElencoOVuoto(p, t, d, Line)
          [] base = 6 -> ElencoOVuoto(p, t, d, Polygon)
          [] base = 7 -> ElencoOVuoto(p, t, d, Child)
      Declared(base, t, declared) ==
        IF given # "none" /\ declared \notin {"none", given} THEN Failed
        ELSE As(base, Body(base, t, IF declared = "none" THEN given ELSE declared))
      Detached(t, suffixes) ==
        IF suffixes = {} THEN <<t, "none">>
                         ELSE <<[t EXCEPT !.at = @ + 1], CHOOSE d \in suffixes : TRUE>>
      From(tag, t) ==
        LET Of(after) == Declared(tag[2], after[1], after[2])
        IN  Of(IF tag[3] = "none" THEN Detached(t, Attached(t)) ELSE <<t, tag[3]>>)
  IN  IF ~s.ok \/ depth > MaxDepth \/ s.at > Len(p) THEN Failed
      ELSE IF p[s.at][1] # "type" THEN Failed ELSE From(p[s.at], [s EXCEPT !.at = @ + 1])

-----------------------------------------------------------------------------
(* wkt_lossless *)

RECURSIVE Esprimibile(_)
\* WKT cannot tell a ring or a line without coordinates from no ring or line.
Esprimibile(g) ==
  CASE g.base = 3 -> \A i \in DOMAIN g.parts : g.parts[i] # << >>
    [] g.base = 5 -> \A i \in DOMAIN g.parts : g.parts[i].parts # << >>
    [] g.base \in {6, 7} -> \A i \in DOMAIN g.parts : Esprimibile(g.parts[i])
    [] OTHER -> TRUE

RECURSIVE Finite(_)
Finite(g) ==
  LET finite(c) == NotANumber \notin ToSet(c)
  IN  CASE g.base = 1 -> finite(g.parts)
        [] g.base \in Sequential -> \A i \in DOMAIN g.parts : finite(g.parts[i])
        [] g.base \in Ringed -> \A i \in DOMAIN g.parts : \A j \in DOMAIN g.parts[i] : finite(g.parts[i][j])
        [] OTHER -> \A i \in DOMAIN g.parts : Finite(g.parts[i])

RECURSIVE InProfile(_)
\* checked_child, and the types WKT and GeoJSON have here.
InProfile(g) ==
  /\ g.base \in 1 .. 7 /\ g.srid = NoSrid
  /\ g.base \in Aggregate => \A i \in DOMAIN g.parts :
       InProfile(g.parts[i]) /\ g.parts[i].dims = g.dims /\ ChildTypeAllowed(g.base, g.parts[i].base)

ParseWktBounded(p) ==
  LET Storable(g) == Esprimibile(g) /\ WriteGeometry(g, "iso", 0) # Refused
      Only(read)  == IF read.at = Len(p) + 1 /\ Storable(read.value.part)
                     THEN [read EXCEPT !.value = @.part] ELSE Failed
  IN  IF Len(p) > MaxText THEN Failed ELSE Then(GeometriaWkt(p, Start, 0, "none"), Only)

Numbers(coordinate) == [i \in DOMAIN coordinate |-> <<"number", coordinate[i]>>]

Between(parts, Tokens(_)) ==
  IF parts = << >> THEN <<Empty>>
  ELSE <<Open>> \o FlattenSeq([i \in DOMAIN parts |-> (IF i = 1 THEN << >> ELSE <<Comma>>) \o Tokens(parts[i])])
                \o <<Close>>

RECURSIVE ScriviGeometria(_)
\* What the wkt crate prints, and the multipolygons with empty members it cannot.
ScriviGeometria(g) ==
  LET Ring(ring) == Between(ring, Numbers)
      Bare(h) == CASE h.base = 1 -> Between(<<h.parts>>, Numbers)
                   [] h.base = 2 -> Between(h.parts, Numbers)
                   [] h.base = 3 -> Between(h.parts, Ring)
  IN  <<<<"type", g.base, "none">>>> \o (IF g.dims = "xy" THEN << >> ELSE <<Suffix[g.dims]>>)
        \o CASE g.base \in 1 .. 3 -> Bare(g)
             [] g.base \in 4 .. 6 -> Between(g.parts, Bare)
             [] g.base = 7 -> Between(g.parts, ScriviGeometria)

FormatWkt(g) == IF Esprimibile(g) /\ InProfile(g) /\ Finite(g) THEN ScriviGeometria(g) ELSE Refused

-----------------------------------------------------------------------------
(* geometria_progressiva *)

Number(tree) == "number" \in DOMAIN tree

RECURSIVE Albero(_, _, _)
\* A position, [ordinates], or a list of branches: a list of lists of one number
\* is a position too.
Albero(tree, s, depth) ==
  LET Child(t, item) == Then(Albero(item, t, depth + 1),
                             LAMBDA child : [child EXCEPT !.value = Append(t.value, @)])
      One(branch) == IF "ordinates" \in DOMAIN branch THEN Len(branch.ordinates) = 1 ELSE FALSE
      Position(t) == [t EXCEPT !.value = [ordinates |-> [i \in DOMAIN @ |-> @[i].ordinates[1]]]]
      Branch(t, ones) ==
        IF t.value = << >> \/ Cardinality(ones) > 4 \/ ones \notin {{}, DOMAIN t.value} THEN Failed
        ELSE IF ones = {} THEN [t EXCEPT !.value = [branches |-> @]]
        ELSE Then(Charge(t, 1), Position)
      All == FoldLeft(LAMBDA t, item : IF t.ok THEN Child(t, item) ELSE t,
                      [s EXCEPT !.value = << >>], tree.list)
  IN  IF Number(tree) THEN [s EXCEPT !.value = [ordinates |-> <<tree.number>>]]
      ELSE IF depth > MaxDepth THEN Failed
      ELSE Then(All, LAMBDA t : Branch(t, {i \in DOMAIN t.value : One(t.value[i])}))

\* The lists around a position, in the coordinates of a type.
Nesting(base) == CASE base = 1 -> 0 [] base \in {2, 4} -> 1 [] base \in {3, 5} -> 2 [] base = 6 -> 3

RECURSIVE Nested(_, _)
Nested(branch, lists) ==
  IF lists = 0 THEN "ordinates" \in DOMAIN branch
  ELSE /\ "branches" \in DOMAIN branch
       /\ \A i \in DOMAIN branch.branches : Nested(branch.branches[i], lists - 1)

RECURSIVE Nest(_, _)
Nest(branch, lists) ==
  IF lists = 0 THEN branch.ordinates
  ELSE [i \in DOMAIN branch.branches |-> Nest(branch.branches[i], lists - 1)]

RECURSIVE Ordinates(_)
Ordinates(branch) ==
  IF "ordinates" \in DOMAIN branch THEN {Len(branch.ordinates)}
  ELSE UNION {Ordinates(branch.branches[i]) : i \in DOMAIN branch.branches}

\* costruisci, with coordinates: of two or three ordinates, all of them.
ConCoordinate(base, s) ==
  LET Built(dims, nest) ==
        Simple(base, dims, IF base \notin 4 .. 6 THEN nest
                           ELSE [i \in DOMAIN nest |-> Simple(base - 3, dims, nest[i])])
      Members(t, g) == Then(Charge(t, IF base \in 4 .. 6 THEN Len(g.parts) ELSE 0),
                            LAMBDA u : [u EXCEPT !.value = g])
      Of(t, ordinates) ==
        IF ~Nested(t.value, Nesting(base)) \/ ordinates \notin {{2}, {3}} THEN Failed
        ELSE Members(t, Built(IF ordinates = {2} THEN "xy" ELSE "xyz", Nest(t.value, Nesting(base))))
  IN  Then(s, LAMBDA t : Of(t, Ordinates(t.value)))

RECURSIVE GeometriaGeoJson(_, _, _)
\* The entries in their order, then the type with what it needs.
GeometriaGeoJson(object, s, depth) ==
  LET Child(t, member) == Then(Charge(GeometriaGeoJson(member, t, depth + 1), 1),
                               LAMBDA child : [child EXCEPT !.value = Append(t.value, @)])
      Value(t, key, value) ==
        CASE key = "coordinates" -> Albero(value, t, depth)
          [] key = "geometries" -> FoldLeft(LAMBDA u, member : IF u.ok THEN Child(u, member) ELSE u,
                                            [t EXCEPT !.value = << >>], value)
          [] key = "crs" /\ ~value -> Failed
          [] OTHER -> [t EXCEPT !.value = value]
      Entry(t, key, value) ==
        IF key \in DOMAIN t.value \cap {"type", "coordinates", "geometries"} THEN Failed
        ELSE Then(Value(t, key, value), LAMBDA u : [u EXCEPT !.value = (key :> @) @@ t.value])
      Entries == FoldLeft(LAMBDA t, e : IF t.ok THEN Entry(t, e[1], e[2]) ELSE t,
                          [s EXCEPT !.value = << >>], object)
      Collection(t, members) ==
        IF Cardinality({members[i].dims : i \in DOMAIN members}) = 1
        THEN [t EXCEPT !.value = Simple(7, members[1].dims, members)] ELSE Failed
      Known(t, seen) ==
        IF "type" \notin DOMAIN seen THEN Failed
        ELSE CASE seen.type \in 1 .. 6 /\ "coordinates" \in DOMAIN seen ->
                    ConCoordinate(seen.type, [t EXCEPT !.value = @.coordinates])
               [] seen.type = 7 /\ "geometries" \in DOMAIN seen -> Collection(t, seen.geometries)
               [] OTHER -> Failed
  IN  IF ~s.ok \/ depth > MaxDepth THEN Failed ELSE Then(Entries, LAMBDA t : Known(t, t.value))

ParseGeoJson(object) == GeometriaGeoJson(object, Start, 0)

-----------------------------------------------------------------------------
(* geometry.rs of driver-geojson *)

RECURSIVE ScriviGeoJson(_)
ScriviGeoJson(g) ==
  LET Position(c) == [list |-> [i \in DOMAIN c |-> [number |-> c[i]]]]
      List(parts, F(_)) == [list |-> [i \in DOMAIN parts |-> F(parts[i])]]
      Line(points) == List(points, Position)
      Rings(rings) == List(rings, Line)
      Tree(h) == CASE h.base = 1 -> Position(h.parts) [] h.base = 2 -> Line(h.parts) [] h.base = 3 -> Rings(h.parts)
  IN  <<<<"type", g.base>>,
        CASE g.base \in 1 .. 3 -> <<"coordinates", Tree(g)>>
          [] g.base \in 4 .. 6 -> <<"coordinates", List(g.parts, Tree)>>
          [] g.base = 7 -> <<"geometries", [i \in DOMAIN g.parts |-> ScriviGeoJson(g.parts[i])]>>>>

RECURSIVE NonEmpty(_)
NonEmpty(g) ==
  CASE g.base = 1 -> TRUE
    [] g.base \in Sequential -> g.parts # << >>
    [] g.base \in Ringed -> g.parts # << >> /\ \A i \in DOMAIN g.parts : g.parts[i] # << >>
    [] OTHER -> g.parts # << >> /\ \A i \in DOMAIN g.parts : NonEmpty(g.parts[i])

WriteGeoJson(g) ==
  IF g.dims \in {"xy", "xyz"} /\ InProfile([g EXCEPT !.srid = NoSrid]) /\ NonEmpty(g) /\ Finite(g)
  THEN ScriviGeoJson(g) ELSE Refused

-----------------------------------------------------------------------------
(* A cell on its way *)

Parse(f, t)  == IF f = "wkt" THEN ParseWktBounded(t) ELSE ParseGeoJson(t)
Format(f, g) == IF f = "wkt" THEN FormatWkt(g) ELSE WriteGeoJson(g)

TextInit ==
  /\ \/ /\ origin = "text" /\ stage = "text" /\ cells = None /\ first = None
        /\ form \in DOMAIN Texts /\ text \in Texts[form]
     \/ /\ origin = "cells" /\ stage = "cells" /\ text = None
        /\ \E b \in Binaries : form = b.form /\ cells = b.cells
        /\ first = cells
  /\ charged = 0

\* The reader of driver-csv, or of driver-geojson.
ReadText ==
  /\ stage = "text"
  /\ LET Keep(payload, left) ==
           IF payload # Refused
           THEN cells' = payload /\ first' = payload /\ charged' = MaxComponents - left /\ stage' = "cells"
           ELSE stage' = "unreadable" /\ UNCHANGED <<cells, first, charged>>
         Of(read) == Keep(IF read.ok THEN EncodeWkb(read.value, "iso") ELSE Refused, read.left)
     IN  Of(Parse(form, text))
  /\ UNCHANGED <<form, origin, text>>

\* The writer of the same.
WriteText ==
  /\ stage = "cells"
  /\ LET Keep(printed) == IF printed # Refused THEN text' = printed /\ stage' = "written"
                                               ELSE stage' = "unwritable" /\ UNCHANGED text
         Of(read) == Keep(IF Whole(cells, read) THEN Format(form, read.value) ELSE Refused)
     IN  Of(Decode(cells))
  /\ UNCHANGED <<form, origin, cells, first, charged>>

ReadAgain ==
  /\ stage = "written"
  /\ LET Of(read) == IF read.ok THEN cells' = EncodeWkb(read.value, "iso") /\ stage' = "again"
                                ELSE stage' = "lost" /\ UNCHANGED cells
     IN  Of(Parse(form, text))
  /\ UNCHANGED <<form, origin, text, first, charged>>

Ended == stage \in {"unreadable", "unwritable", "lost", "again"} /\ UNCHANGED textVars

TextNext == ReadText \/ WriteText \/ ReadAgain \/ Ended

-----------------------------------------------------------------------------
(* Properties *)

RECURSIVE Depth(_)
\* The lists and objects around the positions of a geometry, in GeoJSON.
Depth(g) ==
  IF g.base = 7 THEN 1 + Max({Depth(g.parts[i]) : i \in DOMAIN g.parts}) ELSE Nesting(g.base)

\* What a writer writes, the reader of the format reads as the same geometry, in
\* the same bytes, unless the text is past a limit the payload is within; what a
\* reader has read can be written; and the text has paid for what inspect_wkb
\* counts in the payload made of it.
TextIsLossless ==
  /\ stage = "again" => cells = first
  /\ stage = "lost" => IF form = "wkt" THEN Len(text) > MaxText ELSE Depth(Geometry(first)) > MaxDepth
  /\ origin = "text" => stage # "unwritable"
  /\ LET Paid(seen) == Whole(first, seen) /\ seen.value.components = charged
     IN  charged > 0 => Paid(Inspect(first))

RECURSIVE Typed(_, _)
\* The positions of a GeoJSON type, for the crate that knew the type first.
Typed(tree, lists) ==
  /\ ~Number(tree)
  /\ \A i \in DOMAIN tree.list : IF lists = 0 THEN Number(tree.list[i]) ELSE Typed(tree.list[i], lists - 1)

\* The parser accepts no coordinates whose lists are not those of their type.
AcceptsNoMoreThanBefore ==
  LET WasAccepted(g) == g.base # 7 => \A i \in DOMAIN text :
                          text[i][1] = "coordinates" => Typed(text[i][2], Nesting(g.base))
      Of(read) == read.ok => WasAccepted(read.value)
  IN  form = "geojson" /\ stage = "text" => Of(ParseGeoJson(text))

=============================================================================

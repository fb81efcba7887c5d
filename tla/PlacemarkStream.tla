--------------------------- MODULE PlacemarkStream ---------------------------
(***************************************************************************)
(* The placemarks of a KML document (driver-kml PlacemarkStream), read one *)
(* event of quick-xml at a time and never as a tree: each method that      *)
(* reads an element is a frame of the calls in progress, which the start   *)
(* of an element pushes and its end pops, giving its value to the caller.  *)
(*                                                                         *)
(* An event is <<"start", name>>, <<"end", name>>, <<"empty", name>>,      *)
(* <<"text", words>>, <<"comment">> or <<"doctype">>; the words of a text  *)
(* are coordinates, or "bad".  After the last comes the end of the file.   *)
(***************************************************************************)
EXTENDS Integers, Sequences, SequencesExt, FiniteSetsExt

CONSTANTS
  Documents,   (* sequences of events *)
  MaxXmlDepth,
  Refused

VARIABLES
  document,
  at,          (* how many events are read *)
  element_stack, open_points_with_coordinates, ancestors,
  calls,       (* [reads, of, got]: the method, its element, what its callees gave *)
  step         (* "reading", "read", "refused" *)

vars == <<document, at, element_stack, open_points_with_coordinates, ancestors, calls, step>>

Call(reads, of) == [reads |-> reads, of |-> of, got |-> << >>]
Top == Last(calls)

Init ==
  /\ document \in Documents /\ at = 0
  /\ element_stack = << >> /\ open_points_with_coordinates = << >> /\ ancestors = << >>
  /\ calls = <<Call("document", "kml")>> /\ step = "reading"

-----------------------------------------------------------------------------
(* next_event: what is refused wherever it is found *)

\* observe_point_coordinate_text: text that is not blank, in the coordinates of a Point.
OfPoint(stack) == Len(stack) > 1 /\ Last(stack) = "coordinates" /\ stack[Len(stack) - 1] = "Point"

EventRefused(e) ==
  CASE e[1] = "start"   -> Len(element_stack) >= MaxXmlDepth
    [] e[1] = "empty"   -> e[2] = "Point"
    [] e[1] = "end"     -> \/ element_stack = << >> \/ Last(element_stack) # e[2]
                           \/ e[2] = "Point" /\ ~Last(open_points_with_coordinates)
    [] e[1] = "doctype" -> TRUE
    [] OTHER            -> FALSE

StackAfter(e) ==
  CASE e[1] = "start" -> Append(element_stack, e[2])
    [] e[1] = "end"   -> Front(element_stack)
    [] OTHER          -> element_stack

PointsAfter(e) ==
  LET open == open_points_with_coordinates
  IN  CASE e[1] = "start" /\ e[2] = "Point" -> Append(open, FALSE)
        [] e[1] = "end" /\ e[2] = "Point"   -> Front(open)
        [] e[1] = "text" /\ e[2] # << >> /\ OfPoint(element_stack) -> Append(Front(open), TRUE)
        [] OTHER -> open

-----------------------------------------------------------------------------
(* The start of an element *)

Lines == {"Point", "LineString", "LinearRing"}
Unsupported == {"Model", "Track", "MultiTrack"}

\* read_geometry
ReadGeometry(name) ==
  CASE name \in Lines           -> Call("coordinates", name)
    [] name = "Polygon"         -> Call("polygon", name)
    [] name = "MultiGeometry"   -> Call("multi", name)
    [] name \in Unsupported     -> Refused
    [] OTHER                    -> Call("skip", name)

\* The method that the method in progress calls for an element.
Called(name) ==
  CASE Top.reads = "placemark"   -> IF name \in {"name", "description"} THEN Call("text", name) ELSE ReadGeometry(name)
    [] Top.reads = "multi"       -> ReadGeometry(name)
    [] Top.reads = "coordinates" -> IF name # "coordinates" THEN Call("skip", name)
                                    ELSE IF Top.got # << >> THEN Refused ELSE Call("text", name)
    [] Top.reads = "boundary"    -> Call(IF name = "LinearRing" THEN "coordinates" ELSE "skip", name)
    [] Top.reads = "polygon"     -> Call(IF name \in {"outerBoundaryIs", "innerBoundaryIs"} THEN "boundary" ELSE "skip", name)
    [] Top.reads = "text"        -> Refused
    [] Top.reads = "skip"        -> Call("skip", name)

\* Mutant: a placemark is one wherever it is.
TraversedAnywhere == TRUE

\* traversed_by_legacy_reader
Traversed == ToSet(ancestors) \subseteq {"kml", "Document", "Folder"}

-----------------------------------------------------------------------------
(* The end of an element *)

Given(call, of) == SelectSeq(call.got, LAMBDA g : g[1] = of)
Contents(gots)  == FlattenSeq([i \in DOMAIN gots |-> gots[i][2]])

\* What a method returns, or that it refuses what it was given.
Value(call) ==
  LET outers     == Given(call, "outerBoundaryIs")
      geometries == Given(call, "geometry")
      last(gots) == IF gots = << >> THEN << >> ELSE Last(gots)[2]
  IN  CASE call.reads \in {"boundary", "multi"} -> <<call.of, call.got>>
        [] call.reads = "text"        -> <<call.of, Contents(call.got)>>
        [] call.reads = "coordinates" ->
             LET tuples == last(call.got)
             IN  IF "bad" \in ToSet(tuples) \/ (call.of = "Point" /\ Len(tuples) # 1) THEN Refused ELSE <<call.of, tuples>>
        [] call.reads = "polygon"     ->
             IF Len(outers) # 1 \/ Len(Contents(outers)) # 1 THEN Refused
             ELSE <<call.of, <<Head(last(outers))>>, Contents(Given(call, "innerBoundaryIs"))>>
        [] call.reads = "placemark"   ->
             IF Len(geometries) > 1 THEN Refused
             ELSE <<call.of, last(Given(call, "name")), last(Given(call, "description")), last(geometries)>>

\* The caller keeps it.
Keep(call, value) ==
  [call EXCEPT !.got =
     Append(@, IF call.reads = "placemark" /\ value[1] \notin {"name", "description"} THEN <<"geometry", <<value>>>> ELSE value)]

-----------------------------------------------------------------------------
Below == Front(calls)

Refuse == step' = "refused" /\ UNCHANGED <<ancestors, calls>>

Start(name) ==
  LET call == IF Top.reads # "document" THEN Called(name)
              ELSE IF name = "Placemark" /\ Traversed THEN Call("placemark", name) ELSE Top
  IN  IF call = Refused THEN Refuse
      ELSE IF call = Top /\ Top.reads = "document" THEN ancestors' = Append(ancestors, name) /\ UNCHANGED <<calls, step>>
      ELSE calls' = Append(calls, call) /\ UNCHANGED <<ancestors, step>>

End ==
  IF Top.reads = "document"
  THEN ancestors' = (IF ancestors = << >> THEN ancestors ELSE Front(ancestors)) /\ UNCHANGED <<calls, step>>
  ELSE IF Top.reads = "skip" THEN calls' = Below /\ UNCHANGED <<ancestors, step>>
  ELSE LET value == Value(Top)
       IN  IF value = Refused THEN Refuse
           ELSE calls' = Append(Front(Below), Keep(Last(Below), value)) /\ UNCHANGED <<ancestors, step>>

\* An empty element, and a comment, are nothing but in a text; an empty placemark is one.
EmptyElement(name) ==
  IF Top.reads = "text" THEN Refuse
  ELSE IF Top.reads = "document" /\ name = "Placemark" /\ Traversed
  THEN calls' = Append(Below, Keep(Top, <<name, << >>, << >>, << >>>>)) /\ UNCHANGED <<ancestors, step>>
  ELSE UNCHANGED <<ancestors, calls, step>>

Words(words) ==
  IF Top.reads # "text" THEN UNCHANGED <<ancestors, calls, step>>
  ELSE calls' = Append(Below, Keep(Top, <<"words", words>>)) /\ UNCHANGED <<ancestors, step>>

NextEvent ==
  /\ step = "reading" /\ at < Len(document)
  /\ at' = at + 1 /\ UNCHANGED document
  /\ LET e == document[at + 1]
     IN  IF EventRefused(e) THEN Refuse /\ UNCHANGED <<element_stack, open_points_with_coordinates>>
         ELSE /\ element_stack' = StackAfter(e) /\ open_points_with_coordinates' = PointsAfter(e)
              /\ CASE e[1] = "start" -> Start(e[2])
                   [] e[1] = "end"   -> End
                   [] e[1] = "empty" -> EmptyElement(e[2])
                   [] e[1] = "text"  -> Words(e[2])
                   [] e[1] = "comment" -> IF Top.reads = "text" THEN Refuse ELSE UNCHANGED <<ancestors, calls, step>>

EndOfFile ==
  /\ step = "reading" /\ at = Len(document)
  /\ step' = IF element_stack # << >> THEN "refused" ELSE "read"
  /\ UNCHANGED <<document, at, element_stack, open_points_with_coordinates, ancestors, calls>>

Ended == step \in {"read", "refused"} /\ UNCHANGED vars

Next == NextEvent \/ EndOfFile \/ Ended

-----------------------------------------------------------------------------
(* The document as a tree: the elements by the places of their starts *)

Is(kind, i) == document[i][1] = kind
Starts      == {i \in DOMAIN document : Is("start", i)}
DepthAt(i)  == Cardinality({j \in Starts : j < i}) - Cardinality({j \in 1 .. i - 1 : Is("end", j)})
EndOf(i)    == Min({j \in i + 1 .. Len(document) : Is("end", j) /\ DepthAt(j + 1) = DepthAt(i)})
Within(i)   == i + 1 .. EndOf(i) - 1

WellFormed ==
  /\ DepthAt(Len(document) + 1) = 0 /\ \A i \in DOMAIN document : DepthAt(i + 1) \in 0 .. MaxXmlDepth /\ ~Is("doctype", i)
  /\ \A i \in Starts : document[EndOf(i)][2] = document[i][2]

Children(i, names) ==
  LET depth == DepthAt(i) + 1
  IN  SetToSortSeq({j \in Within(i) : Is("start", j) /\ document[j][2] \in names /\ DepthAt(j) = depth}, <)

TextOf(i) ==
  LET texts == SetToSortSeq({j \in Within(i) : Is("text", j)}, <)
  IN  FlattenSeq([n \in DOMAIN texts |-> document[texts[n]][2]])

TextsOf(i, name) == LET named == Children(i, {name}) IN [n \in DOMAIN named |-> TextOf(named[n])]

LineOf(i) == <<document[i][2], FlattenSeq(TextsOf(i, "coordinates"))>>

RingsOf(i, name) ==
  LET named == Children(i, {name})
  IN  FlattenSeq([n \in DOMAIN named |->
        LET rings == Children(named[n], {"LinearRing"}) IN [m \in DOMAIN rings |-> LineOf(rings[m])]])

GeometryNames == Lines \cup Unsupported \cup {"Polygon", "MultiGeometry"}

\* What is in an element, all of it.
Holds[i \in Nat] ==
  LET name  == document[i][2]
      inner == Children(i, GeometryNames)
  IN  CASE name \in Lines -> LineOf(i)
        [] name = "Polygon" -> <<name, RingsOf(i, "outerBoundaryIs"), RingsOf(i, "innerBoundaryIs")>>
        [] name \in Unsupported -> <<name>>
        [] name = "MultiGeometry" -> <<name, [n \in DOMAIN inner |-> Holds[inner[n]]]>>
        [] name = "Placemark" ->
             LET last(of) == IF TextsOf(i, of) = << >> THEN << >> ELSE Last(TextsOf(i, of))
             IN  <<name, last("name"), last("description"), [n \in DOMAIN inner |-> Holds[inner[n]]]>>

Delivered ==
  SetToSortSeq({i \in DOMAIN document :
    /\ document[i][1] \in {"start", "empty"} /\ document[i][2] = "Placemark"
    /\ \A j \in Starts : j < i /\ EndOf(j) > i => document[j][2] \in {"kml", "Document", "Folder"}}, <)

\* A document that is accepted is a tree, and its placemarks are those the tree has, in order, each with
\* every coordinate, ring and geometry the document has in it: none is the last one read, one dropped at an
\* element that was skipped, or one of a neighbour (PlacemarkStream).
PlacemarksAreReadWhole ==
  step = "read" =>
    /\ WellFormed
    /\ LET delivered == Delivered
       IN  Top.got = [n \in DOMAIN delivered |->
                        IF Is("empty", delivered[n]) THEN <<"Placemark", << >>, << >>, << >>>> ELSE Holds[delivered[n]]]

=============================================================================

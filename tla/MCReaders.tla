----------------------------- MODULE MCReaders ------------------------------
(***************************************************************************)
(* Instances for TLC of the drivers' readers.  The drivers share no state: *)
(* a behaviour is of one part, and the others stay as they begin.          *)
(***************************************************************************)
EXTENDS LayerReaders, GpkgPaging, RowGroupPruning, ShapefileRows, Integers, TLC

CONSTANTS
  Parts, r1, r2

VARIABLE part

-----------------------------------------------------------------------------
(* csv, geojson, kml, dxf, xls, ipc, geoparquet, filegdb *)

Row(cell, geom) == [cell |-> cell, geom |-> geom]

Seen(cells) ==
  LET See[n \in 0 .. Len(cells)] == IF n = 0 THEN Fresh ELSE Observe(See[n - 1], cells[n])
  IN  See[Len(cells)]

\* The contract a file declares is the one its rows would be given.
Declare(content) ==
  [column |-> ColumnType(Seen([i \in 1 .. Len(content) |-> ClassOf(content[i])])),
   types |-> UNION {Types(content[i]) : i \in 1 .. Len(content)},
   rows |-> content]

\* Every class alone, the pairs that a column must reconcile, the rows that a
\* later pass refuses, geometries of two types or none, and a contract that
\* names another type than its rows have.
MCFiles ==
  {Declare(content) : content \in
     {<< >>, <<Row("int", "none"), Row("int", "line")>>, <<Row("int", "point"), Row("late", "point")>>,
      <<Row("bad", "point")>>, <<Row("int", "point"), Row("int", "point"), Row("int", "point")>>}
     \cup {<<Row(cell, "point")>> : cell \in Classes}
     \cup {<<Row(pair[1], "point"), Row(pair[2], "point")>> : pair \in
             {<<"wide", "frac">>, <<"frac", "int">>, <<"int", "wide">>, <<"bool", "int">>,
              <<"null", "bool">>, <<"text", "frac">>}}}
    \cup {[Declare(<<Row("int", "point")>>) EXCEPT !.types = {"line"}]}

MCReplacements ==
  {Declare(<<Row("frac", "point"), Row("text", "line")>>), Declare(<<Row("wide", "point")>>)}

-----------------------------------------------------------------------------
(* gpkg, shp, and the row groups of geoparquet *)

MCRowIds == {-1, 0, 1}

SeqsTo(S, n) == UNION {[1 .. k -> S] : k \in 0 .. n}

MCShapes == SeqsTo({"ok", "wrong"}, 2) \cup {<<"ok", "broken">>, <<"ok", "ok", "ok">>}

MCTables ==
  SeqsTo({"active", "deleted"}, 2)
    \cup {<<"active", "garbled">>, <<"invalid", "active">>, <<"deleted", "unfit">>,
          <<"active", "broken">>, <<"active", "deleted", "active">>}

MCBoxes == {<<-1, -1>>, <<0, 1>>}
MCHints == {<<-1, -1>>, <<0, 0>>}

-----------------------------------------------------------------------------
ReadersInit ==
  /\ part \in Parts
  /\ part # "files" =>
       format = (CHOOSE f \in Formats : TRUE) /\ file = CHOOSE f \in Files : TRUE
  /\ part # "gpkg" => table = << >> /\ joined = FALSE /\ consistent = TRUE
  /\ part # "shp" => shp = << >> /\ dbf = << >> /\ scope = WholeLayer
  /\ part # "pruning" =>
       /\ kind = (CHOOSE k \in Kinds : TRUE)
       /\ rows = <<[value |-> Null, box |-> CHOOSE box \in Boxes : TRUE]>>
       /\ footer = [value |-> None, low |-> None, high |-> None]
       /\ predicate = None /\ hint = None
  /\ Init /\ PagingInit /\ RowsInit /\ PruningInit

ReadersNext ==
  \/ part = "files" /\ Next /\ UNCHANGED <<part, pagingVars, shapefileVars, pruningVars>>
  \/ part = "gpkg" /\ PagingNext /\ UNCHANGED <<part, vars, shapefileVars, pruningVars>>
  \/ part = "shp" /\ RowsNext /\ UNCHANGED <<part, vars, pagingVars, pruningVars>>
  \/ part = "pruning" /\ PruningNext /\ UNCHANGED <<part, vars, pagingVars, shapefileVars>>

readersVars == <<part, vars, pagingVars, shapefileVars, pruningVars>>

ReadersSpec == ReadersInit /\ [][ReadersNext]_readersVars

Interchangeable == Permutations({r1, r2})

=============================================================================

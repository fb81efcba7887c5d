------------------------------ MODULE SheetCells ------------------------------
(***************************************************************************)
(* The rows of a worksheet (driver-xls infer_layout, for_each_dense_row,   *)
(* date_native): calamine gives the cells one at a time, in the order of   *)
(* the file and without the empty ones, and the driver lays them out in    *)
(* the frame the sheet declares or, where it declares none, in the one its *)
(* cells make.                                                             *)
(*                                                                         *)
(* A value is <<"empty">>, <<"text", t>>, <<"number", n>>, <<"wide", n>>,  *)
(* <<"error">> or <<"serial", h, code>>: h half days, and the letters of   *)
(* the format code of its cell outside of literals and colours, "[h]" for  *)
(* an elapsed time.                                                        *)
(***************************************************************************)
EXTENDS Integers, Sequences, FiniteSets

CONSTANTS
  Sheets,      (* [frame |-> bounds, cells |-> a sequence of [row, column, value], epoch |-> BOOLEAN] *)
  Requests,    (* [wkt, x, y]: the names in format_options, or Nothing *)
  WktTexts,    (* the texts that are WKT *)
  Numerals,    (* a function from the texts that are finite numbers to them *)
  MaxColumns, MaxSheetRows,
  Nothing, Refusal

Empty == <<"empty">>
Serials    == {"serial"} \X Int \X SUBSET STRING
CellValues == {Empty, <<"error">>} \cup ({"text"} \X STRING) \cup ({"number", "wide"} \X Int) \cup Serials

TemporalKinds == {"Time", "Duration", "Date", "Timestamp"}

\* Rows and columns are counted from 0.
Frames     == [top : Nat, left : Nat, bottom : Nat, right : Nat]
SheetCell  == [row : Nat, column : Nat, value : CellValues]
Worksheet  == [frame : Frames, cells : Seq(SheetCell), epoch : BOOLEAN]

ASSUME SheetAssumption ==
  /\ Sheets \subseteq Worksheet
  /\ Requests \subseteq [wkt : STRING \cup {Nothing}, x : STRING \cup {Nothing}, y : STRING \cup {Nothing}]
  /\ WktTexts \subseteq STRING \ {""}
  /\ DOMAIN Numerals \subseteq STRING \ {""} /\ \A t \in DOMAIN Numerals : Numerals[t] \in Int
  /\ Nothing \notin STRING \cup TemporalKinds \cup Int \cup Seq(STRING) \cup (Int \X Int) \cup {Refusal}

VARIABLES
  sheet, request,
  bounds,      (* [top, left, bottom, right] *)
  sheet_step,  (* "probe", "scan", "rows", "delivered", "refused" *)
  taken,       (* how many cells the reader has given *)
  sheet_row,
  values,      (* the row being laid out *)
  columns,     (* those of the geometry, once the headers are read *)
  kinds,       (* of each column, what its temporal and its ordinary cells were *)
  sheet_rows   (* [geometry, attributes] of each row of data *)

sheetVars == <<sheet, request, bounds, sheet_step, taken, sheet_row, values, columns, kinds, sheet_rows>>

Bounds(top, left, bottom, right) == [top |-> top, left |-> left, bottom |-> bottom, right |-> right]

\* data_row_width, data_row_count: of a frame the wrong way round, none.
Width(b)    == IF b.right < b.left THEN Refusal ELSE b.right - b.left + 1
RowCount(b) == IF b.bottom < b.top THEN Refusal ELSE b.bottom - b.top
OverQuota(b) == Width(b) = Refusal \/ RowCount(b) = Refusal \/ Width(b) > MaxColumns \/ RowCount(b) > MaxSheetRows

EmptyRow(b) == [c \in b.left .. b.right |-> Empty]

SheetInit ==
  /\ sheet \in Sheets /\ request \in Requests
  /\ bounds = sheet.frame /\ sheet_step = "probe" /\ taken = 0 /\ sheet_row = 0
  /\ values = << >> /\ columns = << >> /\ kinds = << >> /\ sheet_rows = << >>

Refuse == sheet_step' = "refused" /\ UNCHANGED <<bounds, taken, sheet_row, values, columns, kinds, sheet_rows>>

Lay(b) ==
  IF OverQuota(b) THEN Refuse
  ELSE /\ sheet_step' = "rows" /\ bounds' = b /\ taken' = 0 /\ sheet_row' = b.top /\ values' = EmptyRow(b)
       /\ kinds' = [c \in b.left .. b.right |-> [temporal |-> Nothing, ordinary |-> FALSE]]
       /\ UNCHANGED <<columns, sheet_rows>>

Undeclared(b) == b = Bounds(0, 0, 0, 0)   \* cornice_non_dichiarata

-----------------------------------------------------------------------------
(* The frame *)

Probe ==
  /\ sheet_step = "probe"
  /\ IF Undeclared(bounds) THEN sheet_step' = "scan" /\ UNCHANGED <<bounds, taken, sheet_row, values, columns, kinds, sheet_rows>>
     ELSE Lay(bounds)
  /\ UNCHANGED <<sheet, request>>

Lower(m, n) == IF m < n THEN m ELSE n
Upper(m, n) == IF m < n THEN n ELSE m

Around(b, cell) ==
  Bounds(Lower(b.top, cell.row), Lower(b.left, cell.column), Upper(b.bottom, cell.row), Upper(b.right, cell.column))

\* limiti_osservati: the quotas hold while the frame grows.
ObserveCell ==
  /\ sheet_step = "scan" /\ taken < Len(sheet.cells)
  /\ LET cell  == sheet.cells[taken + 1]
         grown == IF taken = 0 THEN Bounds(cell.row, cell.column, cell.row, cell.column) ELSE Around(bounds, cell)
     IN  IF OverQuota(grown) THEN Refuse
         ELSE bounds' = grown /\ taken' = taken + 1 /\ UNCHANGED <<sheet_step, sheet_row, values, columns, kinds, sheet_rows>>
  /\ UNCHANGED <<sheet, request>>

Observed == sheet_step = "scan" /\ taken = Len(sheet.cells) /\ Lay(bounds) /\ UNCHANGED <<sheet, request>>

-----------------------------------------------------------------------------
(* Values *)

DataToString(v) == IF v[1] = "text" THEN v[2] ELSE IF v = Empty THEN "" ELSE "other"

\* Mutant: of the columns of one name the first is taken.
FirstColumnOf(named, name) ==
  {c \in DOMAIN named : DataToString(named[c]) = name /\ \A b \in DOMAIN named : DataToString(named[b]) = name => c <= b}

\* colonna_per_nome: the only column of a name.
ColumnOf(named, name) == {c \in DOMAIN named : DataToString(named[c]) = name}

Asked == IF request.wkt # Nothing THEN <<request.wkt>> ELSE <<request.x, request.y>>

\* resolve_geometry: the columns of the geometry, or none that the headers and the request settle.
ResolveGeometry(named) ==
  IF \/ request.wkt # Nothing /\ (request.x # Nothing \/ request.y # Nothing)
     \/ \E i \in DOMAIN Asked : Asked[i] = Nothing \/ Cardinality(ColumnOf(named, Asked[i])) # 1
  THEN Refusal
  ELSE [i \in DOMAIN Asked |-> CHOOSE c \in ColumnOf(named, Asked[i]) : TRUE]

\* coordinate_cell
Coordinate(v) ==
  CASE v = Empty \/ v = <<"text", "">>                 -> Nothing
    [] v[1] = "number"                                 -> v[2]
    [] v[1] = "text" /\ v[2] \in DOMAIN Numerals       -> Numerals[v[2]]
    [] OTHER                                           -> Refusal

\* encode_geometry_cell
Geometry(laid, at) ==
  IF Len(at) = 1
  THEN LET t == DataToString(laid[at[1]])
       IN  IF t = "" THEN Nothing ELSE IF t \in WktTexts THEN <<t>> ELSE Refusal
  ELSE LET x == Coordinate(laid[at[1]])
           y == Coordinate(laid[at[2]])
       IN  IF x = Nothing /\ y = Nothing THEN Nothing
           ELSE IF {x, y} \cap {Nothing, Refusal} # {} THEN Refusal ELSE <<x, y>>

\* only_date, only_time: of a format code.
OnlyDate(code) == code \cap {"h", "s", "a"} = {} /\ code \cap {"y", "d"} # {}
OnlyTime(code) == code \cap {"y", "d", "[h]"} = {} /\ code \cap {"h", "s"} # {}
Elapsed(code)  == "[h]" \in code   \* external: calamine's duration

\* date_native::convert: days of 1900 or of 1904, to days or half days of 1970.
Convert(h, code, epoch) ==
  LET days   == h \div 2
      limit  == IF epoch /\ ~Elapsed(code) THEN 2957004 ELSE 2958466
      offset == IF epoch THEN 24107 ELSE IF days < 60 THEN 25568 ELSE 25569
  IN  IF h < 0 \/ days >= limit THEN Refusal
      ELSE IF OnlyTime(code) /\ days = 0 THEN <<"Time", h>>
      ELSE IF Elapsed(code) THEN <<"Duration", h>>
      ELSE IF ~epoch /\ days \in {0, 60} THEN Refusal
      ELSE IF OnlyDate(code) /\ h % 2 = 0 THEN <<"Date", days - offset>> ELSE <<"Timestamp", h - 2 * offset>>

\* One cell of an attribute: the value it gives, and what it says of its column.
Attribute(v) ==
  IF v[1] = "serial" THEN Convert(v[2], v[3], sheet.epoch)
  ELSE IF v[1] = "error" THEN Refusal ELSE v

Said(kind, v) ==
  IF v[1] = "serial"
  THEN LET is == Attribute(v)[1]
       IN  IF kind.ordinary \/ kind.temporal \notin {Nothing, is} THEN Refusal ELSE [kind EXCEPT !.temporal = is]
  ELSE IF v = Empty THEN kind
  ELSE IF kind.temporal # Nothing THEN Refusal ELSE [kind EXCEPT !.ordinary = TRUE]

-----------------------------------------------------------------------------
(* for_each_dense_row *)

MoreCells == taken < Len(sheet.cells) /\ sheet.cells[taken + 1].row <= sheet_row

TakeCell ==
  /\ sheet_step = "rows" /\ MoreCells /\ sheet_row <= bounds.bottom
  /\ LET cell == sheet.cells[taken + 1]
     IN  IF cell.row < sheet_row \/ cell.column \notin DOMAIN values THEN Refuse
         ELSE /\ values' = [values EXCEPT ![cell.column] = cell.value] /\ taken' = taken + 1
              /\ UNCHANGED <<sheet_step, bounds, sheet_row, columns, kinds, sheet_rows>>
  /\ UNCHANGED <<sheet, request>>

Attributes == (bounds.left .. bounds.right) \ {columns[i] : i \in DOMAIN columns}

\* What visit makes of a row, and whether there is one after it.
Headers ==
  LET resolved == ResolveGeometry(values)
  IN  IF resolved = Refusal THEN Refuse
      ELSE /\ columns' = resolved /\ sheet_row' = sheet_row + 1 /\ values' = EmptyRow(bounds)
           /\ UNCHANGED <<bounds, sheet_step, taken, kinds, sheet_rows>>

Visited ==
  LET geometry == Geometry(values, columns)
      given    == [c \in Attributes |-> Attribute(values[c])]
      said     == [c \in DOMAIN kinds |->
                     IF c \in Attributes /\ given[c] # Refusal THEN Said(kinds[c], values[c]) ELSE kinds[c]]
  IN  IF geometry = Refusal \/ \E c \in Attributes : given[c] = Refusal \/ said[c] = Refusal THEN Refuse
      ELSE /\ sheet_rows' = Append(sheet_rows, [geometry |-> geometry, attributes |-> given]) /\ kinds' = said
           /\ sheet_row' = sheet_row + 1 /\ values' = EmptyRow(bounds) /\ UNCHANGED <<bounds, sheet_step, taken, columns>>

Visit ==
  /\ sheet_step = "rows" /\ ~MoreCells /\ sheet_row <= bounds.bottom
  /\ IF sheet_row = bounds.top THEN Headers ELSE Visited
  /\ UNCHANGED <<sheet, request>>

\* A cell that was read and left for a row past the last is never looked at.
Finish ==
  /\ sheet_step = "rows" /\ sheet_row > bounds.bottom
  /\ sheet_step' = IF sheet.cells = << >> THEN "refused" ELSE "delivered"
  /\ UNCHANGED <<sheet, request, bounds, taken, sheet_row, values, columns, kinds, sheet_rows>>

SheetEnded == sheet_step \in {"delivered", "refused"} /\ UNCHANGED sheetVars

SheetNext == Probe \/ ObserveCell \/ Observed \/ TakeCell \/ Visit \/ Finish \/ SheetEnded

SheetSpec == SheetInit /\ [][SheetNext]_sheetVars

-----------------------------------------------------------------------------
(* The sheet as its cells say it is: the last value given to each place, and *)
(* the calendar's own count of the days.                                     *)

Given(cells, r, c) == {i \in DOMAIN cells : cells[i].row = r /\ cells[i].column = c}

Latest(given) == CHOOSE i \in given : \A j \in given : j <= i
ValueOf(cells, given) == IF given = {} THEN Empty ELSE cells[Latest(given)].value

ValueAt(r, c) == ValueOf(sheet.cells, Given(sheet.cells, r, c))

Leaps(y)   == y \div 4 - y \div 100 + y \div 400
DaysTo(y)  == 365 * (y - 1970) + Leaps(y - 1) - Leaps(1969)

\* The first of March 1900 is the day 61, and the first of 1904 the day 0.
Calendar(epoch, days) ==
  IF epoch THEN DaysTo(1904) + days
  ELSE IF days < 60 THEN DaysTo(1900) + days - 1 ELSE DaysTo(1900) + 59 + days - 61

\* A day of 1970 is the day of the sheet's calendar, which has no day 0 and not the day 60 of 1900.
IsDay(epoch, day, days) == day = Calendar(epoch, days) /\ day < DaysTo(10000) /\ (epoch \/ days \notin {0, 60})

Tells(epoch, kind, got, v) ==
  IF v[1] # "serial" THEN got = v /\ (v = Empty \/ kind = Nothing)
  ELSE /\ got[1] = kind
       /\ \/ kind = "Duration" /\ got[2] = v[2]
          \/ kind = "Time" /\ got[2] = v[2] /\ v[2] < 2
          \/ kind = "Date" /\ v[2] % 2 = 0 /\ IsDay(epoch, got[2], v[2] \div 2)
          \/ kind = "Timestamp" /\ got[2] % 2 = v[2] % 2 /\ IsDay(epoch, got[2] \div 2, v[2] \div 2)

\* A geometry is of all its cells, or of none.
IsOf(geometry, given) ==
  LET blank == {i \in DOMAIN given : given[i] \in {Empty, <<"text", "">>}}
  IN  IF blank = DOMAIN given THEN geometry = Nothing ELSE blank = {} /\ geometry # Nothing

\* A frame that is declared, and cells that it does not reach down to.
NoCellIsBelow == Undeclared(sheet.frame) \/ \A i \in DOMAIN sheet.cells : sheet.cells[i].row <= sheet.frame.bottom

\* A sheet that is accepted has no cell outside of its frame: one that declares a frame its cells contradict is
\* refused (cornice_non_dichiarata).
CellsKeepToTheFrame ==
  sheet_step = "delivered" =>
    \A i \in DOMAIN sheet.cells :
      sheet.cells[i].row \in bounds.top .. bounds.bottom /\ sheet.cells[i].column \in bounds.left .. bounds.right

\* A sheet that is accepted is read whole: every cell it holds is inside the frame, the geometry is of the only
\* columns that have the names asked for, the rows are those of the frame, every place has the last value the
\* file gives it, and a date is the day of the calendar, in a column of one kind (for_each_dense_row,
\* infer_layout, date_native).
SheetIsReadWhole ==
  sheet_step = "delivered" =>
    /\ CellsKeepToTheFrame
    /\ \A i \in DOMAIN columns :
         {c \in bounds.left .. bounds.right : DataToString(ValueAt(bounds.top, c)) = Asked[i]} = {columns[i]}
    /\ Len(sheet_rows) = bounds.bottom - bounds.top
    /\ \A i \in DOMAIN sheet_rows :
         /\ IsOf(sheet_rows[i].geometry, [j \in DOMAIN columns |-> ValueAt(bounds.top + i, columns[j])])
         /\ \A c \in Attributes :
              Tells(sheet.epoch, kinds[c].temporal, sheet_rows[i].attributes[c], ValueAt(bounds.top + i, c))

=============================================================================

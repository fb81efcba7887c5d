---------------------------- MODULE ColumnTypes -----------------------------
(***************************************************************************)
(* The type a driver infers for a column of cells it has seen, and what    *)
(* the builder of a column of that type does with a cell: driver-common,   *)
(* used by csv, geojson, xls and shp.                                      *)
(*                                                                         *)
(* A cell is its ObservedValueClass.  "wide" is an i64 past 2^53, which an *)
(* f64 may not hold.                                                       *)
(***************************************************************************)

Classes == {"null", "int", "wide", "frac", "bool", "text"}
ColTypes == {"Integer", "Number", "Boolean", "Text"}

\* TypeAccumulator::default
Fresh == [any |-> FALSE, all_int |-> TRUE, all_num |-> TRUE, all_bool |-> TRUE,
          has_fractional_number |-> FALSE, has_wide_integer |-> FALSE]

\* TypeAccumulator::observe
Observe(acc, class) ==
  IF class = "null" THEN acc
  ELSE [any |-> TRUE,
        all_int |-> acc.all_int /\ class \in {"int", "wide"},
        all_num |-> acc.all_num /\ class \in {"int", "wide", "frac"},
        all_bool |-> acc.all_bool /\ class = "bool",
        has_fractional_number |-> acc.has_fractional_number \/ class = "frac",
        has_wide_integer |-> acc.has_wide_integer \/ class = "wide"]

\* Mutant: an integer past 2^53 among fractional numbers makes an f64 column.
ColumnTypeLossy(acc) ==
  CASE ~ acc.any    -> "Text"
    [] acc.any /\ acc.all_int -> "Integer"
    [] acc.any /\ ~ acc.all_int /\ acc.all_bool -> "Boolean"
    [] acc.any /\ ~ acc.all_int /\ ~ acc.all_bool /\ acc.all_num -> "Number"
    [] OTHER -> "Text"

\* TypeAccumulator::column_type
ColumnType(acc) ==
  CASE ~ acc.any    -> "Text"
    [] acc.any /\ acc.all_int -> "Integer"
    [] acc.any /\ ~ acc.all_int /\ acc.all_bool -> "Boolean"
    [] /\ acc.any /\ ~ acc.all_int /\ ~ acc.all_bool /\ acc.all_num
       /\ ~ (acc.has_fractional_number /\ acc.has_wide_integer) -> "Number"
    [] OTHER -> "Text"

-----------------------------------------------------------------------------
(* What a column of a type can hold, and what becomes of a cell put in it:  *)
(* "exact", "rounded" (as an f64), or "refused" with the whole batch.       *)

Native(column) ==
  CASE column = "Integer" -> {"int", "wide"}
    [] column = "Number"  -> {"int", "wide", "frac"}
    [] column = "Boolean" -> {"bool"}
    [] column = "Text"    -> Classes \ {"null"}

\* append_json and the tags of a spool: append_i64 .. append_str
AppendJson(column, class) ==
  IF class \notin Native(column) \cup {"null"} THEN "refused"
  ELSE IF column = "Number" /\ class = "wide" THEN "rounded" ELSE "exact"

\* A csv cell must read back as it is written, or the row is an error.
AppendCell(column, class) ==
  IF AppendJson(column, class) = "rounded" THEN "refused" ELSE AppendJson(column, class)

=============================================================================

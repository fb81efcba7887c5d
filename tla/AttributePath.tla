---------------------------- MODULE AttributePath ----------------------------
(***************************************************************************)
(* A column of attributes through a conversion and back: read from its     *)
(* file, planned for a format (capabilities, perdita_pianificata), written *)
(* cell by cell, and read again with the types the format gives it.  It is *)
(* kept in the columns of an Arrow batch (driver-common, capabilities),    *)
(* the cells of a GeoPackage table and the fields of a DBF record.         *)
(*                                                                         *)
(* A value is its kind and what it is; the same number or text has the     *)
(* same name in every kind.  The names of the numbers stand for            *)
(*   pow 2^53   wide 2^53 + 1   long 10^18   max 2^63 - 1   huge 2^63      *)
(*   tiny 10^-9   vast 10^300.                                             *)
(***************************************************************************)
EXTENDS ColumnTypes, Sequences

CONSTANTS
  Unsaid,       (* no declared type, no .cpg *)
  Denial,       (* in place of a value: an error *)
  Origins,      (* [file, type, declared, nullable, cpg, ldid, field, raw, beside]: a column and *)
                (* the name of the one beside it                                                 *)
  Destinations, (* a subset of {"csv", "geojson", "gpkg", "shp", "xls"} *)
  Names         (* [name |-> [folded, ascii, long]] *)

Value(kind, what) == [kind |-> kind, is |-> what]
NullValue == Value("null", "null")

Finite == {"0", "-0", "1", "1.5", "tiny", "pow", "wide", "long", "max", "huge", "vast"}
InI64  == {"0", "1", "pow", "wide", "long", "max"}
Narrow == {"0", "-0", "1", "pow"}
NumberNames == Finite \cup {"inf", "nan"}
Floats  == NumberNames \ {"wide", "max"}   \* those that are f64

\* Every name: the texts, and those that are used here.
Whats == STRING \cup NumberNames \cup
  {"null", "true", "false", "", "day", "hour", "replaced", "two marks", "accent", "euro", "copyright", "control 80", "control 81"}
ValueKinds  == {"null", "int", "real", "bool", "text", "blob", "day", "decimal", "list"}
CellContents == [kind : ValueKinds, is : Whats]
Of(kind, whats) == [kind : {kind}, is : whats]

\* The f64 nearest to a number.
AsF64(n) == CASE n = "wide" -> "pow" [] n = "max" -> "huge" [] n \notin {"wide", "max"} -> n

\* What "as i64" makes of an f64.
AsI64(n) ==
  CASE n \in InI64 -> n [] n = "-0" -> "0" [] n = "1.5" -> "1" [] n = "tiny" -> "0"
    [] n \in {"huge", "vast", "inf"} -> "max" [] n = "nan" -> "0"

-----------------------------------------------------------------------------
(* Arrow *)

\* arrow_type_class
ArrowTypeClass(type) ==
  CASE type = "Boolean" -> "Boolean"
    [] type = "Int64" -> "SignedInteger"
    [] type = "UInt64" -> "UnsignedInteger"
    [] type \in {"Float16", "Float64"} -> "Floating"
    [] type \in {"Utf8", "LargeUtf8"} -> "Utf8"
    [] type = "Binary" -> "Binary"
    [] type \in {"Date64", "Time64", "Duration"} -> "Temporal"
    [] type = "Decimal128" -> "Decimal"
    [] type = "List" -> "Nested"

\* validate_temporal_cell: a date is a whole day, a time within one.
ValidTemporal(v) == v.is \in {"day", "hour"}

\* json_from_array: null, a bool, a number or a text.
JsonFromArray(type, v) ==
  CASE v.kind = "null" \/ type \in {"Boolean", "Int64", "UInt64", "Utf8"} -> v
    [] v.kind # "null" /\ type = "Float64" -> IF v.is \in Finite THEN v ELSE Denial
    [] v.kind # "null" /\ type \in {"Date64", "Time64"} ->
         IF ValidTemporal(v) THEN Value("text", v.is) ELSE Denial
    [] OTHER -> Denial

\* ObservedValueClass of a JSON value: infer_column, classify_i64, classify_u64
JsonClass(v) ==
  CASE v.kind = "null" -> "null"
    [] v.kind = "int" -> IF v.is \notin InI64 THEN "text" ELSE IF v.is \in Narrow THEN "int" ELSE "wide"
    [] v.kind = "real" -> "frac"
    [] v.kind \in {"bool", "text"} -> v.kind

\* What TypeAccumulator::observe makes of cells of these classes, one after the other: their
\* order and number leave no trace.
Accumulated(classes) ==
  LET told == classes \ {"null"}
  IN  [any |-> told # {},
       all_int |-> told \subseteq {"int", "wide"},
       all_num |-> told \subseteq {"int", "wide", "frac"},
       all_bool |-> told \subseteq {"bool"},
       has_fractional_number |-> "frac" \in told,
       has_wide_integer |-> "wide" \in told]

TypeOfColumn(classes) == ColumnType(Accumulated(classes))

\* build_property_array and the appends of an InferredColumnBuilder, given what a
\* column of a type does with a cell of a class.
Built(column, v, fate) ==
  CASE fate = "refused" -> Denial
    [] fate # "refused" /\ v.kind = "null" -> v
    [] fate = "rounded" /\ v.kind # "null" -> Value("real", AsF64(v.is))
    [] fate = "exact" /\ v.kind # "null" ->
         Value([Integer |-> "int", Number |-> "real", Boolean |-> "bool", Text |-> "text"][column], v.is)

ArrowOf(column) == [Integer |-> "Int64", Number |-> "Float64", Boolean |-> "Boolean", Text |-> "Utf8"][column]

-----------------------------------------------------------------------------
(* GeoPackage: a declared type, its affinity, and cells of any storage class *)

\* schema::recognized_declared_type, of those tried
Recognized == {"BOOLEAN", "INTEGER", "REAL", "TEXT", "BLOB", "DATE"}

\* schema::sqlite_declared_to_arrow; the others tried are VARCHAR and DECIMAL.
SqliteDeclaredToArrow(declared) ==
  CASE declared \in {"BOOLEAN", "INTEGER"} -> "Int64"
    [] declared = "REAL" -> "Float64"
    [] declared = "BLOB" -> "Binary"
    [] OTHER -> "Utf8"

\* sqlite_type
SqliteType(type) ==
  CASE type \in {"Int64", "UInt64", "Boolean"} -> "INTEGER"
    [] type \in {"Float16", "Float64"} -> "REAL"
    [] type = "Binary" -> "BLOB"
    [] OTHER -> "TEXT"

\* SQLite, external: what a column keeps of a value put into it.
Affinity(declared) ==
  CASE declared \in {"INTEGER", "REAL", "BLOB"} -> declared
    [] declared \in {"TEXT", "VARCHAR"} -> "TEXT"
    [] OTHER -> "NUMERIC"

Literal(what) == CASE what \in Finite -> what [] what = "01" -> "1" [] OTHER -> Unsaid

Stored(declared, v) ==
  LET affinity == Affinity(declared)
      n == IF v.kind = "text" THEN Literal(v.is) ELSE v.is
  IN  CASE v.kind \in {"null", "blob"} \/ n = Unsaid \/ affinity = "BLOB" -> v
        [] v.kind \notin {"null", "blob"} /\ n # Unsaid /\ affinity = "TEXT" -> Value("text", v.is)
        [] v.kind \notin {"null", "blob"} /\ n # Unsaid /\ affinity = "REAL" ->
             Value("real", IF n = "-0" THEN "0" ELSE AsF64(n))
        [] v.kind \notin {"null", "blob"} /\ n # Unsaid /\ affinity \in {"INTEGER", "NUMERIC"} ->
             IF n \in InI64 \cup {"-0"} THEN Value("int", AsI64(n)) ELSE Value("real", AsF64(n))

TakenCell(v, lossy) == [cell |-> v, told |-> lossy]

\* ColBuilder::append: the cell of the batch, and whether a coercion is reported.
ColBuilderAppend(type, v) ==
  CASE type = "Int64" /\ v.kind = "real" ->
         IF v.is \in {"inf", "nan"} THEN TakenCell(NullValue, TRUE)
         ELSE TakenCell(Value("int", AsI64(v.is)), AsI64(v.is) # v.is)
    [] type = "Int64" /\ v.kind # "real" ->
         IF v.kind = "int" THEN TakenCell(v, FALSE) ELSE TakenCell(NullValue, v.kind # "null")
    [] type = "Float64" ->
         (CASE v.kind = "real" -> TakenCell(v, FALSE)
            [] v.kind = "int" -> TakenCell(Value("real", AsF64(v.is)), v.is \notin Narrow \/ v.is = "pow")
            [] v.kind \notin {"int", "real"} -> TakenCell(NullValue, v.kind # "null"))
    [] type = "Utf8" ->
         (CASE v.kind = "text" /\ v.is = "broken" -> TakenCell(Value("text", "replaced"), TRUE)
            [] v.kind \in {"int", "real"} \/ (v.kind = "text" /\ v.is # "broken") -> TakenCell(Value("text", v.is), FALSE)
            [] v.kind \in {"null", "blob"} -> TakenCell(NullValue, v.kind = "blob"))
    [] type = "Binary" ->
         IF v.kind = "blob" THEN TakenCell(v, FALSE) ELSE TakenCell(NullValue, v.kind # "null")

\* arrow_cell_to_sql_ref, real_to_sql_ref
ArrowCellToSql(type, v) ==
  CASE v.kind = "null" \/ type \in {"Int64", "Utf8", "LargeUtf8", "Binary"} -> v
    [] v.kind # "null" /\ type = "UInt64" -> IF v.is \in InI64 THEN v ELSE Denial
    [] v.kind # "null" /\ type \in {"Float16", "Float64"} -> IF v.is \in Finite \ {"-0"} THEN v ELSE Denial
    [] v.kind # "null" /\ type = "Boolean" -> Value("int", IF v.is = "true" THEN "1" ELSE "0")
    [] OTHER -> Denial

\* Mutant: a text that DATE would store as a number is accepted.
AffinityAnything(declared, v) == TRUE

\* affinity::validate_value
AffinityKeeps(declared, v) == ~(declared = "DATE" /\ v.kind = "text" /\ Literal(v.is) # Unsaid)

-----------------------------------------------------------------------------
(* DBF: the encoding of its texts, its fields and their bytes *)

High == {"80", "81", "a9", "c3a9"}

\* external: what bytes say in an encoding; "undefined" where it gives them no meaning.
Says(encoding, bytes) ==
  CASE (bytes = "81" /\ encoding = "1252") \/ (bytes \in High /\ encoding = "ascii") -> "undefined"
    [] bytes \in {"80", "81", "a9"} /\ encoding = "utf8" -> "undefined"
    [] bytes = "c3a9" /\ encoding # "ascii" -> IF encoding = "utf8" THEN "accent" ELSE "two marks"
    [] bytes = "80" /\ encoding \notin {"ascii", "utf8"} -> IF encoding = "1252" THEN "euro" ELSE "control 80"
    [] bytes = "81" /\ encoding \in {"latin1", "ansi"} -> "control 81"
    [] bytes = "a9" /\ encoding \notin {"ascii", "utf8"} -> "copyright"
    [] OTHER -> bytes

\* TextEncoding::from_ldid
FromLdid(ldid) == [none |-> "ascii", x57 |-> "ansi", x03 |-> "1252", xf0 |-> "utf8", other |-> Denial][ldid]

\* TextEncoding::from_path
FromPath(cpg, ldid) ==
  CASE cpg = Unsaid -> FromLdid(ldid)
    [] cpg = "unknown" \/ (cpg # Unsaid /\ ldid \notin {"none", "x57"} /\ FromLdid(ldid) # cpg) -> Denial
    [] cpg \notin {Unsaid, "unknown"} /\ (ldid \in {"none", "x57"} \/ FromLdid(ldid) = cpg) -> cpg

\* TextEncoding::decode
Decode(encoding, bytes) ==
  IF (encoding = "ansi" /\ bytes \in {"80", "81"}) \/ Says(encoding, bytes) = "undefined"
  THEN Denial ELSE Says(encoding, bytes)

\* dbf_fidelity::numeric, decimal_key: the f64 says the same decimal.
Numeric(raw) ==
  CASE raw \in {"blank", "stars"} -> NullValue
    [] raw \in Finite /\ AsF64(raw) = raw -> Value("real", raw)
    [] OTHER -> Denial

Field(type, exact) == [type |-> type, exact |-> exact]

\* raw_value, the exact integers of next_physical, and dbase for logicals and dates:
\* the value of a field.
FieldValue(field, encoding, raw) ==
  CASE field.type = "C" ->
         IF raw \in {"blank", "nuls"} THEN NullValue
         ELSE IF raw = "nul" \/ Decode(encoding, raw) = Denial THEN Denial
         ELSE Value("text", Decode(encoding, raw))
    [] field.exact ->
         IF raw = "blank" THEN NullValue ELSE IF raw \in InI64 THEN Value("int", raw) ELSE Denial
    [] field.type \in {"N", "F"} /\ ~field.exact -> Numeric(raw)
    [] field.type = "L" -> IF raw = "blank" THEN NullValue ELSE Value("bool", raw)
    [] field.type = "D" -> IF raw = "blank" THEN NullValue ELSE Value("text", raw)

\* DbfKind::from
DbfKind(type) ==
  CASE type \in {"Int64", "UInt64"} -> Field("N", TRUE)
    [] type \in {"Float16", "Float64"} -> Field("N", FALSE)
    [] type = "Boolean" -> Field("L", FALSE)
    [] OTHER -> Field("C", FALSE)

\* cell_to_field: the bytes of a field.  18 digits for integers, 20 with 8 decimals for
\* the others, and every digit must be there; a text must not end where DBF trims it.
CellToField(type, v) ==
  LET json == JsonFromArray(type, v)
      field == DbfKind(type)
  IN  CASE json = Denial -> Denial
        [] json # Denial /\ json.kind = "null" -> "blank"
        [] json # Denial /\ json.kind = "text" ->
             IF json.is \in {"", "padded", "nul", "oversized"} THEN Denial ELSE json.is
        [] json # Denial /\ json.kind = "bool" -> json.is
        [] json # Denial /\ json.kind \in {"int", "real"} ->
             IF json.is \in (IF field.exact THEN {"0", "1", "pow"} ELSE {"0", "-0", "1", "1.5"}) THEN json.is ELSE Denial

\* The accumulator of a field starts from its type (infer_shp_schema); classify
DbfColumn(field, values) ==
  LET declared == IF field.exact THEN "int" ELSE [N |-> "frac", F |-> "frac", L |-> "bool", C |-> "text", D |-> "text"][field.type]
  IN  TypeOfColumn({declared} \cup {JsonClass(values[i]) : i \in DOMAIN values})

-----------------------------------------------------------------------------
(* What may be in the files *)

\* Bytes that are no UTF-8, and the bytes of a field that are no text, have names of their own.
Texts == Whats \ (High \cup {"broken", "blank", "nuls", "stars", "undefined"})

ArrowTypes == {"Boolean", "Int64", "UInt64", "Float16", "Float64", "Utf8", "LargeUtf8", "Binary",
          "Date64", "Time64", "Duration", "Decimal128", "List"}

ArrowValues(type) ==
  {NullValue} \cup
  CASE type = "Boolean" -> Of("bool", {"true", "false"})
    [] type = "Int64" -> Of("int", InI64)
    [] type = "UInt64" -> Of("int", InI64 \cup {"huge"})
    [] type \in {"Float16", "Float64"} -> Of("real", Floats)
    [] type \in {"Utf8", "LargeUtf8"} -> Of("text", Texts)
    [] type = "Binary" -> Of("blob", Whats)
    [] type \in {"Date64", "Time64", "Duration"} -> Of("day", Whats)
    [] type = "Decimal128" -> Of("decimal", Whats)
    [] type = "List" -> Of("list", Whats)

StorageValues ==
  {NullValue} \cup Of("blob", Whats) \cup Of("int", InI64) \cup Of("real", Floats) \cup Of("text", Texts \cup {"broken"})

Charsets  == {"ascii", "latin1", "1252", "utf8", "unknown"}
Ldids     == {"none", "x57", "x03", "xf0", "other"}
DbfFields == {Field("C", FALSE), Field("N", TRUE), Field("N", FALSE), Field("F", FALSE), Field("L", FALSE), Field("D", FALSE)}

FieldBytes(field) ==
  CASE field.type = "C" -> (Whats \cup High \cup {"blank", "nuls"}) \ {"stars", "broken"}
    [] field.type \in {"N", "F"} -> Whats \cup {"blank", "stars"}
    [] field.type = "L" -> {"blank", "true", "false"}
    [] field.type = "D" -> {"blank"} \cup (Texts \ {""})

IsOrigin(o) ==
  /\ o.nullable \in BOOLEAN
  /\ \/ o.file = "arrow" /\ o.type \in ArrowTypes /\ o.raw \in Seq(ArrowValues(o.type))
     \/ o.file = "gpkg" /\ o.raw \in Seq(StorageValues)
     \/ /\ o.file = "shp" /\ o.cpg \in Charsets \cup {Unsaid} /\ o.ldid \in Ldids
        /\ o.field \in DbfFields /\ o.raw \in Seq(FieldBytes(o.field))

ASSUME AttributeAssumption ==
  /\ Denial \notin CellContents \cup Whats \cup Charsets \cup {"ansi"}
  /\ Unsaid \notin Whats \cup Charsets
  /\ \A o \in Origins : IsOrigin(o)
  /\ Destinations \subseteq {"csv", "geojson", "gpkg", "shp", "xls"}

-----------------------------------------------------------------------------
(* The path *)

VARIABLES
  source,       (* the column as its file has it                        *)
  batch_column, (* [type, declared, nullable] of the batches            *)
  batch_cells,  (* their values                                         *)
  told,         (* the cells whose reading reported a loss              *)
  written_as, promised,   (* the format, and what the plan announces    *)
  file_cells,   (* the cells of the file that was written               *)
  back,         (* those cells, read                                    *)
  cell_stage    (* "file", "batch", "plan", "stored", "back", or how it ended *)

attributeVars == <<source, batch_column, batch_cells, told, written_as, promised, file_cells, back, cell_stage>>

AttributesInit ==
  /\ source \in Origins /\ batch_column = Unsaid /\ batch_cells = << >> /\ told = {}
  /\ written_as \in Destinations /\ promised = {} /\ file_cells = << >> /\ back = << >> /\ cell_stage = "file"

NoneDenied(s) == \A i \in DOMAIN s : s[i] # Denial

BatchColumn(type, declared, nullable) == [type |-> type, declared |-> declared, nullable |-> nullable]

-----------------------------------------------------------------------------
(* Reading *)

\* The values of a DBF field and the type of its column.
Encoding == FromPath(source.cpg, source.ldid)
FromDbf(field, encoding, raw) == [i \in DOMAIN raw |-> FieldValue(field, encoding, raw[i])]

ReadGpkg ==
  /\ cell_stage = "file" /\ source.file = "gpkg"
  /\ LET type  == SqliteDeclaredToArrow(source.declared)
         taken == [i \in DOMAIN source.raw |-> ColBuilderAppend(type, source.raw[i])]
     IN  /\ batch_column' = BatchColumn(type, IF source.declared \in Recognized THEN source.declared ELSE Unsaid, source.nullable)
         /\ batch_cells' = [i \in DOMAIN taken |-> taken[i].cell]
         /\ told' = {i \in DOMAIN taken : taken[i].told}
         /\ cell_stage' = "batch"
  /\ UNCHANGED <<source, written_as, promised, file_cells, back>>

ReadShp ==
  /\ cell_stage = "file" /\ source.file = "shp"
  /\ LET values == FromDbf(source.field, Encoding, source.raw)
     IN  IF Encoding = Denial \/ ~NoneDenied(values)
         THEN cell_stage' = "not read" /\ UNCHANGED <<batch_column, batch_cells>>
         ELSE /\ batch_column' = BatchColumn(ArrowOf(DbfColumn(source.field, values)), Unsaid, TRUE)
              /\ batch_cells' = values /\ cell_stage' = "batch"
  /\ UNCHANGED <<source, told, written_as, promised, file_cells, back>>

\* The readers of Arrow keep every type and value.
ReadArrow ==
  /\ cell_stage = "file" /\ source.file = "arrow"
  /\ batch_column' = BatchColumn(source.type, source.declared, source.nullable)
  /\ batch_cells' = source.raw /\ cell_stage' = "batch"
  /\ UNCHANGED <<source, told, written_as, promised, file_cells, back>>

-----------------------------------------------------------------------------
(* The plan *)

Scalar == {"Boolean", "SignedInteger", "UnsignedInteger", "Floating", "Utf8", "Binary", "Temporal", "Decimal"}

\* FormatWriteCapabilities.allowed_types
AllowedTypes == [csv |-> Scalar \ {"Binary", "Decimal"}, gpkg |-> Scalar \ {"Temporal", "Decimal"},
                 geojson |-> Scalar, shp |-> Scalar, xls |-> Scalar]

\* FormatWriteCapabilities.type_coercion, nullability, field_names
RejectsCoercion == {"csv", "geojson", "gpkg"}
FormatDefinedNulls == {"csv", "gpkg", "shp", "xls"}
FoldsNames == {"shp"}

\* validate_write, the names: their length, their characters, and no two the same.
NamesRefused(d, names) ==
  \/ d = "shp" /\ \E i \in DOMAIN names : Names[names[i]].long \/ ~Names[names[i]].ascii
  \/ \E i, j \in DOMAIN names :
       /\ i # j
       /\ IF d \in FoldsNames THEN Names[names[i]].folded = Names[names[j]].folded ELSE names[i] = names[j]

\* validate_write, the types
TypeRefused(d, type) == ArrowTypeClass(type) \notin AllowedTypes[d] /\ d \in RejectsCoercion

\* normalizza_tipo
NormalizesType(d, type) ==
  \/ d = "csv" /\ type # "Utf8"
  \/ d = "gpkg" /\ type \notin {"Int64", "Float64", "Utf8", "Binary"}

\* planned_write_loss and assess_write_contract, for the column
Announced(d, c) ==
  {w \in {"type", "nullability"} :
     CASE w = "type" -> NormalizesType(d, c.type) \/ (ArrowTypeClass(c.type) \notin AllowedTypes[d] /\ d \notin RejectsCoercion)
       [] w = "nullability" -> c.nullable /\ d \in FormatDefinedNulls}

\* schema::validate_sqlite_metadata
MetadataRefused(d, c) ==
  d = "gpkg" /\ c.declared # Unsaid /\ (c.declared \notin Recognized \/ SqliteDeclaredToArrow(c.declared) # c.type)

\* external: SQLite has no table with two columns of one name.
TableRefused(d, names) == d = "gpkg" /\ \E i, j \in DOMAIN names : i # j /\ Names[names[i]].folded = Names[names[j]].folded

Plan ==
  /\ cell_stage = "batch"
  /\ IF \/ NamesRefused(written_as, <<"a", source.beside>>) \/ TypeRefused(written_as, batch_column.type)
        \/ MetadataRefused(written_as, batch_column) \/ TableRefused(written_as, <<"a", source.beside>>)
     THEN cell_stage' = "not planned" /\ UNCHANGED promised
     ELSE cell_stage' = "plan" /\ promised' = Announced(written_as, batch_column)
  /\ UNCHANGED <<source, batch_column, batch_cells, told, written_as, file_cells, back>>

-----------------------------------------------------------------------------
(* Writing *)

\* driver-csv write_cell: a text is quoted, whatever it is.
WriteCsvCell(type, v) ==
  IF v.kind = "null" THEN [quoted |-> FALSE, text |-> ""]
  ELSE IF type = "LargeUtf8" THEN [quoted |-> TRUE, text |-> v.is]
  ELSE LET json == JsonFromArray(type, v)
       IN  IF json = Denial THEN Denial ELSE [quoted |-> json.kind = "text", text |-> json.is]

\* driver-xls write_cell: null is no cell at all, and a number is an f64.
WriteXlsCell(type, v) ==
  LET json == JsonFromArray(type, v)
  IN  IF \/ json = Denial
         \/ json.kind = "int" /\ json.is \notin Narrow
         \/ json.kind = "text" /\ json.is = "unkept"
      THEN Denial
      ELSE IF json.kind = "int" THEN Value("real", json.is) ELSE json

DeclaredInFile(column) == IF column.declared # Unsaid THEN column.declared ELSE SqliteType(column.type)

\* execute_insert_row
InsertedCell(column, v) ==
  LET bound == ArrowCellToSql(column.type, v)
  IN  IF bound = Denial \/ ~AffinityKeeps(DeclaredInFile(column), bound) THEN Denial ELSE Stored(DeclaredInFile(column), bound)

Written(d, column, v) ==
  CASE d = "csv" -> WriteCsvCell(column.type, v)
    [] d = "geojson" -> JsonFromArray(column.type, v)
    [] d = "gpkg" -> InsertedCell(column, v)
    [] d = "shp" -> CellToField(column.type, v)
    [] d = "xls" -> WriteXlsCell(column.type, v)

\* The XLSX library may leave out the cell of an empty text.
MayBeDropped(d, v) == d = "xls" /\ v # Denial /\ v = Value("text", "")
Dropped(d, v) == IF MayBeDropped(d, v) THEN NullValue ELSE v

WriteCells ==
  /\ cell_stage = "plan"
  /\ LET written == [i \in DOMAIN batch_cells |-> Written(written_as, batch_column, batch_cells[i])]
     IN  IF ~NoneDenied(written) THEN cell_stage' = "not written" /\ UNCHANGED file_cells
         ELSE /\ file_cells' \in {written, [i \in DOMAIN written |-> Dropped(written_as, written[i])]}
              /\ cell_stage' = "stored"
  /\ UNCHANGED <<source, batch_column, batch_cells, told, written_as, promised, back>>

-----------------------------------------------------------------------------
(* Reading back *)

\* driver-csv classify, of a field that may be quoted: a number that is written as
\* Rust writes it, and not an integer past i64.
CsvClass(c) ==
  CASE c.quoted -> "text"
    [] ~c.quoted /\ c.text = "" -> "null"
    [] ~c.quoted /\ c.text \in {"true", "false"} -> "bool"
    [] ~c.quoted /\ c.text \in InI64 -> IF c.text \in Narrow THEN "int" ELSE "wide"
    [] ~c.quoted /\ c.text \in {"1.5", "tiny", "vast"} -> "frac"
    [] OTHER -> "text"

\* driver-xls classify_data: an XLSX number is a Float.
XlsClass(v) == IF v.kind = "real" THEN "frac" ELSE v.kind

\* The class of a cell of a file, its value, and what the builder of a column does with it.
ReadClass(d, c) == CASE d = "csv" -> CsvClass(c) [] d = "geojson" -> JsonClass(c) [] d = "xls" -> XlsClass(c)
ReadValue(d, c) == IF d # "csv" THEN c ELSE IF CsvClass(c) = "null" THEN NullValue ELSE Value("text", c.text)
ReadFate(d, type, class) == IF d = "csv" THEN AppendCell(type, class) ELSE AppendJson(type, class)

Inferred(d, cells) ==
  LET type == TypeOfColumn({ReadClass(d, cells[i]) : i \in DOMAIN cells})
  IN  [i \in DOMAIN cells |-> Built(type, ReadValue(d, cells[i]), ReadFate(d, type, ReadClass(d, cells[i])))]

ReadBack(d, column, cells) ==
  CASE d \in {"csv", "geojson", "xls"} -> Inferred(d, cells)
    [] d = "gpkg" -> [i \in DOMAIN cells |-> ColBuilderAppend(SqliteDeclaredToArrow(DeclaredInFile(column)), cells[i]).cell]
    [] d = "shp" -> FromDbf(DbfKind(column.type), "utf8", cells)

Reread ==
  /\ cell_stage = "stored"
  /\ LET values == ReadBack(written_as, batch_column, file_cells)
     IN  IF NoneDenied(values) THEN back' = values /\ cell_stage' = "back"
         ELSE cell_stage' = "not read back" /\ UNCHANGED back
  /\ UNCHANGED <<source, batch_column, batch_cells, told, written_as, promised, file_cells>>

AttributesEnded ==
  /\ cell_stage \in {"not read", "not planned", "not written", "not read back", "back"}
  /\ UNCHANGED attributeVars

AttributesNext == ReadGpkg \/ ReadShp \/ ReadArrow \/ Plan \/ WriteCells \/ Reread \/ AttributesEnded

AttributesSpec == AttributesInit /\ [][AttributesNext]_attributeVars

-----------------------------------------------------------------------------
(* Every value the file's cell may have been meant to hold.  A DBF says its    *)
(* encoding in a .cpg or a byte, and 0x57 says no more than "ANSI".            *)
Encodings(o) ==
  IF o.ldid \in {"x03", "xf0"} THEN {FromLdid(o.ldid)} \cup ({o.cpg} \ {Unsaid})
  ELSE IF o.cpg # Unsaid THEN {o.cpg}
  ELSE IF o.ldid = "x57" THEN {"latin1", "1252"} ELSE {"ascii"}

Meant(o, raw) ==
  IF o.file # "shp" THEN {raw}
  ELSE IF raw \in {"blank", "nuls", "stars"} THEN {NullValue}
  ELSE IF o.field.type = "C" THEN {Value("text", Says(e, raw)) : e \in Encodings(o)}
  ELSE {Value(IF o.field.type = "L" THEN "bool" ELSE "number", raw)}

\* b is a, but for what the plan has announced: a bool kept as 1 or 0, no text kept as null.
Keeps(announced, a, b) ==
  \/ a.kind = "null" /\ b.kind = "null"
  \/ a = Value("text", "") /\ b.kind = "null" /\ "nullability" \in announced
  \/ /\ a.kind # "null" /\ b.kind # "null"
     /\ a.is = b.is \/ ("type" \in announced /\ <<a, b.is>> \in {<<Value("bool", "true"), "1">>, <<Value("bool", "false"), "0">>})
     /\ a.kind = "text" => b.kind = "text"

(* A conversion that succeeds, read back, has in every cell the value the      *)
(* source's cell held in every encoding its file may mean: null where it was   *)
(* null, the same number or text elsewhere, and no text become a number,       *)
(* unless the reader reported that cell or the plan announced the change.      *)
(* What was written can be read, and no two columns of it have one name        *)
(* (ColBuilder::append, cell_to_field, write_cell, dbf_fidelity).              *)
CellsComeBack ==
  /\ cell_stage = "back" =>
       \A i \in DOMAIN back \ told : \A v \in Meant(source, source.raw[i]) : Keeps(promised, v, back[i])
  /\ cell_stage \in {"stored", "back", "not read back"} =>
       /\ cell_stage # "not read back"
       /\ written_as \in {"shp", "gpkg"} => Names["a"].folded # Names[source.beside].folded

=============================================================================

------------------------- MODULE ShapefileStructure --------------------------
(***************************************************************************)
(* What driver-shp looks at in a .shp, a .shx and a .dbf before it hands   *)
(* them to the crates shapefile and dbase, which trust the numbers in a    *)
(* file: they reserve as many elements as it declares, double its lengths  *)
(* in 32 bits, and cut its fields where a type wants them.                 *)
(*                                                                         *)
(* A .shp and a .shx are a declared length and the cells after the header. *)
(* The header, the head of a record, its tag, a count, an index of a part  *)
(* and a point are one cell each, and an entry of the .shx two.            *)
(***************************************************************************)
EXTENDS Integers, Sequences, FiniteSets, Totals

CONSTANTS
  Absent,      (* no file at the path                                      *)
  MaxWords,    (* SHP_MAX_PAROLE: a greater length overflows when doubled  *)
  ShapeFiles,  (* the pairs of a .shp and its .shx tried, [shp, shx]       *)
  TableFiles   (* the .dbf tried                                           *)

Streams == [declared : Int, cells : Seq(Int)]
Descriptors == [type : STRING, width : Nat, name : STRING]
Tails == {"none", "eof", "byte", "more", "cut"}

\* The words of a .shp and a .shx have a sign, the counts, offsets and widths of a .dbf have none.
ASSUME StructureAssumption ==
  /\ MaxWords \in Nat /\ Absent \notin Streams
  /\ \A s \in ShapeFiles : s.shp \in Streams /\ s.shx \in Streams \cup {Absent}
  /\ \A t \in TableFiles :
       /\ {t.version, t.first, t.count, t.length} \subseteq Nat
       /\ t.cells \in Seq(Descriptors) /\ t.tail \in Tails
       /\ t.rows \in Seq([mark : {"active", "deleted"}, values : Seq(STRING)])

VARIABLES
  opened,      (* [shp, shx] or [dbf]: the files, as the driver finds them *)
  checked,     (* "new", "refused", "admitted", "laid out", "read"         *)
  fault,       (* of the refusal                                           *)
  end          (* how the crate's reading ended: "end", "error" or "panic" *)

structureVars == <<opened, checked, fault, end>>

Header == 1
TableHeader == 2      (* and a descriptor is two bytes, the terminator one *)
DescriptorSize == 2
Backlink == 3
FoxPro == {48, 49, 50}

Size(f) == Header + Len(f.cells)

\* The cells at an offset, as many as there are.
At(f, offset, n) == SubSeq(f.cells, offset, IF offset + n - 1 <= Len(f.cells) THEN offset + n - 1 ELSE Len(f.cells))

ConteggiAttesi(tag) ==
  CASE tag \in {8, 18, 28} -> "points"
    [] tag \in {3, 5, 13, 15, 23, 25, 31} -> "parts"
    [] OTHER -> "none"

\* What a record says it holds, after the tag: no counts is a pair of zeros.
Counts(content) ==
  CASE ConteggiAttesi(content[1]) = "points" /\ Len(content) >= 2 -> <<2, 0, content[2]>>
    [] ConteggiAttesi(content[1]) = "parts" /\ Len(content) >= 3 -> <<3, content[2], content[3]>>
    [] ConteggiAttesi(content[1]) = "none" -> <<1, 0, 0>>
    [] OTHER -> << >>

\* conteggi_del_record
CountsFit(counts, length) ==
  /\ counts # << >> /\ counts[2] >= 0 /\ counts[3] >= 0
  /\ counts[1] + counts[2] + counts[3] <= length

\* valida_indice_delle_parti
PartsInOrder(starts, points) ==
  \A i \in DOMAIN starts :
    /\ starts[i] <= points
    /\ starts[i] >= IF i = 1 THEN 0 ELSE starts[i - 1]

\* valida_contenuto_del_record: the reads stay in the file.
ContentHolds(f, offset, length) ==
  LET head == At(f, offset + 1, IF length < 3 THEN length ELSE 3)
      counts == Counts(head)
      starts == At(f, offset + 4, counts[2])
  IN /\ Len(head) = IF length < 3 THEN length ELSE 3
     /\ CountsFit(counts, length)
     /\ counts[2] > 0 => Len(starts) = counts[2] /\ PartsInOrder(starts, counts[3])

\* byte_utili_dichiarati
DeclaredHolds(f) == f.declared \in Header .. MaxWords /\ f.declared <= Size(f)

\* Where the records begin, each as far on as the one before it is long, and where the last leads.
Heads(f) ==
  LET from[offset \in Nat] ==
        IF offset < f.declared /\ offset <= Len(f.cells) /\ f.cells[offset] \in 1 .. MaxWords
        THEN {offset} \cup from[offset + 1 + f.cells[offset]] ELSE {offset}
  IN  from[Header]

RecordHolds(f, offset) ==
  offset >= f.declared \/
    /\ offset \in DOMAIN f.cells
    /\ f.cells[offset] \in 1 .. MaxWords
    /\ offset + 1 + f.cells[offset] <= f.declared
    /\ ContentHolds(f, offset, f.cells[offset])

\* valida_geometrie_shp
RecordsHold(f) == \A offset \in Heads(f) : RecordHolds(f, offset)

Entries(x) == (x.declared - Header) \div 2
Entry(x, i) == <<x.cells[2 * i - 1], x.cells[2 * i]>>

\* valida_indice_shx: every entry leads to the head of a record that holds.
IndexHolds(x, f) ==
  x = Absent \/
    /\ DeclaredHolds(x) /\ (x.declared - Header) % 2 = 0
    /\ \A i \in 1 .. Entries(x) : LET entry == Entry(x, i) IN
         /\ entry[1] \in Header .. MaxWords /\ entry[2] \in 1 .. MaxWords
         /\ entry[1] + 1 + entry[2] <= f.declared
         /\ f.cells[entry[1]] = entry[2]
         /\ ContentHolds(f, entry[1], entry[2])

StructureHolds(f, x) == DeclaredHolds(f) /\ RecordsHold(f) /\ IndexHolds(x, f)

-----------------------------------------------------------------------------
(* The crate shapefile *)

Worst(ends) == IF "panic" \in ends THEN "panic" ELSE IF "error" \in ends THEN "error" ELSE "end"

\* As many elements as declared are reserved before any is read, and a part
\* is read as the difference of two entries; the reads follow the stream.
CrateShape(f, offset) ==
  LET counts == Counts(At(f, offset + 1, 3))
      starts == At(f, offset + 4, counts[2])
      lengths == [i \in DOMAIN starts |-> (IF i = Len(starts) THEN counts[3] ELSE starts[i + 1]) - starts[i]]
  IN CASE offset + 1 > Len(f.cells) -> "error"
       [] offset + 1 <= Len(f.cells) /\ counts = << >> -> "error"
       [] OTHER ->
            IF \E i \in {2, 3} : counts[i] \notin 0 .. Size(f) THEN "panic"
            ELSE IF Len(starts) < counts[2] THEN "error"
            ELSE IF \E i \in DOMAIN lengths : lengths[i] \notin 0 .. Size(f) THEN "panic" ELSE "end"

\* A length beyond MaxWords overflows where it is doubled.
CrateRecord(f, offset) ==
  CASE offset >= f.declared -> "end"
    [] offset < f.declared /\ offset \notin DOMAIN f.cells -> "error"
    [] OTHER -> IF f.cells[offset] > MaxWords THEN "panic"
                ELSE IF f.cells[offset] < 1 THEN "error" ELSE CrateShape(f, offset)

CrateWalk(f) == Worst({CrateRecord(f, offset) : offset \in Heads(f)})

CrateSeek(f, offset) ==
  CASE offset > MaxWords -> "panic"
    [] offset <= MaxWords /\ offset \notin DOMAIN f.cells -> "error"
    [] OTHER -> IF f.cells[offset] > MaxWords THEN "panic" ELSE CrateShape(f, offset)

\* With an index the crate seeks its entries; without it, it walks.
CrateReads(f, x) ==
  IF f.declared > MaxWords THEN "panic"
  ELSE IF x = Absent THEN CrateWalk(f)
  ELSE IF x.declared \notin Header .. MaxWords THEN "panic"
  ELSE Worst({IF 2 * i > Len(x.cells) THEN "error" ELSE CrateSeek(f, Entry(x, i)[1]) : i \in 1 .. Entries(x)})

-----------------------------------------------------------------------------
(* A .dbf is [version, first, cells, count, length, rows, tail]: the declared *)
(* offset of the first record, number and length of the records, the cells of *)
(* the header, and what follows the first record's offset: rows, and a tail   *)
(* "none", "eof" (0x1A), "byte", "more" or "cut", the last row being short.   *)
(* A row is [mark, values], a value of a field its class.                     *)

Terminator == [type |-> "end", width |-> 0, name |-> "end"]

FoxProFirst(t) == IF t.version \in FoxPro THEN t.first - Backlink ELSE t.first

DescriptorsOf(useful) == (useful - TableHeader - 1) \div DescriptorSize
FieldsOf(t) == SubSeq(t.cells, 1, DescriptorsOf(FoxProFirst(t)))

\* The deletion flag and the widths.
StepOf(fields) == 1 + Total([i \in DOMAIN fields |-> fields[i].width], Len(fields))

\* lunghezza_minima_del_campo
MinimumWidth(type) ==
  CASE type = "L" -> 1 [] type = "I" -> 4 [] type \in {"D", "Y", "B", "T"} -> 8 [] OTHER -> 0

WholeRows(t) == IF t.tail = "cut" THEN Len(t.rows) - 1 ELSE Len(t.rows)

TailSize(t) == CASE t.tail \in {"eof", "byte"} -> 1 [] t.tail = "more" -> 2 [] t.tail = "cut" -> -1 [] OTHER -> 0
SizeOf(t) == t.first + Len(t.rows) * StepOf(FieldsOf(t)) + TailSize(t)

\* valida_fine_del_dbf, from where valida_intestazione_dbf says it starts.
Surplus(t) == SizeOf(t) - (FoxProFirst(t) + t.count * StepOf(FieldsOf(t)))
EndHolds(t) == Surplus(t) <= 0 \/ (Surplus(t) = 1 /\ t.tail = "eof")

\* data_non_interpretabile and data_e_ora_non_convertibili, by the value's class.
Decodable(type, value) ==
  CASE type = "D" -> value \in {"blank", "digits"} [] type = "T" -> value # "overflow" [] OTHER -> TRUE

RowHolds(fields, row) == \A i \in DOMAIN fields : Decodable(fields[i].type, row.values[i])

Smaller(m, n) == IF m < n THEN m ELSE n

\* Mutant: what a deleted record holds is not looked at.
TemporalHoldsUndeleted(t) ==
  \A i \in 1 .. Smaller(t.count, WholeRows(t)) : t.rows[i].mark = "deleted" \/ RowHolds(FieldsOf(t), t.rows[i])

\* valida_i_valori_temporali: the declared records, the deleted ones too.
TemporalHolds(t) == \A i \in 1 .. Smaller(t.count, WholeRows(t)) : RowHolds(FieldsOf(t), t.rows[i])

\* valida_intestazione_dbf up to the descriptors.
HeaderHolds(t) ==
  /\ FoxProFirst(t) >= TableHeader + 1
  /\ DescriptorsOf(FoxProFirst(t)) < Len(t.cells)
  /\ t.cells[DescriptorsOf(FoxProFirst(t)) + 1] = Terminator
  /\ \A i \in DOMAIN FieldsOf(t) : FieldsOf(t)[i].width >= MinimumWidth(FieldsOf(t)[i].type)

\* read_dbf_layout after dbase has opened the file: only the version 0x30 has
\* a backlink here.
DescriptorEnd(t) == IF t.version = 48 THEN t.first - Backlink ELSE t.first

\* leggi_descrittori_dbf
DescriptorsHold(fields) ==
  /\ \A i \in DOMAIN fields : fields[i].name # "" /\ fields[i].width > 0
  /\ \A i, j \in DOMAIN fields : fields[i].name = fields[j].name => i = j

LayoutHolds(t) ==
  /\ DescriptorEnd(t) >= TableHeader + 1
  /\ (DescriptorEnd(t) - TableHeader - 1) % DescriptorSize = 0
  /\ DescriptorsOf(DescriptorEnd(t)) = Len(FieldsOf(t))
  /\ DescriptorsHold(FieldsOf(t))
  /\ t.length \in {StepOf(FieldsOf(t)), StepOf(FieldsOf(t)) - 1}

-----------------------------------------------------------------------------
(* The crate dbase *)

\* It subtracts the sizes from the declared offset and asserts the terminator.
CrateOpens(t) ==
  /\ FoxProFirst(t) >= TableHeader + 1
  /\ DescriptorsOf(FoxProFirst(t)) >= Len(t.cells) \/ t.cells[DescriptorsOf(FoxProFirst(t)) + 1] = Terminator

\* A deleted record is decoded, skipped, and not counted: the records read
\* may be beyond the declared ones.
CountedTo(t, i) == Cardinality({j \in 1 .. i : t.rows[j].mark # "deleted"})

CrateRows(t) ==
  IF \E i \in 1 .. WholeRows(t) : CountedTo(t, i - 1) < t.count /\ ~RowHolds(FieldsOf(t), t.rows[i]) THEN "panic"
  ELSE IF CountedTo(t, WholeRows(t)) < t.count THEN "error" ELSE "end"

CrateDecodes(t) ==
  IF \E i \in DOMAIN FieldsOf(t) : FieldsOf(t)[i].width < MinimumWidth(FieldsOf(t)[i].type) THEN "panic"
  ELSE CrateRows(t)

-----------------------------------------------------------------------------
(* infer_geometry_info and read_dbf_layout, and what the crates then do *)

StructureInit ==
  /\ opened \in {[shp |-> s.shp, shx |-> s.shx] : s \in ShapeFiles} \cup {[dbf |-> t] : t \in TableFiles}
  /\ checked = "new" /\ fault = "none" /\ end = "none"

OfShapes == "shp" \in DOMAIN opened
OfTable  == "dbf" \in DOMAIN opened

RefuseFile(why) == checked' = "refused" /\ fault' = why /\ UNCHANGED <<opened, end>>

\* valida_struttura_shp
CheckShapes ==
  /\ OfShapes /\ checked = "new"
  /\ IF StructureHolds(opened.shp, opened.shx)
     THEN checked' = "admitted" /\ UNCHANGED <<opened, fault, end>>
     ELSE RefuseFile("structure")

ReadShapes ==
  /\ OfShapes /\ checked = "admitted"
  /\ checked' = "read" /\ end' = CrateReads(opened.shp, opened.shx)
  /\ UNCHANGED <<opened, fault>>

\* valida_intestazione_dbf
CheckTable ==
  /\ OfTable /\ checked = "new"
  /\ IF ~HeaderHolds(opened.dbf) THEN RefuseFile("header")
     ELSE IF ~EndHolds(opened.dbf) THEN RefuseFile("end of file")
     ELSE IF ~TemporalHolds(opened.dbf) THEN RefuseFile("value")
     ELSE checked' = "admitted" /\ UNCHANGED <<opened, fault, end>>

\* The crate opens the file before the layout is read.
OpenTable ==
  /\ OfTable /\ checked = "admitted"
  /\ IF ~CrateOpens(opened.dbf) THEN checked' = "read" /\ end' = "panic" /\ UNCHANGED <<opened, fault>>
     ELSE IF ~LayoutHolds(opened.dbf) THEN RefuseFile("layout")
     ELSE checked' = "laid out" /\ UNCHANGED <<opened, fault, end>>

DecodeRecords ==
  /\ OfTable /\ checked = "laid out"
  /\ checked' = "read" /\ end' = CrateDecodes(opened.dbf)
  /\ UNCHANGED <<opened, fault>>

StructureEnded == checked \in {"refused", "read"} /\ UNCHANGED structureVars

StructureNext == CheckShapes \/ ReadShapes \/ CheckTable \/ OpenTable \/ DecodeRecords \/ StructureEnded

StructureSpec == StructureInit /\ [][StructureNext]_structureVars

-----------------------------------------------------------------------------
(* What is looked at is enough: a file that is admitted may still be refused  *)
(* by the crates, but they do not stop the process.                           *)
AdmittedFileIsSurvived == end # "panic"

(* Only what follows the records declared is beyond them: a table that ends   *)
(* with its last record, or with the 0x1A after it, is not refused for it.    *)
ExactEndIsAdmitted ==
  OfTable /\ fault = "end of file" =>
    ~(Len(opened.dbf.rows) = opened.dbf.count /\ opened.dbf.tail \in {"none", "eof"})
=============================================================================

----------------------------- MODULE DriverProofs -----------------------------
(***************************************************************************)
(* What holds of the drivers on files of every size: a shapefile that      *)
(* driver-shp admits does not stop the process in the crates that read it; *)
(* a worksheet that driver-xls accepts, and that has no cell below its     *)
(* frame, is read whole; a column of attributes that is read, written and  *)
(* read back has in every cell what it had; and the CRS of a layer is never*)
(* misread.                                                                *)
(***************************************************************************)
EXTENDS ShapefileStructure, SheetCells, AttributePath, CrsPath, FiniteSetTheorems, TLAPS

(* The .shp and the .shx *)

\* What is read of a sequence between two places.
LEMMA CutIs ==
  ASSUME NEW S, NEW s \in Seq(S), NEW from \in Nat \ {0}, NEW to \in Int, to <= Len(s)
  PROVE  /\ SubSeq(s, from, to) \in Seq(S)
         /\ Len(SubSeq(s, from, to)) = IF from <= to THEN to - from + 1 ELSE 0
         /\ DOMAIN SubSeq(s, from, to) = 1 .. Len(SubSeq(s, from, to))
         /\ \A i \in 1 .. to - from + 1 : SubSeq(s, from, to)[i] = s[from + i - 1]
<1>1. CASE from <= to
  <2>1. SubSeq(s, from, to) = [i \in 1 .. to - from + 1 |-> s[from + i - 1]]
    BY <1>1
  <2>2. \A i \in 1 .. to - from + 1 : s[from + i - 1] \in S
    BY <1>1
  <2> DEFINE n == to - from + 1
             cut == SubSeq(s, from, to)
  <2>3. n \in Nat /\ cut = [i \in 1 .. n |-> s[from + i - 1]] /\ \A i \in 1 .. n : s[from + i - 1] \in S
    BY <1>1, <2>1, <2>2
  <2>4. n = IF from <= to THEN to - from + 1 ELSE 0
    BY <1>1
  <2> HIDE DEF n, cut
  <2>5. cut \in Seq(S) /\ Len(cut) = n /\ DOMAIN cut = 1 .. n /\ \A i \in 1 .. n : cut[i] = s[from + i - 1]
    BY <2>3
  <2>6. \A i \in 1 .. to - from + 1 : i \in 1 .. n
    BY DEF n
  <2>7. cut \in Seq(S) /\ Len(cut) = (IF from <= to THEN to - from + 1 ELSE 0) /\ DOMAIN cut = 1 .. Len(cut)
    BY <2>4, <2>5
  <2>8. \A i \in 1 .. to - from + 1 : cut[i] = s[from + i - 1]
    BY <2>5, <2>6
  <2> QED BY <2>7, <2>8 DEF cut
<1>2. CASE ~(from <= to)
  BY <1>2
<1> QED BY <1>1, <1>2

\* The cells at an offset.
LEMMA AtIs ==
  ASSUME NEW f \in Streams, NEW offset \in Nat \ {0}, NEW n \in Nat
  PROVE  LET read == At(f, offset, n)
             last == IF offset + n - 1 <= Len(f.cells) THEN offset + n - 1 ELSE Len(f.cells)
         IN  /\ read \in Seq(Int) /\ Len(read) \in 0 .. n
             /\ Len(read) = IF offset <= last THEN last - offset + 1 ELSE 0
             /\ \A i \in 1 .. Len(read) : read[i] = f.cells[offset + i - 1]
<1> DEFINE last == IF offset + n - 1 <= Len(f.cells) THEN offset + n - 1 ELSE Len(f.cells)
<1>1. f.cells \in Seq(Int) /\ Len(f.cells) \in Nat
  BY DEF Streams
<1>2. last \in Int /\ last <= Len(f.cells) /\ last <= offset + n - 1
  BY <1>1
<1>3. At(f, offset, n) = SubSeq(f.cells, offset, last)
  BY DEF At
<1> HIDE DEF last
<1>4. /\ SubSeq(f.cells, offset, last) \in Seq(Int)
      /\ Len(SubSeq(f.cells, offset, last)) = IF offset <= last THEN last - offset + 1 ELSE 0
      /\ \A i \in 1 .. last - offset + 1 : SubSeq(f.cells, offset, last)[i] = f.cells[offset + i - 1]
  BY <1>1, <1>2, CutIs
<1>5. /\ At(f, offset, n) \in Seq(Int)
      /\ Len(At(f, offset, n)) = IF offset <= last THEN last - offset + 1 ELSE 0
      /\ \A i \in 1 .. last - offset + 1 : At(f, offset, n)[i] = f.cells[offset + i - 1]
  BY <1>3, <1>4
<1>6. Len(At(f, offset, n)) \in 0 .. n
  BY <1>2, <1>5
<1>7. \A i \in 1 .. Len(At(f, offset, n)) : i \in 1 .. last - offset + 1
  BY <1>2, <1>5
<1> QED BY <1>5, <1>6, <1>7 DEF last

\* Indexes of parts in order are none of them negative.
LEMMA OrderedPartsArePositive ==
  ASSUME NEW starts \in Seq(Int), NEW points \in Nat, PartsInOrder(starts, points)
  PROVE  \A i \in DOMAIN starts : starts[i] \in 0 .. points
<1> SUFFICES ASSUME {i \in 1 .. Len(starts) : starts[i] < 0} # {} PROVE FALSE
  BY DEF PartsInOrder
<1> DEFINE negative == {i \in 1 .. Len(starts) : starts[i] < 0}
<1>1. PICK k \in negative : \A j \in negative : k <= j
  <2>1. negative \subseteq Nat /\ negative # {}
    OBVIOUS
  <2> HIDE DEF negative
  <2> QED BY <2>1, LeastNatural
<1>2. starts[k] >= IF k = 1 THEN 0 ELSE starts[k - 1]
  BY DEF PartsInOrder
<1>3. k - 1 \in 1 .. Len(starts) /\ starts[k - 1] < 0
  BY <1>1, <1>2
<1> QED BY <1>1, <1>3

\* What the driver looks at of a record is what the crate reserves and subtracts: a record whose content holds
\* does not stop it.
LEMMA HeldContentIsSurvived ==
  ASSUME NEW f \in Streams, NEW offset \in Nat \ {0}, NEW length \in Nat \ {0}, length <= Size(f),
         ContentHolds(f, offset, length)
  PROVE  CrateShape(f, offset) # "panic"
<1> DEFINE short  == IF length < 3 THEN length ELSE 3
           head   == At(f, offset + 1, short)
           whole  == At(f, offset + 1, 3)
           counts == Counts(head)
           starts == At(f, offset + 4, counts[2])
<1>1. /\ head \in Seq(Int) /\ Len(head) = short /\ Len(whole) \in short .. 3 /\ whole \in Seq(Int)
      /\ \A i \in 1 .. short : head[i] = whole[i]
  <2>0. short \in 1 .. 3
    OBVIOUS
  <2>1. Len(head) = short
    BY DEF ContentHolds
  <2>2. f.cells \in Seq(Int) /\ Len(f.cells) \in Nat
    BY DEF Streams
  <2> HIDE DEF short
  <2>3. head \in Seq(Int) /\ offset + short <= Len(f.cells) /\ \A i \in 1 .. short : head[i] = f.cells[offset + i]
    <3> DEFINE last == IF (offset + 1) + short - 1 <= Len(f.cells) THEN (offset + 1) + short - 1 ELSE Len(f.cells)
    <3>0. offset + 1 \in Nat \ {0} /\ short \in Nat
      BY <2>0
    <3>1. /\ head \in Seq(Int) /\ Len(head) = IF offset + 1 <= last THEN last - (offset + 1) + 1 ELSE 0
          /\ \A i \in 1 .. Len(head) : head[i] = f.cells[(offset + 1) + i - 1]
      BY <3>0, AtIs
    <3> HIDE DEF head
    <3>2. offset + short <= Len(f.cells)
      BY <2>0, <2>1, <2>2, <3>1
    <3>3. \A i \in 1 .. short : (offset + 1) + i - 1 = offset + i
      OBVIOUS
    <3> QED BY <2>1, <3>1, <3>2, <3>3
  <2>4. whole \in Seq(Int) /\ Len(whole) \in short .. 3 /\ \A i \in 1 .. short : whole[i] = f.cells[offset + i]
    <3> DEFINE from == offset + 1
               n == 3
               last == IF from + n - 1 <= Len(f.cells) THEN from + n - 1 ELSE Len(f.cells)
    <3>0. from \in Nat \ {0} /\ n \in Nat /\ whole = At(f, from, n)
      OBVIOUS
    <3>5. from = offset + 1 /\ n = 3
      OBVIOUS
    <3> HIDE DEF whole, head, from, n
    <3>1. /\ whole \in Seq(Int) /\ Len(whole) = IF from <= last THEN last - from + 1 ELSE 0
          /\ Len(whole) \in 0 .. n
          /\ \A i \in 1 .. Len(whole) : whole[i] = f.cells[from + i - 1]
      BY <3>0, AtIs
    <3>2. Len(whole) \in short .. 3
      <4>1. /\ offset \in Nat /\ short \in 1 .. 3 /\ Len(f.cells) \in Nat /\ offset + short <= Len(f.cells)
            /\ last = IF offset + 3 <= Len(f.cells) THEN offset + 3 ELSE Len(f.cells)
        BY <2>0, <2>2, <2>3, <3>5
      <4>2. Len(whole) = IF offset + 1 <= last THEN last - offset ELSE 0
        <5>1. last \in Int
          BY <4>1
        <5> HIDE DEF last
        <5> QED BY <3>1, <3>5, <4>1, <5>1
      <4> HIDE DEF last
      <4>3. last \in offset + short .. offset + 3
        BY <4>1
      <4> QED BY <4>1, <4>2, <4>3
    <3>3. \A i \in 1 .. short : i \in 1 .. Len(whole) /\ from + i - 1 = offset + i
      <4>1. short \in Nat /\ Len(whole) \in Nat /\ short <= Len(whole)
        BY <2>0, <3>2
      <4> HIDE DEF short, last
      <4> QED BY <3>5, <4>1
    <3> QED BY <3>1, <3>2, <3>3
  <2> QED BY <2>1, <2>3, <2>4
<1>2. CountsFit(counts, length)
  BY DEF ContentHolds
<1> HIDE DEF head, whole
<1>3. counts = Counts(whole)
  <2>1. head[1] = whole[1]
    BY <1>1
  <2>2. CASE ConteggiAttesi(head[1]) = "none"
    BY <2>1, <2>2 DEF Counts
  <2>3. CASE ConteggiAttesi(head[1]) = "points"
    <3>1. Len(head) >= 2
      BY <2>3, <1>1, <1>2 DEF Counts, CountsFit
    <3>2. head[2] = whole[2] /\ Len(whole) >= 2
      BY <3>1, <1>1
    <3> QED BY <2>1, <2>3, <3>1, <3>2 DEF Counts
  <2>4. CASE ConteggiAttesi(head[1]) = "parts"
    <3>1. Len(head) >= 3
      BY <2>4, <1>1, <1>2 DEF Counts, CountsFit
    <3>2. head[2] = whole[2] /\ head[3] = whole[3] /\ Len(whole) >= 3
      BY <3>1, <1>1
    <3> QED BY <2>1, <2>4, <3>1, <3>2 DEF Counts
  <2> QED BY <2>2, <2>3, <2>4 DEF ConteggiAttesi
<1>4. counts[2] \in 0 .. Size(f) /\ counts[3] \in 0 .. Size(f)
  <2>1. counts[1] \in 1 .. 3 /\ counts[2] \in Int /\ counts[3] \in Int
    BY <1>1, <1>2 DEF Counts, CountsFit, ConteggiAttesi
  <2>2. Size(f) \in Int
    BY DEF Size, Streams, Header
  <2> QED BY <1>2, <2>1, <2>2 DEF CountsFit
<1>5. counts[2] > 0 => Len(starts) = counts[2] /\ PartsInOrder(starts, counts[3])
  BY DEF ContentHolds, head
<1>6. starts \in Seq(Int) /\ Len(starts) <= counts[2]
  <2> DEFINE from == offset + 4
             n == counts[2]
  <2>1. from \in Nat \ {0} /\ n \in Nat
    BY <1>4 DEF Size, Streams, Header
  <2> HIDE DEF n, from
  <2>2. At(f, from, n) \in Seq(Int) /\ Len(At(f, from, n)) \in 0 .. n
    BY <2>1, AtIs
  <2>3. At(f, from, n) \in Seq(Int) /\ Len(At(f, from, n)) <= n
    BY <2>1, <2>2
  <2> QED BY <2>3 DEF n, from
<1> DEFINE lengths == [i \in DOMAIN starts |-> (IF i = Len(starts) THEN counts[3] ELSE starts[i + 1]) - starts[i]]
<1>7. \A i \in DOMAIN lengths : lengths[i] \in 0 .. Size(f)
  <2> SUFFICES ASSUME NEW i \in DOMAIN starts
               PROVE  (IF i = Len(starts) THEN counts[3] ELSE starts[i + 1]) - starts[i] \in 0 .. Size(f)
    OBVIOUS
  <2> HIDE DEF counts, starts
  <2>1. counts[2] > 0 /\ i \in 1 .. Len(starts) /\ Size(f) \in Int
    BY <1>4, <1>6 DEF Size, Streams, Header
  <2>2. \A j \in 1 .. Len(starts) : starts[j] \in 0 .. counts[3]
    BY <1>4, <1>5, <1>6, <2>1, OrderedPartsArePositive
  <2>3. CASE i = Len(starts)
    BY <1>4, <2>1, <2>2, <2>3
  <2>4. CASE i # Len(starts)
    <3>1. i + 1 \in 1 .. Len(starts) /\ i + 1 # 1
      BY <2>1, <2>4, <1>6
    <3>2. starts[i + 1] >= starts[(i + 1) - 1]
      BY <1>5, <1>6, <2>1, <3>1 DEF PartsInOrder
    <3> QED BY <1>4, <2>1, <2>2, <2>4, <3>1, <3>2
  <2> QED BY <2>3, <2>4
<1>8. CrateShape(f, offset) =
        CASE offset + 1 > Len(f.cells) -> "error"
          [] offset + 1 <= Len(f.cells) /\ counts = << >> -> "error"
          [] OTHER ->
               IF \E i \in {2, 3} : counts[i] \notin 0 .. Size(f) THEN "panic"
               ELSE IF Len(starts) < counts[2] THEN "error"
               ELSE IF \E i \in DOMAIN lengths : lengths[i] \notin 0 .. Size(f) THEN "panic" ELSE "end"
  BY <1>3 DEF CrateShape, whole
<1> HIDE DEF counts, starts, lengths
<1> QED BY <1>4, <1>7, <1>8

LEMMA WorstIs == \A ends : Worst(ends) = "panic" <=> "panic" \in ends
BY DEF Worst

\* A .shp and a .shx whose structure holds are read to an end or an error, with an index or without.
LEMMA HeldStructureIsSurvived ==
  ASSUME NEW f \in Streams, NEW x \in Streams \cup {Absent}, StructureHolds(f, x)
  PROVE  CrateReads(f, x) # "panic"
<1>1. /\ f.declared \in Header .. MaxWords /\ f.declared <= Size(f) /\ f.declared \in Int
      /\ f.cells \in Seq(Int) /\ Len(f.cells) \in Nat /\ Size(f) = 1 + Len(f.cells) /\ MaxWords \in Nat
  BY StructureAssumption DEF StructureHolds, DeclaredHolds, Streams, Size, Header
<1>2. CASE x = Absent
  <2>1. ASSUME NEW offset \in Heads(f) PROVE CrateRecord(f, offset) # "panic"
    <3>1. RecordHolds(f, offset)
      BY DEF StructureHolds, RecordsHold
    <3>2. CASE offset >= f.declared
      BY <3>2 DEF CrateRecord
    <3>3. CASE ~(offset >= f.declared)
      <4>1. /\ offset \in 1 .. Len(f.cells) /\ f.cells[offset] \in 1 .. MaxWords
            /\ offset + 1 + f.cells[offset] <= f.declared
            /\ ContentHolds(f, offset, f.cells[offset])
        BY <1>1, <3>1, <3>3 DEF RecordHolds
      <4>2. f.cells[offset] <= Size(f) /\ f.cells[offset] \in Nat \ {0}
        BY <1>1, <4>1
      <4>3. CrateShape(f, offset) # "panic"
        BY <4>1, <4>2, HeldContentIsSurvived
      <4> QED BY <1>1, <3>3, <4>1, <4>3 DEF CrateRecord
    <3> QED BY <3>2, <3>3
  <2>2. CrateWalk(f) # "panic"
    BY <2>1, WorstIs DEF CrateWalk
  <2> QED BY <1>1, <1>2, <2>2 DEF CrateReads
<1>3. CASE x # Absent
  <2>1. /\ x \in Streams /\ x.declared \in Header .. MaxWords
        /\ \A i \in 1 .. Entries(x) :
             /\ Entry(x, i)[1] \in Header .. MaxWords /\ Entry(x, i)[2] \in 1 .. MaxWords
             /\ Entry(x, i)[1] + 1 + Entry(x, i)[2] <= f.declared
             /\ f.cells[Entry(x, i)[1]] = Entry(x, i)[2]
             /\ ContentHolds(f, Entry(x, i)[1], Entry(x, i)[2])
    BY <1>3 DEF StructureHolds, IndexHolds, DeclaredHolds
  <2>2. ASSUME NEW i \in 1 .. Entries(x)
        PROVE  (IF 2 * i > Len(x.cells) THEN "error" ELSE CrateSeek(f, Entry(x, i)[1])) # "panic"
    <3> DEFINE offset == Entry(x, i)[1]
               length == Entry(x, i)[2]
    <3>1. /\ offset \in Header .. MaxWords /\ length \in 1 .. MaxWords /\ offset + 1 + length <= f.declared
          /\ f.cells[offset] = length /\ ContentHolds(f, offset, length)
      BY <2>1, <2>2
    <3> HIDE DEF offset, length
    <3>2. offset \in Nat \ {0} /\ length \in Nat \ {0} /\ length <= Size(f) /\ offset <= MaxWords /\ length <= MaxWords
      BY <1>1, <3>1 DEF Header
    <3>3. CrateShape(f, offset) # "panic"
      BY <3>1, <3>2, HeldContentIsSurvived
    <3>4. CrateSeek(f, offset) # "panic"
      BY <1>1, <3>1, <3>2, <3>3 DEF CrateSeek
    <3> QED BY <3>4 DEF offset
  <2>3. Worst({IF 2 * i > Len(x.cells) THEN "error" ELSE CrateSeek(f, Entry(x, i)[1]) : i \in 1 .. Entries(x)}) # "panic"
    BY <2>2, WorstIs
  <2> QED BY <1>1, <1>3, <2>1, <2>3 DEF CrateReads
<1> QED BY <1>2, <1>3

-----------------------------------------------------------------------------
(* The tables *)

TableOK(t) ==
  /\ {t.version, t.first, t.count, t.length} \subseteq Nat
  /\ t.cells \in Seq(Descriptors) /\ t.tail \in Tails
  /\ t.rows \in Seq([mark : {"active", "deleted"}, values : Seq(STRING)])

LEMMA FieldsAre ==
  ASSUME NEW t, TableOK(t), HeaderHolds(t)
  PROVE  /\ FieldsOf(t) \in Seq(Descriptors)
         /\ \A i \in DOMAIN FieldsOf(t) : FieldsOf(t)[i].width \in Nat
<1> DEFINE n == DescriptorsOf(FoxProFirst(t))
<1>1. t.cells \in Seq(Descriptors) /\ Len(t.cells) \in Nat /\ t.first \in Nat
  BY DEF TableOK
<1>2. n \in Nat /\ n <= Len(t.cells)
  <2>1. FoxProFirst(t) \in Int
    BY <1>1 DEF FoxProFirst, Backlink
  <2>2. FoxProFirst(t) >= TableHeader + 1 /\ n < Len(t.cells)
    BY DEF HeaderHolds
  <2>3. n = (FoxProFirst(t) - 3) \div 2
    BY <2>1 DEF DescriptorsOf, TableHeader, DescriptorSize
  <2> HIDE DEF n
  <2>4. FoxProFirst(t) - 3 \in Nat
    BY <2>1, <2>2 DEF TableHeader
  <2>5. n \in Nat
    BY <2>3, <2>4
  <2> QED BY <1>1, <2>2, <2>5
<1> HIDE DEF n
<1>3. FieldsOf(t) = SubSeq(t.cells, 1, n)
  BY DEF FieldsOf, n
<1>4. FieldsOf(t) \in Seq(Descriptors)
  BY <1>1, <1>2, <1>3, CutIs
<1>5. ASSUME NEW i \in DOMAIN FieldsOf(t) PROVE FieldsOf(t)[i].width \in Nat
  <2>1. FieldsOf(t)[i] \in Descriptors
    BY <1>4
  <2> QED BY <2>1 DEF Descriptors
<1> QED BY <1>4, <1>5

LEMMA StepIsPositive ==
  ASSUME NEW t, TableOK(t), HeaderHolds(t)
  PROVE  StepOf(FieldsOf(t)) \in Nat \ {0}
<1> DEFINE fields == FieldsOf(t)
           widths == [i \in DOMAIN fields |-> fields[i].width]
<1>1. fields \in Seq(Descriptors) /\ \A i \in DOMAIN fields : fields[i].width \in Nat
  BY FieldsAre
<1> HIDE DEF fields
<1>2. Len(fields) \in Nat /\ widths \in [1 .. Len(fields) -> Nat]
  BY <1>1
<1>3. Total(widths, Len(fields)) \in Nat
  BY <1>2, TotalType
<1> QED BY <1>3 DEF StepOf, fields

\* A file that ends where its records do has no record beyond those it declares, but a short one.
LEMMA NoRecordIsBeyond ==
  ASSUME NEW t, TableOK(t), HeaderHolds(t), EndHolds(t)
  PROVE  WholeRows(t) <= t.count
<1> SUFFICES ASSUME ~(WholeRows(t) <= t.count) PROVE FALSE
  OBVIOUS
<1> DEFINE step   == StepOf(FieldsOf(t))
           beyond == Len(t.rows) - t.count
<1>1. step \in Nat \ {0}
  BY StepIsPositive
<1>2. Len(t.rows) \in Nat /\ t.count \in Nat /\ t.first \in Nat
  BY DEF TableOK
<1>3. beyond \in Nat \ {0} /\ (t.tail = "cut" => beyond >= 2)
  BY <1>2 DEF WholeRows
<1>4. FoxProFirst(t) <= t.first /\ FoxProFirst(t) \in Int
  BY <1>2 DEF FoxProFirst, Backlink
<1>5. Surplus(t) = (t.first + Len(t.rows) * step + TailSize(t)) - (FoxProFirst(t) + t.count * step)
  BY DEF Surplus, SizeOf
<1> HIDE DEF step
<1>6. Len(t.rows) * step - t.count * step = beyond * step
  BY <1>1, <1>2
<1>7. beyond * step \in Nat /\ Len(t.rows) * step \in Nat /\ t.count * step \in Nat
  BY <1>1, <1>2, <1>3
<1>8. beyond * step >= beyond
  <2>1. step - 1 \in Nat
    BY <1>1
  <2>2. beyond * (step - 1) \in Nat
    BY <1>3, <2>1
  <2>3. beyond * step = beyond * (step - 1) + beyond
    BY <1>1, <1>3
  <2> QED BY <1>3, <2>2, <2>3
<1> DEFINE extra == beyond * step
<1>9. Surplus(t) = (t.first - FoxProFirst(t)) + extra + TailSize(t)
  <2>1. TailSize(t) \in Int
    BY DEF TailSize
  <2> DEFINE rowBytes == Len(t.rows) * step
             walked == t.count * step
  <2>2. Surplus(t) = (t.first + rowBytes + TailSize(t)) - (FoxProFirst(t) + walked) /\ rowBytes - walked = extra
    BY <1>5, <1>6
  <2>3. rowBytes \in Nat /\ walked \in Nat /\ extra \in Nat
    BY <1>7
  <2> HIDE DEF rowBytes, walked, extra
  <2> QED BY <1>2, <1>4, <2>1, <2>2, <2>3
<1>10. extra \in Nat /\ extra >= beyond
  BY <1>7, <1>8
<1> HIDE DEF extra, beyond
<1>11. CASE t.tail = "eof"
  BY <1>2, <1>3, <1>4, <1>9, <1>10, <1>11 DEF EndHolds, TailSize
<1>12. CASE t.tail = "cut"
  BY <1>2, <1>3, <1>4, <1>9, <1>10, <1>12 DEF EndHolds, TailSize
<1>13. CASE t.tail \in {"none", "byte", "more"}
  BY <1>2, <1>3, <1>4, <1>9, <1>10, <1>13 DEF EndHolds, TailSize
<1> QED BY <1>11, <1>12, <1>13 DEF TableOK, Tails

\* A table whose header, end and values hold opens and is decoded to its end or to an error: what the driver reads of
\* its values is no fewer rows than the crate decodes.
LEMMA HeldTableIsSurvived ==
  ASSUME NEW t, TableOK(t), HeaderHolds(t)
  PROVE  /\ CrateOpens(t)
         /\ EndHolds(t) /\ TemporalHolds(t) => CrateDecodes(t) # "panic"
<1>1. CrateOpens(t)
  BY DEF HeaderHolds, CrateOpens
<1>2. ASSUME EndHolds(t), TemporalHolds(t) PROVE CrateDecodes(t) # "panic"
  <2>1. WholeRows(t) <= t.count
    BY <1>2, NoRecordIsBeyond
  <2>2. WholeRows(t) \in Int /\ t.count \in Nat
    BY DEF TableOK, WholeRows
  <2>3. \A i \in 1 .. WholeRows(t) : RowHolds(FieldsOf(t), t.rows[i])
    BY <1>2, <2>1, <2>2 DEF TemporalHolds, Smaller
  <2>4. CrateRows(t) # "panic"
    BY <2>3 DEF CrateRows
  <2>5. \A i \in DOMAIN FieldsOf(t) : ~(FieldsOf(t)[i].width < MinimumWidth(FieldsOf(t)[i].type))
    <3>1. \A i \in DOMAIN FieldsOf(t) : FieldsOf(t)[i].width >= MinimumWidth(FieldsOf(t)[i].type)
      BY DEF HeaderHolds
    <3> SUFFICES ASSUME NEW i \in DOMAIN FieldsOf(t) PROVE ~(FieldsOf(t)[i].width < MinimumWidth(FieldsOf(t)[i].type))
      OBVIOUS
    <3>2. FieldsOf(t)[i].width \in Nat
      BY FieldsAre
    <3>3. MinimumWidth(FieldsOf(t)[i].type) \in Nat
      BY DEF MinimumWidth
    <3> QED BY <3>1, <3>2, <3>3
  <2> QED BY <2>4, <2>5 DEF CrateDecodes
<1> QED BY <1>1, <1>2

-----------------------------------------------------------------------------
(* Of every file that is looked at, what was found to hold. *)

StructureTypeOK ==
  \/ \E s \in ShapeFiles : opened = [shp |-> s.shp, shx |-> s.shx]
  \/ \E t \in TableFiles : opened = [dbf |-> t]

StructureInv ==
  /\ StructureTypeOK
  /\ end # "panic"
  /\ OfShapes /\ checked = "admitted" => StructureHolds(opened.shp, opened.shx)
  /\ OfTable /\ checked \in {"admitted", "laid out"} =>
       HeaderHolds(opened.dbf) /\ EndHolds(opened.dbf) /\ TemporalHolds(opened.dbf)

LEMMA OpenedIs ==
  ASSUME StructureTypeOK
  PROVE  /\ OfShapes => ~OfTable /\ opened.shp \in Streams /\ opened.shx \in Streams \cup {Absent}
         /\ OfTable => ~OfShapes /\ TableOK(opened.dbf)
<1>1. CASE \E s \in ShapeFiles : opened = [shp |-> s.shp, shx |-> s.shx]
  BY <1>1, StructureAssumption DEF OfShapes, OfTable
<1>2. CASE \E t \in TableFiles : opened = [dbf |-> t]
  <2>1. PICK t \in TableFiles : opened = [dbf |-> t]
    BY <1>2
  <2>2. TableOK(t)
    BY StructureAssumption DEF TableOK
  <2> QED BY <2>1, <2>2 DEF OfShapes, OfTable
<1> QED BY <1>1, <1>2 DEF StructureTypeOK

LEMMA StructureInitHolds == StructureInit => StructureInv
BY DEF StructureInit, StructureInv, StructureTypeOK

LEMMA StructureStepHolds == StructureInv /\ [StructureNext]_structureVars => StructureInv'
<1> SUFFICES ASSUME StructureInv, [StructureNext]_structureVars PROVE StructureInv'
  OBVIOUS
<1> USE DEF StructureInv, StructureTypeOK, OfShapes, OfTable
<1>0. /\ OfShapes => ~OfTable /\ opened.shp \in Streams /\ opened.shx \in Streams \cup {Absent}
      /\ OfTable => ~OfShapes /\ TableOK(opened.dbf)
  BY OpenedIs
<1>1. CASE CheckShapes
  BY <1>0, <1>1 DEF CheckShapes, RefuseFile
<1>2. CASE ReadShapes
  <2>1. CrateReads(opened.shp, opened.shx) # "panic"
    BY <1>0, <1>2, HeldStructureIsSurvived DEF ReadShapes
  <2> QED BY <1>0, <1>2, <2>1 DEF ReadShapes
<1>3. CASE CheckTable
  BY <1>0, <1>3 DEF CheckTable, RefuseFile
<1>4. CASE OpenTable
  <2>1. CrateOpens(opened.dbf)
    BY <1>0, <1>4, HeldTableIsSurvived DEF OpenTable
  <2> QED BY <1>0, <1>4, <2>1 DEF OpenTable, RefuseFile
<1>5. CASE DecodeRecords
  <2>1. CrateDecodes(opened.dbf) # "panic"
    BY <1>0, <1>5, HeldTableIsSurvived DEF DecodeRecords
  <2> QED BY <1>0, <1>5, <2>1 DEF DecodeRecords
<1>6. CASE StructureEnded
  BY <1>6 DEF StructureEnded, structureVars
<1>7. CASE UNCHANGED structureVars
  BY <1>7 DEF structureVars
<1> QED BY <1>1, <1>2, <1>3, <1>4, <1>5, <1>6, <1>7 DEF StructureNext

\* A shapefile that driver-shp admits is read by the crates to an end or to an error, whatever its files hold.
THEOREM AdmittedSurvived == StructureSpec => []AdmittedFileIsSurvived
<1>1. StructureInv => AdmittedFileIsSurvived
  BY DEF StructureInv, AdmittedFileIsSurvived
<1> QED BY <1>1, StructureInitHolds, StructureStepHolds, PTL DEF StructureSpec

-----------------------------------------------------------------------------
(* The values of a worksheet *)

Calendared(v) == v[1] = "serial"

\* The shapes of a value.
LEMMA CellValueIs ==
  ASSUME NEW v \in CellValues
  PROVE  \/ v = Empty
         \/ v = <<"error">>
         \/ \E t \in STRING : v = <<"text", t>>
         \/ \E n \in Int : v = <<"number", n>> \/ v = <<"wide", n>>
         \/ \E h \in Int, code \in SUBSET STRING : v = <<"serial", h, code>>
<1>1. CASE v \in {"text"} \X STRING
  <2>1. v = <<v[1], v[2]>> /\ v[1] = "text" /\ v[2] \in STRING
    BY <1>1
  <2> QED BY <2>1
<1>2. CASE v \in {"number", "wide"} \X Int
  <2>1. v = <<v[1], v[2]>> /\ v[1] \in {"number", "wide"} /\ v[2] \in Int
    BY <1>2
  <2> QED BY <2>1
<1>3. CASE v \in Serials
  <2>1. v = <<v[1], v[2], v[3]>> /\ v[1] = "serial" /\ v[2] \in Int /\ v[3] \in SUBSET STRING
    BY <1>3 DEF Serials
  <2> QED BY <2>1
<1>. QED BY <1>1, <1>2, <1>3 DEF CellValues

LEMMA NotCalendared ==
  ASSUME NEW v \in CellValues, Attribute(v) # Refusal, ~Calendared(v)
  PROVE  Attribute(v) = v
BY DEF Attribute, Calendared

\* The calendar's count agrees with the offsets of convert.
LEMMA CalendarIs ==
  ASSUME NEW days \in Int, sheet.epoch \in BOOLEAN
  PROVE  /\ Calendar(sheet.epoch, days) = days - (IF sheet.epoch THEN 24107 ELSE IF days < 60 THEN 25568 ELSE 25569)
         /\ DaysTo(10000) = 2932897
BY DEF Calendar, DaysTo, Leaps

\* What a date is converted to tells the day of the calendar.
LEMMA ConvertedTells ==
  ASSUME NEW h \in Int, NEW code \in SUBSET STRING, sheet.epoch \in BOOLEAN,
         NEW v, v = <<"serial", h, code>>, Attribute(v) # Refusal
  PROVE  /\ Attribute(v)[1] \in TemporalKinds
         /\ Tells(sheet.epoch, Attribute(v)[1], Attribute(v), v)
<1>. DEFINE days   == h \div 2
            offset == IF sheet.epoch THEN 24107 ELSE IF days < 60 THEN 25568 ELSE 25569
            got    == Attribute(v)
<1>1. got = Convert(h, code, sheet.epoch) /\ v[1] = "serial" /\ v[2] = h
  BY DEF Attribute
<1>2. days \in Int /\ h % 2 = h - 2 * days /\ h % 2 \in {0, 1}
  <2>1. h \div 2 \in Int
    OBVIOUS
  <2>2. h % 2 \in 0 .. 1
    OBVIOUS
  <2>3. h % 2 = h - 2 * (h \div 2)
    OBVIOUS
  <2> QED BY <2>1, <2>2, <2>3
<1>8. offset \in Int
  BY <1>2
<1>3. Calendar(sheet.epoch, v[2] \div 2) = days - offset /\ DaysTo(10000) = 2932897
  BY <1>1, <1>2, CalendarIs
<1>4. ~(h < 0 \/ days >= (IF sheet.epoch /\ ~Elapsed(code) THEN 2957004 ELSE 2958466))
  BY <1>1 DEF Convert
<1>5. CASE OnlyTime(code) /\ days = 0
  <2>1. got = <<"Time", h>>
    BY <1>1, <1>4, <1>5 DEF Convert
  <2>2. h < 2
    BY <1>2, <1>5
  <2>3. got[1] = "Time" /\ got[2] = h
    BY <2>1
  <2> QED BY <1>1, <2>2, <2>3 DEF Tells, TemporalKinds
<1>6. CASE ~(OnlyTime(code) /\ days = 0) /\ Elapsed(code)
  <2>1. got = <<"Duration", h>>
    BY <1>1, <1>4, <1>6 DEF Convert
  <2>2. got[1] = "Duration" /\ got[2] = h
    BY <2>1
  <2> QED BY <1>1, <2>2 DEF Tells, TemporalKinds
<1>7. CASE ~(OnlyTime(code) /\ days = 0) /\ ~Elapsed(code)
  <2>1. sheet.epoch \/ days \notin {0, 60}
    BY <1>1, <1>4, <1>7 DEF Convert
  <2>2. days - offset < DaysTo(10000)
    <3>1. CASE sheet.epoch
      BY <1>2, <1>3, <1>4, <1>7, <3>1
    <3>2. CASE ~sheet.epoch
      BY <1>2, <1>3, <1>4, <1>7, <3>2
    <3> QED BY <3>1, <3>2
  <2>3. CASE OnlyDate(code) /\ h % 2 = 0
    <3>1. got = <<"Date", days - offset>>
      BY <1>1, <1>4, <1>7, <2>1, <2>3 DEF Convert
    <3>2. got[1] = "Date" /\ got[2] = days - offset
      BY <3>1
    <3> QED BY <1>1, <1>3, <2>1, <2>2, <2>3, <3>2 DEF Tells, IsDay, TemporalKinds
  <2>4. CASE ~(OnlyDate(code) /\ h % 2 = 0)
    <3>1. got = <<"Timestamp", h - 2 * offset>>
      BY <1>1, <1>4, <1>7, <2>1, <2>4 DEF Convert
    <3>2. (h - 2 * offset) \div 2 = days - offset /\ (h - 2 * offset) % 2 = h % 2
      BY <1>2, <1>8
    <3>3. got[1] = "Timestamp" /\ got[2] = h - 2 * offset
      BY <3>1
    <3> QED BY <1>1, <1>3, <2>1, <2>2, <3>2, <3>3 DEF Tells, IsDay, TemporalKinds
  <2> QED BY <2>3, <2>4
<1>. QED BY <1>5, <1>6, <1>7

-----------------------------------------------------------------------------
(* A column and its kind *)

KindRecords == [temporal : {Nothing} \cup TemporalKinds, ordinary : BOOLEAN]

OneKind(kind) == kind \in KindRecords /\ (kind.ordinary => kind.temporal = Nothing)

\* A value that was given is the cell's, in a column of its kind.
Fits(epoch, kind, got, v) ==
  IF Calendared(v) THEN Tells(epoch, got[1], got, v) /\ got[1] \in TemporalKinds /\ kind.temporal = got[1]
  ELSE got = v /\ (v = Empty \/ kind.ordinary)

LEMMA FittingTells ==
  ASSUME NEW kind, NEW got, NEW v, OneKind(kind), Fits(sheet.epoch, kind, got, v)
  PROVE  Tells(sheet.epoch, kind.temporal, got, v)
<1>1. CASE Calendared(v)
  BY <1>1 DEF Fits
<1>2. CASE ~Calendared(v)
  BY <1>2 DEF Fits, Tells, OneKind, Calendared
<1>. QED BY <1>1, <1>2

\* A column keeps the kind it has, and has that of every cell said.
Grown(kind, new) ==
  (kind.ordinary => new.ordinary) /\ (kind.temporal # Nothing => new.temporal = kind.temporal)

LEMMA SaidIs ==
  ASSUME NEW kind, OneKind(kind), NEW v \in CellValues, sheet.epoch \in BOOLEAN,
         Attribute(v) # Refusal, Said(kind, v) # Refusal
  PROVE  OneKind(Said(kind, v)) /\ Grown(kind, Said(kind, v)) /\ Fits(sheet.epoch, Said(kind, v), Attribute(v), v)
<1>1. CASE Calendared(v)
  <2>1. PICK h \in Int, code \in SUBSET STRING : v = <<"serial", h, code>>
    BY <1>1, CellValueIs DEF Calendared, Empty
  <2>2. Attribute(v)[1] \in TemporalKinds /\ Tells(sheet.epoch, Attribute(v)[1], Attribute(v), v)
    BY <2>1, ConvertedTells
  <2>3. ~kind.ordinary /\ kind.temporal \in {Nothing, Attribute(v)[1]}
    BY <1>1 DEF Said, Calendared
  <2>4. Said(kind, v) = [kind EXCEPT !.temporal = Attribute(v)[1]]
    BY <1>1, <2>3 DEF Said, Calendared
  <2>5. kind \in KindRecords
    BY DEF OneKind
  <2>6. Said(kind, v) \in KindRecords /\ Said(kind, v).temporal = Attribute(v)[1] /\ ~Said(kind, v).ordinary
    BY <2>2, <2>3, <2>4, <2>5 DEF KindRecords
  <2> QED BY <1>1, <2>2, <2>3, <2>6 DEF OneKind, Grown, Fits
<1>2. CASE ~Calendared(v) /\ v = Empty
  <2>1. Said(kind, v) = kind
    BY <1>2 DEF Said, Calendared
  <2> QED BY <1>2, <2>1, NotCalendared DEF Grown, Fits
<1>3. CASE ~Calendared(v) /\ v # Empty
  <2>1. kind.temporal = Nothing /\ Said(kind, v) = [kind EXCEPT !.ordinary = TRUE]
    BY <1>3 DEF Said, Calendared
  <2>2. kind \in KindRecords
    BY DEF OneKind
  <2>3. Said(kind, v) \in KindRecords /\ Said(kind, v).temporal = Nothing /\ Said(kind, v).ordinary
    BY <2>1, <2>2 DEF KindRecords
  <2> QED BY <1>3, <2>1, <2>3, NotCalendared DEF OneKind, Grown, Fits
<1>. QED BY <1>1, <1>2, <1>3

LEMMA StillFits ==
  ASSUME NEW kind, NEW new, OneKind(kind), Grown(kind, new), NEW got, NEW v, Fits(sheet.epoch, kind, got, v)
  PROVE  Fits(sheet.epoch, new, got, v)
<1>1. Nothing \notin TemporalKinds
  BY SheetAssumption
<1>. QED BY <1>1 DEF Fits, Grown

-----------------------------------------------------------------------------
(* The geometry of a row *)

Blank(v) == v \in {Empty, <<"text", "">>}

LEMMA EmptyIs == Empty[1] = "empty"
BY DEF Empty

LEMMA TextIs == ASSUME NEW t PROVE <<"text", t>>[1] = "text" /\ <<"text", t>>[2] = t
OBVIOUS

LEMMA SaysIs ==
  ASSUME NEW v \in CellValues
  PROVE  DataToString(v) = "" <=> Blank(v)
<1>1. Empty[1] = "empty" /\ <<"text", "">>[1] = "text"
  BY EmptyIs, TextIs
<1>2. CASE \E t \in STRING : v = <<"text", t>>
  <2>1. PICK t \in STRING : v = <<"text", t>>
    BY <1>2
  <2>2. v[1] = "text" /\ v[2] = t
    BY <2>1
  <2>3. v # Empty
    BY <1>1, <2>2
  <2>4. v = <<"text", "">> <=> t = ""
    BY <2>1
  <2> QED BY <2>2, <2>3, <2>4 DEF DataToString, Blank
<1>3. CASE v = Empty
  <2>1. v[1] # "text"
    BY <1>1, <1>3
  <2> QED BY <1>3, <2>1 DEF DataToString, Blank
<1>4. CASE v[1] # "text" /\ v # Empty
  <2>1. v # <<"text", "">>
    BY <1>1, <1>4
  <2> QED BY <1>4, <2>1 DEF DataToString, Blank
<1>5. v = Empty \/ v[1] # "text" \/ \E t \in STRING : v = <<"text", t>>
  BY CellValueIs
<1>. QED BY <1>2, <1>3, <1>4, <1>5

LEMMA CoordinateIs ==
  ASSUME NEW v \in CellValues
  PROVE  /\ Coordinate(v) = Nothing <=> Blank(v)
         /\ Coordinate(v) \in Int \cup {Nothing, Refusal}
<1>1. Nothing \notin Int /\ Nothing # Refusal
  BY SheetAssumption
<1>2. CASE Blank(v)
  <2>1. v = Empty \/ v = <<"text", "">>
    BY <1>2 DEF Blank
  <2>2. v[1] # "number"
    BY <2>1, EmptyIs, TextIs
  <2>4. v[1] = "text" => v[2] = ""
    BY <2>1, EmptyIs, TextIs
  <2>3. Coordinate(v) = Nothing
    BY <2>1, <2>2, <2>4, SheetAssumption DEF Coordinate
  <2> QED BY <1>2, <2>3
<1>3. CASE ~Blank(v) /\ \E n \in Int : v = <<"number", n>>
  BY <1>1, <1>3 DEF Coordinate, Blank, Empty
<1>4. CASE ~Blank(v) /\ \E t \in STRING : v = <<"text", t>>
  <2>1. PICK t \in STRING : v = <<"text", t>>
    BY <1>4
  <2>2. v[1] = "text" /\ v[2] = t /\ v # Empty /\ v # <<"text", "">>
    BY <1>4, <2>1 DEF Blank
  <2>3. CASE t \in DOMAIN Numerals
    <3>1. Coordinate(v) = Numerals[t]
      BY <2>2, <2>3 DEF Coordinate
    <3> QED BY <1>1, <1>4, <2>3, <3>1, SheetAssumption
  <2>4. CASE t \notin DOMAIN Numerals
    <3>1. Coordinate(v) = Refusal
      BY <2>2, <2>4 DEF Coordinate
    <3> QED BY <1>1, <1>4, <3>1
  <2> QED BY <2>3, <2>4
<1>5. CASE ~Blank(v) /\ v[1] \notin {"number", "text"}
  <2>1. Coordinate(v) = Refusal
    BY <1>5 DEF Coordinate, Blank
  <2> QED BY <1>1, <1>5, <2>1
<1>. QED BY <1>2, <1>3, <1>4, <1>5, CellValueIs DEF Empty

LEMMA SingleIs == ASSUME NEW S, NEW e \in S PROVE <<e>> \in Seq(S)
OBVIOUS

LEMMA GeometryIsOf ==
  ASSUME NEW across, NEW laid \in [across -> CellValues], NEW n \in {1, 2}, NEW at \in [1 .. n -> across],
         Geometry(laid, at) # Refusal
  PROVE  IsOf(Geometry(laid, at), [j \in 1 .. n |-> laid[at[j]]])
<1>. DEFINE given == [j \in 1 .. n |-> laid[at[j]]]
            blank == {i \in DOMAIN given : Blank(given[i])}
<1>1. DOMAIN given = 1 .. n /\ \A j \in 1 .. n : given[j] \in CellValues /\ given[j] = laid[at[j]]
  OBVIOUS
<1>2. SUFFICES IF blank = 1 .. n THEN Geometry(laid, at) = Nothing ELSE blank = {} /\ Geometry(laid, at) # Nothing
  BY <1>1 DEF IsOf, Blank
<1>3. Len(at) = n
  OBVIOUS
<1>4. CASE n = 1
  <2>1. 1 .. n = {1}
    BY <1>4
  <2>2. blank = 1 .. n <=> DataToString(given[1]) = ""
    BY <1>1, <2>1, SaysIs
  <2>3. CASE DataToString(given[1]) = ""
    BY <1>1, <1>3, <1>4, <2>1, <2>2, <2>3 DEF Geometry
  <2>4. CASE DataToString(given[1]) # ""
    <3>1. blank = {}
      BY <1>1, <2>1, <2>2, <2>4
    <3>2. PICK t \in WktTexts : Geometry(laid, at) = <<t>>
      BY <1>1, <1>3, <1>4, <2>1, <2>4 DEF Geometry
    <3>3. Nothing \notin Seq(STRING)
      BY SheetAssumption
    <3>4. <<t>> \in Seq(STRING)
      <4>1. t \in STRING
        BY SheetAssumption
      <4> QED BY <4>1, SingleIs
    <3> QED BY <2>1, <3>1, <3>2, <3>3, <3>4
  <2> QED BY <2>3, <2>4
<1>5. CASE n = 2
  <2>. DEFINE x == Coordinate(given[1])
              y == Coordinate(given[2])
  <2>1. 1 .. n = {1, 2}
    BY <1>5
  <2>2. /\ x = Nothing <=> 1 \in blank
        /\ y = Nothing <=> 2 \in blank
        /\ {x, y} \subseteq Int \cup {Nothing, Refusal}
    BY <1>1, <2>1, CoordinateIs
  <2>3. Geometry(laid, at) =
          IF x = Nothing /\ y = Nothing THEN Nothing
          ELSE IF {x, y} \cap {Nothing, Refusal} # {} THEN Refusal ELSE <<x, y>>
    BY <1>1, <1>3, <1>5, <2>1 DEF Geometry
  <2>4. blank \subseteq {1, 2}
    BY <1>1, <2>1
  <2>5. CASE x = Nothing /\ y = Nothing
    BY <2>1, <2>2, <2>3, <2>4, <2>5
  <2>6. CASE ~(x = Nothing /\ y = Nothing)
    <3>1. {x, y} \cap {Nothing, Refusal} = {} /\ Geometry(laid, at) = <<x, y>>
      BY <2>3, <2>6
    <3>5. x \in Int /\ y \in Int
      BY <2>2, <3>1
    <3>2. <<x, y>> \in Int \X Int
      BY <3>5
    <3>3. Nothing \notin Int \X Int
      BY SheetAssumption
    <3>4. blank = {} /\ Geometry(laid, at) # Nothing
      BY <2>2, <2>4, <3>1, <3>2, <3>3
    <3> QED BY <2>1, <3>4
  <2> QED BY <2>5, <2>6
<1>. QED BY <1>4, <1>5

-----------------------------------------------------------------------------
(* The last value of a place, of the first cells *)

Place(cells, n, r, c) == ValueOf(cells, Given(cells, r, c) \cap (1 .. n))

IsAt(cell, r, c) == cell.row = r /\ cell.column = c

LEMMA PlaceOfMore ==
  ASSUME NEW cells \in Seq(SheetCell), NEW n \in Nat, n < Len(cells), NEW r, NEW c
  PROVE  Place(cells, n + 1, r, c) = IF IsAt(cells[n + 1], r, c) THEN cells[n + 1].value ELSE Place(cells, n, r, c)
<1>. DEFINE before == Given(cells, r, c) \cap (1 .. n)
            upTo   == Given(cells, r, c) \cap (1 .. n + 1)
<1>1. DOMAIN cells = 1 .. Len(cells) /\ Len(cells) \in Nat /\ n + 1 \in DOMAIN cells
  OBVIOUS
<1>2. CASE IsAt(cells[n + 1], r, c)
  <2>1. n + 1 \in upTo /\ \A j \in upTo : j \in Int /\ j <= n + 1
    BY <1>1, <1>2 DEF Given, IsAt
  <2>2. Latest(upTo) = n + 1
    BY <2>1 DEF Latest
  <2>3. upTo # {}
    BY <2>1
  <2> QED BY <1>2, <2>2, <2>3 DEF Place, ValueOf
<1>3. CASE ~IsAt(cells[n + 1], r, c)
  <2>1. n + 1 \notin Given(cells, r, c)
    BY <1>3 DEF Given, IsAt
  <2>2. upTo = before
    BY <2>1
  <2> QED BY <1>3, <2>2 DEF Place
<1>. QED BY <1>2, <1>3

LEMMA PlaceOfNone ==
  ASSUME NEW cells, NEW n \in Nat, NEW r, NEW c, \A i \in 1 .. n : cells[i].row # r
  PROVE  Place(cells, n, r, c) = Empty
<1>1. Given(cells, r, c) \cap (1 .. n) = {}
  BY DEF Given
<1>. QED BY <1>1 DEF Place, ValueOf

LEMMA PlaceOfAll ==
  ASSUME NEW r, NEW c, sheet.cells \in Seq(SheetCell)
  PROVE  Place(sheet.cells, Len(sheet.cells), r, c) = ValueAt(r, c)
<1>1. Given(sheet.cells, r, c) \cap (1 .. Len(sheet.cells)) = Given(sheet.cells, r, c)
  BY DEF Given
<1>. QED BY <1>1 DEF Place, ValueAt

-----------------------------------------------------------------------------
(* The invariant *)

Across == bounds.left .. bounds.right

\* A row that was visited is what the cells before it say, in columns of one kind.
LaidRowHolds(s, n, at, across, said, row, given) ==
  /\ IsOf(given.geometry, [j \in DOMAIN at |-> Place(s.cells, n, row, at[j])])
  /\ \A c \in across : Fits(s.epoch, said[c], given.attributes[c], Place(s.cells, n, row, c))

\* The columns of the geometry are the only ones of the names asked for.
Named(s, n, top, across, asked, at) ==
  /\ at \in [DOMAIN asked -> across]
  /\ \A i \in DOMAIN asked : {c \in across : DataToString(Place(s.cells, n, top, c)) = asked[i]} = {at[i]}

\* How many rows of data were visited.
Visits == IF sheet_row = bounds.top THEN 0 ELSE sheet_row - bounds.top - 1

FrameHolds ==
  /\ bounds \in Frames /\ bounds.top <= bounds.bottom
  /\ sheet_row \in bounds.top .. bounds.bottom + 1
  /\ NoCellIsBelow => \A i \in DOMAIN sheet.cells : sheet.cells[i].row <= bounds.bottom

TakenHolds ==
  /\ taken \in 0 .. Len(sheet.cells)
  /\ \A i \in 1 .. taken :
       /\ sheet.cells[i].row \in bounds.top .. bounds.bottom /\ sheet.cells[i].row <= sheet_row
       /\ sheet.cells[i].column \in Across
  /\ sheet_row > bounds.bottom => taken = Len(sheet.cells) \/ sheet.cells[taken + 1].row > bounds.bottom

ValuesHold ==
  /\ values \in [Across -> CellValues]
  /\ \A c \in Across : values[c] = Place(sheet.cells, taken, sheet_row, c)

KindsHold == kinds \in [Across -> KindRecords] /\ \A c \in Across : OneKind(kinds[c])

RowsHold ==
  /\ sheet_rows = [i \in 1 .. Visits |-> sheet_rows[i]]
  /\ sheet_row > bounds.top => Named(sheet, taken, bounds.top, Across, Asked, columns)
  /\ \A i \in 1 .. Visits :
       LaidRowHolds(sheet, taken, columns, Attributes, kinds, bounds.top + i, sheet_rows[i])

LaidHolds == FrameHolds /\ TakenHolds /\ ValuesHold /\ KindsHold /\ RowsHold

ScanHolds ==
  /\ Undeclared(sheet.frame) /\ bounds \in Frames /\ sheet_rows = << >>
  /\ taken \in 0 .. Len(sheet.cells) /\ \A i \in 1 .. taken : sheet.cells[i].row <= bounds.bottom

SheetInv ==
  /\ sheet \in Sheets /\ request \in Requests
  /\ sheet_step \in {"probe", "scan", "rows", "delivered", "refused"}
  /\ sheet_step = "probe" => bounds = sheet.frame /\ taken = 0 /\ sheet_rows = << >>
  /\ sheet_step = "scan" => ScanHolds
  /\ sheet_step \in {"rows", "delivered"} => LaidHolds
  /\ sheet_step = "delivered" => sheet_row > bounds.bottom

LEMMA SheetIs ==
  ASSUME sheet \in Sheets
  PROVE  /\ sheet.frame \in Frames /\ sheet.cells \in Seq(SheetCell) /\ sheet.epoch \in BOOLEAN
         /\ Len(sheet.cells) \in Nat /\ DOMAIN sheet.cells = 1 .. Len(sheet.cells)
         /\ \A i \in 1 .. Len(sheet.cells) :
              sheet.cells[i].row \in Nat /\ sheet.cells[i].column \in Nat /\ sheet.cells[i].value \in CellValues
<1>1. sheet.frame \in Frames /\ sheet.cells \in Seq(SheetCell) /\ sheet.epoch \in BOOLEAN
  BY SheetAssumption DEF Worksheet
<1>2. \A i \in 1 .. Len(sheet.cells) : sheet.cells[i] \in SheetCell
  BY <1>1
<1>. QED BY <1>1, <1>2 DEF SheetCell

LEMMA SheetInitHolds == SheetInit => SheetInv
BY DEF SheetInit, SheetInv

\* Of a frame that fits its quota the rows can be laid out.
LEMMA LayHolds ==
  ASSUME sheet \in Sheets, UNCHANGED sheet, bounds \in Frames, sheet_rows = << >>, Lay(bounds),
         NoCellIsBelow => \A i \in DOMAIN sheet.cells : sheet.cells[i].row <= bounds.bottom
  PROVE  sheet_step' = "refused" \/ (sheet_step' = "rows" /\ LaidHolds')
<1>1. CASE OverQuota(bounds)
  BY <1>1 DEF Lay, Refuse
<1>2. CASE ~OverQuota(bounds)
  <2>1. /\ sheet_step' = "rows" /\ bounds' = bounds /\ taken' = 0 /\ sheet_row' = bounds.top
        /\ values' = EmptyRow(bounds) /\ sheet_rows' = << >>
        /\ kinds' = [c \in bounds.left .. bounds.right |-> [temporal |-> Nothing, ordinary |-> FALSE]]
    BY <1>2 DEF Lay
  <2>2. bounds.top <= bounds.bottom /\ bounds.top \in Nat /\ bounds.bottom \in Nat
    BY <1>2 DEF OverQuota, RowCount, Frames
  <2>3. FrameHolds'
    BY <2>1, <2>2 DEF FrameHolds, NoCellIsBelow
  <2>4. TakenHolds'
    BY <2>1, <2>2, SheetIs DEF TakenHolds
  <2>5. ValuesHold'
    <3>1. ASSUME NEW r, NEW c PROVE Place(sheet.cells, 0, r, c) = Empty
      <4>1. \A i \in 1 .. 0 : sheet.cells[i].row # r
        OBVIOUS
      <4> QED BY <4>1, PlaceOfNone
    <3> QED BY <2>1, <3>1 DEF ValuesHold, EmptyRow, Across, CellValues
  <2>6. KindsHold'
    BY <2>1 DEF KindsHold, Across, OneKind, KindRecords
  <2>7. RowsHold'
    <3>1. Visits' = 0
      BY <2>1 DEF Visits
    <3>2. sheet_rows' = [i \in 1 .. 0 |-> sheet_rows'[i]]
      BY <2>1
    <3> QED BY <2>1, <2>2, <3>1, <3>2 DEF RowsHold
  <2> QED BY <2>1, <2>3, <2>4, <2>5, <2>6, <2>7 DEF LaidHolds
<1>. QED BY <1>1, <1>2

LEMMA ProbeHolds ==
  ASSUME SheetInv, Probe
  PROVE  SheetInv'
<1>1. sheet \in Sheets /\ request \in Requests /\ UNCHANGED <<sheet, request>>
  BY DEF SheetInv, Probe
<1>2. bounds = sheet.frame /\ taken = 0 /\ sheet_rows = << >>
  BY DEF SheetInv, Probe
<1>3. CASE Undeclared(bounds)
  <2>1. sheet_step' = "scan" /\ UNCHANGED <<bounds, taken, sheet_rows>>
    BY <1>3 DEF Probe
  <2>2. ScanHolds'
    BY <1>1, <1>2, <1>3, <2>1, SheetIs DEF ScanHolds, Undeclared
  <2> QED BY <1>1, <2>1, <2>2 DEF SheetInv
<1>4. CASE ~Undeclared(bounds)
  <2>1. Lay(bounds)
    BY <1>4 DEF Probe
  <2>2. NoCellIsBelow => \A i \in DOMAIN sheet.cells : sheet.cells[i].row <= bounds.bottom
    BY <1>2, <1>4 DEF NoCellIsBelow
  <2>3. sheet_step' = "refused" \/ (sheet_step' = "rows" /\ LaidHolds')
    BY <1>1, <1>2, <2>1, <2>2, SheetIs, LayHolds
  <2> QED BY <1>1, <2>3 DEF SheetInv
<1>. QED BY <1>3, <1>4

LEMMA ObserveCellHolds ==
  ASSUME SheetInv, ObserveCell
  PROVE  SheetInv'
<1>. DEFINE cell  == sheet.cells[taken + 1]
            grown == IF taken = 0 THEN Bounds(cell.row, cell.column, cell.row, cell.column) ELSE Around(bounds, cell)
<1>1. sheet \in Sheets /\ request \in Requests /\ UNCHANGED <<sheet, request>> /\ ScanHolds
  BY DEF SheetInv, ObserveCell
<1>2. sheet_step = "scan" /\ taken \in Nat /\ taken < Len(sheet.cells)
  BY <1>1, SheetIs DEF ObserveCell, ScanHolds
<1>3. CASE OverQuota(grown)
  <2>1. sheet_step' = "refused"
    BY <1>3 DEF ObserveCell, Refuse
  <2> QED BY <1>1, <2>1 DEF SheetInv
<1>4. CASE ~OverQuota(grown)
  <2>1. bounds' = grown /\ taken' = taken + 1 /\ UNCHANGED <<sheet_step, sheet_rows>>
    BY <1>4 DEF ObserveCell
  <2>2. cell.row \in Nat /\ cell.column \in Nat
    BY <1>1, <1>2, SheetIs
  <2>3. bounds \in Frames
    BY <1>1 DEF ScanHolds
  <2>4. grown \in Frames /\ cell.row <= grown.bottom /\ (taken > 0 => bounds.bottom <= grown.bottom)
    BY <1>2, <2>2, <2>3 DEF Frames, Bounds, Around, Lower, Upper
  <2>5. \A i \in 1 .. taken + 1 : sheet.cells[i].row <= grown.bottom
    <3>1. TAKE i \in 1 .. taken + 1
    <3>2. CASE i = taken + 1
      BY <2>4, <3>2
    <3>3. CASE i # taken + 1
      <4>1. i \in 1 .. taken /\ taken > 0 /\ i \in 1 .. Len(sheet.cells)
        BY <1>2, <3>3
      <4>2. sheet.cells[i].row <= bounds.bottom /\ sheet.cells[i].row \in Nat
        BY <1>1, <4>1, SheetIs DEF ScanHolds
      <4>3. bounds.bottom \in Nat /\ grown.bottom \in Nat
        BY <2>3, <2>4 DEF Frames
      <4> QED BY <2>4, <4>1, <4>2, <4>3
    <3> QED BY <3>2, <3>3
  <2>6. ScanHolds'
    BY <1>1, <1>2, <2>1, <2>4, <2>5, SheetIs DEF ScanHolds
  <2> QED BY <1>1, <1>2, <2>1, <2>6 DEF SheetInv
<1>. QED BY <1>3, <1>4

LEMMA ObservedHolds ==
  ASSUME SheetInv, Observed
  PROVE  SheetInv'
<1>1. sheet \in Sheets /\ request \in Requests /\ UNCHANGED <<sheet, request>> /\ ScanHolds
  BY DEF SheetInv, Observed
<1>2. \A i \in DOMAIN sheet.cells : sheet.cells[i].row <= bounds.bottom
  BY <1>1, SheetIs DEF Observed, ScanHolds
<1>3. sheet_step' = "refused" \/ (sheet_step' = "rows" /\ LaidHolds')
  BY <1>1, <1>2, LayHolds DEF Observed, ScanHolds
<1>. QED BY <1>1, <1>3 DEF SheetInv

\* Cells of the row being laid out, and rows that come after all the cells, do not touch the rows before.
LEMMA RowsStay ==
  ASSUME NEW s, NEW n \in Nat, NEW m \in Nat, NEW top \in Nat, NEW row \in Nat, NEW at, NEW across, NEW said,
         NEW new, NEW given,
         \A r, c : r # row => Place(s.cells, m, r, c) = Place(s.cells, n, r, c),
         \A c \in across : OneKind(said[c]) /\ Grown(said[c], new[c]),
         NEW i \in Nat, i < row, s.epoch = sheet.epoch, LaidRowHolds(s, n, at, across, said, i, given)
  PROVE  LaidRowHolds(s, m, at, across, new, i, given)
<1>1. \A c : Place(s.cells, m, i, c) = Place(s.cells, n, i, c)
  OBVIOUS
<1>2. [j \in DOMAIN at |-> Place(s.cells, m, i, at[j])] = [j \in DOMAIN at |-> Place(s.cells, n, i, at[j])]
  BY <1>1
<1>3. \A c \in across : Fits(s.epoch, new[c], given.attributes[c], Place(s.cells, m, i, c))
  BY <1>1, StillFits DEF LaidRowHolds
<1>. QED BY <1>2, <1>3 DEF LaidRowHolds

LEMMA TakeCellHolds ==
  ASSUME SheetInv, TakeCell
  PROVE  SheetInv'
<1>. DEFINE cell == sheet.cells[taken + 1]
<1>1. /\ sheet \in Sheets /\ request \in Requests /\ UNCHANGED <<sheet, request>>
      /\ sheet_step = "rows" /\ LaidHolds /\ sheet_row <= bounds.bottom
  BY DEF SheetInv, TakeCell
<1>2. /\ taken \in Nat /\ taken < Len(sheet.cells) /\ cell.row <= sheet_row
      /\ cell.row \in Nat /\ cell.column \in Nat /\ cell.value \in CellValues
  BY <1>1, SheetIs DEF TakeCell, MoreCells, LaidHolds, TakenHolds
<1>3. bounds \in Frames /\ bounds.top \in Nat /\ bounds.bottom \in Nat /\ sheet_row \in Nat /\ sheet_row >= bounds.top
  BY <1>1 DEF LaidHolds, FrameHolds, Frames
<1>4. CASE cell.row < sheet_row \/ cell.column \notin DOMAIN values
  <2>1. sheet_step' = "refused"
    BY <1>4 DEF TakeCell, Refuse
  <2> QED BY <1>1, <2>1 DEF SheetInv
<1>5. CASE ~(cell.row < sheet_row \/ cell.column \notin DOMAIN values)
  <2>1. /\ values' = [values EXCEPT ![cell.column] = cell.value] /\ taken' = taken + 1
        /\ UNCHANGED <<sheet_step, bounds, sheet_row, columns, kinds, sheet_rows>>
    BY <1>5 DEF TakeCell
  <2>2. cell.row = sheet_row /\ cell.column \in Across
    BY <1>1, <1>2, <1>3, <1>5 DEF LaidHolds, ValuesHold
  <2>3. FrameHolds'
    BY <1>1, <2>1 DEF LaidHolds, FrameHolds, NoCellIsBelow
  <2>4. TakenHolds'
    <3>1. \A i \in 1 .. taken + 1 :
            /\ sheet.cells[i].row \in bounds.top .. bounds.bottom /\ sheet.cells[i].row <= sheet_row
            /\ sheet.cells[i].column \in Across
      <4>1. TAKE i \in 1 .. taken + 1
      <4>2. CASE i = taken + 1
        BY <1>1, <1>2, <1>3, <2>2, <4>2
      <4>3. CASE i # taken + 1
        <5>1. i \in 1 .. taken
          BY <1>2, <4>3
        <5> QED BY <1>1, <5>1 DEF LaidHolds, TakenHolds
      <4> QED BY <4>2, <4>3
    <3>2. taken + 1 \in 0 .. Len(sheet.cells)
      BY <1>1, <1>2, SheetIs
    <3> QED BY <1>1, <1>3, <2>1, <3>1, <3>2 DEF TakenHolds, Across
  <2>5. \A r, c : Place(sheet.cells, taken + 1, r, c) =
                    IF r = sheet_row /\ c = cell.column THEN cell.value ELSE Place(sheet.cells, taken, r, c)
    <3>1. \A r, c : Place(sheet.cells, taken + 1, r, c) =
                      IF IsAt(cell, r, c) THEN cell.value ELSE Place(sheet.cells, taken, r, c)
      BY <1>1, <1>2, SheetIs, PlaceOfMore
    <3>2. \A r, c : IsAt(cell, r, c) <=> r = sheet_row /\ c = cell.column
      BY <2>2 DEF IsAt
    <3> HIDE DEF cell
    <3> QED BY <3>1, <3>2
  <2>6. ValuesHold'
    BY <1>1, <1>2, <2>1, <2>2, <2>5 DEF LaidHolds, ValuesHold, Across
  <2>7. KindsHold'
    BY <1>1, <2>1 DEF LaidHolds, KindsHold, Across
  <2>8. RowsHold'
    <3>1. Visits' = Visits /\ Across' = Across /\ Asked' = Asked /\ Attributes' = Attributes
      BY <1>1, <2>1 DEF Visits, Across, Asked, Attributes
    <3>2. sheet_row > bounds.top => Named(sheet, taken + 1, bounds.top, Across, Asked, columns)
      BY <1>1, <1>3, <2>5 DEF LaidHolds, RowsHold, Named
    <3>3. \A i \in 1 .. Visits :
            LaidRowHolds(sheet, taken + 1, columns, Attributes, kinds, bounds.top + i, sheet_rows[i])
      <4>1. TAKE i \in 1 .. Visits
      <4>2. bounds.top + i \in Nat /\ bounds.top + i < sheet_row
        BY <1>3 DEF Visits
      <4>3. LaidRowHolds(sheet, taken, columns, Attributes, kinds, bounds.top + i, sheet_rows[i])
        BY <1>1 DEF LaidHolds, RowsHold
      <4>4. \A c \in Attributes : OneKind(kinds[c]) /\ Grown(kinds[c], kinds[c])
        BY <1>1 DEF LaidHolds, KindsHold, Attributes, Across, Grown
      <4>5. \A r, c : r # sheet_row => Place(sheet.cells, taken + 1, r, c) = Place(sheet.cells, taken, r, c)
        BY <2>5
      <4>6. taken + 1 \in Nat
        BY <1>2
      <4> QED BY <1>2, <1>3, <4>2, <4>3, <4>4, <4>5, <4>6, RowsStay
    <3> QED BY <1>1, <2>1, <3>1, <3>2, <3>3 DEF LaidHolds, RowsHold
  <2> QED BY <1>1, <2>1, <2>3, <2>4, <2>6, <2>7, <2>8 DEF SheetInv, LaidHolds
<1>. QED BY <1>4, <1>5

\* After a row is visited the frame, the cells and the new row hold, whatever was made of it.
LEMMA NextRowHolds ==
  ASSUME SheetInv, Visit, sheet_row' = sheet_row + 1, values' = EmptyRow(bounds), UNCHANGED <<bounds, taken>>
  PROVE  FrameHolds' /\ TakenHolds' /\ ValuesHold'
<1>1. /\ sheet \in Sheets /\ UNCHANGED sheet /\ LaidHolds
      /\ sheet_row <= bounds.bottom /\ ~MoreCells
  BY DEF SheetInv, Visit
<1>2. /\ bounds.top \in Nat /\ bounds.bottom \in Nat /\ sheet_row \in Nat /\ sheet_row >= bounds.top
      /\ taken \in Nat
  BY <1>1, SheetIs DEF LaidHolds, FrameHolds, TakenHolds, Frames
<1>3. FrameHolds'
  BY <1>1, <1>2 DEF LaidHolds, FrameHolds, NoCellIsBelow
<1>4. TakenHolds'
  <2>1. \A i \in 1 .. taken : sheet.cells[i].row \in Nat
    BY <1>1, SheetIs DEF LaidHolds, TakenHolds
  <2>2. taken = Len(sheet.cells) \/ sheet.cells[taken + 1].row > sheet_row
    <3>1. taken <= Len(sheet.cells) /\ Len(sheet.cells) \in Nat
      BY <1>1, SheetIs DEF LaidHolds, TakenHolds
    <3>2. taken < Len(sheet.cells) => sheet.cells[taken + 1].row \in Nat
      BY <1>1, <1>2, <3>1, SheetIs
    <3> QED BY <1>1, <1>2, <3>1, <3>2 DEF MoreCells
  <2>3. sheet_row + 1 > bounds.bottom => sheet_row = bounds.bottom
    BY <1>1, <1>2
  <2> QED BY <1>1, <1>2, <2>1, <2>2, <2>3 DEF LaidHolds, TakenHolds, Across
<1>5. ValuesHold'
  <2>1. \A i \in 1 .. taken : sheet.cells[i].row # sheet_row + 1
    <3>1. \A i \in 1 .. taken : sheet.cells[i].row \in Nat /\ sheet.cells[i].row <= sheet_row
      BY <1>1, SheetIs DEF LaidHolds, TakenHolds
    <3> QED BY <1>2, <3>1
  <2>2. \A c : Place(sheet.cells, taken, sheet_row + 1, c) = Empty
    BY <1>2, <2>1, PlaceOfNone
  <2> QED BY <1>1, <2>2 DEF ValuesHold, EmptyRow, Across, CellValues
<1>. QED BY <1>3, <1>4, <1>5

LEMMA OnlyIs ==
  ASSUME NEW S, IsFiniteSet(S), Cardinality(S) = 1
  PROVE  S = {CHOOSE c \in S : TRUE}
<1>. DEFINE c == CHOOSE c \in S : TRUE
<1>1. S # {}
  BY FS_EmptySet
<1>2. c \in S
  BY <1>1
<1>. HIDE DEF c
<1>3. IsFiniteSet(S \ {c}) /\ Cardinality(S \ {c}) = 0
  BY <1>2, FS_RemoveElement
<1>4. S \ {c} = {}
  BY <1>3, FS_EmptySet
<1>5. S = {c}
  BY <1>2, <1>4
<1>. QED BY <1>5 DEF c

LEMMA HeadersAreNamed ==
  ASSUME NEW named, NEW l \in Nat, NEW r \in Nat, DOMAIN named = l .. r, ResolveGeometry(named) # Refusal
  PROVE  /\ ResolveGeometry(named) \in [DOMAIN Asked -> l .. r]
         /\ \A i \in DOMAIN Asked : ColumnOf(named, Asked[i]) = {ResolveGeometry(named)[i]}
<1>1. /\ \A i \in DOMAIN Asked : Cardinality(ColumnOf(named, Asked[i])) = 1
      /\ ResolveGeometry(named) = [i \in DOMAIN Asked |-> CHOOSE c \in ColumnOf(named, Asked[i]) : TRUE]
  BY DEF ResolveGeometry
<1>2. \A i \in DOMAIN Asked : ColumnOf(named, Asked[i]) = {ResolveGeometry(named)[i]}
  <2>1. TAKE i \in DOMAIN Asked
  <2>2. IsFiniteSet(l .. r) /\ ColumnOf(named, Asked[i]) \subseteq l .. r
    BY FS_Interval DEF ColumnOf
  <2>3. IsFiniteSet(ColumnOf(named, Asked[i]))
    BY <2>2, FS_Subset
  <2> QED BY <1>1, <2>3, OnlyIs
<1>3. \A i \in DOMAIN Asked : ResolveGeometry(named)[i] \in l .. r
  BY <1>2 DEF ColumnOf
<1>. QED BY <1>1, <1>2, <1>3

LEMMA HeadersHold ==
  ASSUME SheetInv, Visit, sheet_row = bounds.top
  PROVE  SheetInv'
<1>1. /\ sheet \in Sheets /\ request \in Requests /\ UNCHANGED <<sheet, request>>
      /\ sheet_step = "rows" /\ LaidHolds /\ Headers
  BY DEF SheetInv, Visit
<1>2. /\ bounds.top \in Nat /\ bounds.left \in Nat /\ bounds.right \in Nat /\ taken \in Nat
  BY <1>1, SheetIs DEF LaidHolds, FrameHolds, TakenHolds, Frames
<1>3. CASE ResolveGeometry(values) = Refusal
  <2>1. sheet_step' = "refused"
    BY <1>1, <1>3 DEF Headers, Refuse
  <2> QED BY <1>1, <2>1 DEF SheetInv
<1>4. CASE ResolveGeometry(values) # Refusal
  <2>1. /\ columns' = ResolveGeometry(values) /\ sheet_row' = sheet_row + 1 /\ values' = EmptyRow(bounds)
        /\ UNCHANGED <<bounds, sheet_step, taken, kinds, sheet_rows>>
    BY <1>1, <1>4 DEF Headers
  <2>2. FrameHolds' /\ TakenHolds' /\ ValuesHold'
    BY <2>1, NextRowHolds
  <2>3. KindsHold'
    BY <1>1, <2>1 DEF LaidHolds, KindsHold, Across
  <2>4. RowsHold'
    <3>1. Visits = 0 /\ Visits' = 0 /\ Across' = Across /\ Asked' = Asked
      BY <1>1, <1>2, <2>1 DEF Visits, Across, Asked
    <3>2. DOMAIN values = bounds.left .. bounds.right
      BY <1>1 DEF LaidHolds, ValuesHold, Across
    <3>3. /\ columns' \in [DOMAIN Asked -> bounds.left .. bounds.right]
          /\ \A i \in DOMAIN Asked : ColumnOf(values, Asked[i]) = {columns'[i]}
      BY <1>2, <1>4, <2>1, <3>2, HeadersAreNamed
    <3>4. \A name : ColumnOf(values, name) =
                      {c \in Across : DataToString(Place(sheet.cells, taken, bounds.top, c)) = name}
      BY <1>1, <3>2 DEF LaidHolds, ValuesHold, ColumnOf, Across
    <3>5. Named(sheet, taken, bounds.top, Across, Asked, columns')
      BY <3>3, <3>4 DEF Named, Across
    <3>6. sheet_rows = [i \in 1 .. 0 |-> sheet_rows[i]]
      BY <1>1, <3>1 DEF LaidHolds, RowsHold
    <3> QED BY <1>1, <2>1, <3>1, <3>5, <3>6 DEF RowsHold
  <2> QED BY <1>1, <2>1, <2>2, <2>3, <2>4 DEF SheetInv, LaidHolds
<1>. QED BY <1>3, <1>4

LEMMA AppendedIs ==
  ASSUME NEW n \in Nat, NEW s, s = [i \in 1 .. n |-> s[i]], NEW e
  PROVE  Append(s, e) = [i \in 1 .. n + 1 |-> IF i = n + 1 THEN e ELSE s[i]]
<1>. DEFINE S == {s[i] : i \in 1 .. n} \cup {e}
<1>1. s \in Seq(S) /\ Len(s) = n /\ e \in S
  OBVIOUS
<1>. HIDE DEF S
<1>. QED BY <1>1

LEMMA AskedIs == \E n \in {1, 2} : DOMAIN Asked = 1 .. n
<1>1. CASE request.wkt # Nothing
  <2>1. DOMAIN Asked = 1 .. 1
    BY <1>1 DEF Asked
  <2> QED BY <2>1
<1>2. CASE request.wkt = Nothing
  <2>1. DOMAIN Asked = 1 .. 2
    BY <1>2 DEF Asked
  <2> QED BY <2>1
<1>. QED BY <1>1, <1>2

LEMMA VisitedHolds ==
  ASSUME SheetInv, Visit, sheet_row # bounds.top
  PROVE  SheetInv'
<1>. DEFINE geometry == Geometry(values, columns)
            given    == [c \in Attributes |-> Attribute(values[c])]
            said     == [c \in DOMAIN kinds |->
                           IF c \in Attributes /\ given[c] # Refusal THEN Said(kinds[c], values[c]) ELSE kinds[c]]
            visited  == [geometry |-> geometry, attributes |-> given]
<1>1. /\ sheet \in Sheets /\ request \in Requests /\ UNCHANGED <<sheet, request>>
      /\ sheet_step = "rows" /\ LaidHolds /\ Visited
  BY DEF SheetInv, Visit
<1>2. /\ bounds.top \in Nat /\ taken \in Nat /\ sheet_row \in Nat /\ sheet_row > bounds.top
      /\ Attributes \subseteq Across /\ DOMAIN kinds = Across
  BY <1>1, SheetIs DEF LaidHolds, FrameHolds, TakenHolds, KindsHold, Frames, Attributes, Across
<1>3. CASE geometry = Refusal \/ \E c \in Attributes : given[c] = Refusal \/ said[c] = Refusal
  <2>1. Refuse
    BY <1>1, <1>3 DEF Visited
  <2> QED BY <1>1, <2>1 DEF SheetInv, Refuse
<1>4. CASE ~(geometry = Refusal \/ \E c \in Attributes : given[c] = Refusal \/ said[c] = Refusal)
  <2>1. /\ sheet_rows' = Append(sheet_rows, visited) /\ kinds' = said
        /\ sheet_row' = sheet_row + 1 /\ values' = EmptyRow(bounds) /\ UNCHANGED <<bounds, sheet_step, taken, columns>>
    BY <1>1, <1>4 DEF Visited
  <2>2. FrameHolds' /\ TakenHolds' /\ ValuesHold'
    BY <2>1, NextRowHolds
  <2>3. \A c \in Attributes :
          /\ OneKind(said[c]) /\ Grown(kinds[c], said[c])
          /\ Fits(sheet.epoch, said[c], given[c], values[c])
    <3>1. TAKE c \in Attributes
    <3>2. given[c] = Attribute(values[c]) /\ given[c] # Refusal /\ said[c] = Said(kinds[c], values[c]) /\ said[c] # Refusal
      BY <1>2, <1>4
    <3>3. OneKind(kinds[c]) /\ values[c] \in CellValues
      BY <1>1, <1>2 DEF LaidHolds, KindsHold, ValuesHold
    <3> HIDE DEF given, said
    <3> QED BY <1>1, <3>2, <3>3, SaidIs, SheetIs
  <2>4. \A c \in Across : c \notin Attributes => said[c] = kinds[c]
    BY <1>2
  <2>5. said = [c \in Across |-> said[c]]
    BY <1>2
  <2>6. KindsHold'
    <3> HIDE DEF said
    <3>1. \A c \in Across : OneKind(said[c])
      BY <1>1, <2>3, <2>4 DEF LaidHolds, KindsHold
    <3>2. \A c \in Across : said[c] \in KindRecords
      BY <3>1 DEF OneKind
    <3> QED BY <2>1, <2>5, <3>1, <3>2 DEF KindsHold, Across
  <2>7. RowsHold'
    <3> HIDE DEF geometry, given, said
    <3>1. /\ Visits = sheet_row - bounds.top - 1 /\ Visits \in Nat /\ Visits' = Visits + 1
          /\ bounds.top + Visits + 1 = sheet_row
      BY <1>2, <2>1 DEF Visits
    <3>2. Across' = Across /\ Asked' = Asked /\ Attributes' = Attributes
      BY <1>1, <2>1 DEF Across, Asked, Attributes
    <3>3. Named(sheet, taken, bounds.top, Across, Asked, columns)
      BY <1>1, <1>2 DEF LaidHolds, RowsHold
    <3>4. sheet_rows = [i \in 1 .. Visits |-> sheet_rows[i]]
      BY <1>1 DEF LaidHolds, RowsHold
    <3>5. sheet_rows' = [i \in 1 .. Visits + 1 |-> IF i = Visits + 1 THEN visited ELSE sheet_rows[i]]
      BY <2>1, <3>1, <3>4, AppendedIs
    <3>6. LaidRowHolds(sheet, taken, columns, Attributes, said, sheet_row, visited)
      <4>1. PICK n \in {1, 2} : DOMAIN Asked = 1 .. n
        BY AskedIs
      <4>2. columns \in [1 .. n -> Across] /\ DOMAIN columns = 1 .. n
        BY <3>3, <4>1 DEF Named
      <4>3. values \in [Across -> CellValues] /\ \A c \in Across : values[c] = Place(sheet.cells, taken, sheet_row, c)
        BY <1>1 DEF LaidHolds, ValuesHold
      <4>4. IsOf(geometry, [j \in 1 .. n |-> values[columns[j]]])
        BY <1>4, <4>2, <4>3, GeometryIsOf DEF geometry
      <4>5. [j \in 1 .. n |-> values[columns[j]]] =
              [j \in DOMAIN columns |-> Place(sheet.cells, taken, sheet_row, columns[j])]
        BY <4>2, <4>3
      <4>6. visited.geometry = geometry /\ visited.attributes = given
        OBVIOUS
      <4>7. \A c \in Attributes : Fits(sheet.epoch, said[c], visited.attributes[c], Place(sheet.cells, taken, sheet_row, c))
        BY <1>2, <2>3, <4>3, <4>6
      <4> QED BY <4>4, <4>5, <4>6, <4>7 DEF LaidRowHolds
    <3>7. \A i \in 1 .. Visits : LaidRowHolds(sheet, taken, columns, Attributes, said, bounds.top + i, sheet_rows[i])
      <4>1. TAKE i \in 1 .. Visits
      <4>2. bounds.top + i \in Nat /\ bounds.top + i < sheet_row
        BY <1>2, <3>1
      <4>3. LaidRowHolds(sheet, taken, columns, Attributes, kinds, bounds.top + i, sheet_rows[i])
        BY <1>1 DEF LaidHolds, RowsHold
      <4>4. \A c \in Attributes : OneKind(kinds[c]) /\ Grown(kinds[c], said[c])
        BY <1>1, <1>2, <2>3 DEF LaidHolds, KindsHold
      <4> QED BY <1>2, <4>2, <4>3, <4>4, RowsStay
    <3>8. \A i \in 1 .. Visits + 1 :
            LaidRowHolds(sheet, taken, columns, Attributes, said, bounds.top + i, sheet_rows'[i])
      <4>1. TAKE i \in 1 .. Visits + 1
      <4>2. CASE i = Visits + 1
        <5>1. sheet_rows'[i] = visited
          BY <3>1, <3>5, <4>2
        <5>2. bounds.top + i = sheet_row
          BY <1>2, <3>1, <4>2
        <5> HIDE DEF visited
        <5> QED BY <3>6, <5>1, <5>2
      <4>3. CASE i # Visits + 1
        <5>1. i \in 1 .. Visits /\ sheet_rows'[i] = sheet_rows[i]
          BY <3>1, <3>5, <4>3
        <5> QED BY <3>7, <5>1
      <4> QED BY <4>2, <4>3
    <3>9. sheet_rows' = [i \in 1 .. Visits + 1 |-> sheet_rows'[i]]
      BY <3>5
    <3> QED BY <1>1, <2>1, <3>1, <3>2, <3>3, <3>8, <3>9 DEF RowsHold
  <2> HIDE DEF said, visited
  <2> QED BY <1>1, <2>1, <2>2, <2>6, <2>7 DEF SheetInv, LaidHolds
<1>. QED BY <1>3, <1>4

LEMMA SheetStepHolds == SheetInv /\ [SheetNext]_sheetVars => SheetInv'
<1>. SUFFICES ASSUME SheetInv, [SheetNext]_sheetVars PROVE SheetInv'
  OBVIOUS
<1>1. CASE Probe
  BY <1>1, ProbeHolds
<1>2. CASE ObserveCell
  BY <1>2, ObserveCellHolds
<1>3. CASE Observed
  BY <1>3, ObservedHolds
<1>4. CASE TakeCell
  BY <1>4, TakeCellHolds
<1>5. CASE Visit
  BY <1>5, HeadersHold, VisitedHolds
<1>6. ASSUME UNCHANGED <<sheet, request, bounds, taken, sheet_row, values, columns, kinds, sheet_rows>>,
             \/ sheet_step' \in {sheet_step, "refused"}
             \/ sheet_step = "rows" /\ sheet_step' = "delivered" /\ sheet_row > bounds.bottom
      PROVE  SheetInv'
  <2>1. ScanHolds => ScanHolds'
    BY <1>6 DEF ScanHolds
  <2>2. LaidHolds => LaidHolds'
    <3>1. Across' = Across /\ Visits' = Visits /\ Asked' = Asked /\ Attributes' = Attributes
      BY <1>6 DEF Across, Visits, Asked, Attributes
    <3> QED BY <1>6, <3>1 DEF LaidHolds, FrameHolds, TakenHolds, ValuesHold, KindsHold, RowsHold, NoCellIsBelow
  <2> QED BY <1>6, <2>1, <2>2 DEF SheetInv
<1>7. CASE Finish
  <2>1. UNCHANGED <<sheet, request, bounds, taken, sheet_row, values, columns, kinds, sheet_rows>>
    BY <1>7 DEF Finish
  <2>2. sheet_step = "rows" /\ sheet_row > bounds.bottom /\ sheet_step' \in {"refused", "delivered"}
    BY <1>7 DEF Finish
  <2> QED BY <1>6, <2>1, <2>2
<1>8. CASE SheetEnded \/ UNCHANGED sheetVars
  <2>1. UNCHANGED <<sheet, request, bounds, taken, sheet_row, values, columns, kinds, sheet_rows>>
    BY <1>8 DEF SheetEnded, sheetVars
  <2>2. sheet_step' = sheet_step
    BY <1>8 DEF SheetEnded, sheetVars
  <2> QED BY <1>6, <2>1, <2>2
<1>. QED BY <1>1, <1>2, <1>3, <1>4, <1>5, <1>7, <1>8 DEF SheetNext

LEMMA LaidIsReadWhole ==
  ASSUME SheetInv, NoCellIsBelow
  PROVE  SheetIsReadWhole
<1>. SUFFICES ASSUME sheet_step = "delivered"
              PROVE  SheetIsReadWhole
  BY DEF SheetIsReadWhole
<1>1. sheet \in Sheets /\ LaidHolds /\ sheet_row > bounds.bottom
  BY DEF SheetInv
<1>2. /\ bounds.top \in Nat /\ bounds.bottom \in Nat /\ sheet_row = bounds.bottom + 1 /\ bounds.top <= bounds.bottom
      /\ \A i \in DOMAIN sheet.cells : sheet.cells[i].row <= bounds.bottom
  BY <1>1 DEF LaidHolds, FrameHolds, Frames
<1>3. taken = Len(sheet.cells)
  BY <1>1, <1>2, SheetIs DEF LaidHolds, TakenHolds
<1>4. CellsKeepToTheFrame
  BY <1>1, <1>3, SheetIs DEF LaidHolds, TakenHolds, CellsKeepToTheFrame, Across
<1>5. \A r, c : Place(sheet.cells, taken, r, c) = ValueAt(r, c)
  BY <1>1, <1>3, SheetIs, PlaceOfAll
<1>6. Visits = bounds.bottom - bounds.top /\ Visits \in Nat
  BY <1>2 DEF Visits
<1>7. Named(sheet, taken, bounds.top, Across, Asked, columns)
  BY <1>1, <1>2 DEF LaidHolds, RowsHold
<1>8. \A i \in DOMAIN columns :
        {c \in bounds.left .. bounds.right : DataToString(ValueAt(bounds.top, c)) = Asked[i]} = {columns[i]}
  BY <1>5, <1>7 DEF Named, Across
<1>9. DOMAIN sheet_rows = 1 .. Visits /\ Len(sheet_rows) = Visits
  BY <1>1, <1>6 DEF LaidHolds, RowsHold
<1>10. \A i \in DOMAIN sheet_rows :
         /\ IsOf(sheet_rows[i].geometry, [j \in DOMAIN columns |-> ValueAt(bounds.top + i, columns[j])])
         /\ \A c \in Attributes :
              Tells(sheet.epoch, kinds[c].temporal, sheet_rows[i].attributes[c], ValueAt(bounds.top + i, c))
  <2>1. TAKE i \in DOMAIN sheet_rows
  <2>2. LaidRowHolds(sheet, taken, columns, Attributes, kinds, bounds.top + i, sheet_rows[i])
    BY <1>1, <1>9 DEF LaidHolds, RowsHold
  <2>3. [j \in DOMAIN columns |-> Place(sheet.cells, taken, bounds.top + i, columns[j])] =
          [j \in DOMAIN columns |-> ValueAt(bounds.top + i, columns[j])]
    BY <1>5
  <2>4. \A c \in Attributes : OneKind(kinds[c])
    BY <1>1 DEF LaidHolds, KindsHold, Attributes, Across
  <2>5. \A c \in Attributes :
          Fits(sheet.epoch, kinds[c], sheet_rows[i].attributes[c], ValueAt(bounds.top + i, c))
    BY <1>5, <2>2 DEF LaidRowHolds
  <2> QED BY <2>2, <2>3, <2>4, <2>5, FittingTells DEF LaidRowHolds
<1>. QED BY <1>4, <1>6, <1>8, <1>9, <1>10 DEF SheetIsReadWhole

\* A sheet that is accepted, none of whose cells is below the last row it declares, is read whole.
THEOREM SheetReadWhole == SheetSpec => [](NoCellIsBelow => SheetIsReadWhole)
<1>1. SheetInv => (NoCellIsBelow => SheetIsReadWhole)
  BY LaidIsReadWhole
<1>. QED BY SheetInitHolds, SheetStepHolds, <1>1, PTL DEF SheetSpec

-----------------------------------------------------------------------------
(* A column of attributes *)

\* The closed form of the accumulator is what observing the cells one by one gives.
LEMMA ObservedOneByOne ==
  /\ Accumulated({}) = Fresh
  /\ \A classes \in SUBSET Classes : \A class \in Classes :
       Accumulated(classes \cup {class}) = Observe(Accumulated(classes), class)
<1>1. Accumulated({}) = Fresh
  <2> DEFINE none == {} \ {"null"}
  <2>1. /\ (none # {}) = FALSE
        /\ (none \subseteq {"int", "wide"}) = TRUE
        /\ (none \subseteq {"int", "wide", "frac"}) = TRUE
        /\ (none \subseteq {"bool"}) = TRUE
        /\ ("frac" \in none) = FALSE
        /\ ("wide" \in none) = FALSE
    OBVIOUS
  <2>2. Accumulated({}) =
          [any |-> none # {},
           all_int |-> none \subseteq {"int", "wide"},
           all_num |-> none \subseteq {"int", "wide", "frac"},
           all_bool |-> none \subseteq {"bool"},
           has_fractional_number |-> "frac" \in none,
           has_wide_integer |-> "wide" \in none]
    BY DEF Accumulated
  <2> HIDE DEF none
  <2> QED BY <2>1, <2>2, Zenon DEF Fresh
<1>2. ASSUME NEW classes \in SUBSET Classes, NEW class \in Classes
      PROVE  Accumulated(classes \cup {class}) = Observe(Accumulated(classes), class)
  <2>1. CASE class = "null"
    <3>1. (classes \cup {class}) \ {"null"} = classes \ {"null"}
      BY <2>1
    <3> QED BY <2>1, <3>1 DEF Accumulated, Observe
  <2>2. CASE class # "null"
    <3> DEFINE old == classes \ {"null"}
    <3>1. (classes \cup {class}) \ {"null"} = old \cup {class}
      BY <2>2
    <3>2. \A few \in {{"int", "wide"}, {"int", "wide", "frac"}, {"bool"}} :
            (old \cup {class} \subseteq few) <=> (old \subseteq few /\ class \in few)
      OBVIOUS
    <3>3. old \cup {class} # {}
      OBVIOUS
    <3>4. \A w : w \in old \cup {class} <=> (w \in old \/ class = w)
      OBVIOUS
    <3>5. Accumulated(classes \cup {class}) =
            [any |-> old \cup {class} # {},
             all_int |-> old \cup {class} \subseteq {"int", "wide"},
             all_num |-> old \cup {class} \subseteq {"int", "wide", "frac"},
             all_bool |-> old \cup {class} \subseteq {"bool"},
             has_fractional_number |-> "frac" \in old \cup {class},
             has_wide_integer |-> "wide" \in old \cup {class}]
      BY <3>1 DEF Accumulated
    <3>6. Accumulated(classes) =
            [any |-> old # {},
             all_int |-> old \subseteq {"int", "wide"},
             all_num |-> old \subseteq {"int", "wide", "frac"},
             all_bool |-> old \subseteq {"bool"},
             has_fractional_number |-> "frac" \in old,
             has_wide_integer |-> "wide" \in old]
      BY DEF Accumulated
    <3>7. /\ (old \cup {class} \subseteq {"int", "wide"}) = (old \subseteq {"int", "wide"} /\ class \in {"int", "wide"})
          /\ (old \cup {class} \subseteq {"int", "wide", "frac"}) =
               (old \subseteq {"int", "wide", "frac"} /\ class \in {"int", "wide", "frac"})
          /\ (old \cup {class} \subseteq {"bool"}) = (old \subseteq {"bool"} /\ class = "bool")
          /\ ("frac" \in old \cup {class}) = ("frac" \in old \/ class = "frac")
          /\ ("wide" \in old \cup {class}) = ("wide" \in old \/ class = "wide")
          /\ (old \cup {class} # {}) = TRUE
      OBVIOUS
    <3> HIDE DEF old
    <3> DEFINE acc == Accumulated(classes)
    <3>8. /\ acc.all_int = (old \subseteq {"int", "wide"})
          /\ acc.all_num = (old \subseteq {"int", "wide", "frac"})
          /\ acc.all_bool = (old \subseteq {"bool"})
          /\ acc.has_fractional_number = ("frac" \in old)
          /\ acc.has_wide_integer = ("wide" \in old)
      BY <3>6
    <3> HIDE DEF acc
    <3>9. Observe(acc, class) =
            [any |-> old \cup {class} # {},
             all_int |-> old \cup {class} \subseteq {"int", "wide"},
             all_num |-> old \cup {class} \subseteq {"int", "wide", "frac"},
             all_bool |-> old \cup {class} \subseteq {"bool"},
             has_fractional_number |-> "frac" \in old \cup {class},
             has_wide_integer |-> "wide" \in old \cup {class}]
      BY <2>2, <3>7, <3>8, Zenon DEF Observe
    <3> QED BY <3>5, <3>9 DEF acc
  <2> QED BY <2>1, <2>2
<1>. QED BY <1>1, <1>2

\* A column is given a type that holds every class seen in it, and no integer past 2^53 an f64.
LEMMA TypeHoldsItsClasses ==
  ASSUME NEW classes \in SUBSET Classes
  PROVE  /\ TypeOfColumn(classes) \in ColTypes
         /\ \A class \in classes :
              /\ AppendJson(TypeOfColumn(classes), class) = "exact"
              /\ AppendCell(TypeOfColumn(classes), class) = "exact"
              /\ class = "text" => TypeOfColumn(classes) = "Text"
<1> DEFINE acc == Accumulated(classes)
           heard == classes \ {"null"}
<1>1. /\ acc.any <=> heard # {}
      /\ acc.all_int <=> heard \subseteq {"int", "wide"}
      /\ acc.all_num <=> heard \subseteq {"int", "wide", "frac"}
      /\ acc.all_bool <=> heard \subseteq {"bool"}
      /\ acc.has_fractional_number <=> "frac" \in heard
      /\ acc.has_wide_integer <=> "wide" \in heard
  BY DEF Accumulated
<1> HIDE DEF acc
<1>2. TypeOfColumn(classes) = ColumnType(acc)
  BY DEF acc, TypeOfColumn
<1>3. ColumnType(acc) \in ColTypes
  BY DEF ColumnType, ColTypes
<1>4. ASSUME NEW class \in classes, class # "null"
      PROVE  class \in Native(ColumnType(acc)) /\ ~(ColumnType(acc) = "Number" /\ class = "wide")
  <2>1. acc.any /\ class \in heard
    BY <1>1, <1>4
  <2>2. CASE acc.all_int
    BY <1>1, <2>1, <2>2 DEF ColumnType, Native
  <2>3. CASE ~acc.all_int /\ acc.all_bool
    BY <1>1, <2>1, <2>3 DEF ColumnType, Native
  <2>4. CASE ~acc.all_int /\ ~acc.all_bool /\ acc.all_num /\ ~(acc.has_fractional_number /\ acc.has_wide_integer)
    <3>1. ColumnType(acc) = "Number"
      BY <2>1, <2>4 DEF ColumnType
    <3>2. class \in {"int", "wide", "frac"}
      BY <1>1, <2>1, <2>4
    <3>3. "frac" \in heard
      BY <1>1, <2>4
    <3> QED BY <1>1, <2>1, <2>4, <3>1, <3>2, <3>3 DEF Native
  <2>5. CASE ~acc.all_int /\ ~acc.all_bool /\ ~(acc.all_num /\ ~(acc.has_fractional_number /\ acc.has_wide_integer))
    <3>1. ColumnType(acc) = "Text"
      BY <2>1, <2>5 DEF ColumnType
    <3> QED BY <1>4, <3>1 DEF Native, Classes
  <2> QED BY <2>2, <2>3, <2>4, <2>5
<1>5. \A class \in classes :
        /\ AppendJson(ColumnType(acc), class) = "exact"
        /\ AppendCell(ColumnType(acc), class) = "exact"
        /\ class = "text" => ColumnType(acc) = "Text"
  <2>1. TAKE class \in classes
  <2>2. CASE class = "null"
    BY <2>2 DEF AppendJson, AppendCell
  <2>3. CASE class # "null"
    <3>1. class \in Native(ColumnType(acc)) /\ ~(ColumnType(acc) = "Number" /\ class = "wide")
      BY <1>4, <2>3
    <3>2. class = "text" => ColumnType(acc) = "Text"
      BY <1>3, <3>1 DEF Native, ColTypes
    <3> QED BY <2>3, <3>1, <3>2 DEF AppendJson, AppendCell
  <2> QED BY <2>2, <2>3
<1>. QED BY <1>2, <1>3, <1>5

LEMMA EmptyTextIs == \A v : v = Value("text", "") => v.kind = "text" /\ v.is = ""
<1>1. Value("text", "").kind = "text" /\ Value("text", "").is = ""
  BY DEF Value
<1>. QED BY <1>1

LEMMA ValueIs ==
  /\ \A kind, what : Value(kind, what).kind = kind /\ Value(kind, what).is = what
  /\ \A kind \in ValueKinds, what \in Whats : Value(kind, what) \in CellContents /\ Value(kind, what) # Denial
  /\ NullValue = Value("null", "null") /\ NullValue.kind = "null" /\ NullValue \in CellContents /\ NullValue # Denial
<1>1. \A kind, what : Value(kind, what).kind = kind /\ Value(kind, what).is = what
  BY DEF Value
<1>2. \A kind \in ValueKinds, what \in Whats : Value(kind, what) \in CellContents /\ Value(kind, what) # Denial
  BY AttributeAssumption DEF Value, CellContents
<1>3. "null" \in ValueKinds /\ "null" \in Whats /\ NullValue = Value("null", "null")
  BY DEF ValueKinds, Whats, NullValue
<1>. QED BY <1>1, <1>2, <1>3

\* What a cell that is read into a column becomes: null stays so, and text stays text.
Becomes(class, v, b) ==
  /\ v.kind = "null" => b = v
  /\ v.kind # "null" => b.kind \in {"int", "real", "bool", "text"} /\ b.is = v.is /\ b \in CellContents
  /\ v.kind # "null" /\ class = "text" => b.kind = "text"

\* A cell as a format's reader finds it: a class, and the value that class was given to.
IsFound(d, c) ==
  /\ ReadClass(d, c) \in Classes
  /\ ReadClass(d, c) = "null" <=> ReadValue(d, c).kind = "null"
  /\ ReadClass(d, c) # "null" => ReadValue(d, c).is \in Whats
  /\ ReadClass(d, c) = "null" => ReadValue(d, c) = NullValue

LEMMA BuiltExactly ==
  ASSUME NEW type \in ColTypes, NEW class, NEW v, class = "text" => type = "Text", v.kind # "null" => v.is \in Whats
  PROVE  Becomes(class, v, Built(type, v, "exact"))
<1>1. CASE v.kind = "null"
  BY <1>1 DEF Built, Becomes
<1>2. CASE v.kind # "null"
  <2> DEFINE kind == [Integer |-> "int", Number |-> "real", Boolean |-> "bool", Text |-> "text"][type]
  <2>1. Built(type, v, "exact") = Value(kind, v.is)
    BY <1>2 DEF Built
  <2>2. kind \in {"int", "real", "bool", "text"} /\ (class = "text" => kind = "text")
    BY DEF ColTypes
  <2> HIDE DEF kind
  <2>3. Value(kind, v.is) \in CellContents
    BY <1>2, <2>2 DEF Value, CellContents, ValueKinds
  <2> QED BY <1>2, <2>1, <2>2, <2>3 DEF Becomes, Value
<1>. QED BY <1>1, <1>2

LEMMA InferredHolds ==
  ASSUME NEW d \in {"csv", "geojson", "xls"}, NEW n \in SUBSET Nat, NEW cells, DOMAIN cells = n,
         \A i \in n : IsFound(d, cells[i])
  PROVE  /\ DOMAIN Inferred(d, cells) = n
         /\ \A i \in n : Becomes(ReadClass(d, cells[i]), ReadValue(d, cells[i]), Inferred(d, cells)[i])
<1> DEFINE classes == {ReadClass(d, cells[i]) : i \in DOMAIN cells}
           type == TypeOfColumn(classes)
<1>1. classes \in SUBSET Classes
  BY DEF IsFound
<1>2. /\ DOMAIN Inferred(d, cells) = n
      /\ \A i \in n : Inferred(d, cells)[i] =
           Built(type, ReadValue(d, cells[i]), ReadFate(d, type, ReadClass(d, cells[i])))
  BY DEF Inferred
<1>3. ASSUME NEW i \in n
      PROVE  Becomes(ReadClass(d, cells[i]), ReadValue(d, cells[i]), Inferred(d, cells)[i])
  <2> DEFINE class == ReadClass(d, cells[i])
             v == ReadValue(d, cells[i])
  <2>1. class \in classes
    OBVIOUS
  <2> HIDE DEF classes
  <2>2. type \in ColTypes /\ AppendJson(type, class) = "exact" /\ AppendCell(type, class) = "exact"
          /\ (class = "text" => type = "Text")
    BY <1>1, <2>1, TypeHoldsItsClasses
  <2>3. Inferred(d, cells)[i] = Built(type, v, "exact")
    BY <1>2, <2>2 DEF ReadFate
  <2>4. IsFound(d, cells[i])
    OBVIOUS
  <2>5. v.kind = "null" => v = NullValue
    BY <2>4 DEF IsFound
  <2>6. v.kind # "null" => v.is \in Whats
    BY <2>4 DEF IsFound
  <2> QED BY <2>2, <2>3, <2>5, <2>6, BuiltExactly
<1>. QED BY <1>2, <1>3

\* The values of Arrow are null, or of their type.
IsCell(type, c) ==
  /\ c \in CellContents /\ c # Denial /\ c = Value(c.kind, c.is)
  /\ c.kind = "null" => c = NullValue
  /\ c.kind # "null" =>
       /\ type = "Boolean" => c.kind = "bool" /\ c.is \in {"true", "false"}
       /\ type = "Int64" => c.kind = "int" /\ c.is \in InI64
       /\ type = "UInt64" => c.kind = "int" /\ c.is \in InI64 \cup {"huge"}
       /\ type \in {"Float16", "Float64"} => c.kind = "real" /\ c.is \in Floats
       /\ type \in {"Utf8", "LargeUtf8"} => c.kind = "text" /\ c.is \in Texts
       /\ type = "Binary" => c.kind = "blob"
       /\ type \in {"Date64", "Time64", "Duration"} => c.kind = "day"
       /\ type = "Decimal128" => c.kind = "decimal"
       /\ type = "List" => c.kind = "list"

LEMMA CellIs ==
  ASSUME NEW type \in ArrowTypes, NEW c \in ArrowValues(type)
  PROVE  IsCell(type, c)
<1>1. InI64 \cup {"huge"} \subseteq Whats /\ Floats \subseteq Whats /\ Texts \subseteq Whats
        /\ {"null", "true", "false"} \subseteq Whats
  BY DEF InI64, Floats, NumberNames, Finite, Texts, Whats
<1>2. c = NullValue \/ \E kind \in ValueKinds \ {"null"}, what \in Whats :
        /\ c = Value(kind, what)
        /\ type = "Boolean" => kind = "bool" /\ what \in {"true", "false"}
        /\ type = "Int64" => kind = "int" /\ what \in InI64
        /\ type = "UInt64" => kind = "int" /\ what \in InI64 \cup {"huge"}
        /\ type \in {"Float16", "Float64"} => kind = "real" /\ what \in Floats
        /\ type \in {"Utf8", "LargeUtf8"} => kind = "text" /\ what \in Texts
        /\ type = "Binary" => kind = "blob"
        /\ type \in {"Date64", "Time64", "Duration"} => kind = "day"
        /\ type = "Decimal128" => kind = "decimal"
        /\ type = "List" => kind = "list"
  <2>1. \A kind, whats : \A v \in Of(kind, whats) : v = Value(kind, v.is) /\ v.is \in whats
    BY DEF Of, Value
  <2>2. CASE c = NullValue
    BY <2>2
  <2>3. CASE type = "Boolean" /\ c # NullValue
    <3>1. c \in Of("bool", {"true", "false"})
      BY <2>3 DEF ArrowValues
    <3> QED BY <1>1, <2>1, <2>3, <3>1 DEF ValueKinds
  <2>4. CASE type = "Int64" /\ c # NullValue
    <3>1. c \in Of("int", InI64)
      BY <2>4 DEF ArrowValues
    <3> QED BY <1>1, <2>1, <2>4, <3>1 DEF ValueKinds
  <2>5. CASE type = "UInt64" /\ c # NullValue
    <3>1. c \in Of("int", InI64 \cup {"huge"})
      BY <2>5 DEF ArrowValues
    <3> QED BY <1>1, <2>1, <2>5, <3>1 DEF ValueKinds
  <2>6. CASE type \in {"Float16", "Float64"} /\ c # NullValue
    <3>1. c \in Of("real", Floats)
      BY <2>6 DEF ArrowValues
    <3> QED BY <1>1, <2>1, <2>6, <3>1 DEF ValueKinds
  <2>7. CASE type \in {"Utf8", "LargeUtf8"} /\ c # NullValue
    <3>1. c \in Of("text", Texts)
      BY <2>7 DEF ArrowValues
    <3> QED BY <1>1, <2>1, <2>7, <3>1 DEF ValueKinds
  <2>8. CASE type = "Binary" /\ c # NullValue
    <3>1. c \in Of("blob", Whats)
      BY <2>8 DEF ArrowValues
    <3> QED BY <2>1, <2>8, <3>1 DEF ValueKinds
  <2>9. CASE type \in {"Date64", "Time64", "Duration"} /\ c # NullValue
    <3>1. c \in Of("day", Whats)
      BY <2>9 DEF ArrowValues
    <3> QED BY <2>1, <2>9, <3>1 DEF ValueKinds
  <2>10. CASE type = "Decimal128" /\ c # NullValue
    <3>1. c \in Of("decimal", Whats)
      BY <2>10 DEF ArrowValues
    <3> QED BY <2>1, <2>10, <3>1 DEF ValueKinds
  <2>11. CASE type = "List" /\ c # NullValue
    <3>1. c \in Of("list", Whats)
      BY <2>11 DEF ArrowValues
    <3> QED BY <2>1, <2>11, <3>1 DEF ValueKinds
  <2> QED BY <2>2, <2>3, <2>4, <2>5, <2>6, <2>7, <2>8, <2>9, <2>10, <2>11 DEF ArrowTypes
<1>3. \A kind \in ValueKinds, what \in Whats : Value(kind, what) \in CellContents /\ Value(kind, what) # Denial
  BY ValueIs
<1>4. NullValue.kind = "null" /\ NullValue = Value("null", "null") /\ "null" \in ValueKinds /\ "null" \in Whats
  BY <1>1 DEF NullValue, Value, ValueKinds
<1>5. \A kind, what : Value(kind, what).kind = kind /\ Value(kind, what).is = what
  BY DEF Value
<1>6. CASE c = NullValue
  BY <1>3, <1>4, <1>5, <1>6 DEF IsCell
<1>7. CASE c # NullValue
  BY <1>2, <1>3, <1>5, <1>7 DEF IsCell
<1>. QED BY <1>6, <1>7

\* What JSON may say of a cell is the cell, or a date or time as text.
IsJson(type, c, j) ==
  /\ j = Value(j.kind, j.is) /\ j.is = c.is /\ j.is \in Whats
  /\ j.kind \in {"null", "bool", "int", "real", "text"}
  /\ j.kind = "null" <=> c.kind = "null"
  /\ j.kind = "null" => j = NullValue /\ c = NullValue
  /\ j.kind = "bool" => type = "Boolean" /\ j.is \in {"true", "false"}
  /\ j.kind = "int" => type \in {"Int64", "UInt64"} /\ j.is \in InI64 \cup {"huge"}
  /\ j.kind = "real" => type = "Float64" /\ j.is \in Finite /\ AsF64(j.is) = j.is
  /\ j.kind = "text" =>
       type \in {"Utf8", "Date64", "Time64"} /\ j.is \in Texts /\ (j.is = "" => c = Value("text", ""))
  /\ c.kind = "text" => j.kind = "text"

LEMMA JsonIs ==
  ASSUME NEW type \in ArrowTypes, NEW c, IsCell(type, c), JsonFromArray(type, c) # Denial
  PROVE  IsJson(type, c, JsonFromArray(type, c))
<1> DEFINE j == JsonFromArray(type, c)
<1>1. c.is \in Whats /\ c.kind \in ValueKinds
  BY DEF IsCell, CellContents
<1>2. \A kind, what : Value(kind, what).kind = kind /\ Value(kind, what).is = what
  BY DEF Value
<1>3. CASE c.kind = "null"
  <2>1. j = NullValue /\ c = NullValue
    BY <1>3 DEF JsonFromArray, IsCell
  <2> QED BY <1>1, <1>3, <2>1 DEF IsJson, NullValue, Value
<1>4. CASE c.kind # "null" /\ type = "Boolean"
  <2>1. j = c /\ c.kind = "bool"
    BY <1>4 DEF JsonFromArray, IsCell
  <2> QED BY <1>1, <1>4, <2>1 DEF IsJson, IsCell
<1>5. CASE c.kind # "null" /\ type \in {"Int64", "UInt64"}
  <2>1. j = c /\ c.kind = "int"
    BY <1>5 DEF JsonFromArray, IsCell
  <2> QED BY <1>1, <1>5, <2>1 DEF IsJson, IsCell
<1>6. CASE c.kind # "null" /\ type = "Float64"
  <2>1. j = c /\ c.kind = "real" /\ c.is \in Finite
    BY <1>6 DEF JsonFromArray, IsCell
  <2>2. AsF64(c.is) = c.is
    BY <1>6 DEF IsCell, Floats, AsF64
  <2> QED BY <1>1, <1>6, <2>1, <2>2 DEF IsJson, IsCell
<1>7. CASE c.kind # "null" /\ type = "Utf8"
  <2>1. j = c /\ c.kind = "text" /\ c.is \in Texts
    BY <1>7 DEF JsonFromArray, IsCell
  <2> QED BY <1>1, <1>7, <2>1 DEF IsJson, IsCell
<1>8. CASE c.kind # "null" /\ type \in {"Date64", "Time64"}
  <2>1. j = Value("text", c.is) /\ c.is \in {"day", "hour"} /\ c.kind = "day"
    BY <1>8 DEF JsonFromArray, IsCell, ValidTemporal
  <2>2. c.is \in Texts /\ c.is # ""
    BY <2>1 DEF Texts, Whats, High
  <2>3. j.kind = "text" /\ j.is = c.is /\ j = Value(j.kind, j.is)
    BY <1>2, <2>1
  <2> HIDE DEF j
  <2>4. IsJson(type, c, j)
    BY <1>1, <1>8, <2>1, <2>2, <2>3 DEF IsJson
  <2> QED BY <2>4 DEF j
<1>9. CASE c.kind # "null" /\ type \notin {"Boolean", "Int64", "UInt64", "Float64", "Utf8", "Date64", "Time64"}
  BY <1>9 DEF JsonFromArray
<1>. QED BY <1>3, <1>4, <1>5, <1>6, <1>7, <1>8, <1>9

\* What a reader that infers types finds in a file is what was written.
Serves(d, c, f) ==
  /\ IsFound(d, f)
  /\ ReadValue(d, f).kind = "null" => c.kind = "null" \/ (c = Value("text", "") /\ d = "xls")
  /\ ReadValue(d, f).kind # "null" =>
       /\ c.kind # "null" /\ ReadValue(d, f).is = c.is
       /\ c.kind = "text" => ReadClass(d, f) = "text"

LEMMA CsvServes ==
  ASSUME NEW type \in ArrowTypes, NEW c, IsCell(type, c), WriteCsvCell(type, c) # Denial
  PROVE  Serves("csv", c, WriteCsvCell(type, c))
<1> DEFINE f == WriteCsvCell(type, c)
           v == ReadValue("csv", f)
<1>1. c.is \in Whats
  BY DEF IsCell, CellContents
<1>2. /\ ReadClass("csv", f) = CsvClass(f)
      /\ v = IF CsvClass(f) = "null" THEN NullValue ELSE Value("text", f.text)
  BY DEF ReadClass, ReadValue
<1>3. NullValue.kind = "null" /\ \A what : Value("text", what).kind = "text" /\ Value("text", what).is = what
  BY DEF NullValue, Value
<1>4. CASE c.kind = "null"
  <2>1. f = [quoted |-> FALSE, text |-> ""]
    BY <1>4 DEF WriteCsvCell
  <2> HIDE DEF f
  <2>2. ~f.quoted /\ f.text = ""
    BY <2>1
  <2>3. CsvClass(f) = "null"
    BY <2>2 DEF CsvClass, InI64
  <2>4. Serves("csv", c, f)
    BY <1>2, <1>3, <1>4, <2>3 DEF Serves, IsFound, Classes
  <2> QED BY <2>4 DEF f
<1>5. ASSUME c.kind # "null"
      PROVE  /\ f.text = c.is
             /\ CsvClass(f) \in Classes \ {"null"}
             /\ c.kind = "text" => CsvClass(f) = "text"
  <2>1. CASE type = "LargeUtf8"
    <3>1. f = [quoted |-> TRUE, text |-> c.is]
      BY <1>5, <2>1 DEF WriteCsvCell
    <3> QED BY <3>1 DEF CsvClass, Classes
  <2>2. CASE type # "LargeUtf8"
    <3> DEFINE j == JsonFromArray(type, c)
    <3>1. j # Denial /\ f = [quoted |-> j.kind = "text", text |-> j.is]
      BY <1>5, <2>2 DEF WriteCsvCell
    <3>2. IsJson(type, c, j)
      BY <3>1, JsonIs
    <3> HIDE DEF j, f
    <3>3. CASE j.kind = "text"
      <4>1. f = [quoted |-> TRUE, text |-> c.is]
        BY <3>1, <3>2, <3>3 DEF IsJson
      <4> QED BY <4>1 DEF CsvClass, Classes
    <3>4. CASE j.kind # "text"
      <4>1. f = [quoted |-> FALSE, text |-> c.is]
        BY <3>1, <3>2, <3>4 DEF IsJson
      <4>2. c.is \in {"true", "false", "huge"} \cup InI64 \cup Finite /\ c.kind # "text"
        BY <1>5, <3>2, <3>4 DEF IsJson
      <4>3. c.is # ""
        BY <4>2 DEF InI64, Finite
      <4>4. f.text = c.is /\ ~f.quoted
        BY <4>1
      <4> QED BY <4>2, <4>3, <4>4 DEF CsvClass, Classes
    <3> QED BY <3>3, <3>4
  <2> QED BY <2>1, <2>2
<1>6. CASE c.kind # "null"
  <2> HIDE DEF f
  <2>1. CsvClass(f) # "null" /\ v = Value("text", c.is)
    BY <1>2, <1>5, <1>6
  <2>2. Serves("csv", c, f)
    BY <1>1, <1>2, <1>3, <1>5, <1>6, <2>1 DEF Serves, IsFound
  <2> QED BY <2>2 DEF f
<1>. QED BY <1>4, <1>6

LEMMA GeojsonServes ==
  ASSUME NEW type \in ArrowTypes, NEW c, IsCell(type, c), JsonFromArray(type, c) # Denial
  PROVE  Serves("geojson", c, JsonFromArray(type, c))
<1> DEFINE j == JsonFromArray(type, c)
<1>1. IsJson(type, c, j)
  BY JsonIs
<1> HIDE DEF j
<1>2. ReadClass("geojson", j) = JsonClass(j) /\ ReadValue("geojson", j) = j
  BY DEF ReadClass, ReadValue
<1>3. /\ JsonClass(j) \in Classes
      /\ JsonClass(j) = "null" <=> j.kind = "null"
      /\ j.kind = "text" => JsonClass(j) = "text"
  BY <1>1 DEF IsJson, JsonClass, Classes
<1>4. Serves("geojson", c, j)
  BY <1>1, <1>2, <1>3 DEF Serves, IsFound, IsJson
<1>. QED BY <1>4 DEF j

LEMMA XlsServes ==
  ASSUME NEW type \in ArrowTypes, NEW c, IsCell(type, c), WriteXlsCell(type, c) # Denial,
         NEW f \in {WriteXlsCell(type, c), Dropped("xls", WriteXlsCell(type, c))}
  PROVE  Serves("xls", c, f)
<1> DEFINE j == JsonFromArray(type, c)
           w == WriteXlsCell(type, c)
<1>1. j # Denial /\ w = IF j.kind = "int" THEN Value("real", j.is) ELSE j
  BY DEF WriteXlsCell
<1>2. IsJson(type, c, j)
  BY <1>1, JsonIs
<1>3. f = w \/ (f = NullValue /\ w = Value("text", ""))
  BY DEF Dropped, MayBeDropped
<1> HIDE DEF j, w
<1>4. ReadClass("xls", f) = XlsClass(f) /\ ReadValue("xls", f) = f
  BY DEF ReadClass, ReadValue
<1>5. \A kind, what : Value(kind, what).kind = kind /\ Value(kind, what).is = what
  BY DEF Value
<1>6. CASE f = NullValue /\ w = Value("text", "")
  <2>1. j.kind = "text" /\ j.is = ""
    <3>1. w.kind = "text" /\ w.is = ""
      BY <1>5, <1>6
    <3>2. j.kind = "int" => w.kind = "real"
      BY <1>1, <1>5
    <3> QED BY <1>1, <3>1, <3>2
  <2>2. c = Value("text", "")
    BY <1>2, <2>1 DEF IsJson
  <2>3. f.kind = "null" /\ XlsClass(f) = "null"
    BY <1>5, <1>6 DEF NullValue, XlsClass
  <2> QED BY <1>4, <1>6, <2>2, <2>3 DEF Serves, IsFound, Classes
<1>7. CASE f = w
  <2>1. /\ f.kind = (IF j.kind = "int" THEN "real" ELSE j.kind) /\ f.is = j.is
        /\ j.kind = "null" => f = j
    BY <1>1, <1>5, <1>7
  <2>2. /\ XlsClass(f) \in Classes
        /\ XlsClass(f) = "null" <=> j.kind = "null"
        /\ j.kind = "text" => XlsClass(f) = "text"
    BY <1>2, <2>1 DEF IsJson, XlsClass, Classes
  <2> QED BY <1>2, <1>4, <2>1, <2>2 DEF Serves, IsFound, IsJson
<1>. QED BY <1>3, <1>6, <1>7

\* And what becomes of it in the column is what the cell was.
LEMMA ServedKeeps ==
  ASSUME NEW d, NEW c, NEW f, NEW b, NEW changes, Serves(d, c, f), Becomes(ReadClass(d, f), ReadValue(d, f), b)
  PROVE  /\ b # Denial
         /\ d # "xls" \/ "nullability" \in changes => Keeps(changes, c, b)
<1>1. NullValue \in CellContents /\ NullValue.kind = "null"
  BY DEF NullValue, Value, CellContents, ValueKinds, Whats
<1> DEFINE v == ReadValue(d, f)
<1>2. CASE v.kind = "null"
  <2>1. b = NullValue
    BY <1>2 DEF Becomes, Serves, IsFound
  <2> QED BY <1>1, <1>2, <2>1, AttributeAssumption DEF Serves, Keeps
<1>3. CASE v.kind # "null"
  <2>1. b \in CellContents /\ b.is = c.is /\ c.kind # "null" /\ b.kind # "null" /\ (c.kind = "text" => b.kind = "text")
    BY <1>3 DEF Becomes, Serves
  <2> QED BY <2>1, AttributeAssumption DEF Keeps
<1>. QED BY <1>2, <1>3

\* The declared types a column of a batch may be given in a table that is written.
LEMMA DeclaredIs ==
  ASSUME NEW column, column.type \in ArrowTypes, ~TypeRefused("gpkg", column.type), ~MetadataRefused("gpkg", column)
  PROVE  \/ column.type = "Boolean" /\ DeclaredInFile(column) = "INTEGER"
         \/ column.type \in {"Int64", "UInt64"} /\ DeclaredInFile(column) \in {"INTEGER", "BOOLEAN"}
         \/ column.type \in {"Float16", "Float64"} /\ DeclaredInFile(column) = "REAL"
         \/ column.type = "Utf8" /\ DeclaredInFile(column) \in {"TEXT", "DATE"}
         \/ column.type = "LargeUtf8" /\ DeclaredInFile(column) = "TEXT"
         \/ column.type = "Binary" /\ DeclaredInFile(column) = "BLOB"
<1>1. AllowedTypes["gpkg"] = Scalar \ {"Temporal", "Decimal"}
  BY DEF AllowedTypes
<1>2. ArrowTypeClass(column.type) \in Scalar \ {"Temporal", "Decimal"}
  BY <1>1 DEF TypeRefused, RejectsCoercion
<1>3. column.type \in {"Boolean", "Int64", "UInt64", "Float16", "Float64", "Utf8", "LargeUtf8", "Binary"}
  BY <1>2 DEF ArrowTypes, ArrowTypeClass, Scalar
<1>4. CASE column.declared = Unsaid
  BY <1>3, <1>4 DEF DeclaredInFile, SqliteType
<1>5. CASE column.declared # Unsaid
  <2>1. DeclaredInFile(column) = column.declared
    BY <1>5 DEF DeclaredInFile
  <2>2. column.declared \in {"BOOLEAN", "INTEGER", "REAL", "TEXT", "BLOB", "DATE"}
          /\ SqliteDeclaredToArrow(column.declared) = column.type
    BY <1>5 DEF MetadataRefused, Recognized
  <2> QED BY <2>1, <2>2 DEF SqliteDeclaredToArrow
<1>. QED BY <1>4, <1>5

LEMMA GpkgKeeps ==
  ASSUME NEW column, column.type \in ArrowTypes, NEW c, IsCell(column.type, c),
         ~TypeRefused("gpkg", column.type), ~MetadataRefused("gpkg", column), InsertedCell(column, c) # Denial,
         NEW b, b = ColBuilderAppend(SqliteDeclaredToArrow(DeclaredInFile(column)), InsertedCell(column, c)).cell
  PROVE  b # Denial /\ Keeps(Announced("gpkg", column), c, b)
<1> DEFINE type == column.type
           declared == DeclaredInFile(column)
           bound == ArrowCellToSql(type, c)
           kept == Stored(declared, bound)
           read == SqliteDeclaredToArrow(declared)
<1>1. \/ type = "Boolean" /\ declared = "INTEGER"
      \/ type \in {"Int64", "UInt64"} /\ declared \in {"INTEGER", "BOOLEAN"}
      \/ type \in {"Float16", "Float64"} /\ declared = "REAL"
      \/ type = "Utf8" /\ declared \in {"TEXT", "DATE"}
      \/ type = "LargeUtf8" /\ declared = "TEXT"
      \/ type = "Binary" /\ declared = "BLOB"
  BY DeclaredIs
<1>2. bound # Denial /\ AffinityKeeps(declared, bound) /\ InsertedCell(column, c) = kept
  BY DEF InsertedCell
<1>3. /\ b = ColBuilderAppend(read, kept).cell
      /\ type = "Boolean" => "type" \in Announced("gpkg", column)
  BY <1>2 DEF Announced, NormalizesType
<1>4. /\ type \in {"Boolean", "Int64", "UInt64"} => read = "Int64"
      /\ type \in {"Float16", "Float64"} => read = "Float64"
      /\ type \in {"Utf8", "LargeUtf8"} => read = "Utf8"
      /\ type = "Binary" => read = "Binary"
  BY <1>1 DEF SqliteDeclaredToArrow
<1>5. c \in CellContents /\ c # Denial /\ c.is \in Whats /\ Unsaid \notin Whats
  BY AttributeAssumption DEF IsCell, CellContents
<1>6. \A kind, what : Value(kind, what).kind = kind /\ Value(kind, what).is = what
  BY DEF Value
<1>7. \A v, lossy : TakenCell(v, lossy).cell = v
  BY DEF TakenCell
<1>8. NullValue # Denial /\ NullValue.kind = "null"
  BY ValueIs
<1>9. \A kind \in ValueKinds, what \in Whats : Value(kind, what) # Denial
  BY ValueIs
<1> DEFINE changes == Announced("gpkg", column)
<1> HIDE DEF type, declared, bound, kept, read, changes
<1>10. IsCell(type, c)
  BY DEF type
<1>11. CASE c.kind = "null"
  <2>1. bound = c
    BY <1>11 DEF bound, ArrowCellToSql
  <2>2. kept = c
    BY <1>11, <2>1 DEF kept, Stored
  <2>3. ColBuilderAppend(read, c).cell = NullValue
    BY <1>1, <1>4, <1>7, <1>11 DEF ColBuilderAppend
  <2> QED BY <1>3, <1>8, <1>11, <2>2, <2>3 DEF Keeps
<1>12. CASE c.kind # "null" /\ type \in {"Int64", "UInt64"}
  <2>1. bound = c /\ c.is \in InI64 /\ c.kind = "int"
    BY <1>2, <1>10, <1>12 DEF bound, ArrowCellToSql, IsCell
  <2>2. AsI64(c.is) = c.is /\ c.is # Unsaid
    BY <1>5, <2>1 DEF AsI64, InI64
  <2>3. Affinity(declared) \in {"INTEGER", "NUMERIC"}
    BY <1>1, <1>12 DEF Affinity
  <2>4. kept = Value("int", c.is)
    BY <2>1, <2>2, <2>3 DEF kept, Stored
  <2>5. b = Value("int", c.is)
    <3>1. kept.kind = "int"
      BY <1>6, <2>4
    <3> QED BY <1>3, <1>4, <1>7, <1>12, <2>4, <3>1 DEF ColBuilderAppend
  <2>6. b.kind = "int" /\ b.is = c.is /\ b # Denial
    BY <1>5, <1>6, <1>9, <2>5 DEF ValueKinds
  <2> QED BY <1>12, <2>1, <2>6 DEF Keeps
<1>13. CASE c.kind # "null" /\ type = "Boolean"
  <2>1. c.kind = "bool" /\ c.is \in {"true", "false"} /\ c = Value(c.kind, c.is)
    BY <1>10, <1>13 DEF IsCell
  <2> DEFINE n == IF c.is = "true" THEN "1" ELSE "0"
  <2>2. bound = Value("int", n)
    BY <1>13 DEF bound, ArrowCellToSql
  <2>3. n \in {"0", "1"} /\ AsI64(n) = n /\ n # Unsaid /\ n \in InI64
    <3>1. {"0", "1"} \subseteq Whats
      BY DEF Whats, NumberNames, Finite
    <3> QED BY <1>5, <3>1 DEF AsI64, InI64
  <2> HIDE DEF n
  <2>4. bound.kind = "int" /\ bound.is = n
    BY <1>6, <2>2
  <2>5. Affinity(declared) = "INTEGER"
    BY <1>1, <1>13 DEF Affinity
  <2>6. kept = Value("int", n)
    BY <2>3, <2>4, <2>5 DEF kept, Stored
  <2>7. b = Value("int", n)
    <3>1. kept.kind = "int"
      BY <1>6, <2>6
    <3> QED BY <1>3, <1>4, <1>7, <1>13, <2>6, <3>1 DEF ColBuilderAppend
  <2>8. b.kind = "int" /\ b.is = n /\ b # Denial
    <3>1. n \in Whats
      BY <2>3 DEF Whats, NumberNames, Finite
    <3> QED BY <1>6, <1>9, <2>7, <3>1 DEF ValueKinds
  <2>9. <<c, n>> \in {<<Value("bool", "true"), "1">>, <<Value("bool", "false"), "0">>}
    BY <2>1 DEF n
  <2>10. "type" \in changes
    BY <1>3, <1>13 DEF changes
  <2>11. Keeps(changes, c, b)
    BY <2>1, <2>8, <2>9, <2>10 DEF Keeps
  <2> QED BY <2>8, <2>11 DEF changes
<1>14. CASE c.kind # "null" /\ type \in {"Float16", "Float64"}
  <2>1. bound = c /\ c.is \in Finite \ {"-0"} /\ c.kind = "real" /\ c.is \in Floats
    BY <1>2, <1>10, <1>14 DEF bound, ArrowCellToSql, IsCell
  <2>2. AsF64(c.is) = c.is /\ c.is # Unsaid /\ c.is # "-0"
    BY <1>5, <2>1 DEF AsF64, Floats
  <2>3. Affinity(declared) = "REAL"
    BY <1>1, <1>14 DEF Affinity
  <2>4. kept = Value("real", c.is)
    BY <2>1, <2>2, <2>3 DEF kept, Stored
  <2>5. b = Value("real", c.is)
    <3>1. kept.kind = "real"
      BY <1>6, <2>4
    <3> QED BY <1>3, <1>4, <1>7, <1>14, <2>4, <3>1 DEF ColBuilderAppend
  <2>6. b.kind = "real" /\ b.is = c.is /\ b # Denial
    BY <1>5, <1>6, <1>9, <2>5 DEF ValueKinds
  <2> QED BY <1>14, <2>1, <2>6 DEF Keeps
<1>15. CASE c.kind # "null" /\ type \in {"Utf8", "LargeUtf8"}
  <2>1. bound = c /\ c.kind = "text" /\ c.is \in Texts /\ c = Value("text", c.is)
    BY <1>2, <1>10, <1>15 DEF bound, ArrowCellToSql, IsCell
  <2>2. c.is # "broken"
    BY <2>1 DEF Texts
  <2>3. CASE Affinity(declared) = "TEXT"
    <3>1. kept = c
      BY <2>1, <2>3 DEF kept, Stored
    <3>2. b = Value("text", c.is)
      BY <1>3, <1>4, <1>7, <1>15, <2>1, <2>2, <3>1 DEF ColBuilderAppend
    <3> QED BY <1>5, <1>6, <1>15, <2>1, <3>2 DEF Keeps
  <2>4. CASE declared = "DATE"
    <3>1. Literal(c.is) = Unsaid
      BY <1>2, <2>1, <2>4 DEF AffinityKeeps
    <3>2. kept = c
      BY <2>1, <3>1 DEF kept, Stored
    <3>3. b = Value("text", c.is)
      BY <1>3, <1>4, <1>7, <1>15, <2>1, <2>2, <3>2 DEF ColBuilderAppend
    <3> QED BY <1>5, <1>6, <1>15, <2>1, <3>3 DEF Keeps
  <2> QED BY <1>1, <1>15, <2>3, <2>4 DEF Affinity
<1>16. CASE c.kind # "null" /\ type = "Binary"
  <2>1. bound = c /\ c.kind = "blob"
    BY <1>10, <1>16 DEF bound, ArrowCellToSql, IsCell
  <2>2. kept = c
    BY <2>1 DEF kept, Stored
  <2>3. b = c
    BY <1>3, <1>4, <1>7, <1>16, <2>1, <2>2 DEF ColBuilderAppend
  <2> QED BY <1>5, <1>16, <2>1, <2>3 DEF Keeps
<1>. QED BY <1>1, <1>11, <1>12, <1>13, <1>14, <1>15, <1>16

LEMMA ShpKeeps ==
  ASSUME NEW type \in ArrowTypes, NEW c, IsCell(type, c), CellToField(type, c) # Denial, NEW changes,
         NEW b, b = FieldValue(DbfKind(type), "utf8", CellToField(type, c))
  PROVE  b # Denial /\ Keeps(changes, c, b)
<1> DEFINE j == JsonFromArray(type, c)
           f == CellToField(type, c)
           field == DbfKind(type)
<1>1. j # Denial
  BY DEF CellToField
<1>2. IsJson(type, c, j)
  BY <1>1, JsonIs
<1>3. \A t, exact : Field(t, exact).type = t /\ (Field(t, exact).exact <=> exact)
  BY DEF Field
<1>4. /\ type \in {"Int64", "UInt64"} => field.type = "N" /\ field.exact
      /\ type \in {"Float16", "Float64"} => field.type = "N" /\ ~field.exact
      /\ type = "Boolean" => field.type = "L" /\ ~field.exact
      /\ type \notin {"Int64", "UInt64", "Float16", "Float64", "Boolean"} => field.type = "C" /\ ~field.exact
  BY <1>3 DEF DbfKind
<1>5. /\ j.kind = "null" => f = "blank"
      /\ j.kind = "text" => f = j.is /\ j.is \notin {"", "padded", "nul", "oversized"}
      /\ j.kind = "bool" => f = j.is
      /\ j.kind \in {"int", "real"} =>
           f = j.is /\ j.is \in IF field.exact THEN {"0", "1", "pow"} ELSE {"0", "-0", "1", "1.5"}
  BY <1>1 DEF CellToField
<1> HIDE DEF j, f, field
<1>6. b = FieldValue(field, "utf8", f)
  BY DEF field, f
<1>7. c.is \in Whats
  BY DEF IsCell, CellContents
<1>8. CASE j.kind = "null"
  <2>1. f = "blank" /\ c.kind = "null"
    BY <1>2, <1>5, <1>8 DEF IsJson
  <2>2. Numeric("blank") = NullValue
    BY DEF Numeric, Finite
  <2>3. b = NullValue
    BY <1>4, <1>6, <2>1, <2>2 DEF FieldValue, ArrowTypes
  <2> QED BY <2>1, <2>3, ValueIs DEF Keeps
<1>9. CASE j.kind = "int"
  <2>1. f = c.is /\ c.is \in {"0", "1", "pow"} /\ field.type = "N" /\ field.exact /\ c.kind # "null" /\ c.kind # "text"
    BY <1>2, <1>4, <1>5, <1>9 DEF IsJson
  <2>2. b = Value("int", c.is)
    BY <1>6, <2>1 DEF FieldValue, InI64
  <2>3. b.kind = "int" /\ b.is = c.is /\ b # Denial
    BY <1>7, <2>2, ValueIs DEF ValueKinds
  <2> QED BY <2>1, <2>3 DEF Keeps
<1>10. CASE j.kind = "real"
  <2>1. f = c.is /\ c.is \in {"0", "-0", "1", "1.5"} /\ field.type = "N" /\ ~field.exact /\ c.kind # "null" /\ c.kind # "text"
    BY <1>2, <1>4, <1>5, <1>10 DEF IsJson
  <2>2. Numeric(f) = Value("real", c.is)
    BY <2>1 DEF Numeric, AsF64, Finite
  <2>3. b = Value("real", c.is)
    BY <1>6, <2>1, <2>2 DEF FieldValue
  <2>4. b.kind = "real" /\ b.is = c.is /\ b # Denial
    BY <1>7, <2>3, ValueIs DEF ValueKinds
  <2> QED BY <2>1, <2>4 DEF Keeps
<1>11. CASE j.kind = "bool"
  <2>1. f = c.is /\ c.is \in {"true", "false"} /\ field.type = "L" /\ ~field.exact /\ c.kind # "null" /\ c.kind # "text"
    BY <1>2, <1>4, <1>5, <1>11 DEF IsJson
  <2>2. b = Value("bool", c.is)
    BY <1>6, <2>1 DEF FieldValue
  <2>3. b.kind = "bool" /\ b.is = c.is /\ b # Denial
    BY <1>7, <2>2, ValueIs DEF ValueKinds
  <2> QED BY <2>1, <2>3 DEF Keeps
<1>12. CASE j.kind = "text"
  <2>1. f = c.is /\ c.is \in Texts /\ c.is # "nul" /\ field.type = "C" /\ ~field.exact /\ c.kind # "null"
    BY <1>2, <1>4, <1>5, <1>12 DEF IsJson
  <2>2. c.is \notin {"80", "81", "a9", "c3a9", "blank", "nuls", "undefined"}
    BY <2>1 DEF Texts, High
  <2>3. Says("utf8", c.is) = c.is
    BY <2>2 DEF Says, High
  <2>4. Decode("utf8", c.is) = c.is
    BY <2>2, <2>3 DEF Decode
  <2>5. c.is # Denial
    BY <1>7, AttributeAssumption
  <2>6. b = Value("text", c.is)
    BY <1>6, <2>1, <2>2, <2>4, <2>5 DEF FieldValue
  <2>7. b.kind = "text" /\ b.is = c.is /\ b # Denial
    BY <1>7, <2>6, ValueIs DEF ValueKinds
  <2> QED BY <2>1, <2>7 DEF Keeps
<1>. QED BY <1>2, <1>8, <1>9, <1>10, <1>11, <1>12 DEF IsJson

\* A cell of the batch says what its file may have meant by it.
Reads(m, c) ==
  /\ m.kind = "null" <=> c.kind = "null"
  /\ c.kind # "null" => m.is = c.is
  /\ m.kind = "text" => c.kind = "text"
  /\ c = Value("text", "") \/ c.kind = "bool" => m = c

LEMMA KeptAsMeant ==
  ASSUME NEW m, NEW c, NEW b, NEW changes, Reads(m, c), Keeps(changes, c, b)
  PROVE  Keeps(changes, m, b)
<1>1. \A kind, what : Value(kind, what).kind = kind /\ Value(kind, what).is = what
  BY ValueIs
<1>2. CASE c.kind = "null" /\ b.kind = "null"
  BY <1>2 DEF Reads, Keeps
<1>3. CASE c = Value("text", "") /\ b.kind = "null" /\ "nullability" \in changes
  BY <1>1, <1>3 DEF Reads, Keeps
<1>4. CASE /\ c.kind # "null" /\ b.kind # "null"
           /\ \/ c.is = b.is
              \/ "type" \in changes /\ <<c, b.is>> \in {<<Value("bool", "true"), "1">>, <<Value("bool", "false"), "0">>}
           /\ c.kind = "text" => b.kind = "text"
  <2>1. CASE c.is = b.is
    BY <1>4, <2>1 DEF Reads, Keeps
  <2>2. CASE "type" \in changes /\ <<c, b.is>> \in {<<Value("bool", "true"), "1">>, <<Value("bool", "false"), "0">>}
    <3>1. c.kind = "bool"
      BY <1>1, <2>2
    <3>2. m = c
      BY <3>1 DEF Reads
    <3> QED BY <3>2
  <2> QED BY <1>4, <2>1, <2>2
<1>. QED BY <1>2, <1>3, <1>4 DEF Keeps

\* ColBuilder::append, of a value whose coercion it does not report.
LEMMA GpkgReads ==
  ASSUME NEW declared, NEW v \in StorageValues,
         NEW type, type = SqliteDeclaredToArrow(declared),
         NEW c, c = ColBuilderAppend(type, v).cell
  PROVE  /\ type \in ArrowTypes /\ c \in ArrowValues(type)
         /\ ~ColBuilderAppend(type, v).told => Reads(v, c)
<1>1. type \in {"Int64", "Float64", "Utf8", "Binary"}
  BY DEF SqliteDeclaredToArrow
<1>2. \A w, lossy : TakenCell(w, lossy).cell = w /\ (TakenCell(w, lossy).told <=> lossy)
  BY DEF TakenCell
<1>3. \A kind, whats, what : what \in whats => Value(kind, what) \in Of(kind, whats)
  BY DEF Of, Value
<1>4. \A kind, whats : \A w \in Of(kind, whats) : w = Value(kind, w.is) /\ w.is \in whats
  BY DEF Of, Value
<1>5. \/ v = NullValue
      \/ v.kind = "blob" /\ v = Value("blob", v.is) /\ v.is \in Whats
      \/ v.kind = "int" /\ v = Value("int", v.is) /\ v.is \in InI64
      \/ v.kind = "real" /\ v = Value("real", v.is) /\ v.is \in Floats
      \/ v.kind = "text" /\ v = Value("text", v.is) /\ v.is \in Texts \cup {"broken"}
  BY <1>4, ValueIs DEF StorageValues
<1>6. type \in ArrowTypes
  BY <1>1 DEF ArrowTypes
<1>7. NullValue \in ArrowValues(type) /\ NullValue.kind = "null"
  BY ValueIs DEF ArrowValues
<1>8. \A w : NullValue # Value("text", w)
  BY ValueIs
<1>9. CASE type = "Int64"
  <2>1. ArrowValues(type) = {NullValue} \cup Of("int", InI64)
    BY <1>9 DEF ArrowValues
  <2>2. CASE v.kind = "int"
    <3>1. v = Value("int", v.is) /\ v.is \in InI64
      BY <1>5, <2>2, ValueIs
    <3>2. c = v
      BY <1>2, <1>9, <2>2 DEF ColBuilderAppend
    <3>3. c \in ArrowValues(type)
      BY <1>3, <2>1, <3>1, <3>2
    <3> QED BY <1>6, <3>2, <3>3 DEF Reads
  <2>3. CASE v.kind = "real" /\ v.is \notin {"inf", "nan"}
    <3>1. v.is \in Floats /\ AsI64(v.is) \in InI64
      BY <1>5, <2>3, ValueIs DEF AsI64, Floats, NumberNames, Finite, InI64
    <3>2. c = Value("int", AsI64(v.is)) /\ (ColBuilderAppend(type, v).told <=> AsI64(v.is) # v.is)
      BY <1>2, <1>9, <2>3 DEF ColBuilderAppend
    <3>3. c \in ArrowValues(type) /\ c.kind = "int" /\ c.is = AsI64(v.is)
      BY <1>3, <2>1, <3>1, <3>2, ValueIs
    <3>4. c # Value("text", "")
      BY <3>3, EmptyTextIs
    <3> QED BY <1>6, <2>3, <3>2, <3>3, <3>4 DEF Reads
  <2>4. CASE v.kind # "int" /\ ~(v.kind = "real" /\ v.is \notin {"inf", "nan"})
    <3>1. c = NullValue /\ (ColBuilderAppend(type, v).told <=> v.kind # "null")
      BY <1>2, <1>9, <2>4 DEF ColBuilderAppend
    <3> QED BY <1>6, <1>7, <1>8, <3>1 DEF Reads
  <2> QED BY <2>2, <2>3, <2>4
<1>10. CASE type = "Float64"
  <2>1. ArrowValues(type) = {NullValue} \cup Of("real", Floats)
    BY <1>10 DEF ArrowValues
  <2>2. CASE v.kind = "real"
    <3>1. v = Value("real", v.is) /\ v.is \in Floats
      BY <1>5, <2>2, ValueIs
    <3>2. c = v
      BY <1>2, <1>10, <2>2 DEF ColBuilderAppend
    <3>3. c \in ArrowValues(type)
      BY <1>3, <2>1, <3>1, <3>2
    <3> QED BY <1>6, <3>2, <3>3 DEF Reads
  <2>3. CASE v.kind = "int"
    <3>1. v.is \in InI64
      BY <1>5, <2>3, ValueIs
    <3>2. AsF64(v.is) \in Floats /\ (v.is \in Narrow /\ v.is # "pow" => AsF64(v.is) = v.is)
      BY <3>1 DEF AsF64, Floats, NumberNames, Finite, InI64, Narrow
    <3>3. c = Value("real", AsF64(v.is)) /\ (ColBuilderAppend(type, v).told <=> v.is \notin Narrow \/ v.is = "pow")
      BY <1>2, <1>10, <2>3 DEF ColBuilderAppend
    <3>4. c \in ArrowValues(type) /\ c.kind = "real" /\ c.is = AsF64(v.is)
      BY <1>3, <2>1, <3>2, <3>3, ValueIs
    <3>5. c # Value("text", "")
      BY <3>4, EmptyTextIs
    <3> QED BY <1>6, <2>3, <3>2, <3>3, <3>4, <3>5 DEF Reads
  <2>4. CASE v.kind \notin {"int", "real"}
    <3>1. c = NullValue /\ (ColBuilderAppend(type, v).told <=> v.kind # "null")
      BY <1>2, <1>10, <2>4 DEF ColBuilderAppend
    <3> QED BY <1>6, <1>7, <1>8, <3>1 DEF Reads
  <2> QED BY <2>2, <2>3, <2>4
<1>11. CASE type = "Utf8"
  <2>1. ArrowValues(type) = {NullValue} \cup Of("text", Texts)
    BY <1>11 DEF ArrowValues
  <2>2. CASE v.kind = "text" /\ v.is = "broken"
    <3>1. c = Value("text", "replaced") /\ ColBuilderAppend(type, v).told
      BY <1>2, <1>11, <2>2 DEF ColBuilderAppend
    <3>2. "replaced" \in Texts
      BY DEF Texts, Whats, High
    <3> QED BY <1>3, <1>6, <2>1, <3>1, <3>2
  <2>3. CASE v.kind \in {"int", "real"} \/ (v.kind = "text" /\ v.is # "broken")
    <3>1. c = Value("text", v.is)
      BY <1>2, <1>11, <2>3 DEF ColBuilderAppend
    <3>2. v.is \in Texts /\ (v.kind \in {"int", "real"} => v.is # "")
      BY <1>5, <2>3, ValueIs DEF Texts, Whats, High, NumberNames, Floats, Finite, InI64
    <3>3. c \in ArrowValues(type) /\ c.kind = "text" /\ c.is = v.is /\ (c = Value("text", "") => v.is = "")
      <4>1. c.kind = "text" /\ c.is = v.is
        BY <3>1, ValueIs
      <4>2. c \in ArrowValues(type)
        BY <1>3, <2>1, <3>1, <3>2
      <4>3. c = Value("text", "") => c.is = ""
        BY EmptyTextIs
      <4> QED BY <4>1, <4>2, <4>3
    <3>4. v.kind = "text" => v = c
      BY <1>5, <3>1, ValueIs
    <3> QED BY <1>6, <2>3, <3>2, <3>3, <3>4 DEF Reads
  <2>4. CASE v.kind \notin {"int", "real", "text"}
    <3>1. v.kind \in {"null", "blob"}
      BY <1>5, <2>4, ValueIs
    <3>2. c = NullValue /\ (ColBuilderAppend(type, v).told <=> v.kind = "blob")
      BY <1>2, <1>11, <3>1 DEF ColBuilderAppend
    <3> QED BY <1>6, <1>7, <1>8, <3>1, <3>2 DEF Reads
  <2> QED BY <2>2, <2>3, <2>4
<1>12. CASE type = "Binary"
  <2>1. ArrowValues(type) = {NullValue} \cup Of("blob", Whats)
    BY <1>12 DEF ArrowValues
  <2>2. CASE v.kind = "blob"
    <3>1. v = Value("blob", v.is) /\ v.is \in Whats
      BY <1>5, <2>2, ValueIs
    <3>2. c = v
      BY <1>2, <1>12, <2>2 DEF ColBuilderAppend
    <3>3. c \in ArrowValues(type)
      BY <1>3, <2>1, <3>1, <3>2
    <3> QED BY <1>6, <3>2, <3>3 DEF Reads
  <2>3. CASE v.kind # "blob"
    <3>1. c = NullValue /\ (ColBuilderAppend(type, v).told <=> v.kind # "null")
      BY <1>2, <1>12, <2>3 DEF ColBuilderAppend
    <3> QED BY <1>6, <1>7, <1>8, <3>1 DEF Reads
  <2> QED BY <2>2, <2>3
<1>. QED BY <1>1, <1>9, <1>10, <1>11, <1>12

LEMMA SameClasses ==
  ASSUME NEW classes
  PROVE  /\ "int" \in classes /\ classes \subseteq {"null", "int", "wide"} => TypeOfColumn(classes) = "Integer"
         /\ "frac" \in classes /\ classes \subseteq {"null", "frac"} => TypeOfColumn(classes) = "Number"
         /\ "bool" \in classes /\ classes \subseteq {"null", "bool"} => TypeOfColumn(classes) = "Boolean"
         /\ "text" \in classes /\ classes \subseteq {"null", "text"} => TypeOfColumn(classes) = "Text"
<1> DEFINE acc == Accumulated(classes)
           heard == classes \ {"null"}
<1>1. /\ acc.any <=> heard # {}
      /\ acc.all_int <=> heard \subseteq {"int", "wide"}
      /\ acc.all_num <=> heard \subseteq {"int", "wide", "frac"}
      /\ acc.all_bool <=> heard \subseteq {"bool"}
      /\ acc.has_fractional_number <=> "frac" \in heard
      /\ acc.has_wide_integer <=> "wide" \in heard
  BY DEF Accumulated
<1> HIDE DEF acc
<1>2. TypeOfColumn(classes) = ColumnType(acc)
  BY DEF acc, TypeOfColumn
<1>3. CASE "int" \in classes /\ classes \subseteq {"null", "int", "wide"}
  <2>1. "int" \in heard /\ heard \subseteq {"int", "wide"} /\ "frac" \notin classes /\ "bool" \notin classes /\ "text" \notin classes
    BY <1>3
  <2> QED BY <1>1, <1>2, <2>1 DEF ColumnType
<1>4. CASE "frac" \in classes /\ classes \subseteq {"null", "frac"}
  <2>1. "frac" \in heard /\ heard \subseteq {"frac"} /\ "int" \notin classes /\ "bool" \notin classes /\ "text" \notin classes
    BY <1>4
  <2>2. heard \subseteq {"int", "wide", "frac"} /\ "wide" \notin heard
    BY <2>1
  <2> QED BY <1>1, <1>2, <2>1, <2>2 DEF ColumnType
<1>5. CASE "bool" \in classes /\ classes \subseteq {"null", "bool"}
  <2>1. "bool" \in heard /\ heard \subseteq {"bool"} /\ "int" \notin classes /\ "frac" \notin classes /\ "text" \notin classes
    BY <1>5
  <2> QED BY <1>1, <1>2, <2>1 DEF ColumnType
<1>6. CASE "text" \in classes /\ classes \subseteq {"null", "text"}
  <2>1. "text" \in heard /\ "int" \notin classes /\ "frac" \notin classes /\ "bool" \notin classes
    BY <1>6
  <2> QED BY <1>1, <1>2, <2>1 DEF ColumnType
<1>. QED BY <1>3, <1>4, <1>5, <1>6

\* The encoding a DBF is read in says of a text what every encoding it may be in says.
LEMMA EncodingAgrees ==
  ASSUME NEW o, o.cpg \in Charsets \cup {Unsaid}, o.ldid \in Ldids,
         FromPath(o.cpg, o.ldid) # Denial, NEW raw \in FieldBytes(Field("C", FALSE)),
         raw \notin {"blank", "nuls"}, Decode(FromPath(o.cpg, o.ldid), raw) # Denial
  PROVE  /\ \A e \in Encodings(o) : Says(e, raw) = Decode(FromPath(o.cpg, o.ldid), raw)
         /\ Decode(FromPath(o.cpg, o.ldid), raw) \in Texts
<1> DEFINE encoding == FromPath(o.cpg, o.ldid)
<1>1. Denial \notin Charsets \cup {"ansi"} /\ Unsaid \notin Charsets
  BY AttributeAssumption
<1>2. raw \in (Whats \cup High) \ {"stars", "broken", "blank", "nuls"}
  BY DEF FieldBytes, Field
<1>3. \/ encoding = "ansi" /\ Encodings(o) = {"latin1", "1252"}
      \/ encoding \in {"ascii", "latin1", "1252", "utf8"} /\ Encodings(o) = {encoding}
  <2>1. CASE o.cpg = Unsaid
    <3>1. encoding = FromLdid(o.ldid)
      BY <2>1 DEF FromPath
    <3>2. CASE o.ldid \in {"x03", "xf0"}
      <4>1. encoding \in {"1252", "utf8"} /\ Encodings(o) = {encoding} \cup ({Unsaid} \ {Unsaid})
        BY <2>1, <3>1, <3>2 DEF FromLdid, Encodings
      <4> QED BY <4>1
    <3>3. CASE o.ldid = "x57"
      BY <2>1, <3>1, <3>3 DEF FromLdid, Encodings
    <3>4. CASE o.ldid = "none"
      BY <2>1, <3>1, <3>4 DEF FromLdid, Encodings
    <3>5. CASE o.ldid = "other"
      BY <3>1, <3>5 DEF FromLdid
    <3> QED BY <3>2, <3>3, <3>4, <3>5 DEF Ldids
  <2>2. CASE o.cpg # Unsaid
    <3>1. o.cpg \in {"ascii", "latin1", "1252", "utf8"} /\ encoding = o.cpg
      BY <2>2 DEF FromPath, Charsets
    <3>2. o.ldid \in {"none", "x57"} \/ FromLdid(o.ldid) = o.cpg
      BY <2>2 DEF FromPath
    <3>3. o.ldid \in {"none", "x57", "x03", "xf0"}
      BY <1>1, <3>1, <3>2 DEF Ldids, FromLdid, Charsets
    <3>4. CASE o.ldid \in {"x03", "xf0"}
      <4>1. Encodings(o) = {FromLdid(o.ldid)} \cup ({o.cpg} \ {Unsaid}) /\ FromLdid(o.ldid) = o.cpg
        BY <3>2, <3>4 DEF Encodings
      <4> QED BY <3>1, <4>1
    <3>5. CASE o.ldid \in {"none", "x57"}
      <4>1. Encodings(o) = {o.cpg}
        BY <2>2, <3>5 DEF Encodings
      <4> QED BY <3>1, <4>1
    <3> QED BY <3>3, <3>4, <3>5
  <2> QED BY <2>1, <2>2
<1> HIDE DEF encoding
<1>4. Decode(encoding, raw) # Denial
  BY DEF encoding
<1>5. Decode(encoding, raw) = Says(encoding, raw) /\ Says(encoding, raw) # "undefined"
        /\ ~(encoding = "ansi" /\ raw \in {"80", "81"})
  BY <1>4 DEF Decode
<1>6. ASSUME NEW e \in Encodings(o) PROVE Says(e, raw) = Says(encoding, raw)
  <2>1. CASE encoding \in {"ascii", "latin1", "1252", "utf8"} /\ Encodings(o) = {encoding}
    BY <1>6, <2>1
  <2>2. CASE encoding = "ansi" /\ Encodings(o) = {"latin1", "1252"}
    <3>1. e \in {"latin1", "1252"}
      BY <1>6, <2>2
    <3>2. CASE raw \in {"a9", "c3a9"}
      BY <2>2, <3>1, <3>2 DEF Says, High
    <3>3. CASE raw \notin High
      <4>1. Says(e, raw) = raw /\ Says(encoding, raw) = raw
        BY <2>2, <3>1, <3>3 DEF Says, High
      <4> QED BY <4>1
    <3> QED BY <1>5, <2>2, <3>2, <3>3 DEF High
  <2> QED BY <1>3, <2>1, <2>2
<1>7. Says(encoding, raw) \in Texts
  <2>1. CASE raw \notin High
    <3>1. Says(encoding, raw) = raw
      BY <1>5, <2>1 DEF Says, High
    <3> QED BY <1>2, <1>5, <2>1, <3>1 DEF Texts
  <2>2. CASE raw \in High
    <3>1. encoding \in {"ascii", "latin1", "1252", "utf8", "ansi"}
      BY <1>3
    <3>2. Says(encoding, raw) \in {"two marks", "accent", "euro", "copyright", "control 80", "control 81"}
      BY <1>5, <2>2, <3>1 DEF Says, High
    <3>3. {"two marks", "accent", "euro", "copyright", "control 80", "control 81"} \subseteq Texts
      BY DEF Texts, Whats, High
    <3> QED BY <3>2, <3>3
  <2> QED BY <2>1, <2>2
<1>. QED BY <1>5, <1>6, <1>7 DEF encoding

\* The type of the column a field is read into.
TypeOfField(field) ==
  CASE field.type \in {"C", "D"} -> "Utf8"
    [] field.type = "L" -> "Boolean"
    [] field.type \in {"N", "F"} /\ field.exact -> "Int64"
    [] field.type \in {"N", "F"} /\ ~field.exact -> "Float64"

ClassesOfField(field) ==
  {"null"} \cup CASE field.type \in {"C", "D"} -> {"text"}
                  [] field.type = "L" -> {"bool"}
                  [] field.type \in {"N", "F"} /\ field.exact -> {"int", "wide"}
                  [] field.type \in {"N", "F"} /\ ~field.exact -> {"frac"}

LEMMA ShpReads ==
  ASSUME NEW o, o.file = "shp", o.cpg \in Charsets \cup {Unsaid}, o.ldid \in Ldids, o.field \in DbfFields,
         FromPath(o.cpg, o.ldid) # Denial, NEW raw \in FieldBytes(o.field),
         NEW c, c = FieldValue(o.field, FromPath(o.cpg, o.ldid), raw), c # Denial
  PROVE  /\ c \in ArrowValues(TypeOfField(o.field))
         /\ JsonClass(c) \in ClassesOfField(o.field)
         /\ \A m \in Meant(o, raw) : Reads(m, c)
<1> DEFINE field == o.field
           type == TypeOfField(field)
           encoding == FromPath(o.cpg, o.ldid)
<1>1. \A t, exact : Field(t, exact).type = t /\ (Field(t, exact).exact <=> exact)
  BY DEF Field
<1>2. \A kind, whats, what : what \in whats => Value(kind, what) \in Of(kind, whats)
  BY DEF Of, Value
<1>3. NullValue \in ArrowValues(type) /\ JsonClass(NullValue) = "null" /\ Reads(NullValue, NullValue)
  <2>1. NullValue # Value("text", "")
    BY ValueIs, EmptyTextIs
  <2> QED BY <2>1, ValueIs DEF ArrowValues, JsonClass, Reads
<1>4. field \in DbfFields /\ c = FieldValue(field, encoding, raw) /\ raw \in FieldBytes(field)
  OBVIOUS
<1> HIDE DEF type
<1>5. CASE c = NullValue /\ Meant(o, raw) = {NullValue}
  BY <1>3, <1>5 DEF ClassesOfField, type
<1>6. CASE field = Field("C", FALSE) /\ raw \notin {"blank", "nuls"}
  <2>1. field.type = "C" /\ ~field.exact /\ raw # "stars"
    <3>1. field.type = "C" /\ ~field.exact
      BY <1>1, <1>6
    <3>2. FieldBytes(field) = (Whats \cup High \cup {"blank", "nuls"}) \ {"stars", "broken"}
      BY <3>1 DEF FieldBytes
    <3> QED BY <1>4, <3>1, <3>2
  <2> DEFINE what == Decode(encoding, raw)
  <2>2. what # Denial /\ c = Value("text", what)
    BY <1>4, <1>6, <2>1 DEF FieldValue
  <2>3. what \in Texts /\ \A e \in Encodings(o) : Says(e, raw) = what
    BY <1>4, <1>6, <2>2, EncodingAgrees
  <2>4. Meant(o, raw) = {Value("text", Says(e, raw)) : e \in Encodings(o)}
    BY <1>6, <2>1 DEF Meant
  <2> HIDE DEF what
  <2>5. \A m \in Meant(o, raw) : m = c
    BY <2>2, <2>3, <2>4
  <2>6. type = "Utf8" /\ ArrowValues("Utf8") = {NullValue} \cup Of("text", Texts)
    BY <2>1 DEF type, TypeOfField, ArrowValues
  <2>7. c \in ArrowValues(type)
    BY <1>2, <2>2, <2>3, <2>6
  <2>8. c.kind = "text"
    BY <2>2, ValueIs
  <2>9. JsonClass(c) = "text"
    BY <2>8 DEF JsonClass
  <2>10. \A m \in Meant(o, raw) : Reads(m, c)
    BY <2>5 DEF Reads
  <2> QED BY <2>1, <2>7, <2>9, <2>10 DEF ClassesOfField, type
<1>7. CASE field = Field("D", FALSE) /\ raw # "blank"
  <2>1. field.type = "D" /\ ~field.exact /\ raw \in Texts \ {""} /\ raw \notin {"nuls", "stars"}
    <3>1. field.type = "D" /\ ~field.exact
      BY <1>1, <1>7
    <3>2. FieldBytes(field) = {"blank"} \cup (Texts \ {""})
      BY <3>1 DEF FieldBytes
    <3> QED BY <1>4, <1>7, <3>1, <3>2 DEF Texts
  <2>2. c = Value("text", raw) /\ Meant(o, raw) = {Value("number", raw)}
    BY <1>4, <1>7, <2>1 DEF FieldValue, Meant
  <2>3. type = "Utf8" /\ ArrowValues("Utf8") = {NullValue} \cup Of("text", Texts)
    BY <2>1 DEF type, TypeOfField, ArrowValues
  <2>4. c.kind = "text" /\ c.is = raw /\ c # Value("text", "") /\ JsonClass(c) = "text"
    <3>1. c.kind = "text" /\ c.is = raw
      BY <2>2, ValueIs
    <3> QED BY <2>1, <3>1, EmptyTextIs DEF JsonClass
  <2>5. \A m \in Meant(o, raw) : m.kind = "number" /\ m.is = raw
    BY <2>2, ValueIs
  <2>6. \A m \in Meant(o, raw) : Reads(m, c)
    BY <2>4, <2>5 DEF Reads
  <2>7. c \in ArrowValues(type)
    BY <1>2, <2>1, <2>2, <2>3
  <2> QED BY <2>1, <2>4, <2>6, <2>7 DEF ClassesOfField, type
<1>8. CASE field = Field("L", FALSE) /\ raw # "blank"
  <2>1. field.type = "L" /\ ~field.exact /\ raw \in {"true", "false"}
    <3>1. field.type = "L" /\ ~field.exact
      BY <1>1, <1>8
    <3>2. FieldBytes(field) = {"blank", "true", "false"}
      BY <3>1 DEF FieldBytes
    <3> QED BY <1>4, <1>8, <3>1, <3>2
  <2>2. c = Value("bool", raw) /\ Meant(o, raw) = {Value("bool", raw)}
    BY <1>4, <1>8, <2>1 DEF FieldValue, Meant
  <2>3. type = "Boolean" /\ ArrowValues("Boolean") = {NullValue} \cup Of("bool", {"true", "false"})
    BY <2>1 DEF type, TypeOfField, ArrowValues
  <2>4. c.kind = "bool" /\ JsonClass(c) = "bool"
    <3>1. c.kind = "bool"
      BY <2>2, ValueIs
    <3> QED BY <3>1 DEF JsonClass
  <2>5. \A m \in Meant(o, raw) : Reads(m, c)
    BY <2>2 DEF Reads
  <2>6. c \in ArrowValues(type)
    BY <1>2, <2>1, <2>2, <2>3
  <2> QED BY <2>1, <2>4, <2>5, <2>6 DEF ClassesOfField, type
<1>9. CASE field = Field("N", TRUE) /\ raw # "blank"
  <2>1. field.type = "N" /\ field.exact
    BY <1>1, <1>9
  <2>2. c = Value("int", raw) /\ raw \in InI64
    BY <1>4, <1>9, <2>1 DEF FieldValue
  <2>3. Meant(o, raw) = {Value("number", raw)}
    BY <2>1, <2>2 DEF Meant, InI64
  <2>4. type = "Int64" /\ ArrowValues("Int64") = {NullValue} \cup Of("int", InI64)
    BY <2>1 DEF type, TypeOfField, ArrowValues
  <2>5. c.kind = "int" /\ c.is = raw /\ c # Value("text", "") /\ JsonClass(c) \in {"int", "wide"}
    <3>1. c.kind = "int" /\ c.is = raw
      BY <2>2, ValueIs
    <3> QED BY <2>2, <3>1, EmptyTextIs DEF JsonClass
  <2>6. \A m \in Meant(o, raw) : m.kind = "number" /\ m.is = raw
    BY <2>3, ValueIs
  <2>7. \A m \in Meant(o, raw) : Reads(m, c)
    BY <2>5, <2>6 DEF Reads
  <2>8. c \in ArrowValues(type)
    BY <1>2, <2>2, <2>4
  <2> QED BY <2>1, <2>5, <2>7, <2>8 DEF ClassesOfField, type
<1>10. CASE field \in {Field("N", FALSE), Field("F", FALSE)} /\ raw \notin {"blank", "stars"}
  <2>1. field.type \in {"N", "F"} /\ ~field.exact
    <3>1. ASSUME NEW t \in {"N", "F"}, field = Field(t, FALSE)
          PROVE  field.type = t /\ ~field.exact
      BY <1>1, <3>1
    <3> QED BY <1>10, <3>1
  <2>2. c = Numeric(raw)
    BY <1>4, <2>1 DEF FieldValue
  <2>3. c = Value("real", raw) /\ raw \in Finite /\ AsF64(raw) = raw
    BY <1>10, <2>2 DEF Numeric
  <2>4. Meant(o, raw) = {Value("number", raw)}
    BY <2>1, <2>3 DEF Meant, Finite
  <2>5. type = "Float64" /\ ArrowValues("Float64") = {NullValue} \cup Of("real", Floats)
    BY <2>1 DEF type, TypeOfField, ArrowValues
  <2>6. c.kind = "real" /\ c.is = raw /\ c # Value("text", "") /\ JsonClass(c) = "frac"
    <3>1. c.kind = "real" /\ c.is = raw
      BY <2>3, ValueIs
    <3> QED BY <2>3, <3>1, EmptyTextIs DEF JsonClass
  <2>7. \A m \in Meant(o, raw) : m.kind = "number" /\ m.is = raw
    BY <2>4, ValueIs
  <2>8. \A m \in Meant(o, raw) : Reads(m, c)
    BY <2>6, <2>7 DEF Reads
  <2>9. raw \in Floats
    BY <2>3 DEF AsF64, Floats, NumberNames
  <2>10. c \in ArrowValues(type)
    BY <1>2, <2>3, <2>5, <2>9
  <2> QED BY <2>1, <2>6, <2>8, <2>10 DEF ClassesOfField, type
<1>11. CASE raw = "blank" \/ (field = Field("C", FALSE) /\ raw = "nuls")
            \/ (field \in {Field("N", FALSE), Field("F", FALSE)} /\ raw = "stars")
  <2>1. Meant(o, raw) = {NullValue}
    BY <1>11 DEF Meant
  <2>2. Numeric("blank") = NullValue /\ Numeric("stars") = NullValue
    BY DEF Numeric, Finite
  <2>3. /\ field.type \in {"C", "N", "F", "L", "D"}
        /\ field.exact => field.type = "N"
        /\ raw = "nuls" => field.type = "C"
        /\ raw = "stars" => field.type \in {"N", "F"} /\ ~field.exact
    <3>1. /\ field.type \in {"C", "N", "F", "L", "D"}
          /\ field.exact => field.type = "N"
      <4>1. \/ field = Field("N", TRUE)
            \/ \E t \in {"C", "N", "F", "L", "D"} : field = Field(t, FALSE)
        BY <1>4 DEF DbfFields
      <4>2. CASE field = Field("N", TRUE)
        BY <1>1, <4>2
      <4>3. ASSUME NEW t \in {"C", "N", "F", "L", "D"}, field = Field(t, FALSE)
            PROVE  field.type = t /\ ~field.exact
        BY <1>1, <4>3
      <4> QED BY <4>1, <4>2, <4>3
    <3>2. raw = "nuls" => field = Field("C", FALSE)
      BY <1>11
    <3>3. raw = "stars" => field \in {Field("N", FALSE), Field("F", FALSE)}
      BY <1>11
    <3> QED BY <1>1, <3>1, <3>2, <3>3
  <2>4. c = NullValue
    BY <1>4, <1>11, <2>2, <2>3 DEF FieldValue
  <2> QED BY <1>5, <2>1, <2>4
<1>. QED BY <1>4, <1>6, <1>7, <1>8, <1>9, <1>10, <1>11 DEF DbfFields

\* What a file may hold in a column.
LEMMA OriginIs ==
  ASSUME NEW o \in Origins
  PROVE  /\ DOMAIN o.raw \in SUBSET Nat
         /\ \/ o.file = "arrow" /\ o.type \in ArrowTypes /\ \A i \in DOMAIN o.raw : o.raw[i] \in ArrowValues(o.type)
            \/ o.file = "gpkg" /\ \A i \in DOMAIN o.raw : o.raw[i] \in StorageValues
            \/ /\ o.file = "shp" /\ o.cpg \in Charsets \cup {Unsaid} /\ o.ldid \in Ldids
               /\ o.field \in DbfFields /\ \A i \in DOMAIN o.raw : o.raw[i] \in FieldBytes(o.field)
<1>1. IsOrigin(o)
  BY AttributeAssumption
<1>2. \A S : \A s \in Seq(S) : DOMAIN s \in SUBSET Nat /\ \A i \in DOMAIN s : s[i] \in S
  OBVIOUS
<1>3. CASE o.file = "arrow" /\ o.type \in ArrowTypes /\ o.raw \in Seq(ArrowValues(o.type))
  BY <1>2, <1>3
<1>4. CASE o.file = "gpkg" /\ o.raw \in Seq(StorageValues)
  BY <1>2, <1>4
<1>5. CASE /\ o.file = "shp" /\ o.cpg \in Charsets \cup {Unsaid} /\ o.ldid \in Ldids
           /\ o.field \in DbfFields /\ o.raw \in Seq(FieldBytes(o.field))
  BY <1>2, <1>5
<1>. QED BY <1>1, <1>3, <1>4, <1>5 DEF IsOrigin

\* The invariant, stage by stage.  The batch has the values of the file: each has the type of
\* its column, and says what the file's cell may have meant unless its reading was reported.
BatchHolds(o, column, cells, reported) ==
  /\ column.type \in ArrowTypes
  /\ o.nullable => column.nullable
  /\ DOMAIN cells = DOMAIN o.raw
  /\ \A i \in DOMAIN o.raw :
       /\ cells[i] \in ArrowValues(column.type)
       /\ i \notin reported => \A m \in Meant(o, o.raw[i]) : Reads(m, cells[i])

PlanHolds(o, d, column, changes) ==
  /\ ~NamesRefused(d, <<"a", o.beside>>) /\ ~TableRefused(d, <<"a", o.beside>>)
  /\ ~TypeRefused(d, column.type) /\ ~MetadataRefused(d, column)
  /\ changes = Announced(d, column)

StoredHolds(d, column, cells, kept) ==
  /\ DOMAIN kept = DOMAIN cells
  /\ \A i \in DOMAIN cells :
       /\ Written(d, column, cells[i]) # Denial
       /\ kept[i] \in {Written(d, column, cells[i]), Dropped(d, Written(d, column, cells[i]))}

BackHolds(o, d, changes, cells, read) ==
  /\ DOMAIN read = DOMAIN cells
  /\ o.nullable \/ d # "xls" => \A i \in DOMAIN cells : Keeps(changes, cells[i], read[i])

AttributeInv ==
  /\ source \in Origins /\ written_as \in Destinations
  /\ cell_stage # "not read back"
  /\ cell_stage \in {"batch", "plan", "stored", "back"} => BatchHolds(source, batch_column, batch_cells, told)
  /\ cell_stage \in {"plan", "stored", "back"} => PlanHolds(source, written_as, batch_column, promised)
  /\ cell_stage = "stored" => StoredHolds(written_as, batch_column, batch_cells, file_cells)
  /\ cell_stage = "back" => BackHolds(source, written_as, promised, batch_cells, back)

LEMMA AttributesInitHolds == AttributesInit => AttributeInv
  BY DEF AttributesInit, AttributeInv

LEMMA ReadArrowHolds ==
  ASSUME NEW o \in Origins, o.file = "arrow", NEW reported
  PROVE  BatchHolds(o, BatchColumn(o.type, o.declared, o.nullable), o.raw, reported)
<1>1. o.type \in ArrowTypes /\ \A i \in DOMAIN o.raw : o.raw[i] \in ArrowValues(o.type)
  BY OriginIs
<1>2. \A i : Meant(o, o.raw[i]) = {o.raw[i]}
  BY DEF Meant
<1>3. \A c : Reads(c, c)
  BY DEF Reads
<1>. QED BY <1>1, <1>2, <1>3 DEF BatchHolds, BatchColumn

LEMMA ReadGpkgHolds ==
  ASSUME NEW o \in Origins, o.file = "gpkg",
         NEW type, type = SqliteDeclaredToArrow(o.declared), NEW declared,
         NEW found, found = [i \in DOMAIN o.raw |-> ColBuilderAppend(type, o.raw[i])],
         NEW cells, cells = [i \in DOMAIN found |-> found[i].cell],
         NEW reported, reported = {i \in DOMAIN found : found[i].told}
  PROVE  BatchHolds(o, BatchColumn(type, declared, o.nullable), cells, reported)
<1>1. \A i \in DOMAIN o.raw : o.raw[i] \in StorageValues
  BY OriginIs
<1>2. \A i : Meant(o, o.raw[i]) = {o.raw[i]}
  BY DEF Meant
<1>3. type \in ArrowTypes
  BY DEF SqliteDeclaredToArrow, ArrowTypes
<1>4. DOMAIN found = DOMAIN o.raw /\ DOMAIN cells = DOMAIN o.raw
  OBVIOUS
<1>5. ASSUME NEW i \in DOMAIN o.raw
      PROVE  cells[i] \in ArrowValues(type) /\ (i \notin reported => \A m \in Meant(o, o.raw[i]) : Reads(m, cells[i]))
  <2>1. cells[i] = ColBuilderAppend(type, o.raw[i]).cell /\ (i \in reported <=> ColBuilderAppend(type, o.raw[i]).told)
    BY <1>4
  <2>2. /\ ColBuilderAppend(type, o.raw[i]).cell \in ArrowValues(type)
        /\ ~ColBuilderAppend(type, o.raw[i]).told => Reads(o.raw[i], ColBuilderAppend(type, o.raw[i]).cell)
    BY <1>1, GpkgReads
  <2> QED BY <1>2, <2>1, <2>2
<1>. QED BY <1>3, <1>4, <1>5 DEF BatchHolds, BatchColumn

LEMMA ReadShpHolds ==
  ASSUME NEW o \in Origins, o.file = "shp", FromPath(o.cpg, o.ldid) # Denial, NEW reported,
         NEW fields, fields = FromDbf(o.field, FromPath(o.cpg, o.ldid), o.raw), NoneDenied(fields)
  PROVE  BatchHolds(o, BatchColumn(ArrowOf(DbfColumn(o.field, fields)), Unsaid, TRUE), fields, reported)
<1> DEFINE field == o.field
           type == TypeOfField(field)
<1>1. /\ o.cpg \in Charsets \cup {Unsaid} /\ o.ldid \in Ldids /\ field \in DbfFields
      /\ \A i \in DOMAIN o.raw : o.raw[i] \in FieldBytes(field)
  BY OriginIs
<1>2. DOMAIN fields = DOMAIN o.raw
        /\ \A i \in DOMAIN o.raw : fields[i] = FieldValue(field, FromPath(o.cpg, o.ldid), o.raw[i])
  BY DEF FromDbf
<1>3. \A i \in DOMAIN o.raw :
        /\ fields[i] \in ArrowValues(type)
        /\ JsonClass(fields[i]) \in ClassesOfField(field)
        /\ \A m \in Meant(o, o.raw[i]) : Reads(m, fields[i])
  <2>1. TAKE i \in DOMAIN o.raw
  <2>2. fields[i] # Denial /\ o.raw[i] \in FieldBytes(o.field)
    BY <1>1, <1>2 DEF NoneDenied
  <2> QED BY <1>1, <1>2, <2>2, ShpReads
<1> DEFINE initial == IF field.exact THEN "int"
                     ELSE [N |-> "frac", F |-> "frac", L |-> "bool", C |-> "text", D |-> "text"][field.type]
           classes == {initial} \cup {JsonClass(fields[i]) : i \in DOMAIN fields}
<1>4. DbfColumn(field, fields) = TypeOfColumn(classes)
  BY DEF DbfColumn
<1>5. /\ \/ field.type \in {"C", "D"} /\ ~field.exact
         \/ field.type = "L" /\ ~field.exact
         \/ field.type = "N" /\ field.exact
         \/ field.type \in {"N", "F"} /\ ~field.exact
  <2>1. \A t, exact : Field(t, exact).type = t /\ (Field(t, exact).exact <=> exact)
    BY DEF Field
  <2>2. CASE field = Field("N", TRUE)
    BY <2>1, <2>2
  <2>3. ASSUME NEW t \in {"C", "N", "F", "L", "D"}, field = Field(t, FALSE)
        PROVE  field.type = t /\ ~field.exact
    BY <2>1, <2>3
  <2>4. field = Field("N", TRUE) \/ \E t \in {"C", "N", "F", "L", "D"} : field = Field(t, FALSE)
    BY <1>1 DEF DbfFields
  <2> QED BY <2>2, <2>3, <2>4
<1>6. initial \in classes /\ classes \subseteq {initial} \cup ClassesOfField(field)
  BY <1>2, <1>3
<1> HIDE DEF classes
<1>7. ArrowOf(TypeOfColumn(classes)) = type
  <2>1. CASE field.type \in {"C", "D"} /\ ~field.exact
    <3>1. initial = "text" /\ ClassesOfField(field) = {"null", "text"}
      BY <2>1 DEF ClassesOfField
    <3>2. TypeOfColumn(classes) = "Text"
      BY <1>6, <3>1, SameClasses
    <3> QED BY <2>1, <3>2 DEF ArrowOf, TypeOfField
  <2>2. CASE field.type = "L" /\ ~field.exact
    <3>1. initial = "bool" /\ ClassesOfField(field) = {"null", "bool"}
      BY <2>2 DEF ClassesOfField
    <3>2. TypeOfColumn(classes) = "Boolean"
      BY <1>6, <3>1, SameClasses
    <3> QED BY <2>2, <3>2 DEF ArrowOf, TypeOfField
  <2>3. CASE field.type = "N" /\ field.exact
    <3>1. initial = "int" /\ ClassesOfField(field) = {"null", "int", "wide"}
      BY <2>3 DEF ClassesOfField
    <3>2. TypeOfColumn(classes) = "Integer"
      BY <1>6, <3>1, SameClasses
    <3> QED BY <2>3, <3>2 DEF ArrowOf, TypeOfField
  <2>4. CASE field.type \in {"N", "F"} /\ ~field.exact
    <3>1. initial = "frac" /\ ClassesOfField(field) = {"null", "frac"}
      BY <2>4 DEF ClassesOfField
    <3>2. TypeOfColumn(classes) = "Number"
      BY <1>6, <3>1, SameClasses
    <3> QED BY <2>4, <3>2 DEF ArrowOf, TypeOfField
  <2> QED BY <1>5, <2>1, <2>2, <2>3, <2>4
<1>8. type \in ArrowTypes
  BY <1>5 DEF TypeOfField, ArrowTypes
<1> HIDE DEF type
<1>9. BatchColumn(ArrowOf(DbfColumn(field, fields)), Unsaid, TRUE).type = type
        /\ BatchColumn(ArrowOf(DbfColumn(field, fields)), Unsaid, TRUE).nullable
  BY <1>4, <1>7 DEF BatchColumn
<1>. QED BY <1>2, <1>3, <1>8, <1>9 DEF BatchHolds

\* What was written of a planned column is read back, with every cell kept.
LEMMA RereadHolds ==
  ASSUME NEW o \in Origins, NEW d \in Destinations, NEW column, NEW cells, NEW changes, NEW kept, NEW reported,
         BatchHolds(o, column, cells, reported), PlanHolds(o, d, column, changes), StoredHolds(d, column, cells, kept)
  PROVE  /\ NoneDenied(ReadBack(d, column, kept))
         /\ BackHolds(o, d, changes, cells, ReadBack(d, column, kept))
<1> DEFINE type == column.type
           n == DOMAIN cells
           read == ReadBack(d, column, kept)
<1>1. type \in ArrowTypes /\ n \in SUBSET Nat /\ DOMAIN kept = n
  BY OriginIs DEF BatchHolds, StoredHolds
<1>2. \A i \in n :
        /\ IsCell(type, cells[i])
        /\ Written(d, column, cells[i]) # Denial
        /\ kept[i] \in {Written(d, column, cells[i]), Dropped(d, Written(d, column, cells[i]))}
  BY CellIs DEF BatchHolds, StoredHolds
<1>3. d = "xls" /\ o.nullable => "nullability" \in changes
  BY DEF BatchHolds, PlanHolds, Announced, FormatDefinedNulls
<1>4. CASE d \in {"csv", "geojson", "xls"}
  <2>1. \A i \in n : Serves(d, cells[i], kept[i])
    <3>1. TAKE i \in n
    <3>2. CASE d = "csv"
      <4>1. kept[i] = WriteCsvCell(type, cells[i]) /\ WriteCsvCell(type, cells[i]) # Denial
        BY <1>2, <3>2 DEF Written, Dropped, MayBeDropped
      <4> QED BY <1>1, <1>2, <3>2, <4>1, CsvServes
    <3>3. CASE d = "geojson"
      <4>1. kept[i] = JsonFromArray(type, cells[i]) /\ JsonFromArray(type, cells[i]) # Denial
        BY <1>2, <3>3 DEF Written, Dropped, MayBeDropped
      <4> QED BY <1>1, <1>2, <3>3, <4>1, GeojsonServes
    <3>4. CASE d = "xls"
      <4>1. Written(d, column, cells[i]) = WriteXlsCell(type, cells[i])
        BY <3>4 DEF Written
      <4> QED BY <1>1, <1>2, <3>4, <4>1, XlsServes
    <3> QED BY <1>4, <3>2, <3>3, <3>4
  <2>2. read = Inferred(d, kept)
    BY <1>4 DEF ReadBack
  <2>3. \A i \in n : IsFound(d, kept[i])
    BY <2>1 DEF Serves
  <2>4. DOMAIN read = n /\ \A i \in n : Becomes(ReadClass(d, kept[i]), ReadValue(d, kept[i]), read[i])
    BY <1>1, <1>4, <2>2, <2>3, InferredHolds
  <2>5. \A i \in n : read[i] # Denial /\ (d # "xls" \/ "nullability" \in changes => Keeps(changes, cells[i], read[i]))
    BY <2>1, <2>4, ServedKeeps
  <2> QED BY <1>3, <2>4, <2>5 DEF NoneDenied, BackHolds
<1>5. CASE d = "gpkg"
  <2>1. \A i \in n : kept[i] = InsertedCell(column, cells[i]) /\ InsertedCell(column, cells[i]) # Denial
    BY <1>2, <1>5 DEF Written, Dropped, MayBeDropped
  <2>2. /\ ~TypeRefused("gpkg", column.type) /\ ~MetadataRefused("gpkg", column)
        /\ changes = Announced("gpkg", column)
    BY <1>5 DEF PlanHolds
  <2>3. read = [i \in n |-> ColBuilderAppend(SqliteDeclaredToArrow(DeclaredInFile(column)), kept[i]).cell]
    BY <1>1, <1>5 DEF ReadBack
  <2>4. \A i \in n : read[i] # Denial /\ Keeps(changes, cells[i], read[i])
    <3>1. TAKE i \in n
    <3>2. read[i] = ColBuilderAppend(SqliteDeclaredToArrow(DeclaredInFile(column)), InsertedCell(column, cells[i])).cell
      BY <2>1, <2>3
    <3> QED BY <1>1, <1>2, <2>1, <2>2, <3>2, GpkgKeeps
  <2> QED BY <2>3, <2>4 DEF NoneDenied, BackHolds
<1>6. CASE d = "shp"
  <2>1. \A i \in n : kept[i] = CellToField(type, cells[i]) /\ CellToField(type, cells[i]) # Denial
    BY <1>2, <1>6 DEF Written, Dropped, MayBeDropped
  <2>2. read = [i \in n |-> FieldValue(DbfKind(type), "utf8", kept[i])]
    BY <1>1, <1>6 DEF ReadBack, FromDbf
  <2>3. \A i \in n : read[i] # Denial /\ Keeps(changes, cells[i], read[i])
    <3>1. TAKE i \in n
    <3>2. read[i] = FieldValue(DbfKind(type), "utf8", CellToField(type, cells[i]))
      BY <2>1, <2>2
    <3> QED BY <1>1, <1>2, <2>1, <3>2, ShpKeeps
  <2> QED BY <2>2, <2>3 DEF NoneDenied, BackHolds
<1>. QED BY <1>4, <1>5, <1>6, AttributeAssumption

LEMMA AttributesStepHolds == AttributeInv /\ [AttributesNext]_attributeVars => AttributeInv'
<1>. SUFFICES ASSUME AttributeInv, [AttributesNext]_attributeVars
              PROVE  AttributeInv'
  OBVIOUS
<1>1. CASE ReadGpkg
  <2> DEFINE type == SqliteDeclaredToArrow(source.declared)
             found == [i \in DOMAIN source.raw |-> ColBuilderAppend(type, source.raw[i])]
             column == BatchColumn(type, IF source.declared \in Recognized THEN source.declared ELSE Unsaid, source.nullable)
  <2>1. /\ batch_column' = column
        /\ batch_cells' = [i \in DOMAIN found |-> found[i].cell]
        /\ told' = {i \in DOMAIN found : found[i].told}
        /\ cell_stage' = "batch" /\ source' = source /\ written_as' = written_as
        /\ source \in Origins /\ written_as \in Destinations /\ source.file = "gpkg"
    BY <1>1 DEF ReadGpkg, AttributeInv
  <2>2. BatchHolds(source, column, batch_cells', told')
    BY <2>1, ReadGpkgHolds
  <2> HIDE DEF column, found
  <2> QED BY <2>1, <2>2 DEF AttributeInv
<1>2. CASE ReadShp
  <2> DEFINE read == FromDbf(source.field, Encoding, source.raw)
  <2>1. /\ source' = source /\ written_as' = written_as
        /\ source \in Origins /\ written_as \in Destinations /\ source.file = "shp"
    BY <1>2 DEF ReadShp, AttributeInv
  <2>2. CASE Encoding = Denial \/ ~NoneDenied(read)
    <3>1. cell_stage' = "not read"
      BY <1>2, <2>2 DEF ReadShp
    <3> QED BY <2>1, <3>1 DEF AttributeInv
  <2>3. CASE ~(Encoding = Denial \/ ~NoneDenied(read))
    <3>1. /\ batch_column' = BatchColumn(ArrowOf(DbfColumn(source.field, read)), Unsaid, TRUE)
          /\ batch_cells' = read /\ cell_stage' = "batch"
      BY <1>2, <2>3 DEF ReadShp
    <3>2. BatchHolds(source, batch_column', batch_cells', told')
      BY <2>1, <2>3, <3>1, ReadShpHolds DEF Encoding
    <3> QED BY <2>1, <3>1, <3>2 DEF AttributeInv
  <2> QED BY <2>2, <2>3
<1>3. CASE ReadArrow
  <2>1. /\ batch_column' = BatchColumn(source.type, source.declared, source.nullable)
        /\ batch_cells' = source.raw /\ cell_stage' = "batch" /\ source' = source /\ written_as' = written_as
        /\ source \in Origins /\ written_as \in Destinations /\ source.file = "arrow"
    BY <1>3 DEF ReadArrow, AttributeInv
  <2>2. BatchHolds(source, batch_column', batch_cells', told')
    BY <2>1, ReadArrowHolds
  <2> QED BY <2>1, <2>2 DEF AttributeInv
<1>4. CASE Plan
  <2>1. /\ UNCHANGED <<source, batch_column, batch_cells, told, written_as>>
        /\ source \in Origins /\ written_as \in Destinations
        /\ BatchHolds(source, batch_column, batch_cells, told)
    BY <1>4 DEF Plan, AttributeInv
  <2>2. \/ cell_stage' = "not planned"
        \/ cell_stage' = "plan" /\ PlanHolds(source, written_as, batch_column, promised')
    BY <1>4 DEF Plan, PlanHolds
  <2> QED BY <2>1, <2>2 DEF AttributeInv
<1>5. CASE WriteCells
  <2> DEFINE written == [i \in DOMAIN batch_cells |-> Written(written_as, batch_column, batch_cells[i])]
             dropped == [i \in DOMAIN written |-> Dropped(written_as, written[i])]
  <2>1. /\ UNCHANGED <<source, batch_column, batch_cells, told, written_as, promised>>
        /\ source \in Origins /\ written_as \in Destinations
        /\ BatchHolds(source, batch_column, batch_cells, told)
        /\ PlanHolds(source, written_as, batch_column, promised)
    BY <1>5 DEF WriteCells, AttributeInv
  <2>2. CASE ~NoneDenied(written)
    <3>1. cell_stage' = "not written"
      BY <1>5, <2>2 DEF WriteCells
    <3> QED BY <2>1, <3>1 DEF AttributeInv
  <2>3. CASE NoneDenied(written)
    <3>1. cell_stage' = "stored" /\ (file_cells' = written \/ file_cells' = dropped)
      BY <1>5, <2>3 DEF WriteCells
    <3>2. \A i \in DOMAIN batch_cells : Written(written_as, batch_column, batch_cells[i]) # Denial
      BY <2>3 DEF NoneDenied
    <3>3. StoredHolds(written_as, batch_column, batch_cells, file_cells')
      <4>1. CASE file_cells' = written
        BY <3>2, <4>1 DEF StoredHolds
      <4>2. CASE file_cells' = dropped
        BY <3>2, <4>2 DEF StoredHolds
      <4> QED BY <3>1, <4>1, <4>2
    <3> QED BY <2>1, <3>1, <3>3 DEF AttributeInv
  <2> QED BY <2>2, <2>3
<1>6. CASE Reread
  <2> DEFINE read == ReadBack(written_as, batch_column, file_cells)
  <2>1. /\ UNCHANGED <<source, batch_column, batch_cells, told, written_as, promised>>
        /\ source \in Origins /\ written_as \in Destinations
        /\ BatchHolds(source, batch_column, batch_cells, told)
        /\ PlanHolds(source, written_as, batch_column, promised)
        /\ StoredHolds(written_as, batch_column, batch_cells, file_cells)
    BY <1>6 DEF Reread, AttributeInv
  <2>2. NoneDenied(read) /\ BackHolds(source, written_as, promised, batch_cells, read)
    BY <2>1, RereadHolds
  <2>3. back' = read /\ cell_stage' = "back"
    BY <1>6, <2>2 DEF Reread
  <2> HIDE DEF read
  <2> QED BY <2>1, <2>2, <2>3 DEF AttributeInv
<1>7. CASE AttributesEnded \/ UNCHANGED attributeVars
  BY <1>7 DEF AttributesEnded, attributeVars, AttributeInv
<1>. QED BY <1>1, <1>2, <1>3, <1>4, <1>5, <1>6, <1>7 DEF AttributesNext

\* The XLSX library may leave out an empty text, and of a column that is not nullable the plan
\* announces nothing: every other conversion says what becomes of its cells.
NothingIsLeftOut == written_as = "xls" => source.nullable

LEMMA HeldCellsComeBack == AttributeInv /\ NothingIsLeftOut => CellsComeBack
<1>. SUFFICES ASSUME AttributeInv, NothingIsLeftOut
              PROVE  CellsComeBack
  OBVIOUS
<1>1. ASSUME cell_stage = "back", NEW i \in DOMAIN back \ told, NEW v \in Meant(source, source.raw[i])
      PROVE  Keeps(promised, v, back[i])
  <2>1. BatchHolds(source, batch_column, batch_cells, told) /\ BackHolds(source, written_as, promised, batch_cells, back)
    BY <1>1 DEF AttributeInv
  <2>2. Keeps(promised, batch_cells[i], back[i])
    BY <1>1, <2>1 DEF BackHolds, NothingIsLeftOut
  <2>3. Reads(v, batch_cells[i])
    BY <1>1, <2>1 DEF BatchHolds, BackHolds
  <2> QED BY <2>2, <2>3, KeptAsMeant
<1>2. ASSUME cell_stage \in {"stored", "back"}, written_as \in {"shp", "gpkg"}
      PROVE  Names["a"].folded # Names[source.beside].folded
  <2> DEFINE names == <<"a", source.beside>>
  <2>1. ~NamesRefused(written_as, names) /\ ~TableRefused(written_as, names)
    BY <1>2 DEF AttributeInv, PlanHolds
  <2>2. DOMAIN names = {1, 2} /\ names[1] = "a" /\ names[2] = source.beside
    OBVIOUS
  <2> HIDE DEF names
  <2>3. CASE written_as = "shp"
    BY <2>1, <2>2, <2>3 DEF NamesRefused, FoldsNames
  <2>4. CASE written_as = "gpkg"
    BY <2>1, <2>2, <2>4 DEF TableRefused
  <2> QED BY <1>2, <2>3, <2>4
<1>. QED BY <1>1, <1>2 DEF CellsComeBack, AttributeInv

\* A column of any cells of a file that is read, written and read back has each of them as it was,
\* or as the plan announced it.
THEOREM CellsCameBack == AttributesSpec => [](NothingIsLeftOut => CellsComeBack)
<1>1. AttributeInv => (NothingIsLeftOut => CellsComeBack)
  BY HeldCellsComeBack
<1>. QED BY AttributesInitHolds, AttributesStepHolds, <1>1, PTL DEF AttributesSpec

-----------------------------------------------------------------------------
(* The CRS of a layer is never misread, whatever the files say and whatever*)
(* is assumed of them (CrsNotMisread).  The argument has three parts: what *)
(* any driver reads is legible, that is, typed and sure to declare a CRS   *)
(* or none; of each format, what is written of a legible contract is read  *)
(* back as the plan announced; and what is read under an assumption is what*)
(* is read without it, but for the spelling of the authority.              *)

-----------------------------------------------------------------------------
(* Nothing, words and identifiers *)

\* The kinds of a CRS, and the grammars of a definition.
Sides == {"geographic", "projected", "unknown"}
Grammars == {"wkt", "wkt2", "projjson"}

\* Neither of the two constants that stand for nothing is a value.
LEMMA NothingIsNoValue ==
  /\ Nil # Declined
  /\ \A nothing \in {Nil, Declined} :
       /\ nothing \notin Strings /\ nothing \notin BOOLEAN /\ nothing \notin Ids /\ nothing \notin Definitions
       /\ nothing \notin Systems /\ nothing \notin Columns /\ nothing \notin Layers
       /\ nothing \notin Grammars /\ nothing \notin Sides /\ nothing # {} /\ nothing # {<<"EPSG", "4326">>}
  BY CrsAssumption DEF Grammars, Sides

\* What the writers know by heart is made of strings.
LEMMA KnownWords ==
  \A word \in WordsOfWgs84 \cup {"OGC", "CRS84"} : word \in Strings
  BY CrsAssumption

\* An authority in capitals stays as it is, as do those the code names.
LEMMA UppercaseOnce ==
  ASSUME NEW authority \in Strings
  PROVE  /\ Uppercase(authority) \in Strings
         /\ Uppercase(Uppercase(authority)) = Uppercase(authority)
         /\ authority \in {"EPSG", "OGC", "NONE"} \cup LocalAuthorities => Uppercase(authority) = authority
  BY CrsAssumption DEF Uppercase

\* EPSG:4326 and OGC:CRS84 are two identifiers, of no local authority.
LEMMA KnownIds ==
  /\ <<"EPSG", "4326">> \in Ids /\ <<"OGC", "CRS84">> \in Ids
  /\ ~AutoritaLocale(<<"EPSG", "4326">>) /\ ~AutoritaLocale(<<"OGC", "CRS84">>)
  /\ Uppercase("EPSG") = "EPSG" /\ Uppercase("OGC") = "OGC"
  /\ ~StessoIdentificatore(<<"EPSG", "4326">>, <<"OGC", "CRS84">>)
<1>1. Uppercase("EPSG") = "EPSG" /\ Uppercase("OGC") = "OGC"
  <2>1. "EPSG" \in WordsOfWgs84 /\ "4326" \in WordsOfWgs84
    BY DEF WordsOfWgs84
  <2>. QED  BY <2>1, UppercaseOnce, KnownWords
<1>2. <<"EPSG", "4326">> \in Ids /\ <<"OGC", "CRS84">> \in Ids
  <2>1. "EPSG" \in WordsOfWgs84 /\ "4326" \in WordsOfWgs84
    BY DEF WordsOfWgs84
  <2>2. "EPSG" \in Strings /\ "4326" \in Strings /\ "OGC" \in Strings /\ "CRS84" \in Strings
    BY <2>1, KnownWords
  <2>. QED  BY <2>2 DEF Ids
<1>. QED  BY <1>1, <1>2 DEF AutoritaLocale, LocalAuthorities, StessoIdentificatore

\* What is asked of an identifier but its letters is asked of all of the same.
LEMMA SameIsAskedAlike ==
  ASSUME NEW a, NEW b, a # Nil, b # Nil, StessoIdentificatore(a, b),
         NEW text, NEW format
  PROVE  /\ KindOfId(a) = KindOfId(b) /\ AuthorityKind(a) = AuthorityKind(b)
         /\ AutoritaLocale(a) = AutoritaLocale(b)
         /\ CrsKindFor(a, text) = CrsKindFor(b, text)
         /\ Contraddice(a, text, format) = Contraddice(b, text, format)
<1>1. Uppercase(a[1]) = Uppercase(b[1]) /\ a[2] = b[2]
  BY DEF StessoIdentificatore
<1>2. \A c : StessoIdentificatore(a, c) = StessoIdentificatore(b, c)
  BY <1>1 DEF StessoIdentificatore
<1>3. KindOfId(a) = KindOfId(b) /\ AuthorityKind(a) = AuthorityKind(b)
  BY <1>2 DEF KindOfId, AuthorityKind
<1>4. AutoritaLocale(a) = AutoritaLocale(b)
  BY <1>1 DEF AutoritaLocale
<1>5. CrsKindFor(a, text) = CrsKindFor(b, text)
  BY <1>3 DEF CrsKindFor
<1>6. \A ids : CodesOf(a[1], ids) = CodesOf(b[1], ids)
  BY <1>1 DEF CodesOf
<1>7. Contraddice(a, text, format) = Contraddice(b, text, format)
  BY <1>1, <1>6 DEF Contraddice
<1>. QED  BY <1>3, <1>4, <1>5, <1>7

\* The kinds are kinds, whatever they are asked of.
LEMMA KindIsKind ==
  ASSUME NEW id, NEW text, NEW axis
  PROVE  /\ KindOfId(id) \in Sides /\ AuthorityKind(id) \in Sides
         /\ CrsKindFor(id, text) \in Sides \cup {Declined}
         /\ GenereDaiMetadati(id, text, axis) \in Sides
<1>1. KindOfId(id) \in Sides /\ AuthorityKind(id) \in Sides
  BY DEF KindOfId, AuthorityKind, Sides
<1>2. GenereRadice(text) \in Sides
  BY DEF GenereRadice, Sides
<1>3. CrsKindFor(id, text) \in Sides \cup {Declined}
  BY <1>1, <1>2 DEF CrsKindFor, Sides
<1>. QED  BY <1>1, <1>3 DEF GenereDaiMetadati, Sides

\* Stored east first, the axes are one of the orders of an axis.
LEMMA AxisIsAxis ==
  ASSUME NEW kind, NEW text, NEW format
  PROVE  EastFirstAxisOrder(kind, text, format) \in {"lonLat", "latLon", "eastNorth", "other", "unknown"}
  BY DEF EastFirstAxisOrder

\* A definition that contradicts nothing is well formed in its format.
LEMMA WellFormed ==
  ASSUME NEW text \in Definitions, NEW id, NEW format \in Grammars,
         Contraddice(id, text, format) = FALSE
  PROVE  /\ Parses(text, format) /\ DefinitionFormat(text) = format
         /\ text.json <=> format = "projjson"
         /\ ~text.json => text.root \in Wkt1Roots \cup Wkt2Roots /\ text.root \notin {"OGC:CRS84", "textual"}
<1>1. Parses(text, format)
  <2>1. CASE Identificatori(text, format) = Declined
    BY <2>1, NothingIsNoValue DEF Contraddice
  <2>2. CASE Identificatori(text, format) # Declined
    BY <2>2 DEF Identificatori
  <2>. QED  BY <2>1, <2>2
<1>2. text.json \in BOOLEAN
  BY DEF Definitions
<1>. QED  BY <1>1, <1>2 DEF Parses, DefinitionFormat, Roots, Wkt1Roots, Wkt2Roots, Grammars

\* What a reader makes of an identifier and a definition.
Read(id, text) ==
  [status |-> "resolved", id |-> id, kind |-> CrsKindFor(id, text),
   axis |-> EastFirstAxisOrder(CrsKindFor(id, text), text, IF text = Nil THEN Nil ELSE DefinitionFormat(text)),
   text |-> text, format |-> IF text = Nil THEN Nil ELSE DefinitionFormat(text)]

\* A resolved CRS, bare and with its axes, part by part.
LEMMA StoredIs ==
  ASSUME NEW id, NEW kind, NEW text
  PROVE  /\ Resolved(id, kind, text) =
              [status |-> "resolved", id |-> id, kind |-> kind, axis |-> "unknown", text |-> text,
               format |-> IF text = Nil THEN Nil ELSE DefinitionFormat(text)]
         /\ StoredEastFirst(Resolved(id, kind, text)) =
              [status |-> "resolved", id |-> id, kind |-> kind,
               axis |-> EastFirstAxisOrder(kind, text, IF text = Nil THEN Nil ELSE DefinitionFormat(text)),
               text |-> text, format |-> IF text = Nil THEN Nil ELSE DefinitionFormat(text)]
<1>1. Resolved(id, kind, text) =
         [status |-> "resolved", id |-> id, kind |-> kind, axis |-> "unknown", text |-> text,
          format |-> IF text = Nil THEN Nil ELSE DefinitionFormat(text)]
  BY DEF Resolved, System
<1>. QED  BY <1>1 DEF StoredEastFirst

\* What is read of an identifier is a CRS of a contract.
LEMMA ReadIsSystem ==
  ASSUME NEW id \in Ids, NEW text \in Definitions \cup {Nil}, CrsKindFor(id, text) # Declined
  PROVE  Read(id, text) \in Systems
<1>1. CrsKindFor(id, text) \in Sides
  BY KindIsKind
<1>2. EastFirstAxisOrder(CrsKindFor(id, text), text, IF text = Nil THEN Nil ELSE DefinitionFormat(text))
        \in {"lonLat", "latLon", "eastNorth", "other", "unknown"}
  BY AxisIsAxis
<1>3. \A t : DefinitionFormat(t) \in Grammars
  BY DEF DefinitionFormat, Grammars
<1>4. \A g \in Grammars : g # Nil
  BY NothingIsNoValue DEF Grammars
<1>. QED  BY <1>1, <1>2, <1>3, <1>4 DEF Read, Systems, Sides, Grammars

\* An identifier is refused for its kind only, and read whole otherwise.
LEMMA ReadOfIdentifier ==
  ASSUME NEW id \in Ids, NEW text \in Definitions \cup {Nil}
  PROVE  /\ CrsKindFor(id, text) = Declined => OfIdentifier(id, text) = Declined
         /\ CrsKindFor(id, text) # Declined =>
              /\ OfIdentifier(id, text) = [crs |-> Read(id, text), srid |-> Nil]
              /\ OfIdentifier(id, text) \in Columns
<1>1. StoredEastFirst(Resolved(id, CrsKindFor(id, text), text)) = Read(id, text)
  BY StoredIs DEF Read
<1>2. CrsKindFor(id, text) # Declined => [crs |-> Read(id, text), srid |-> Nil] \in Columns
  BY ReadIsSystem DEF Columns
<1>. QED  BY <1>1, <1>2 DEF OfIdentifier, Contract

\* The CRS of a GeoJSON is the one that is read of OGC:CRS84.
LEMMA Wgs84IsRead ==
  /\ Wgs84 = Read(<<"OGC", "CRS84">>, Nil) /\ Wgs84 \in Systems
  /\ Contract(Wgs84, Nil) = [crs |-> Wgs84, srid |-> Nil]
  /\ Contract(Wgs84, Nil) \in Columns /\ Contract(Wgs84, Nil) # Declined
  /\ VerificaCrsEmesso(Wgs84)
<1>1. CrsKindFor(<<"OGC", "CRS84">>, Nil) = "geographic"
  <2>1. /\ StessoIdentificatore(<<"OGC", "CRS84">>, <<"OGC", "CRS84">>)
        /\ ~StessoIdentificatore(<<"OGC", "CRS84">>, <<"EPSG", "3857">>)
    BY DEF StessoIdentificatore
  <2>2. <<"OGC", "CRS84">> # Nil
    BY NothingIsNoValue, KnownIds
  <2>. QED  BY <2>1, <2>2 DEF CrsKindFor, KindOfId, AuthorityKind
<1>2. Wgs84 = Read(<<"OGC", "CRS84">>, Nil)
  BY <1>1, StoredIs DEF Wgs84, Read
<1>3. "geographic" # Declined
  BY NothingIsNoValue DEF Sides
<1>4. Wgs84 \in Systems
  BY <1>1, <1>2, <1>3, ReadIsSystem, KnownIds
<1>5. Contract(Wgs84, Nil) \in Columns
  BY <1>4 DEF Contract, Columns
<1>6. VerificaCrsEmesso(Wgs84)
  BY <1>2, KnownIds DEF VerificaCrsEmesso, Read
<1>. QED  BY <1>2, <1>4, <1>5, <1>6, NothingIsNoValue DEF Contract

\* The identifiers of a WKT.
LEMMA ChildIsTriple ==
  ASSUME NEW text \in Definitions
  PROVE  /\ DOMAIN text.children \subseteq Nat
         /\ \A i \in DOMAIN text.children : text.children[i] \in Strings \X Strings \X Strings
         /\ Children(text) \subseteq Strings \X Strings \X Strings
<1>1. text.children \in Seq(Strings \X Strings \X Strings)
  BY DEF Definitions
<1>2. /\ DOMAIN text.children \subseteq Nat
      /\ \A i \in DOMAIN text.children : text.children[i] \in Strings \X Strings \X Strings
  BY <1>1
<1>. QED  BY <1>2 DEF Children

\* The first identifier that a WKT declares is an identifier.
LEMMA FirstIsId ==
  ASSUME NEW text \in Definitions, WktIdentifiers(text) # {}, WktIdentifiers(text) # Declined
  PROVE  FirstDeclared(text) \in Ids
<1> DEFINE own    == IF text.root \in Wkt1Roots THEN "AUTHORITY" ELSE "ID"
           word   == IF ChildrenNamed(text, own) # {} THEN own ELSE IF own = "ID" THEN "AUTHORITY" ELSE "ID"
           places == {i \in DOMAIN text.children : text.children[i][1] = word}
           place  == CHOOSE i \in places : \A j \in places : i <= j
<1>1. Identified({}) = {}
  BY DEF Identified
<1>2. ChildrenNamed(text, "AUTHORITY") # {} \/ ChildrenNamed(text, "ID") # {}
  BY <1>1 DEF WktIdentifiers
<1>3. ChildrenNamed(text, word) # {}
  BY <1>2
<1>4. places # {} /\ places \subseteq Nat
  BY <1>3, ChildIsTriple DEF ChildrenNamed, Children
<1> HIDE DEF places
<1>5. place \in places
  BY <1>4, LeastNatural
<1>6. text.children[place] \in Strings \X Strings \X Strings
  BY <1>5, ChildIsTriple DEF places
<1>7. FirstDeclared(text) = <<text.children[place][2], text.children[place][3]>>
  BY DEF FirstDeclared, places
<1> HIDE DEF place
<1>. QED  BY <1>6, <1>7 DEF Ids

\* So is the one that is found in a WKT, with or without an assumption.
LEMMA FoundIsId ==
  ASSUME NEW text \in Definitions, NEW assumption \in Ids \cup {Nil},
         IdentificatoreWkt(text, assumption) \notin {Nil, Declined}
  PROVE  IdentificatoreWkt(text, assumption) \in Ids
<1>1. IdentitaWkt(text) \in {"malformed", "ambiguous", "bound", "anonymous", "declared", "esri"}
  BY DEF IdentitaWkt
<1>2. CASE IdentitaWkt(text) \in {"malformed", "ambiguous", "bound", "anonymous"}
  BY <1>2 DEF IdentificatoreWkt
<1>3. CASE IdentitaWkt(text) = "declared"
  <2>1. WktIdentifiers(text) # {} /\ WktIdentifiers(text) # Declined
    BY <1>3 DEF IdentitaWkt
  <2>2. FirstDeclared(text) \in Ids
    BY <2>1, FirstIsId
  <2>3. <<"EPSG", FirstDeclared(text)[2]>> \in Ids
    BY <2>2, KnownIds DEF Ids
  <2>. QED  BY <1>3, <2>2, <2>3 DEF IdentificatoreWkt
<1>4. CASE IdentitaWkt(text) = "esri"
  BY <1>4, KnownIds DEF IdentificatoreWkt
<1>. QED  BY <1>1, <1>2, <1>3, <1>4

\* What is assumed of a WKT that declares its identifier changes the letters
\* of the authority and nothing else.
LEMMA FoundAlike ==
  ASSUME NEW text \in Definitions, NEW assumption \in Ids, ~Wgs84Esri(text),
         IdentificatoreWkt(text, Nil) \notin {Nil, Declined}, IdentificatoreWkt(text, assumption) \notin {Nil, Declined}
  PROVE  StessoIdentificatore(IdentificatoreWkt(text, Nil), IdentificatoreWkt(text, assumption))
<1>1. IdentitaWkt(text) \in {"malformed", "ambiguous", "bound", "anonymous", "declared"}
  BY DEF IdentitaWkt
<1>2. assumption # Nil
  BY NothingIsNoValue
<1>3. IdentitaWkt(text) = "declared"
  BY <1>1, <1>2 DEF IdentificatoreWkt
<1>4. /\ IdentificatoreWkt(text, assumption) = FirstDeclared(text)
      /\ AuthoritySrid(FirstDeclared(text)) # Nil
      /\ IdentificatoreWkt(text, Nil) = <<"EPSG", FirstDeclared(text)[2]>>
  BY <1>2, <1>3 DEF IdentificatoreWkt
<1>5. Uppercase(FirstDeclared(text)[1]) = "EPSG"
  BY <1>4 DEF AuthoritySrid
<1>. QED  BY <1>4, <1>5, KnownIds DEF StessoIdentificatore

\* The two definitions that the writers know by heart.
LEMMA PartsOfWgs84 ==
  /\ Wgs84Parts \in Seq(Strings \X Strings \X Strings) /\ DOMAIN Wgs84Parts = 1 .. 3
  /\ {Wgs84Parts[i] : i \in DOMAIN Wgs84Parts} =
       {<<"DATUM", "WGS_1984", "none">>, <<"PRIMEM", "Greenwich", "none">>, <<"UNIT", "degree", "none">>}
<1> DEFINE one == <<"DATUM", "WGS_1984", "none">>
           two == <<"PRIMEM", "Greenwich", "none">>
           three == <<"UNIT", "degree", "none">>
<1>1. /\ "DATUM" \in WordsOfWgs84 /\ "WGS_1984" \in WordsOfWgs84 /\ "PRIMEM" \in WordsOfWgs84
      /\ "Greenwich" \in WordsOfWgs84
      /\ "UNIT" \in WordsOfWgs84 /\ "degree" \in WordsOfWgs84 /\ "none" \in WordsOfWgs84
  BY DEF WordsOfWgs84
<1>2. /\ "DATUM" \in Strings /\ "WGS_1984" \in Strings /\ "PRIMEM" \in Strings /\ "Greenwich" \in Strings
      /\ "UNIT" \in Strings /\ "degree" \in Strings /\ "none" \in Strings
  BY <1>1, KnownWords
<1>3. one \in Strings \X Strings \X Strings
  BY <1>2
<1>4. two \in Strings \X Strings \X Strings
  BY <1>2
<1>5. three \in Strings \X Strings \X Strings
  BY <1>2
<1>6. Wgs84Parts = <<one, two, three>>
  BY DEF Wgs84Parts
<1> HIDE DEF one, two, three
<1>7. Wgs84Parts \in Seq(Strings \X Strings \X Strings) /\ DOMAIN Wgs84Parts = 1 .. 3
  BY <1>3, <1>4, <1>5, <1>6
<1>8. {Wgs84Parts[i] : i \in DOMAIN Wgs84Parts} = {one, two, three}
  <2>1. Wgs84Parts[1] = one /\ Wgs84Parts[2] = two /\ Wgs84Parts[3] = three
    BY <1>6
  <2>. QED  BY <1>7, <2>1
<1>. QED  BY <1>7, <1>8 DEF one, two, three

\* A sequence and one element more.
LEMMA Appended ==
  ASSUME NEW S, NEW s \in Seq(S), NEW e \in S
  PROVE  /\ Append(s, e) \in Seq(S)
         /\ {Append(s, e)[i] : i \in DOMAIN Append(s, e)} = {s[i] : i \in DOMAIN s} \cup {e}
<1> DEFINE longer == Append(s, e)
<1>1. longer \in Seq(S) /\ Len(longer) = Len(s) + 1 /\ Len(s) \in Nat
  OBVIOUS
<1>2. longer[Len(s) + 1] = e
  OBVIOUS
<1>3. \A i \in 1 .. Len(s) : longer[i] = s[i]
  OBVIOUS
<1>4. DOMAIN longer = 1 .. Len(s) + 1 /\ DOMAIN s = 1 .. Len(s)
  BY <1>1
<1> HIDE DEF longer
<1>5. {longer[i] : i \in DOMAIN longer} = {s[i] : i \in DOMAIN s} \cup {e}
  BY <1>1, <1>2, <1>3, <1>4
<1>. QED  BY <1>1, <1>5 DEF longer

\* The two definitions, and what they hold.
LEMMA Wgs84Children ==
  /\ Wgs84Wkt \in Definitions /\ Wgs84EsriWkt \in Definitions
  /\ Children(Wgs84Wkt) =
       {<<"DATUM", "WGS_1984", "none">>, <<"PRIMEM", "Greenwich", "none">>, <<"UNIT", "degree", "none">>}
  /\ Children(Wgs84EsriWkt) = Children(Wgs84Wkt) \cup {<<"AUTHORITY", "EPSG", "4326">>}
<1> DEFINE tag  == <<"AUTHORITY", "EPSG", "4326">>
           four == Append(Wgs84Parts, tag)
<1>1. "AUTHORITY" \in WordsOfWgs84 /\ "EPSG" \in WordsOfWgs84 /\ "4326" \in WordsOfWgs84 /\ "GEOGCS" \in WordsOfWgs84
  BY DEF WordsOfWgs84
<1>2. "AUTHORITY" \in Strings /\ "EPSG" \in Strings /\ "4326" \in Strings /\ "GEOGCS" \in Strings
  BY <1>1, KnownWords
<1>3. tag \in Strings \X Strings \X Strings
  BY <1>2
<1> HIDE DEF tag
<1>4. /\ four \in Seq(Strings \X Strings \X Strings)
      /\ {four[i] : i \in DOMAIN four} = {Wgs84Parts[i] : i \in DOMAIN Wgs84Parts} \cup {tag}
  <2> DEFINE Triples == Strings \X Strings \X Strings
  <2>1. Wgs84Parts \in Seq(Triples) /\ tag \in Triples
    BY <1>3, PartsOfWgs84
  <2> HIDE DEF Triples
  <2>2. /\ Append(Wgs84Parts, tag) \in Seq(Triples)
        /\ {Append(Wgs84Parts, tag)[i] : i \in DOMAIN Append(Wgs84Parts, tag)} =
             {Wgs84Parts[i] : i \in DOMAIN Wgs84Parts} \cup {tag}
    BY <2>1, Appended
  <2>. QED  BY <2>2 DEF Triples
<1>5. Wgs84EsriWkt = [json |-> FALSE, root |-> "GEOGCS", children |-> four]
  BY DEF Wgs84EsriWkt, tag
<1> HIDE DEF four
<1>6. Wgs84Wkt \in Definitions /\ Wgs84EsriWkt \in Definitions
  BY <1>2, <1>4, <1>5, PartsOfWgs84 DEF Wgs84Wkt, Definitions
<1>7. Children(Wgs84Wkt) = {Wgs84Parts[i] : i \in DOMAIN Wgs84Parts}
  BY DEF Children, Wgs84Wkt
<1>8. Children(Wgs84EsriWkt) = {Wgs84Parts[i] : i \in DOMAIN Wgs84Parts} \cup {tag}
  BY <1>4, <1>5 DEF Children
<1>. QED  BY <1>6, <1>7, <1>8, PartsOfWgs84 DEF tag

\* What the readers make of them.
LEMMA Wgs84Definitions ==
  ASSUME NEW text \in {Wgs84Wkt, Wgs84EsriWkt}
  PROVE  /\ text \in Definitions /\ text # Nil /\ ~text.json /\ text.root = "GEOGCS"
         /\ Parses(text, "wkt") /\ DefinitionFormat(text) = "wkt"
         /\ Identificatori(text, "wkt") \in {{}, {<<"EPSG", "4326">>}}
<1>1. text \in Definitions /\ ~text.json /\ text.root = "GEOGCS"
  <2>1. ~Wgs84Wkt.json /\ Wgs84Wkt.root = "GEOGCS"
    BY DEF Wgs84Wkt
  <2>2. ~Wgs84EsriWkt.json /\ Wgs84EsriWkt.root = "GEOGCS"
    BY DEF Wgs84EsriWkt
  <2>. QED  BY <2>1, <2>2, Wgs84Children
<1>2. text # Nil
  BY <1>1, NothingIsNoValue
<1>3. Parses(text, "wkt") /\ DefinitionFormat(text) = "wkt"
  BY <1>1 DEF Parses, Roots, Wkt1Roots, Wkt2Roots, DefinitionFormat
<1>4. ChildrenNamed(text, "AUTHORITY") \in {{}, {<<"AUTHORITY", "EPSG", "4326">>}}
  <2>1. ChildrenNamed(Wgs84Wkt, "AUTHORITY") = {}
    BY Wgs84Children DEF ChildrenNamed
  <2>2. ChildrenNamed(Wgs84EsriWkt, "AUTHORITY") = {<<"AUTHORITY", "EPSG", "4326">>}
    BY Wgs84Children DEF ChildrenNamed
  <2>. QED  BY <2>1, <2>2
<1>5. Identified({}) = {}
  BY DEF Identified
<1>6. Identified({<<"AUTHORITY", "EPSG", "4326">>}) = {<<"EPSG", "4326">>}
  BY DEF Identified
<1>7. Identificatori(text, "wkt") = Identified(ChildrenNamed(text, "AUTHORITY"))
  BY <1>3 DEF Identificatori
<1>. QED  BY <1>1, <1>2, <1>3, <1>4, <1>5, <1>6, <1>7

\* They agree with every spelling of EPSG:4326.
LEMMA Wgs84IsNamed ==
  ASSUME NEW text \in {Wgs84Wkt, Wgs84EsriWkt}, NEW id \in Ids, StessoIdentificatore(id, <<"EPSG", "4326">>)
  PROVE  CrsKindFor(id, text) = "geographic" /\ Contraddice(id, text, "wkt") = FALSE
<1>1. id # Nil
  BY NothingIsNoValue
<1>2. KindOfId(id) = "geographic"
  <2>1. ~StessoIdentificatore(id, <<"EPSG", "3857">>)
    BY DEF StessoIdentificatore
  <2>. QED  BY <1>1, <2>1 DEF KindOfId, AuthorityKind
<1>3. CrsKindFor(id, text) = "geographic"
  BY <1>2, Wgs84Definitions DEF CrsKindFor, GenereRadice
<1>4. CodesOf(id[1], Identificatori(text, "wkt")) # {} => id[2] \in CodesOf(id[1], Identificatori(text, "wkt"))
  <2>1. CodesOf(id[1], {}) = {}
    BY DEF CodesOf
  <2>2. id[2] \in CodesOf(id[1], {<<"EPSG", "4326">>})
    BY DEF CodesOf, StessoIdentificatore
  <2>. QED  BY <2>1, <2>2, Wgs84Definitions
<1>5. Identificatori(text, "wkt") # Declined
  BY Wgs84Definitions, NothingIsNoValue
<1>. QED  BY <1>3, <1>4, <1>5 DEF Contraddice

\* No reader finds another identifier in them.
LEMMA FoundOfWgs84 ==
  ASSUME NEW text \in {Wgs84Wkt, Wgs84EsriWkt}, IdentificatoreWkt(text, Nil) \notin {Nil, Declined}
  PROVE  IdentificatoreWkt(text, Nil) = <<"EPSG", "4326">>
<1>1. IdentitaWkt(text) \in {"malformed", "ambiguous", "bound", "anonymous", "declared", "esri"}
  BY DEF IdentitaWkt
<1>2. IdentitaWkt(text) \in {"declared", "esri"}
  BY <1>1 DEF IdentificatoreWkt
<1>3. CASE IdentitaWkt(text) = "declared"
  <2>1. /\ AuthoritySrid(FirstDeclared(text)) # Nil
        /\ IdentificatoreWkt(text, Nil) = <<"EPSG", FirstDeclared(text)[2]>>
    BY <1>3 DEF IdentificatoreWkt
  <2>2. WktIdentifiers(text) # {}
    BY <1>3 DEF IdentitaWkt
  <2>3. text = Wgs84EsriWkt
    <3>1. ChildrenNamed(Wgs84Wkt, "AUTHORITY") \cup ChildrenNamed(Wgs84Wkt, "ID") = {}
      BY Wgs84Children DEF ChildrenNamed
    <3>. QED  BY <2>2, <3>1 DEF WktIdentifiers, Identified
  <2>4. text \in Definitions
    BY Wgs84Definitions
  <2>5. ChildrenNamed(text, "AUTHORITY") = {<<"AUTHORITY", "EPSG", "4326">>}
    BY <2>3, Wgs84Children DEF ChildrenNamed
  <2>6. FirstDeclared(text) = <<"EPSG", "4326">>
    <3> DEFINE places == {i \in DOMAIN text.children : text.children[i][1] = "AUTHORITY"}
               place  == CHOOSE i \in places : \A j \in places : i <= j
    <3>1. places # {} /\ places \subseteq Nat
      BY <2>4, <2>5, ChildIsTriple DEF ChildrenNamed, Children
    <3> HIDE DEF places
    <3>2. place \in places
      BY <3>1, LeastNatural
    <3>3. text.children[place] \in ChildrenNamed(text, "AUTHORITY")
      BY <3>2 DEF places, ChildrenNamed, Children
    <3>4. FirstDeclared(text) = <<text.children[place][2], text.children[place][3]>>
      BY <2>5, Wgs84Definitions DEF FirstDeclared, places, Wkt1Roots
    <3> HIDE DEF place
    <3>. QED  BY <2>5, <3>3, <3>4
  <2>. QED  BY <2>1, <2>6
<1>4. CASE IdentitaWkt(text) = "esri"
  BY <1>4 DEF IdentificatoreWkt
<1>. QED  BY <1>2, <1>3, <1>4

-----------------------------------------------------------------------------
(* Contracts that say what they are *)

\* A contract names a CRS or says that there is none.
Legible(column) ==
  /\ column \in Columns
  /\ column.crs.status = "missing" <=> ~Declares(column.crs)
  /\ column.crs.status = "missing" => column.srid = Nil

\* A CRS built of its parts is one of a contract, and so it is with its axes.
LEMMA SystemIs ==
  ASSUME NEW status \in {"missing", "resolved", "unresolved"}, NEW id \in Ids \cup {Nil}, NEW kind \in Sides,
         NEW text \in Definitions \cup {Nil}
  PROVE  System(status, id, kind, text) \in Systems /\ StoredEastFirst(System(status, id, kind, text)) \in Systems
<1>1. \A t : DefinitionFormat(t) \in Grammars /\ DefinitionFormat(t) # Nil
  BY NothingIsNoValue DEF DefinitionFormat, Grammars
<1>2. System(status, id, kind, text) \in Systems
  BY <1>1 DEF System, Systems, Sides, Grammars
<1>3. \A k, t, f : EastFirstAxisOrder(k, t, f) \in {"lonLat", "latLon", "eastNorth", "other", "unknown"}
  BY AxisIsAxis
<1>4. ASSUME NEW crs \in Systems, NEW axis \in {"lonLat", "latLon", "eastNorth", "other", "unknown"}
      PROVE  [crs EXCEPT !.axis = axis] \in Systems
  BY DEF Systems
<1>. QED  BY <1>2, <1>3, <1>4 DEF StoredEastFirst

\* So is what is read of an identifier and a definition.
LEMMA IdentifierIsLegible ==
  ASSUME NEW id \in Ids, NEW text \in Definitions \cup {Nil}, OfIdentifier(id, text) # Declined
  PROVE  Legible(OfIdentifier(id, text))
<1>1. OfIdentifier(id, text) = [crs |-> Read(id, text), srid |-> Nil] /\ OfIdentifier(id, text) \in Columns
  BY ReadOfIdentifier
<1>2. id # Nil
  BY NothingIsNoValue
<1>. QED  BY <1>1, <1>2 DEF Legible, Read, Declares

\* So are the CRS of a GeoJSON and the one that is missing.
LEMMA KnownIsLegible == Legible(Contract(Wgs84, Nil)) /\ Legible(Contract(Missing, Nil))
<1>1. <<"OGC", "CRS84">> # Nil
  BY KnownIds, NothingIsNoValue
<1>2. Legible(Contract(Wgs84, Nil))
  BY <1>1, Wgs84IsRead DEF Legible, Read, Declares
<1>3. Missing \in Systems
  BY SystemIs DEF Missing, Sides
<1>4. Missing.status = "missing" /\ Missing.id = Nil /\ Missing.text = Nil
  BY DEF Missing, System
<1>5. Contract(Missing, Nil) \in Columns
  BY <1>3 DEF Contract, Columns
<1>. QED  BY <1>2, <1>4, <1>5 DEF Legible, Contract, Declares

\* The CRS of a key is named by it, resolved unless it is local.
LEMMA AuthorityIs ==
  ASSUME NEW id \in Ids
  PROVE  /\ Authority(id) \in Systems /\ Authority(id).id = id /\ Authority(id).text = Nil /\ Authority(id).format = Nil
         /\ Authority(id).status = IF AutoritaLocale(id) THEN "unresolved" ELSE "resolved"
         /\ Authority(id).axis = "unknown"
         /\ ~AutoritaLocale(id) => Authority(id).kind = AuthorityKind(id)
<1>1. Authority(id) = IF AutoritaLocale(id) THEN System("unresolved", id, "unknown", Nil)
                      ELSE System("resolved", id, AuthorityKind(id), Nil)
  BY DEF Authority, Unresolved, Resolved
<1>2. AuthorityKind(id) \in Sides /\ "unknown" \in Sides
  BY KindIsKind DEF Sides
<1>3. Authority(id) \in Systems
  BY <1>1, <1>2, SystemIs
<1>. QED  BY <1>1, <1>3 DEF System

\* The metadata of a field.
LEMMA DeclaredIsWhole ==
  ASSUME NEW meta \in Columns, ReadDeclared(meta) # Declined
  PROVE  LET crs == ReadDeclared(meta)
         IN  /\ crs \in Systems /\ crs.status = meta.crs.status /\ crs.id = meta.crs.id /\ crs.axis = meta.crs.axis
             /\ crs.text = meta.crs.text /\ crs.format = meta.crs.format
             /\ crs.status = "missing" <=> ~Declares(crs)
             /\ crs.status = "missing" => meta.srid = Nil
             /\ crs.status = "resolved" =>
                  crs.kind = GenereDaiMetadati(crs.id, crs.text, crs.axis) /\ ~AutoritaLocale(crs.id)
             /\ crs.text # Nil => Contraddice(crs.id, crs.text, crs.format) = FALSE
<1>1. meta.crs \in Systems
  BY DEF Columns
<1>2. GenereDaiMetadati(meta.crs.id, meta.crs.text, meta.crs.axis) \in Sides
  BY KindIsKind
<1>3. ASSUME NEW crs \in Systems, NEW kind \in Sides
      PROVE  /\ [crs EXCEPT !.kind = kind] \in Systems /\ [crs EXCEPT !.kind = kind].kind = kind
             /\ [crs EXCEPT !.kind = kind].status = crs.status /\ [crs EXCEPT !.kind = kind].id = crs.id
             /\ [crs EXCEPT !.kind = kind].axis = crs.axis /\ [crs EXCEPT !.kind = kind].text = crs.text
             /\ [crs EXCEPT !.kind = kind].format = crs.format
  BY DEF Systems, Sides
<1>4. meta.crs.status \in {"missing", "resolved", "unresolved"}
  BY <1>1 DEF Systems
<1>5. /\ meta.crs.text # Nil => Contraddice(meta.crs.id, meta.crs.text, meta.crs.format) = FALSE
      /\ meta.crs.status = "resolved" => Declares(meta.crs) /\ ~AutoritaLocale(meta.crs.id)
      /\ meta.crs.status = "unresolved" => Declares(meta.crs)
      /\ meta.crs.status = "missing" => ~Declares(meta.crs) /\ meta.srid = Nil
      /\ ReadDeclared(meta) = IF meta.crs.status = "resolved"
                              THEN [meta.crs EXCEPT
                                      !.kind = GenereDaiMetadati(meta.crs.id, meta.crs.text, meta.crs.axis)]
                              ELSE meta.crs
  BY DEF ReadDeclared
<1>. QED  BY <1>1, <1>2, <1>3, <1>4, <1>5 DEF Declares

\* Two declarations of one column make a CRS.
LEMMA MergedIsWhole ==
  ASSUME NEW first \in Systems, NEW second \in Systems
  PROVE  /\ Merged(first, second) \in Systems
         /\ Merged(first, second).id = Pick(first.id, second.id, Nil)
         /\ Merged(first, second).text = Pick(first.text, second.text, Nil)
         /\ Merged(first, second).format = IF first.text = Nil THEN second.format ELSE first.format
         /\ Merged(first, second).status = first.status
<1> DEFINE id     == Pick(first.id, second.id, Nil)
           kind   == Pick(first.kind, second.kind, "unknown")
           axis   == Pick(first.axis, second.axis, "unknown")
           text   == Pick(first.text, second.text, Nil)
           format == IF first.text = Nil THEN second.format ELSE first.format
           merged == Merged(first, second)
<1>1. merged = [first EXCEPT !.id = id, !.kind = kind, !.axis = axis, !.text = text, !.format = format]
  BY DEF Merged
<1>2. id \in Ids \cup {Nil} /\ kind \in {"geographic", "projected", "unknown"}
  BY DEF Pick, Systems
<1>3. axis \in {"lonLat", "latLon", "eastNorth", "other", "unknown"}
  BY DEF Pick, Systems
<1>4. /\ text \in Definitions \cup {Nil} /\ format \in {"wkt", "wkt2", "projjson", Nil}
      /\ text = Nil <=> format = Nil
  BY DEF Pick, Systems
<1> HIDE DEF id, kind, axis, text, format, merged
<1>5. merged.id = id /\ merged.text = text /\ merged.format = format /\ merged.status = first.status
  BY <1>1 DEF Systems
<1>6. merged \in [status : {"missing", "resolved", "unresolved"}, id : Ids \cup {Nil},
                  kind : {"geographic", "projected", "unknown"},
                  axis : {"lonLat", "latLon", "eastNorth", "other", "unknown"},
                  text : Definitions \cup {Nil}, format : {"wkt", "wkt2", "projjson", Nil}]
  BY <1>1, <1>2, <1>3, <1>4 DEF Systems
<1>7. merged \in Systems
  BY <1>4, <1>5, <1>6 DEF Systems
<1>. QED  BY <1>5, <1>7 DEF merged, id, text, format

\* Reconciled, they declare something.
LEMMA ReconciledIsWhole ==
  ASSUME NEW crs \in Systems, NEW key \in Ids, ReconcileCrs(crs, Authority(key)) # Declined,
         crs.status = "missing" <=> ~Declares(crs)
  PROVE  LET merged == ReconcileCrs(crs, Authority(key))
         IN  merged \in Systems /\ merged.status # "missing" /\ Declares(merged)
<1> DEFINE second == Authority(key)
<1>1. second \in Systems /\ second.id = key /\ second.status # "missing"
  BY AuthorityIs
<1>2. key # Nil
  BY NothingIsNoValue
<1>3. CASE crs.status = "resolved" /\ second.status = "resolved"
  <2>1. ReconcileCrs(crs, Authority(key)) = Merged(crs, second)
    BY <1>3 DEF ReconcileCrs
  <2>2. Merged(crs, second).id # Nil
    BY <1>1, <1>2, MergedIsWhole DEF Pick
  <2>. QED  BY <1>1, <1>3, <2>1, <2>2, MergedIsWhole DEF Declares
<1>4. CASE ~(crs.status = "resolved" /\ second.status = "resolved")
  <2>1. ReconcileCrs(crs, Authority(key)) = crs /\ crs = second
    BY <1>4 DEF ReconcileCrs
  <2>. QED  BY <1>1, <1>2, <2>1 DEF Declares
<1>. QED  BY <1>3, <1>4

\* What the metadata of a field give is legible.
LEMMA MetadataIsLegible ==
  ASSUME NEW meta \in Columns \cup {Nil}, NEW key \in Ids \cup {Nil}, ReadMetadata(meta, key) # Declined
  PROVE  Legible(ReadMetadata(meta, key))
<1>1. CASE meta = Nil /\ key = Nil
  BY <1>1, KnownIsLegible DEF ReadMetadata
<1>2. CASE meta = Nil /\ key # Nil
  <2>1. ReadMetadata(meta, key) = [crs |-> Authority(key), srid |-> Nil]
    BY <1>2 DEF ReadMetadata, Contract
  <2>. QED  BY <1>2, <2>1, AuthorityIs DEF Legible, Columns, Declares
<1>3. CASE meta # Nil
  <2> DEFINE declared == ReadDeclared(meta)
             crs == IF declared = Declined \/ key = Nil THEN declared ELSE ReconcileCrs(declared, Authority(key))
  <2>1. crs # Declined /\ ReadMetadata(meta, key) = [crs |-> crs, srid |-> meta.srid]
    BY <1>3 DEF ReadMetadata, Contract
  <2>2. declared # Declined
    BY <2>1
  <2>3. /\ declared \in Systems
        /\ declared.status = "missing" <=> ~Declares(declared)
        /\ declared.status = "missing" => meta.srid = Nil
    BY <1>3, <2>2, DeclaredIsWhole
  <2> HIDE DEF declared
  <2>4. /\ crs \in Systems
        /\ crs.status = "missing" <=> ~Declares(crs)
        /\ crs.status = "missing" => meta.srid = Nil
    <3>1. CASE key = Nil
      BY <2>3, <3>1
    <3>2. CASE key # Nil
      <4>1. crs = ReconcileCrs(declared, Authority(key))
        BY <2>2, <3>2
      <4>. QED  BY <2>1, <2>3, <3>2, <4>1, ReconciledIsWhole
    <3>. QED  BY <3>1, <3>2
  <2>5. meta.srid \in Strings \cup {Nil}
    BY <1>3 DEF Columns
  <2> HIDE DEF crs
  <2>. QED  BY <2>1, <2>4, <2>5 DEF Legible, Columns
<1>. QED  BY <1>1, <1>2, <1>3

-----------------------------------------------------------------------------
(* What each driver reads *)

\* What each driver reads is legible.
LEMMA AssumedIsLegible ==
  ASSUME NEW id \in Ids \cup {Nil}, Assumed(id) # Declined
  PROVE  Legible(Assumed(id))
<1>1. id # Nil /\ Assumed(id) = OfIdentifier(id, Nil)
  BY DEF Assumed
<1>. QED  BY <1>1, IdentifierIsLegible

\* A definition, with or without an assumption.
LEMMA WktIsLegible ==
  ASSUME NEW text \in Definitions, NEW id \in Ids \cup {Nil}, OfWkt(text, id) # Declined
  PROVE  Legible(OfWkt(text, id))
<1> DEFINE found == IdentificatoreWkt(text, id)
<1>1. found \notin {Nil, Declined} /\ OfWkt(text, id) = OfIdentifier(found, text)
  BY DEF OfWkt
<1>2. found \in Ids
  BY <1>1, FoundIsId
<1>. QED  BY <1>1, <1>2, IdentifierIsLegible

\* A shapefile, by its .prj.
LEMMA ShpIsLegible ==
  ASSUME NEW file \in Layers, NEW id \in Ids \cup {Nil}, CrsOfShp(file, id) # Declined
  PROVE  Legible(CrsOfShp(file, id))
<1>1. file.text \in Definitions \cup {Nil}
  BY DEF Layers
<1>. QED  BY <1>1, AssumedIsLegible, WktIsLegible, KnownIsLegible DEF CrsOfShp

\* A drawing, by its GEODATA.
LEMMA DxfIsLegible ==
  ASSUME NEW file \in Layers, NEW id \in Ids \cup {Nil}, CrsOfDxf(file, id) # Declined
  PROVE  Legible(CrsOfDxf(file, id))
<1> DEFINE codes == TextualCodes(file.text)
           code  == CHOOSE c \in codes : TRUE
<1>1. file.text \in Definitions \cup {Nil}
  BY DEF Layers
<1>2. CASE file.text = Nil
  BY <1>2, AssumedIsLegible DEF CrsOfDxf
<1>3. CASE file.text # Nil /\ ~file.text.json /\ file.text.root \notin {"OGC:CRS84", "textual"}
  BY <1>1, <1>3, WktIsLegible DEF CrsOfDxf
<1>4. CASE file.text # Nil /\ ~(~file.text.json /\ file.text.root \notin {"OGC:CRS84", "textual"})
  <2>1. \/ CrsOfDxf(file, id) = OfIdentifier(<<"OGC", "CRS84">>, Nil)
        \/ Cardinality(codes) = 1 /\ CrsOfDxf(file, id) = OfIdentifier(<<"EPSG", code>>, Nil)
    BY <1>4 DEF CrsOfDxf
  <2>2. CASE CrsOfDxf(file, id) = OfIdentifier(<<"OGC", "CRS84">>, Nil)
    BY <2>2, IdentifierIsLegible, KnownIds
  <2>3. CASE Cardinality(codes) = 1 /\ CrsOfDxf(file, id) = OfIdentifier(<<"EPSG", code>>, Nil)
    <3>1. codes # {}
      BY <2>3, FS_EmptySet
    <3>2. codes \subseteq Strings
      BY <1>1, <1>4, ChildIsTriple DEF TextualCodes, ChildrenNamed
    <3>3. code \in Strings
      BY <3>1, <3>2
    <3>4. "EPSG" \in Strings
      BY KnownWords DEF WordsOfWgs84
    <3> HIDE DEF code
    <3>5. <<"EPSG", code>> \in Ids
      BY <3>3, <3>4 DEF Ids
    <3>. QED  BY <2>3, <3>5, IdentifierIsLegible
  <2>. QED  BY <2>1, <2>2, <2>3
<1>. QED  BY <1>2, <1>3, <1>4

\* A contract that names a CRS may have an SRID.
LEMMA SridIsAColumns ==
  ASSUME NEW column, Legible(column), column.crs.status # "missing", NEW srid \in Strings \cup {Nil}
  PROVE  Legible([column EXCEPT !.srid = srid])
<1>1. [column EXCEPT !.srid = srid] \in Columns /\ [column EXCEPT !.srid = srid].crs = column.crs
  BY DEF Legible, Columns
<1>. QED  BY <1>1 DEF Legible

\* An identifier in capitals is the same identifier.
LEMMA UppercaseIsId ==
  ASSUME NEW id \in Ids
  PROVE  /\ <<Uppercase(id[1]), id[2]>> \in Ids
         /\ StessoIdentificatore(<<Uppercase(id[1]), id[2]>>, id)
         /\ StessoIdentificatore(id, <<Uppercase(id[1]), id[2]>>)
         /\ Uppercase(Uppercase(id[1])) = Uppercase(id[1])
         /\ Uppercase(id[1]) = id[1] => <<Uppercase(id[1]), id[2]>> = id
<1>1. id[1] \in Strings /\ id[2] \in Strings /\ id = <<id[1], id[2]>>
  BY DEF Ids
<1>2. Uppercase(id[1]) \in Strings /\ Uppercase(Uppercase(id[1])) = Uppercase(id[1])
  BY <1>1, UppercaseOnce
<1>. QED  BY <1>1, <1>2 DEF Ids, StessoIdentificatore

\* A GeoPackage, by the row of its layer.
LEMMA GpkgIsLegible ==
  ASSUME NEW file \in Layers, CrsOfGpkg(file) # Declined
  PROVE  Legible(CrsOfGpkg(file))
<1> DEFINE org  == <<Uppercase(file.id[1]), file.id[2]>>
           read == OfIdentifier(org, file.text)
<1>1. file.id \in Ids /\ file.text \in Definitions \cup {Nil} /\ file.srid \in Strings \cup {Nil}
  BY DEF Layers, CrsOfGpkg
<1>2. org \in Ids
  BY <1>1, UppercaseIsId
<1>3. read # Declined /\ CrsOfGpkg(file) = [read EXCEPT !.srid = file.srid]
  BY DEF CrsOfGpkg
<1>4. Legible(read) /\ read.crs.status = "resolved"
  BY <1>1, <1>2, <1>3, IdentifierIsLegible, ReadOfIdentifier DEF Read
<1> HIDE DEF read
<1>. QED  BY <1>1, <1>3, <1>4, SridIsAColumns

\* The id of a document is an identifier.
LEMMA DocumentIsNamed ==
  ASSUME NEW text \in Definitions, DocumentId(text) # Nil
  PROVE  DocumentId(text) \in Ids
<1> DEFINE ids == ChildrenNamed(text, "id")
           id  == CHOOSE child \in ids : TRUE
<1>1. ids # {} /\ DocumentId(text) = <<id[2], id[3]>>
  BY DEF DocumentId
<1>2. ids \subseteq Strings \X Strings \X Strings
  BY ChildIsTriple DEF ChildrenNamed
<1> HIDE DEF ids
<1>3. id \in Strings \X Strings \X Strings
  BY <1>1, <1>2
<1>. QED  BY <1>1, <1>3 DEF Ids

\* A bare identifier of a known kind, with its axes.
LEMMA StoredIsLegible ==
  ASSUME NEW id \in Ids, NEW kind \in Sides
  PROVE  Legible(Contract(StoredEastFirst(Resolved(id, kind, Nil)), Nil))
<1>1. StoredEastFirst(Resolved(id, kind, Nil)) \in Systems
  BY SystemIs DEF Resolved
<1>2. StoredEastFirst(Resolved(id, kind, Nil)).status = "resolved" /\ StoredEastFirst(Resolved(id, kind, Nil)).id = id
  BY StoredIs
<1>3. id # Nil
  BY NothingIsNoValue
<1>. QED  BY <1>1, <1>2, <1>3 DEF Legible, Contract, Columns, Declares

\* The tag of a GeoParquet field changes nothing but the SRID.
LEMMA TaggedIsLegible ==
  ASSUME NEW read, Legible(read), NEW file, Tagged(read, file) # Declined
  PROVE  Legible(Tagged(read, file)) /\ Tagged(read, file).crs = read.crs
<1> DEFINE named == IF read.crs.status = "resolved" THEN read.crs.id ELSE Nil
           srid  == IF named # Nil /\ named[1] = "EPSG" THEN AuthoritySrid(named) ELSE Nil
<1>1. Tagged(read, file) = [read EXCEPT !.srid = srid]
  BY DEF Tagged
<1>2. named \in Ids \cup {Nil}
  BY DEF Legible, Columns, Systems
<1>3. srid \in Strings \cup {Nil}
  BY <1>2 DEF AuthoritySrid, Ids
<1>4. \A s \in Strings \cup {Nil} :
        /\ [read EXCEPT !.srid = s] \in Columns
        /\ [read EXCEPT !.srid = s].srid = s /\ [read EXCEPT !.srid = s].crs = read.crs
  BY DEF Legible, Columns
<1>5. CASE read.crs.status = "missing"
  <2>1. srid = Nil
    BY <1>5
  <2> HIDE DEF srid
  <2>. QED  BY <1>1, <1>4, <1>5, <2>1 DEF Legible
<1>6. CASE read.crs.status # "missing"
  BY <1>1, <1>3, <1>4, <1>6 DEF Legible
<1>. QED  BY <1>5, <1>6

\* A GeoParquet, whatever its column says.
LEMMA GeoParquetIsLegible ==
  ASSUME NEW file \in Layers, ColumnOfFormat(file), NEW id \in Ids \cup {Nil}, CrsOfGeoParquet(file, id) # Declined
  PROVE  Legible(CrsOfGeoParquet(file, id))
<1> DEFINE read == IF file.said = "none" THEN ReadField(file, id) ELSE ReadColumn(file)
<1>1. read # Declined /\ CrsOfGeoParquet(file, id) = Tagged(read, file)
  BY DEF CrsOfGeoParquet
<1>2. /\ file.text \in Definitions \cup {Nil} /\ file.id \in Ids \cup {Nil}
      /\ file.meta \in Columns \cup {Nil} /\ file.key \in Ids \cup {Nil}
  BY DEF Layers
<1>3. Legible(read)
  <2>1. CASE file.said = "absent"
    BY <2>1, KnownIsLegible DEF ReadColumn
  <2>2. CASE file.said = "null"
    BY <2>2, KnownIsLegible DEF ReadColumn
  <2>3. CASE file.said = "legacy"
    BY <1>2, <2>3, KindIsKind, StoredIsLegible DEF ReadColumn, ColumnOfFormat
  <2>4. CASE file.said = "document"
    <3>1. read = OfIdentifier(DocumentId(file.text), file.text) /\ DocumentId(file.text) # Nil
      BY <1>1, <2>4 DEF ReadColumn
    <3>2. file.text \in Definitions
      BY <1>2, <2>4 DEF ColumnOfFormat
    <3>. QED  BY <1>1, <3>1, <3>2, DocumentIsNamed, IdentifierIsLegible
  <2>5. CASE file.said = "none"
    <3> DEFINE declared == ReadMetadata(file.meta, file.key)
    <3>1. \/ read = declared
          \/ id # Nil /\ read = Contract(Resolved(id, AuthorityKind(id), Nil), Nil)
      BY <2>5 DEF ReadField
    <3>2. CASE read = declared
      BY <1>1, <1>2, <3>2, MetadataIsLegible
    <3>3. CASE id # Nil /\ read = Contract(Resolved(id, AuthorityKind(id), Nil), Nil)
      <4>1. Resolved(id, AuthorityKind(id), Nil) \in Systems
        BY <3>3, KindIsKind, SystemIs DEF Resolved
      <4>2. Resolved(id, AuthorityKind(id), Nil).status = "resolved" /\ Resolved(id, AuthorityKind(id), Nil).id = id
        BY StoredIs
      <4>. QED  BY <3>3, <4>1, <4>2 DEF Legible, Contract, Columns, Declares
    <3>. QED  BY <3>1, <3>2, <3>3
  <2>. QED  BY <2>1, <2>2, <2>3, <2>4, <2>5 DEF ColumnOfFormat
<1> HIDE DEF read
<1>. QED  BY <1>1, <1>3, TaggedIsLegible

\* What any driver reads is legible.
LEMMA DriverIsLegible ==
  ASSUME NEW format \in DOMAIN CrsCapabilities, NEW file \in Layers, format = "geoparquet" => ColumnOfFormat(file),
         NEW id \in Ids \cup {Nil}, ReadDriver(format, file, id) # Declined
  PROVE  Legible(ReadDriver(format, file, id))
<1>1. format \in {"csv", "geojson", "shp", "dxf", "gpkg", "geoparquet", "ipc"}
  BY DEF CrsCapabilities
<1>2. file.meta \in Columns \cup {Nil} /\ file.key \in Ids \cup {Nil}
  BY DEF Layers
<1>. QED  BY <1>1, <1>2, AssumedIsLegible, KnownIsLegible, ShpIsLegible, DxfIsLegible, GpkgIsLegible,
             GeoParquetIsLegible, MetadataIsLegible DEF ReadDriver

\* A layer that opens is legible, and has passed the two checks of every reader.
LEMMA OpenIsLegible ==
  ASSUME NEW format \in DOMAIN CrsCapabilities, NEW file \in Layers, format = "geoparquet" => ColumnOfFormat(file),
         NEW id \in Ids \cup {Nil}, OpenLayer(format, file, id) # Declined
  PROVE  LET column == OpenLayer(format, file, id)
         IN  /\ column = ReadDriver(format, file, id) /\ Legible(column)
             /\ VerificaCrsAssunto(id, column.crs) /\ VerificaCrsEmesso(column.crs)
<1>1. /\ ReadDriver(format, file, id) # Declined /\ OpenLayer(format, file, id) = ReadDriver(format, file, id)
      /\ VerificaCrsAssunto(id, ReadDriver(format, file, id).crs)
      /\ VerificaCrsEmesso(ReadDriver(format, file, id).crs)
  BY DEF OpenLayer
<1>. QED  BY <1>1, DriverIsLegible

-----------------------------------------------------------------------------
(* What a copy answers *)

\* What is promised of a copy, by the losses that were announced.
Answers(loss, column, copy) ==
  /\ column.crs.id # Nil /\ loss.id # "absent" =>
       /\ copy # Declined
       /\ copy.crs.id # Nil
       /\ IF loss.id = "preserved" THEN copy.crs.id = column.crs.id
          ELSE StessoIdentificatore(copy.crs.id, column.crs.id)
  /\ column.crs.id # Nil /\ column.crs.text # Nil /\ loss.text = "preserved" /\ loss.id # "absent" =>
       copy.crs.text = column.crs.text /\ copy.crs.format = column.crs.format
  /\ column.srid # Nil /\ loss.srid = "preserved" => copy.srid = column.srid

\* What WriteCopy writes: a contract that was read, admitted and written.
WrittenCrs(format, column) ==
  /\ Legible(column) /\ VerificaCrsEmesso(column.crs)
  /\ ValidateWrite(format, column) /\ WriteDriver(format, column) # Declined

\* An identifier is the same as itself.
LEMMA SameIsSame == \A id : StessoIdentificatore(id, id)
  BY DEF StessoIdentificatore

\* The definition of a contract is well formed, in the format it names.
LEMMA WholeText ==
  ASSUME NEW column, Legible(column), VerificaCrsEmesso(column.crs), column.crs.text # Nil
  PROVE  /\ column.crs.text \in Definitions /\ column.crs.format \in Grammars
         /\ Contraddice(column.crs.id, column.crs.text, column.crs.format) = FALSE
         /\ DefinitionFormat(column.crs.text) = column.crs.format
         /\ column.crs.text.json <=> column.crs.format = "projjson"
         /\ ~column.crs.text.json => column.crs.text.root \notin {"OGC:CRS84", "textual"}
<1>1. column.crs.text \in Definitions /\ column.crs.format \in Grammars
  BY DEF Legible, Columns, Systems, Grammars
<1>2. Contraddice(column.crs.id, column.crs.text, column.crs.format) = FALSE
  BY DEF VerificaCrsEmesso
<1>. QED  BY <1>1, <1>2, WellFormed

\* The parts of a contract.
LEMMA PartsOf ==
  ASSUME NEW column, Legible(column)
  PROVE  /\ column.crs.id \in Ids \cup {Nil} /\ column.crs.text \in Definitions \cup {Nil}
         /\ column.crs.id # Nil \/ column.crs.text # Nil => column.crs.status # "missing"
         /\ column.crs.text = Nil <=> column.crs.format = Nil
  BY DEF Legible, Columns, Systems, Declares

\* A file without an assumption opens when its CRS may be emitted.
LEMMA Opens ==
  ASSUME NEW format, NEW file, ReadDriver(format, file, Nil) # Declined,
         VerificaCrsEmesso(ReadDriver(format, file, Nil).crs)
  PROVE  OpenLayer(format, file, Nil) = ReadDriver(format, file, Nil)
  BY DEF OpenLayer, VerificaCrsAssunto

\* A CSV promises nothing.
LEMMA CsvAnswers ==
  ASSUME NEW column, WrittenCrs("csv", column), NEW copy
  PROVE  Answers(PlannedLoss("csv", column), column, copy)
<1> DEFINE caps == CrsCapabilities["csv"]
<1>1. caps.id = "absent" /\ caps.srid = "absent" /\ caps.text = "absent" /\ caps.anyBare = TRUE /\ caps.upper = FALSE
  BY DEF CrsCapabilities, Everything
<1> HIDE DEF caps
<1>2. TextState(caps, column.crs) = "absent"
  BY <1>1 DEF TextState
<1>3. IdState(caps, column.crs) = "absent"
  BY <1>1, <1>2 DEF IdState
<1>4. IdentificatoreRiletto(caps, column.crs) = << >>
  BY <1>1 DEF IdentificatoreRiletto
<1>5. PlannedLoss("csv", column) = [id |-> "absent", srid |-> "absent", text |-> "absent"]
  BY <1>1, <1>2, <1>3, <1>4 DEF PlannedLoss, StatoDellIdentificatore, StatoPerIlPiano, caps
<1>. QED  BY <1>5 DEF Answers

\* A GeoJSON takes OGC:CRS84 only, and is read back with it.
LEMMA GeojsonAnswers ==
  ASSUME NEW column, WrittenCrs("geojson", column)
  PROVE  Answers(PlannedLoss("geojson", column), column, OpenLayer("geojson", WriteDriver("geojson", column), Nil))
<1> DEFINE caps == CrsCapabilities["geojson"]
<1>1. caps.support = "fixed" /\ caps.id = "fixed" /\ caps.srid = "absent" /\ caps.text = "absent"
  BY DEF CrsCapabilities, Everything
<1> HIDE DEF caps
<1>2. TextState(caps, column.crs) = "absent"
  BY <1>1 DEF TextState
<1>3. PlannedLoss("geojson", column).text = "absent" /\ PlannedLoss("geojson", column).srid = "absent"
  BY <1>1, <1>2 DEF PlannedLoss, StatoPerIlPiano, caps
<1>4. PlannedLoss("geojson", column).id # "preserved"
  <2>1. IdState(caps, column.crs) \in {"absent", "fixed"}
    BY <1>1 DEF IdState
  <2>2. IdentificatoreRiletto(caps, column.crs) = << >>
    BY <1>1 DEF IdentificatoreRiletto
  <2>. QED  BY <2>1, <2>2 DEF PlannedLoss, StatoDellIdentificatore, StatoPerIlPiano, caps
<1>5. column.crs.id = <<"OGC", "CRS84">>
  BY <1>1 DEF WrittenCrs, ValidateWrite, caps
<1>6. OpenLayer("geojson", WriteDriver("geojson", column), Nil) = [crs |-> Wgs84, srid |-> Nil]
  BY Opens, Wgs84IsRead DEF ReadDriver
<1>7. Wgs84.id = <<"OGC", "CRS84">> /\ [crs |-> Wgs84, srid |-> Nil] # Declined /\ <<"OGC", "CRS84">> # Nil
  BY Wgs84IsRead, KnownIds, NothingIsNoValue DEF Read
<1>. QED  BY <1>3, <1>4, <1>5, <1>6, <1>7, SameIsSame DEF Answers

-----------------------------------------------------------------------------
(* A definition that is kept *)

\* A definition whose identifier may be emitted opens with it.
LEMMA DefinitionRereads ==
  ASSUME NEW format \in {"shp", "dxf"}, NEW file, NEW text \in Definitions, file.text = text,
         ~text.json, text.root \notin {"OGC:CRS84", "textual"},
         IdentificatoreWkt(text, Nil) \notin {Nil, Declined},
         CrsKindFor(IdentificatoreWkt(text, Nil), text) # Declined,
         ~AutoritaLocale(IdentificatoreWkt(text, Nil)),
         Contraddice(IdentificatoreWkt(text, Nil), text, DefinitionFormat(text)) = FALSE
  PROVE  /\ OpenLayer(format, file, Nil) = [crs |-> Read(IdentificatoreWkt(text, Nil), text), srid |-> Nil]
         /\ OpenLayer(format, file, Nil) # Declined
<1> DEFINE found == IdentificatoreWkt(text, Nil)
<1>1. found \in Ids
  BY FoundIsId
<1>2. text # Nil
  BY NothingIsNoValue
<1>3. ReadDriver(format, file, Nil) = OfIdentifier(found, text)
  <2>1. CASE format = "shp"
    BY <1>2, <2>1 DEF ReadDriver, CrsOfShp, OfWkt
  <2>2. CASE format = "dxf"
    BY <1>2, <2>2 DEF ReadDriver, CrsOfDxf, OfWkt
  <2>. QED  BY <2>1, <2>2
<1> HIDE DEF found
<1>4. OfIdentifier(found, text) = [crs |-> Read(found, text), srid |-> Nil] /\ OfIdentifier(found, text) # Declined
  BY <1>1, ReadOfIdentifier, NothingIsNoValue DEF found
<1>5. VerificaCrsEmesso(Read(found, text))
  BY <1>2 DEF VerificaCrsEmesso, Read, found
<1>. QED  BY <1>3, <1>4, <1>5, Opens DEF found

\* A .prj and a GEODATA: the plan asks what their readers will find.
LEMMA DefinitionAnswers ==
  ASSUME NEW format \in {"shp", "dxf"}, NEW column, WrittenCrs(format, column)
  PROVE  Answers(PlannedLoss(format, column), column, OpenLayer(format, WriteDriver(format, column), Nil))
<1> DEFINE caps  == CrsCapabilities[format]
           crs   == column.crs
           text  == column.crs.text
           known == IF format = "shp" THEN Wgs84Wkt ELSE Wgs84EsriWkt
           loss  == PlannedLoss(format, column)
           file  == WriteDriver(format, column)
           copy  == OpenLayer(format, file, Nil)
           found == IdentificatoreRiletto(caps, crs)
           Inside == text # Nil /\ crs.format \in {"wkt", "wkt2"}
<1>1. /\ caps.support = "required" /\ caps.id = "definition" /\ caps.srid = "absent" /\ caps.text = "preserved"
      /\ caps.grammars = {"wkt", "wkt2"} /\ caps.textElse = "identifier" /\ caps.anyBare = TRUE /\ caps.upper = FALSE
      /\ caps.synthesized = known
  <2>1. CASE format = "shp"
    BY <2>1 DEF CrsCapabilities, OfDefinition, Everything
  <2>2. CASE format = "dxf"
    BY <2>2 DEF CrsCapabilities, OfDefinition, Everything
  <2>. QED  BY <2>1, <2>2
<1>2. ValidateWrite(format, column) /\ file # Declined
  BY DEF WrittenCrs
<1>3. /\ file = IF Inside THEN [SaysNothing EXCEPT !.text = text]
                ELSE IF format = "shp" THEN IF text # Nil /\ crs.id \notin Wgs84Ids THEN Declined
                                            ELSE [SaysNothing EXCEPT !.text = WktForId(crs.id, Wgs84Wkt)]
                ELSE IF crs.id \in Wgs84Ids THEN [SaysNothing EXCEPT !.text = Wgs84EsriWkt] ELSE Declined
  BY DEF WriteDriver, ResolvePrj, DefinitionForWrite
<1>4. /\ loss.id = IF found = << >> THEN StatoPerIlPiano(IdState(caps, crs), crs)
                   ELSE IF crs.id # Nil /\ found[1] \notin {Nil, Declined} /\ StessoIdentificatore(found[1], crs.id)
                   THEN IdState(caps, crs) ELSE "absent"
      /\ loss.srid = StatoPerIlPiano(caps.srid, crs)
      /\ loss.text = StatoPerIlPiano(TextState(caps, crs), crs)
  BY DEF PlannedLoss, StatoDellIdentificatore
<1>5. crs.status = "resolved" /\ ~AutoritaLocale(crs.id)
  BY <1>1, <1>2 DEF ValidateWrite, WrittenCrs, VerificaCrsEmesso
<1>6. /\ crs.id # Nil /\ text # Nil => CrsKindFor(crs.id, text) # Declined
  BY <1>1, <1>2 DEF ValidateWrite, VerificaIdentificatoreConservato, ConservaLaCoppia
<1> SUFFICES Answers(loss, column, copy)
  OBVIOUS
<1> HIDE DEF caps, loss, file, found
<1>7. IdState(caps, crs) = "definition"
  BY <1>1 DEF IdState
<1>8. loss.srid = "absent"
  BY <1>1, <1>4 DEF StatoPerIlPiano
<1>9. TextState(caps, crs) = IF crs.format \in {"wkt", "wkt2"} THEN "preserved" ELSE "identifier"
  BY <1>1 DEF TextState
<1>10. found = IF Inside THEN <<IdentificatoreWkt(text, Nil)>>
               ELSE IF crs.id \in Wgs84Ids THEN <<IdentificatoreWkt(known, Nil)>> ELSE << >>
  BY <1>1, <1>9 DEF IdentificatoreRiletto, found
<1>11. CASE crs.id = Nil \/ loss.id = "absent"
  BY <1>8, <1>11 DEF Answers
<1>12. CASE crs.id # Nil /\ loss.id # "absent" /\ Inside
  <2> DEFINE id == IdentificatoreWkt(text, Nil)
  <2>1. id \notin {Nil, Declined} /\ StessoIdentificatore(id, crs.id) /\ loss.id = "definition"
    BY <1>4, <1>7, <1>10, <1>12
  <2>2. /\ text \in Definitions /\ ~text.json /\ text.root \notin {"OGC:CRS84", "textual"}
        /\ Contraddice(crs.id, text, crs.format) = FALSE /\ DefinitionFormat(text) = crs.format
    BY <1>12, WholeText DEF WrittenCrs
  <2>3. /\ CrsKindFor(id, text) # Declined /\ ~AutoritaLocale(id)
        /\ Contraddice(id, text, DefinitionFormat(text)) = FALSE
    BY <1>5, <1>6, <1>12, <2>1, <2>2, SameIsAskedAlike
  <2>4. file.text = text
    BY <1>3, <1>12 DEF SaysNothing
  <2>5. copy = [crs |-> Read(id, text), srid |-> Nil] /\ copy # Declined
    BY <2>1, <2>2, <2>3, <2>4, DefinitionRereads
  <2>6. copy.crs.id = id /\ copy.crs.text = text /\ copy.crs.format = crs.format
    BY <1>12, <2>2, <2>5 DEF Read
  <2> HIDE DEF id, copy
  <2>. QED  BY <1>8, <2>1, <2>5, <2>6 DEF Answers
<1>13. CASE crs.id # Nil /\ loss.id # "absent" /\ ~Inside
  <2> DEFINE id == IdentificatoreWkt(known, Nil)
  <2>1. crs.id \in Wgs84Ids
    <3> SUFFICES ASSUME crs.id \notin Wgs84Ids PROVE FALSE
      OBVIOUS
    <3>1. text = Nil
      BY <1>2, <1>3, <1>13
    <3>2. loss.id = "absent"
      BY <1>4, <1>7, <1>10, <1>13, <3>1 DEF StatoPerIlPiano
    <3>. QED  BY <1>13, <3>2
  <2>2. id \notin {Nil, Declined} /\ StessoIdentificatore(id, crs.id) /\ loss.id = "definition"
    BY <1>4, <1>7, <1>10, <1>13, <2>1
  <2>3. known \in {Wgs84Wkt, Wgs84EsriWkt}
    OBVIOUS
  <2>4. file.text = known
    BY <1>3, <1>13, <2>1 DEF SaysNothing, WktForId
  <2> HIDE DEF known
  <2>5. id = <<"EPSG", "4326">>
    BY <2>2, <2>3, FoundOfWgs84
  <2>6. /\ known \in Definitions /\ ~known.json /\ known.root \notin {"OGC:CRS84", "textual"}
        /\ DefinitionFormat(known) = "wkt"
    BY <2>3, Wgs84Definitions
  <2>7. /\ CrsKindFor(id, known) # Declined /\ ~AutoritaLocale(id)
        /\ Contraddice(id, known, DefinitionFormat(known)) = FALSE
    <3>1. CrsKindFor(id, known) = "geographic" /\ Contraddice(id, known, "wkt") = FALSE
      BY <2>3, <2>5, Wgs84IsNamed, KnownIds, SameIsSame
    <3>. QED  BY <2>5, <2>6, <3>1, KnownIds, NothingIsNoValue DEF Sides
  <2>8. copy = [crs |-> Read(id, known), srid |-> Nil] /\ copy # Declined
    BY <2>2, <2>4, <2>6, <2>7, DefinitionRereads
  <2>9. copy.crs.id = id
    BY <2>8 DEF Read
  <2>10. text # Nil => loss.text # "preserved"
    BY <1>4, <1>9, <1>13 DEF StatoPerIlPiano
  <2> HIDE DEF id, copy
  <2>. QED  BY <1>8, <2>2, <2>8, <2>9, <2>10 DEF Answers
<1>. QED  BY <1>11, <1>12, <1>13

-----------------------------------------------------------------------------
(* A GeoPackage *)

\* Of an organization but NONE, the row that is registered is read back.
LEMMA GpkgAnswers ==
  ASSUME NEW column, WrittenCrs("gpkg", column), Uppercase(column.crs.id[1]) # "NONE"
  PROVE  Answers(PlannedLoss("gpkg", column), column, OpenLayer("gpkg", WriteDriver("gpkg", column), Nil))
<1> DEFINE caps  == CrsCapabilities["gpkg"]
           crs   == column.crs
           id    == column.crs.id
           org   == <<Uppercase(id[1]), id[2]>>
           loss  == PlannedLoss("gpkg", column)
           file  == WriteDriver("gpkg", column)
           copy  == OpenLayer("gpkg", file, Nil)
<1>1. /\ caps.support = "required" /\ caps.id = "preserved" /\ caps.srid = "identifier" /\ caps.text = "identifier"
      /\ caps.grammars = {"wkt"} /\ caps.textElse = "synthesized" /\ caps.anyBare = TRUE /\ caps.upper = TRUE
  BY DEF CrsCapabilities, Everything
<1>2. ValidateWrite("gpkg", column) /\ file # Declined /\ file = RegisterSrs(column)
  BY DEF WrittenCrs, WriteDriver
<1>3. crs.status = "resolved" /\ ~AutoritaLocale(id)
  BY <1>1, <1>2 DEF ValidateWrite, WrittenCrs, VerificaCrsEmesso
<1>4. id # Nil /\ crs.text # Nil => CrsKindFor(id, crs.text) # Declined
  BY <1>1, <1>2 DEF ValidateWrite, VerificaIdentificatoreConservato, ConservaLaCoppia
<1>5. /\ id \in Ids /\ file.id = org
      /\ \/ file.text = Nil
         \/ file.text = Wgs84EsriWkt /\ StessoIdentificatore(id, <<"EPSG", "4326">>)
         \/ crs.format = "wkt" /\ file.text = crs.text
  <2>1. id \in Ids
    BY <1>2, PartsOf DEF RegisterSrs, WrittenCrs
  <2>. QED  BY <1>2, <2>1 DEF RegisterSrs, SaysNothing
<1>6. /\ org \in Ids /\ org # Nil /\ StessoIdentificatore(org, id) /\ Uppercase(org[1]) = org[1]
      /\ (Uppercase(id[1]) = id[1] => org = id)
  BY <1>5, UppercaseIsId, NothingIsNoValue
<1>7. /\ file.text \in Definitions \cup {Nil} /\ CrsKindFor(org, file.text) # Declined
      /\ file.text # Nil => Contraddice(org, file.text, DefinitionFormat(file.text)) = FALSE
  <2> HIDE DEF org, file
  <2>1. CASE file.text = Nil
    <3>1. CrsKindFor(org, Nil) \in Sides
      BY KindIsKind DEF CrsKindFor
    <3>. QED  BY <2>1, <3>1, NothingIsNoValue
  <2>2. CASE file.text = Wgs84EsriWkt /\ StessoIdentificatore(id, <<"EPSG", "4326">>)
    <3>1. StessoIdentificatore(org, <<"EPSG", "4326">>)
      BY <1>6, <2>2 DEF StessoIdentificatore
    <3>. QED  BY <1>6, <2>2, <3>1, Wgs84IsNamed, Wgs84Definitions, NothingIsNoValue DEF Sides
  <2>3. CASE crs.format = "wkt" /\ file.text = crs.text /\ file.text # Nil
    <3>1. /\ crs.text \in Definitions /\ Contraddice(id, crs.text, crs.format) = FALSE
          /\ DefinitionFormat(crs.text) = crs.format
      BY <2>3, WholeText DEF WrittenCrs
    <3>2. id # Nil
      BY <1>5, NothingIsNoValue
    <3>. QED  BY <1>4, <1>6, <2>3, <3>1, <3>2, SameIsAskedAlike
  <2>. QED  BY <1>5, <2>1, <2>2, <2>3
<1>8. copy.crs = Read(org, file.text) /\ copy # Declined
  <2> DEFINE read == OfIdentifier(org, file.text)
  <2> HIDE DEF org, file
  <2>1. read = [crs |-> Read(org, file.text), srid |-> Nil] /\ read \in Columns
    BY <1>6, <1>7, ReadOfIdentifier
  <2>2. read # Declined
    BY <2>1, NothingIsNoValue
  <2>3. <<Uppercase(file.id[1]), file.id[2]>> = org
    BY <1>5, <1>6 DEF org
  <2>4. file.id # Nil /\ org[1] # "NONE"
    BY <1>5, <1>6 DEF org
  <2>5. ReadDriver("gpkg", file, Nil) = [crs |-> Read(org, file.text), srid |-> file.srid]
    BY <2>1, <2>2, <2>3, <2>4 DEF ReadDriver, CrsOfGpkg
  <2>6. [crs |-> Read(org, file.text), srid |-> file.srid] # Declined
    <3>1. file.srid \in Strings \cup {Nil}
      <4>1. file.srid \in {id[2], column.srid}
        BY <1>2 DEF RegisterSrs, SaysNothing
      <4>2. id[2] \in Strings /\ column.srid \in Strings \cup {Nil}
        BY <1>5 DEF Ids, WrittenCrs, Legible, Columns
      <4>. QED  BY <4>1, <4>2
    <3>2. [crs |-> Read(org, file.text), srid |-> file.srid] \in Columns
      BY <2>1, <3>1 DEF Columns
    <3>. QED  BY <3>2, NothingIsNoValue
  <2>7. ~AutoritaLocale(org)
    <3>1. id # Nil
      BY <1>5, NothingIsNoValue
    <3>. QED  BY <1>3, <1>6, <3>1, SameIsAskedAlike
  <2>8. VerificaCrsEmesso(Read(org, file.text))
    BY <1>7, <2>7 DEF VerificaCrsEmesso, Read
  <2>. QED  BY <2>5, <2>6, <2>8, Opens
<1> SUFFICES Answers(loss, column, copy)
  OBVIOUS
<1>9. copy.crs.id = org
  BY <1>8 DEF Read
<1>10. TextState(caps, crs) \in {"identifier", "synthesized"}
  BY <1>1 DEF TextState
<1>11. loss.text # "preserved" /\ loss.srid # "preserved"
  BY <1>1, <1>10 DEF PlannedLoss, StatoPerIlPiano
<1>12. loss.id = "preserved" => Uppercase(id[1]) = id[1]
  <2>1. IdState(caps, crs) = IF Uppercase(id[1]) # id[1] THEN "identifier" ELSE "preserved"
    BY <1>1, <1>5, <1>10, NothingIsNoValue DEF IdState
  <2>2. IdentificatoreRiletto(caps, crs) = << >>
    BY <1>1 DEF IdentificatoreRiletto
  <2>. QED  BY <2>1, <2>2 DEF PlannedLoss, StatoDellIdentificatore, StatoPerIlPiano
<1> HIDE DEF loss, copy, org
<1>. QED  BY <1>6, <1>8, <1>9, <1>11, <1>12 DEF Answers

-----------------------------------------------------------------------------
(* Arrow metadata *)

\* The metadata that a column is written with can be read.
LEMMA HeldIsDeclared ==
  ASSUME NEW column, Legible(column), VerificaCrsEmesso(column.crs)
  PROVE  ReadDeclared(column) # Declined
<1>1. column \in Columns /\ column.crs \in Systems
  BY DEF Legible, Columns
<1>2. ReadDeclared(column) = IF column.crs.status = "resolved"
                             THEN [column.crs EXCEPT
                                     !.kind = GenereDaiMetadati(column.crs.id, column.crs.text, column.crs.axis)]
                             ELSE column.crs
  BY DEF ReadDeclared, Legible, VerificaCrsEmesso
<1>3. GenereDaiMetadati(column.crs.id, column.crs.text, column.crs.axis) \in Sides
  BY KindIsKind
<1>4. \A kind \in Sides : [column.crs EXCEPT !.kind = kind] \in Systems
  BY <1>1 DEF Systems, Sides
<1>. QED  BY <1>1, <1>2, <1>3, <1>4, NothingIsNoValue

\* An Arrow file keeps everything.
LEMMA IpcAnswers ==
  ASSUME NEW column, WrittenCrs("ipc", column)
  PROVE  Answers(PlannedLoss("ipc", column), column, OpenLayer("ipc", WriteDriver("ipc", column), Nil))
<1> DEFINE caps     == CrsCapabilities["ipc"]
           crs      == column.crs
           loss     == PlannedLoss("ipc", column)
           file     == WriteDriver("ipc", column)
           copy     == OpenLayer("ipc", file, Nil)
           declared == ReadDeclared(column)
<1>1. /\ caps.id = "preserved" /\ caps.text = "preserved"
      /\ caps.textElse = "preserved" /\ caps.anyBare = TRUE /\ caps.upper = FALSE
  BY DEF CrsCapabilities, Everything
<1>2. column \in Columns /\ column # Nil
  BY NothingIsNoValue DEF WrittenCrs, Legible
<1>3. /\ declared # Declined /\ declared.status = crs.status /\ declared.id = crs.id /\ declared.text = crs.text
      /\ declared.format = crs.format /\ declared \in Systems
  BY <1>2, HeldIsDeclared, DeclaredIsWhole DEF WrittenCrs
<1> HIDE DEF declared
<1>4. ReadDriver("ipc", file, Nil) = [crs |-> declared, srid |-> column.srid]
  BY <1>2, <1>3 DEF ReadDriver, WriteDriver, SaysNothing, ReadMetadata, Contract, declared
<1>5. [crs |-> declared, srid |-> column.srid] # Declined
  <2>1. [crs |-> declared, srid |-> column.srid] \in Columns
    BY <1>2, <1>3 DEF Columns
  <2>. QED  BY <2>1, NothingIsNoValue
<1>6. VerificaCrsEmesso(declared)
  BY <1>3 DEF VerificaCrsEmesso, WrittenCrs
<1>7. copy = [crs |-> declared, srid |-> column.srid] /\ copy # Declined
  BY <1>4, <1>5, <1>6, Opens
<1>8. loss.id = "preserved"
  <2>1. IdState(caps, crs) = "preserved"
    BY <1>1 DEF IdState
  <2>2. IdentificatoreRiletto(caps, crs) = << >>
    BY <1>1 DEF IdentificatoreRiletto
  <2>. QED  BY <2>1, <2>2 DEF PlannedLoss, StatoDellIdentificatore, StatoPerIlPiano
<1> SUFFICES Answers(loss, column, copy)
  OBVIOUS
<1> HIDE DEF loss, copy
<1>. QED  BY <1>3, <1>7, <1>8 DEF Answers

\* The kind that metadata say agrees with the one of the identifier alone.
LEMMA KindsAgree ==
  ASSUME NEW id \in Ids, NEW text \in Definitions \cup {Nil}, CrsKindFor(id, text) # Declined,
         text # Nil => Parses(text, DefinitionFormat(text)), NEW axis
  PROVE  Agree(GenereDaiMetadati(id, text, axis), AuthorityKind(id), "unknown")
<1>1. id # Nil
  BY NothingIsNoValue
<1>2. AuthorityKind(id) \in {"geographic", "unknown"}
  BY DEF AuthorityKind
<1>3. CASE AuthorityKind(id) = "unknown"
  BY <1>3 DEF Agree
<1>4. CASE AuthorityKind(id) = "geographic"
  <2>1. ~StessoIdentificatore(id, <<"EPSG", "3857">>)
    BY <1>4 DEF AuthorityKind, StessoIdentificatore
  <2>2. KindOfId(id) = "geographic"
    BY <1>4, <2>1 DEF KindOfId
  <2>3. CrsKindFor(id, text) \in {"geographic", "unknown"} /\ (text = Nil => CrsKindFor(id, text) = "geographic")
    <3>1. CASE text = Nil
      BY <2>2, <3>1 DEF CrsKindFor
    <3>2. CASE text # Nil
      BY <2>2, <3>2 DEF CrsKindFor
    <3>. QED  BY <3>1, <3>2
  <2>4. GenereDaiMetadati(id, text, axis) \in {"geographic", "unknown"}
    BY <2>3 DEF GenereDaiMetadati
  <2>. QED  BY <1>4, <2>4 DEF Agree
<1>. QED  BY <1>2, <1>3, <1>4

\* The metadata of a column agree with the key of its identifier.
LEMMA KeyAgrees ==
  ASSUME NEW column, Legible(column), VerificaCrsEmesso(column.crs), column.crs.status = "resolved",
         NEW key \in Ids, column.crs.id = key,
         CrsKindFor(key, column.crs.text) # Declined
  PROVE  ReadMetadata(column, key) # Declined
<1> DEFINE declared == ReadDeclared(column)
           second   == Authority(key)
           merged   == Merged(declared, second)
<1>1. column \in Columns /\ column # Nil /\ key # Nil
  BY NothingIsNoValue DEF Legible
<1>2. ~AutoritaLocale(key)
  BY DEF VerificaCrsEmesso
<1>3. /\ declared # Declined /\ declared \in Systems /\ declared.status = "resolved" /\ declared.id = key
      /\ declared.text = column.crs.text /\ declared.format = column.crs.format
      /\ declared.kind = GenereDaiMetadati(key, column.crs.text, declared.axis)
      /\ declared.text # Nil => Contraddice(key, declared.text, declared.format) = FALSE
  BY <1>1, HeldIsDeclared, DeclaredIsWhole
<1>4. /\ second \in Systems /\ second.id = key /\ second.text = Nil /\ second.format = Nil
      /\ second.status = "resolved"
      /\ second.axis = "unknown" /\ second.kind = AuthorityKind(key)
  BY <1>2, AuthorityIs
<1>5. Agree(declared.kind, second.kind, "unknown")
  <2>1. column.crs.text \in Definitions \cup {Nil}
    BY PartsOf
  <2>2. column.crs.text # Nil => Parses(column.crs.text, DefinitionFormat(column.crs.text))
    <3>1. CASE column.crs.text # Nil
      <4>1. /\ column.crs.text \in Definitions /\ column.crs.format \in Grammars
            /\ Contraddice(column.crs.id, column.crs.text, column.crs.format) = FALSE
        BY <3>1, WholeText
      <4>. QED  BY <4>1, WellFormed
    <3>. QED  BY <3>1
  <2>. QED  BY <1>3, <1>4, <2>1, <2>2, KindsAgree
<1> HIDE DEF declared, second
<1>6. /\ merged \in Systems /\ merged.id = key /\ merged.text = declared.text
      /\ merged.text # Nil => merged.format = declared.format
  BY <1>1, <1>3, <1>4, MergedIsWhole DEF Pick
<1> HIDE DEF merged
<1>7. Coherent(merged)
  BY <1>3, <1>6 DEF Coherent
<1>8. ReconcileCrs(declared, second) = merged
  BY <1>3, <1>4, <1>5, <1>7 DEF ReconcileCrs, Agree, merged
<1>9. ReadMetadata(column, key) = [crs |-> merged, srid |-> column.srid]
  <2>1. merged # Declined
    BY <1>6, NothingIsNoValue
  <2>. QED  BY <1>1, <1>3, <1>8, <2>1 DEF ReadMetadata, Contract, declared, second
<1>10. [crs |-> merged, srid |-> column.srid] \in Columns
  BY <1>1, <1>6 DEF Columns
<1>. QED  BY <1>9, <1>10, NothingIsNoValue

-----------------------------------------------------------------------------
(* A GeoParquet *)

\* A document keeps the identifier it names; without one, OGC:CRS84 is kept.
LEMMA GeoParquetAnswers ==
  ASSUME NEW column, WrittenCrs("geoparquet", column)
  PROVE  Answers(PlannedLoss("geoparquet", column), column,
                 OpenLayer("geoparquet", WriteDriver("geoparquet", column), Nil))
<1> DEFINE caps == CrsCapabilities["geoparquet"]
           crs  == column.crs
           id   == column.crs.id
           text == column.crs.text
           said == CrsDaScrivere(column.crs)
           loss == PlannedLoss("geoparquet", column)
           file == WriteDriver("geoparquet", column)
           copy == OpenLayer("geoparquet", file, Nil)
           crs84 == <<"OGC", "CRS84">>
<1>1. /\ caps.support = "orUnknown" /\ caps.id = "preserved" /\ caps.srid = "identifier" /\ caps.text = "preserved"
      /\ caps.grammars = {"projjson"} /\ caps.textElse = "absent" /\ caps.anyBare = FALSE
      /\ caps.bareIds = {crs84} /\ caps.upper = FALSE
  BY DEF CrsCapabilities, Everything
<1>2. ValidateWrite("geoparquet", column) /\ Legible(column) /\ VerificaCrsEmesso(crs)
  BY DEF WrittenCrs
<1>3. /\ said # Declined
      /\ file.said = said /\ file.text = (IF said = "document" THEN text ELSE Nil)
      /\ file.meta = CampoScritto(column, said) /\ file.key = (IF said = "absent" THEN crs84 ELSE Nil)
  BY DEF WrittenCrs, WriteDriver, WriteGeoParquet, SaysNothing
<1>4. loss.srid \in {"identifier", "absent"}
  BY <1>1 DEF PlannedLoss, StatoPerIlPiano
<1>5. loss.id \in {StatoPerIlPiano(IdState(caps, crs), crs)} /\ loss.text = StatoPerIlPiano(TextState(caps, crs), crs)
  <2>1. IdentificatoreRiletto(caps, crs) = << >>
    BY <1>1 DEF IdentificatoreRiletto
  <2>. QED  BY <2>1 DEF PlannedLoss, StatoDellIdentificatore
<1> SUFFICES Answers(loss, column, copy)
  OBVIOUS
<1> HIDE DEF caps, loss, file, said
<1>6. CASE id = Nil
  BY <1>4, <1>6 DEF Answers
<1>7. CASE id # Nil
  <2>1. crs.status = "resolved" /\ id \in Ids /\ text \in Definitions \cup {Nil}
    <3>1. crs.status \in {"missing", "resolved", "unresolved"}
      BY <1>2 DEF Legible, Columns, Systems
    <3>. QED  BY <1>1, <1>2, <1>7, <3>1, PartsOf DEF ValidateWrite, caps
  <2>2. CASE text # Nil /\ text.json
    <3>1. said = "document" /\ DocumentId(text) = id /\ CrsKindFor(id, text) # Declined
      BY <1>3, <1>7, <2>2 DEF said, CrsDaScrivere, DocumentoDaScrivere
    <3>2. /\ text \in Definitions /\ DefinitionFormat(text) = crs.format /\ crs.format = "projjson"
          /\ Contraddice(id, text, DefinitionFormat(text)) = FALSE
      BY <1>2, <2>2, WholeText
    <3> DEFINE read == OfIdentifier(id, text)
    <3>3. read = [crs |-> Read(id, text), srid |-> Nil] /\ read # Declined /\ Legible(read)
      BY <2>1, <3>1, ReadOfIdentifier, NothingIsNoValue, IdentifierIsLegible
    <3>4. ReadColumn(file) = read
      BY <1>3, <1>7, <3>1 DEF ReadColumn
    <3>5. ReadMetadata(file.meta, id) # Declined
      BY <1>2, <1>3, <2>1, <3>1, KeyAgrees DEF CampoScritto
    <3> HIDE DEF read
    <3>6. Tagged(read, file) # Declined
      <4>1. read.crs.status = "resolved" /\ read.crs.id = id
        BY <3>3 DEF Read
      <4>2. \A s \in Strings \cup {Nil} : [read EXCEPT !.srid = s] \in Columns
        BY <3>3 DEF Legible, Columns
      <4>3. AuthoritySrid(id) \in Strings \cup {Nil}
        BY <2>1 DEF AuthoritySrid, Ids
      <4>. QED  BY <1>3, <1>7, <3>1, <3>5, <4>1, <4>2, <4>3, NothingIsNoValue DEF Tagged, Pick
    <3>7. ReadDriver("geoparquet", file, Nil) = Tagged(read, file)
      BY <1>3, <3>1, <3>3, <3>4 DEF ReadDriver, CrsOfGeoParquet, read
    <3>8. Tagged(read, file).crs = Read(id, text)
      BY <3>3, <3>6, TaggedIsLegible
    <3>9. VerificaCrsEmesso(Read(id, text))
      BY <1>2, <2>1, <3>2 DEF VerificaCrsEmesso, Read
    <3>10. copy.crs = Read(id, text) /\ copy # Declined
      BY <3>6, <3>7, <3>8, <3>9, Opens
    <3>11. copy.crs.id = id /\ copy.crs.text = text /\ copy.crs.format = crs.format
      BY <2>2, <3>2, <3>10 DEF Read
    <3> HIDE DEF copy
    <3>. QED  BY <1>4, <1>7, <3>10, <3>11, SameIsSame DEF Answers
  <2>3. CASE ~(text # Nil /\ text.json)
    <3>1. said = "absent" /\ id \in Wgs84Ids
      BY <1>3, <1>7, <2>1, <2>3 DEF said, CrsDaScrivere
    <3>2. text # Nil => crs.format # "projjson"
      BY <1>2, <2>3, WholeText
    <3>3. TextState(caps, crs) = "absent" \/ text = Nil
      BY <1>1, <3>2 DEF TextState
    <3>4. IdState(caps, crs) = IF id # crs84 THEN "absent" ELSE "preserved"
      BY <1>1, <3>3 DEF IdState
    <3>5. text # Nil => loss.text # "preserved"
      BY <1>5, <3>3 DEF StatoPerIlPiano
    <3>6. CASE id # crs84
      <4>1. loss.id = "absent"
        BY <1>5, <3>4, <3>6 DEF StatoPerIlPiano
      <4>. QED  BY <1>4, <4>1 DEF Answers
    <3>7. CASE id = crs84
      <4> DEFINE bare == [crs EXCEPT !.id = crs84, !.text = Nil, !.format = Nil]
                 meta == [crs |-> bare, srid |-> column.srid]
      <4>1. /\ column \in Columns /\ crs \in Systems /\ column.srid \in Strings \cup {Nil}
           /\ column = [crs |-> crs, srid |-> column.srid]
        BY <1>2 DEF Legible, Columns
      <4>2. file.meta = meta
        <5>1. file.meta = [column EXCEPT !.crs = bare]
          <6>1. file.meta = [column EXCEPT !.crs = Crs84Only(crs)]
            BY <1>3, <3>1 DEF CampoScritto
          <6>2. Crs84Only(crs) = bare
            BY <1>7 DEF Crs84Only
          <6> HIDE DEF bare
          <6>. QED  BY <6>1, <6>2
        <5>2. \A c : [column EXCEPT !.crs = c] = [crs |-> c, srid |-> column.srid]
          BY <4>1 DEF Columns
        <5> HIDE DEF bare
        <5>. QED  BY <5>1, <5>2
      <4>3. bare \in [status : {"missing", "resolved", "unresolved"}, id : Ids \cup {Nil},
                      kind : {"geographic", "projected", "unknown"},
                      axis : {"lonLat", "latLon", "eastNorth", "other", "unknown"},
                      text : Definitions \cup {Nil}, format : {"wkt", "wkt2", "projjson", Nil}]
        BY <4>1, KnownIds DEF Systems
      <4>4. bare.id = crs84 /\ bare.text = Nil /\ bare.format = Nil /\ bare.status = "resolved"
        BY <2>1, <4>1 DEF Systems
      <4> HIDE DEF bare
      <4>5. bare \in Systems
        BY <4>3, <4>4 DEF Systems
      <4>6. crs84 # Nil /\ crs84 \in Ids /\ ~AutoritaLocale(crs84)
        BY KnownIds, NothingIsNoValue
      <4>7. Legible(meta) /\ VerificaCrsEmesso(meta.crs)
        BY <4>1, <4>4, <4>5, <4>6 DEF Legible, Columns, Declares, VerificaCrsEmesso
      <4>8. CrsKindFor(crs84, Nil) # Declined
        <5>1. CrsKindFor(crs84, Nil) \in Sides
          BY KindIsKind DEF CrsKindFor
        <5>. QED  BY <5>1, NothingIsNoValue
      <4>9. ReadMetadata(meta, crs84) # Declined
        BY <4>4, <4>6, <4>7, <4>8, KeyAgrees
      <4> DEFINE read == Contract(Wgs84, Nil)
      <4>10. read = [crs |-> Wgs84, srid |-> Nil] /\ Legible(read) /\ read # Declined
        BY Wgs84IsRead, KnownIsLegible
      <4>11. Wgs84.status = "resolved" /\ Wgs84.id = crs84
        BY Wgs84IsRead DEF Read
      <4> HIDE DEF read, meta
      <4>12. Tagged(read, file) # Declined
        <5>1. \A s \in Strings \cup {Nil} : [read EXCEPT !.srid = s] \in Columns
          BY <4>10 DEF Legible, Columns
        <5>2. AuthoritySrid(crs84) \in Strings \cup {Nil}
          BY <4>6 DEF AuthoritySrid, Ids
        <5>. QED  BY <1>3, <3>1, <4>2, <4>6, <4>9, <4>10, <4>11, <5>1, <5>2, NothingIsNoValue DEF Tagged, Pick
      <4>13. ReadDriver("geoparquet", file, Nil) = Tagged(read, file)
        BY <1>3, <3>1, <4>10 DEF ReadDriver, CrsOfGeoParquet, ReadColumn, read
      <4>14. Tagged(read, file).crs = Wgs84
        BY <4>10, <4>12, TaggedIsLegible
      <4>15. copy.crs = Wgs84 /\ copy # Declined
        BY <4>12, <4>13, <4>14, Wgs84IsRead, Opens
      <4> HIDE DEF copy
      <4>. QED  BY <1>4, <1>7, <3>5, <3>7, <4>11, <4>15, SameIsSame DEF Answers
    <3>. QED  BY <3>6, <3>7
  <2>. QED  BY <2>2, <2>3
<1>. QED  BY <1>6, <1>7

-----------------------------------------------------------------------------
(* What an assumption adds *)

\* What an assumption may add to a layer that opens without it.
FillsIn(plain, full) ==
  \/ plain = Declined
  \/ plain.crs = Missing
  \/ plain.crs.text # Nil /\ Wgs84Esri(plain.crs.text)
  \/ /\ StessoIdentificatore(plain.crs.id, full.crs.id)
     /\ full = [plain EXCEPT !.crs.id = full.crs.id]

\* What is read without regard to an assumption is not changed by it.
LEMMA SameFillsIn ==
  ASSUME NEW plain \in Columns
  PROVE  FillsIn(plain, plain)
<1>1. plain.crs \in Systems
  BY DEF Columns
<1>2. plain.crs = [plain.crs EXCEPT !.id = plain.crs.id]
  BY <1>1 DEF Systems
<1>3. plain = [plain EXCEPT !.crs = plain.crs]
  BY DEF Columns
<1>4. plain = [plain EXCEPT !.crs.id = plain.crs.id]
  BY <1>2, <1>3
<1>. QED  BY <1>4, SameIsSame DEF FillsIn

\* One identifier in two spellings, with one definition.
LEMMA SameDefinitionFillsIn ==
  ASSUME NEW a \in Ids, NEW b \in Ids, StessoIdentificatore(a, b), NEW text \in Definitions \cup {Nil}
  PROVE  FillsIn([crs |-> Read(a, text), srid |-> Nil], [crs |-> Read(b, text), srid |-> Nil])
<1> DEFINE plain == [crs |-> Read(a, text), srid |-> Nil]
           full  == [crs |-> Read(b, text), srid |-> Nil]
<1>1. a # Nil /\ b # Nil
  BY NothingIsNoValue
<1>2. CrsKindFor(a, text) = CrsKindFor(b, text)
  BY <1>1, SameIsAskedAlike
<1>3. Read(b, text) = [Read(a, text) EXCEPT !.id = b]
  BY <1>2 DEF Read
<1>4. full = [plain EXCEPT !.crs = Read(b, text)]
  OBVIOUS
<1>5. plain.crs = Read(a, text) /\ Read(a, text).id = a /\ Read(b, text).id = b /\ full.crs = Read(b, text)
  BY DEF Read
<1>6. full = [plain EXCEPT !.crs.id = full.crs.id]
  BY <1>3, <1>4, <1>5
<1>. QED  BY <1>5, <1>6 DEF FillsIn

\* A definition names itself before an assumption names it.
LEMMA WktFillsIn ==
  ASSUME NEW text \in Definitions, NEW id \in Ids, OfWkt(text, id) # Declined
  PROVE  FillsIn(OfWkt(text, Nil), OfWkt(text, id))
<1> DEFINE plain == IdentificatoreWkt(text, Nil)
           full  == IdentificatoreWkt(text, id)
<1>1. full \notin {Nil, Declined} /\ full \in Ids /\ OfWkt(text, id) = [crs |-> Read(full, text), srid |-> Nil]
  BY FoundIsId, ReadOfIdentifier DEF OfWkt
<1>2. CASE OfWkt(text, Nil) = Declined
  BY <1>2 DEF FillsIn
<1>3. CASE OfWkt(text, Nil) # Declined
  <2>1. plain \notin {Nil, Declined} /\ plain \in Ids /\ OfWkt(text, Nil) = [crs |-> Read(plain, text), srid |-> Nil]
    BY <1>3, FoundIsId, ReadOfIdentifier DEF OfWkt
  <2>2. CASE Wgs84Esri(text)
    <3>1. Read(plain, text).text = text /\ text # Nil
      BY NothingIsNoValue DEF Read
    <3>. QED  BY <2>1, <2>2, <3>1 DEF FillsIn
  <2>3. CASE ~Wgs84Esri(text)
    <3>1. StessoIdentificatore(plain, full)
      BY <1>1, <2>1, <2>3, FoundAlike
    <3> HIDE DEF plain, full
    <3>. QED  BY <1>1, <2>1, <3>1, SameDefinitionFillsIn
  <2>. QED  BY <2>2, <2>3
<1>. QED  BY <1>2, <1>3

\* A shapefile.
LEMMA ShpFillsIn ==
  ASSUME NEW file \in Layers, NEW id \in Ids, CrsOfShp(file, id) # Declined
  PROVE  FillsIn(CrsOfShp(file, Nil), CrsOfShp(file, id))
<1>1. file.text \in Definitions \cup {Nil} /\ id # Nil
  BY NothingIsNoValue DEF Layers
<1>2. CASE file.text = Nil
  BY <1>2 DEF CrsOfShp, Assumed, FillsIn
<1>3. CASE file.text # Nil /\ file.text.root # "OGC:CRS84"
  BY <1>1, <1>3, WktFillsIn DEF CrsOfShp
<1>4. CASE file.text # Nil /\ file.text.root = "OGC:CRS84"
  BY <1>1, <1>4, SameFillsIn, Wgs84IsRead DEF CrsOfShp
<1>. QED  BY <1>2, <1>3, <1>4

\* A drawing.
LEMMA DxfFillsIn ==
  ASSUME NEW file \in Layers, NEW id \in Ids, CrsOfDxf(file, id) # Declined
  PROVE  FillsIn(CrsOfDxf(file, Nil), CrsOfDxf(file, id))
<1> DEFINE codes == TextualCodes(file.text)
           found == IF codes = {} /\ file.text.root = "OGC:CRS84" THEN <<"OGC", "CRS84">>
                    ELSE <<"EPSG", CHOOSE code \in codes : TRUE>>
<1>1. file.text \in Definitions \cup {Nil} /\ id # Nil
  BY NothingIsNoValue DEF Layers
<1>2. CASE file.text = Nil
  BY <1>2 DEF CrsOfDxf, Assumed, FillsIn
<1>3. CASE file.text # Nil /\ ~file.text.json /\ file.text.root \notin {"OGC:CRS84", "textual"}
  BY <1>1, <1>3, WktFillsIn DEF CrsOfDxf
<1>4. CASE file.text # Nil /\ ~(~file.text.json /\ file.text.root \notin {"OGC:CRS84", "textual"})
  <2>0. Cardinality({}) = 0
    BY FS_EmptySet
  <2>1. CrsOfDxf(file, id) = OfIdentifier(found, Nil)
    BY <1>4, <2>0 DEF CrsOfDxf
  <2>2. CrsOfDxf(file, Nil) \in {Declined, OfIdentifier(found, Nil)}
    BY <1>4, <2>0 DEF CrsOfDxf
  <2>3. Legible(CrsOfDxf(file, id))
    BY DxfIsLegible
  <2> HIDE DEF found
  <2>4. CASE CrsOfDxf(file, Nil) = Declined
    BY <2>4 DEF FillsIn
  <2>5. CASE CrsOfDxf(file, Nil) = OfIdentifier(found, Nil)
    BY <2>1, <2>3, <2>5, SameFillsIn DEF Legible
  <2>. QED  BY <2>2, <2>4, <2>5
<1>. QED  BY <1>2, <1>3, <1>4

\* A GeoParquet: the assumption is for a field without a CRS of its own.
LEMMA GeoParquetFillsIn ==
  ASSUME NEW file \in Layers, ColumnOfFormat(file), NEW id \in Ids, CrsOfGeoParquet(file, id) # Declined
  PROVE  FillsIn(CrsOfGeoParquet(file, Nil), CrsOfGeoParquet(file, id))
<1> DEFINE declared == ReadMetadata(file.meta, file.key)
           plain    == CrsOfGeoParquet(file, Nil)
           full     == CrsOfGeoParquet(file, id)
<1>1. id # Nil /\ Legible(full)
  BY NothingIsNoValue, GeoParquetIsLegible
<1>2. CASE file.said # "none" \/ declared = Declined \/ declared.crs # Missing
  <2>1. plain = full
    BY <1>2 DEF CrsOfGeoParquet, ReadField
  <2>. QED  BY <1>1, <2>1, SameFillsIn DEF Legible
<1>3. CASE file.said = "none" /\ declared # Declined /\ declared.crs = Missing
  <2>1. plain = Tagged(declared, file)
    BY <1>3 DEF CrsOfGeoParquet, ReadField
  <2>2. Legible(declared)
    BY <1>3, MetadataIsLegible DEF Layers
  <2> HIDE DEF declared, plain, full
  <2>3. CASE plain = Declined
    BY <2>3 DEF FillsIn, plain, full
  <2>4. CASE plain # Declined
    <3>1. plain.crs = Missing
      BY <1>3, <2>1, <2>2, <2>4, TaggedIsLegible
    <3>. QED  BY <3>1 DEF FillsIn, plain, full
  <2>. QED  BY <2>3, <2>4
<1>. QED  BY <1>2, <1>3

\* Every format.
LEMMA OpenFillsIn ==
  ASSUME NEW format \in DOMAIN CrsCapabilities, NEW file \in Layers, format = "geoparquet" => ColumnOfFormat(file),
         NEW id \in Ids, OpenLayer(format, file, id) # Declined
  PROVE  FillsIn(OpenLayer(format, file, Nil), OpenLayer(format, file, id))
<1>1. format \in {"csv", "geojson", "shp", "dxf", "gpkg", "geoparquet", "ipc"}
  BY DEF CrsCapabilities
<1>2. ReadDriver(format, file, id) # Declined /\ OpenLayer(format, file, id) = ReadDriver(format, file, id)
  BY DEF OpenLayer
<1>3. Legible(ReadDriver(format, file, id))
  BY <1>2, DriverIsLegible
<1>4. FillsIn(ReadDriver(format, file, Nil), ReadDriver(format, file, id))
  <2>1. CASE format = "csv"
    BY <2>1 DEF ReadDriver, Assumed, FillsIn
  <2>2. CASE format \in {"geojson", "gpkg", "ipc"}
    <3>1. ReadDriver(format, file, Nil) = ReadDriver(format, file, id)
      BY <2>2 DEF ReadDriver
    <3>. QED  BY <1>3, <3>1, SameFillsIn DEF Legible
  <2>3. CASE format = "shp"
    BY <1>2, <2>3, ShpFillsIn DEF ReadDriver
  <2>4. CASE format = "dxf"
    BY <1>2, <2>4, DxfFillsIn DEF ReadDriver
  <2>5. CASE format = "geoparquet"
    BY <1>2, <2>5, GeoParquetFillsIn DEF ReadDriver
  <2>. QED  BY <1>1, <2>1, <2>2, <2>3, <2>4, <2>5
<1>5. OpenLayer(format, file, Nil) \in {Declined, ReadDriver(format, file, Nil)}
  BY DEF OpenLayer
<1>. QED  BY <1>2, <1>4, <1>5 DEF FillsIn

-----------------------------------------------------------------------------
(* The conversion *)

\* At every stage the parts are what the drivers made of the file: read,
\* admitted, announced, written and read back, each of the one before it.
CrsInv ==
  /\ original.format \in DOMAIN Originals /\ original.file \in Originals[original.format]
  /\ assumed \in Assumable
  /\ crs_stage \in {"start", "read", "planned", "written", "reread", "refused"}
  /\ crs_stage \notin {"start", "refused"} =>
       held = OpenLayer(original.format, original.file, assumed) /\ held # Declined
  /\ crs_stage \in {"planned", "written", "reread"} =>
       target \in Targets /\ ValidateWrite(target, held) /\ announced = PlannedLoss(target, held)
  /\ crs_stage \in {"written", "reread"} => emitted = WriteDriver(target, held) /\ emitted # Declined
  /\ crs_stage = "reread" => reread = OpenLayer(target, emitted, Nil)

\* The inductive invariant holds: each stage is of the one before.
LEMMA CrsInductive == CrsSpec => []CrsInv
<1>1. CrsInit => CrsInv
  BY DEF CrsInit, CrsInv
<1>2. CrsInv /\ [CrsNext]_crsVars => CrsInv'
  <2> SUFFICES ASSUME CrsInv, [CrsNext]_crsVars
               PROVE  CrsInv'
    OBVIOUS
  <2>1. CASE ReadOriginal
    BY <2>1 DEF ReadOriginal, CrsInv
  <2>2. CASE PlanWrite
    BY <2>2 DEF PlanWrite, CrsInv
  <2>3. CASE WriteCopy
    BY <2>3 DEF WriteCopy, CrsInv
  <2>4. CASE ReadCopy
    BY <2>4 DEF ReadCopy, CrsInv
  <2>5. CASE CrsEnded
    BY <2>5 DEF CrsEnded, crsVars, CrsInv
  <2>6. CASE UNCHANGED crsVars
    BY <2>6 DEF crsVars, CrsInv
  <2>. QED  BY <2>1, <2>2, <2>3, <2>4, <2>5, <2>6 DEF CrsNext
<1>. QED  BY <1>1, <1>2, PTL DEF CrsSpec

\* What is held was read of a file of the instance.
LEMMA HeldIsLegible ==
  ASSUME CrsInv, crs_stage \notin {"start", "refused"}
  PROVE  /\ original.format \in DOMAIN CrsCapabilities /\ original.file \in Layers
         /\ original.format = "geoparquet" => ColumnOfFormat(original.file)
         /\ assumed \in Ids \cup {Nil}
         /\ Legible(held) /\ VerificaCrsEmesso(held.crs)
<1>1. /\ original.format \in DOMAIN CrsCapabilities /\ original.file \in Layers
      /\ original.format = "geoparquet" => ColumnOfFormat(original.file)
      /\ assumed \in Ids \cup {Nil}
  BY CrsAssumption DEF CrsInv
<1>2. held = OpenLayer(original.format, original.file, assumed) /\ held # Declined
  BY DEF CrsInv
<1>. QED  BY <1>1, <1>2, OpenIsLegible

\* In every conversion, from a file of any content to any format, a CRS whose
\* identifier, definition or SRID the plan does not announce as lost is read
\* back with them, but in a GeoPackage of NONE; and an assumed identifier
\* changes nothing that the source declares.  (CrsIsNotMisread of CrsPath:
\* --assume-crs, validate_write, perdita_pianificata and the readers of driver-*.)
THEOREM CrsNotMisread == CrsSpec => []CrsIsNotMisread
<1>1. CrsInv => AssumptionOnlyFillsIn
  <2> SUFFICES ASSUME CrsInv, crs_stage \notin {"start", "refused"}, assumed # Nil
               PROVE  FillsIn(OpenLayer(original.format, original.file, Nil), held)
    BY DEF AssumptionOnlyFillsIn, FillsIn
  <2>1. held = OpenLayer(original.format, original.file, assumed) /\ held # Declined
    BY DEF CrsInv
  <2>. QED  BY <2>1, HeldIsLegible, OpenFillsIn
<1>2. CrsInv /\ OrganizationIsNamed => CopyIsNotMisread
  <2> SUFFICES ASSUME CrsInv, OrganizationIsNamed, crs_stage = "reread"
               PROVE  Answers(announced, held, reread)
    BY DEF CopyIsNotMisread, Answers
  <2>1. /\ target \in DOMAIN CrsCapabilities /\ announced = PlannedLoss(target, held)
        /\ reread = OpenLayer(target, WriteDriver(target, held), Nil)
    BY CrsAssumption DEF CrsInv
  <2>2. WrittenCrs(target, held)
    BY HeldIsLegible DEF CrsInv, WrittenCrs
  <2>3. target \in {"csv", "geojson", "shp", "dxf", "gpkg", "geoparquet", "ipc"}
    BY <2>1 DEF CrsCapabilities
  <2>. QED  BY <2>1, <2>2, <2>3, CsvAnswers, GeojsonAnswers, DefinitionAnswers, GpkgAnswers,
               GeoParquetAnswers, IpcAnswers
               DEF OrganizationIsNamed
<1>. QED  BY <1>1, <1>2, CrsInductive, PTL DEF CrsIsNotMisread

=============================================================================

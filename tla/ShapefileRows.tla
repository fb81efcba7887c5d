--------------------------- MODULE ShapefileRows ----------------------------
(***************************************************************************)
(* The rows of a shapefile: driver-shp, from open to the end of the worker *)
(* thread of one reader.                                                   *)
(*                                                                         *)
(* A row is what three readers find at their own positions: the shapes of  *)
(* the .shp, the records of the .dbf, which are only those not marked as   *)
(* deleted, and a second reader of the same .dbf that goes through all     *)
(* its physical records for the exact integers.  The two files are opened  *)
(* one after the other, by path, and either may be replaced in between.    *)
(*                                                                         *)
(* A shape is "ok", "wrong" (rejected with its row) or "broken" (the end   *)
(* of the scan).  A record is "active", "deleted", "garbled" (the dbf      *)
(* crate cannot decode it), "invalid" (its exact integer), "unfit" (its    *)
(* builder refuses it) or "broken".                                        *)
(***************************************************************************)
EXTENDS Naturals, Sequences, FiniteSets

CONSTANTS
  Shapes,      (* the contents of a .shp tried                             *)
  Tables,      (* the contents of a .dbf tried                             *)
  Scopes,      (* ReadScope::AcceptedRows(n), or WholeLayer                *)
  WholeLayer,
  BatchSizes   (* AdaptiveBatchSizer::rows, batch by batch                 *)

ASSUME ShapefileRowsAssumption ==
  /\ Shapes \subseteq Seq({"ok", "wrong", "broken"})
  /\ Tables \subseteq Seq({"active", "deleted", "garbled", "invalid", "unfit", "broken"})
  /\ Scopes \subseteq Nat \cup {WholeLayer}
  /\ BatchSizes \subseteq Nat \ {0}

VARIABLES
  shp, dbf,    (* what is at the two paths                                 *)
  swapped,     (* bound: which of the two has been replaced, once          *)
  layout,      (* of open: [records, active]                               *)
  shapes, records, exact, (* the contents the three handles read           *)
  at,          (* "new", "refused", what the worker does next, "done"      *)
  scope,
  source_rows_seen, active_rows_seen, records_read,
  diagnosed,   (* the physical rows the diagnostics are about              *)
  built,       (* the rows of the batch being built                        *)
  sent,        (* the rows of the batches sent                             *)
  row_stopped,
  outcome      (* how the closure of the worker ended                      *)

shapefileVars == <<shp, dbf, swapped, layout, shapes, records, exact, at, scope,
                   source_rows_seen, active_rows_seen, records_read, diagnosed, built, sent,
                   row_stopped, outcome>>

fileVars   == <<shp, dbf, swapped>>
layoutVars == <<layout, scope>>
handleVars == <<shapes, records, exact>>
countVars  == <<source_rows_seen, active_rows_seen, records_read>>
rowVars    == <<diagnosed, built, sent>>

Deleted(row) == row = "deleted"

\* The positions of the records that are not marked as deleted, and their number.
ActiveAt(table) == {i \in 1 .. Len(table) : ~ Deleted(table[i])}
Active(table)   == Cardinality(ActiveAt(table))

\* iter_records gives these in their order: each has its place among them.
ActiveRows(table) ==
  [n \in 1 .. Active(table) |->
     CHOOSE i \in ActiveAt(table) : Cardinality({j \in ActiveAt(table) : j <= i}) = n]

RowsInit ==
  /\ shp \in Shapes /\ dbf \in Tables /\ swapped = {}
  /\ scope \in Scopes
  /\ layout = [records |-> 0, active |-> 0]
  /\ shapes = << >> /\ records = << >> /\ exact = << >>
  /\ at = "new"
  /\ source_rows_seen = 0 /\ active_rows_seen = 0 /\ records_read = 0
  /\ diagnosed = {} /\ built = << >> /\ sent = << >>
  /\ row_stopped = FALSE /\ outcome = "none"

-----------------------------------------------------------------------------
(* open and open_layer_reader *)

\* infer_shp_schema: the counts of the header and of the active records; with
\* an .shx, the number of shapes is compared with the header's.
Open ==
  /\ at = "new"
  /\ \/ /\ \A i \in 1 .. Len(dbf) : dbf[i] # "broken"
        /\ at' = "open"
        /\ layout' = [records |-> Len(dbf), active |-> Active(dbf)]
     \/ /\ Len(shp) # Len(dbf) \/ \E i \in 1 .. Len(dbf) : dbf[i] = "broken"
        /\ at' = "refused" /\ UNCHANGED layout
  /\ UNCHANGED <<fileVars, scope, handleVars, countVars, rowVars, row_stopped, outcome>>

Step(name) ==
  at' = name /\ UNCHANGED <<fileVars, layoutVars, countVars, rowVars, row_stopped, outcome>>

\* AcceptedRows(0) opens nothing.
OpenShapes ==
  /\ at = "open" /\ scope # 0
  /\ Step("shapes opened") /\ shapes' = shp /\ UNCHANGED <<records, exact>>

OpenRecords ==
  /\ at = "shapes opened"
  /\ Step("records opened") /\ records' = dbf /\ UNCHANGED <<shapes, exact>>

OpenExact ==
  /\ at = "records opened"
  /\ Step("scan") /\ exact' = dbf /\ UNCHANGED <<shapes, records>>

-----------------------------------------------------------------------------
(* The loop of spawn_parser *)

ConcludeRows(how) ==
  /\ at' = "done" /\ outcome' = how
  /\ UNCHANGED <<fileVars, layoutVars, handleVars, countVars, sent, row_stopped>>

Fails == ConcludeRows("error") /\ UNCHANGED <<diagnosed, built>>

\* A file is not there any more, or its structure is not valid.
OpenFails == at \in {"open", "shapes opened", "records opened"} /\ Fails

\* The scope's limit counts only once rows are being rejected; the token is
\* looked at before every row.
Interrupted ==
  \/ diagnosed # {} /\ scope # WholeLayer /\ active_rows_seen >= scope
  \/ row_stopped

ExactRow == exact[source_rows_seen + 1]

MoreRows == source_rows_seen < layout.records

\* next_physical: the count is the one of open, the file may be shorter.
Unreadable ==
  \/ source_rows_seen >= Len(exact) \/ (source_rows_seen < Len(exact) /\ ExactRow = "broken")
  \/ source_rows_seen >= Len(shapes)
  \/ source_rows_seen < Len(shapes) /\ shapes[source_rows_seen + 1] = "broken"

NoRecord == records_read >= Len(ActiveRows(records))

\* The position, in its file, of the record the iterator gives next.
ActiveRecord == ActiveRows(records)[records_read + 1]

InScan == at = "scan" /\ ~ Interrupted

Interrupt == at = "scan" /\ Interrupted /\ Fails

\* A row that cannot be read at all ends the scan.
ScanFails ==
  /\ InScan /\ MoreRows
  /\ Unreadable \/ (~ Unreadable /\ ~ Deleted(ExactRow) /\ NoRecord)
  /\ Fails

\* One physical row, its shape, and its record when it is active.
Passing(n) ==
  /\ source_rows_seen' = source_rows_seen + 1
  /\ active_rows_seen' = active_rows_seen + n /\ records_read' = records_read + n

RowReadable == InScan /\ MoreRows /\ ~ Unreadable

SkipDeleted ==
  /\ RowReadable /\ Deleted(ExactRow)
  /\ Passing(0)
  /\ UNCHANGED <<fileVars, layoutVars, handleVars, at, rowVars, row_stopped, outcome>>

Rejected ==
  \/ records[ActiveRecord] = "garbled" \/ ExactRow = "invalid"
  \/ shapes[source_rows_seen + 1] = "wrong"

\* The row goes to the diagnostics, and the scan goes on.
Diagnose ==
  /\ RowReadable /\ ~ Deleted(ExactRow) /\ ~ NoRecord /\ Rejected
  /\ Passing(1)
  /\ diagnosed' = diagnosed \cup {source_rows_seen + 1}
  /\ UNCHANGED <<fileVars, layoutVars, handleVars, at, built, sent, row_stopped, outcome>>

Accepted == RowReadable /\ ~ Deleted(ExactRow) /\ ~ NoRecord /\ ~ Rejected

Appended ==
  LET here == source_rows_seen + 1 IN
  Append(built, [shape |-> here, record |-> ActiveRecord, exact |-> here])

\* After a rejection rows are only looked at: the read is going to fail.
Appends == diagnosed = {}

\* A builder that refuses its value ends the scan.
AppendFails ==
  /\ Accepted /\ Appends /\ records[ActiveRecord] = "unfit"
  /\ diagnosed' = diagnosed \cup {source_rows_seen + 1}
  /\ ConcludeRows("error") /\ UNCHANGED built

AppendRow ==
  /\ Accepted
  /\ Passing(1)
  /\ IF ~ Appends THEN UNCHANGED <<built, sent>>
     ELSE /\ records[ActiveRecord] # "unfit"
          /\ \E size \in BatchSizes :
               IF Len(Appended) >= size THEN sent' = sent \o Appended /\ built' = << >>
               ELSE built' = Appended /\ UNCHANGED sent
  /\ UNCHANGED <<fileVars, layoutVars, handleVars, at, diagnosed, row_stopped, outcome>>

\* Mutant: the rows still to come are not looked for.
CardinalityUnchecked == source_rows_seen = layout.records

\* The counts of open, and nothing left in either file.
CardinalityHolds ==
  /\ source_rows_seen = layout.records /\ active_rows_seen = layout.active
  /\ Len(shapes) = source_rows_seen
  /\ NoRecord

EndScan ==
  /\ InScan /\ ~ MoreRows
  /\ IF CardinalityHolds /\ diagnosed = {}
     THEN /\ at' = "done" /\ outcome' = "end"
          /\ sent' = sent \o built /\ built' = << >>
          /\ UNCHANGED <<fileVars, layoutVars, handleVars, countVars, diagnosed, row_stopped>>
     ELSE Fails

EndOfNothing == at = "open" /\ scope = 0 /\ ConcludeRows("end") /\ UNCHANGED <<diagnosed, built>>

\* A batch that nobody takes any more ends the worker; with rejected rows it
\* looks for the reader by itself.
ReaderGone ==
  /\ at = "scan" /\ (sent # << >> \/ diagnosed # {})
  /\ ConcludeRows("gone") /\ UNCHANGED <<diagnosed, built>>

-----------------------------------------------------------------------------
(* The caller's token, and another process *)

StopRows ==
  /\ ~ row_stopped /\ at = "scan" /\ row_stopped' = TRUE
  /\ UNCHANGED <<fileVars, layoutVars, handleVars, countVars, rowVars, at, outcome>>

ReplaceOne(name) ==
  /\ name \notin swapped /\ at \notin {"refused", "scan", "done"}
  /\ swapped' = swapped \cup {name}
  /\ UNCHANGED <<layoutVars, handleVars, countVars, rowVars, at, row_stopped, outcome>>

ReplaceFile ==
  \/ ReplaceOne("shp") /\ shp' \in Shapes /\ UNCHANGED dbf
  \/ ReplaceOne("dbf") /\ dbf' \in Tables /\ UNCHANGED shp

RowsFinished == at \in {"refused", "done"} /\ UNCHANGED shapefileVars

RowsNext ==
  \/ Open \/ OpenShapes \/ OpenRecords \/ OpenExact \/ OpenFails
  \/ Interrupt \/ ScanFails \/ SkipDeleted \/ Diagnose \/ AppendFails \/ AppendRow
  \/ EndScan \/ EndOfNothing \/ ReaderGone
  \/ StopRows \/ ReplaceFile
  \/ RowsFinished

RowsSpec == RowsInit /\ [][RowsNext]_shapefileVars

-----------------------------------------------------------------------------
(* Properties *)

\* The row of the n-th record that is not deleted.
Whole ==
  [n \in 1 .. Active(records) |->
     LET i == ActiveRows(records)[n] IN [shape |-> i, record |-> i, exact |-> i]]

\* As long as both readers of the .dbf met the same file, a row is made of one
\* position of the two files, whatever records are deleted; an end of the layer
\* is reported only after all of them, with none rejected, none missing and no
\* shape left over, also when a file was replaced since open.
RowsStayAligned ==
  at \in {"scan", "done"} /\ records = exact =>
    /\ \A i \in 1 .. Len(sent) : sent[i] = Whole[i]
    /\ outcome = "end" /\ scope # 0 =>
         /\ sent = Whole /\ Len(shapes) = layout.records
         /\ \A row \in {sent[i] : i \in 1 .. Len(sent)} :
              records[row.record] = "active" /\ shapes[row.shape] = "ok"

=============================================================================

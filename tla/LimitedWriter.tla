--------------------------- MODULE LimitedWriter ----------------------------
(***************************************************************************)
(* The wrapper every driver's writer is handed out in:                     *)
(* driver/scrittura_limitata.rs and with_write_validation of driver.rs.    *)
(*                                                                         *)
(* The caller's thread calls declare_input_total, write_to_layer and       *)
(* finish; the pipeline's token may be cancelled, or its deadline pass,    *)
(* between any two steps.  write and finish are two steps each, what the   *)
(* wrapper checks and what the backend does.                               *)
(***************************************************************************)
EXTENDS FormatWriters

CONSTANTS
  MaxRows,     (* WriteLimitsView.max_rows and the Rows counter's limit    *)
  MaxSlots     (* bound: the concurrency limits tried are 1 .. MaxSlots    *)

VARIABLES
  writer,       (* "none", "open", or "closed" once finished or dropped    *)
  layers,       (* how many layers the WritePlan declares                  *)
  call,         (* the call in progress: "idle", "write" or "finish"       *)
  batch,        (* the layer and the rows of the write in progress         *)
  rows,         (* LimitedWriter.rows                                      *)
  layer_rows,   (* LimitedWriter.layer_rows                                *)
  input_totals, (* LimitedWriter.input_totals                              *)
  failed,       (* LimitedWriter.failed                                    *)
  reserved,     (* rows leased by the write in progress                    *)
  committed,    (* rows committed to the operation's counter               *)
  halted,       (* the token is cancelled or the deadline has passed       *)
  slots,        (* how many readers and writers the pool lets live at once *)
  in_use,       (* concurrency leases held                                 *)
  result,       (* how the last call ended: "ok", "refused" or "stopped"   *)
  acknowledged, (* the batches whose write returned Ok, in order           *)
  destination   (* the document at the destination, {} while there is none *)

limitVars  == <<rows, layer_rows, input_totals, failed, reserved, committed, slots>>
writerVars == <<writer, layers, call, batch, limitVars, acknowledged, destination>>
limitedVars == <<writerVars, backendVars, halted, in_use, result>>

NoTotal == 0 - 1
NoBatch == [layer |-> 0, rows |-> << >>]
Layers  == 1 .. layers

Return(value) == call' = "idle" /\ result' = value

-----------------------------------------------------------------------------
(* create and with_write_validation *)

\* The backend's staging is made first and goes away when the wrapper is
\* refused: the plan, the existing destination, the stop, the pool.
Create(count) ==
  /\ writer = "none"
  /\ layers' = count
  /\ CreateBackend
  /\ \/ /\ count = 1 \/ (count > 1 /\ format \in MultiLayer)
        /\ destination = {}
        /\ ~ halted
        /\ in_use < slots
        /\ writer' = "open"
        /\ in_use' = in_use + 1
        /\ layer_rows' = [layer \in 1 .. count |-> 0]
        /\ input_totals' = [layer \in 1 .. count |-> NoTotal]
        /\ Return("ok")
     \/ /\ writer' = "closed"
        /\ Return(IF halted THEN "stopped" ELSE "refused")
        /\ UNCHANGED <<in_use, layer_rows, input_totals>>
  /\ UNCHANGED <<batch, rows, failed, reserved, committed, slots, acknowledged, destination, halted>>

\* The wrapper is consumed: its slot comes back and the staging is removed.
Close(value) ==
  /\ writer' = "closed"
  /\ in_use' = in_use - 1
  /\ Return(value)

\* The caller drops the writer, or the stack unwinds through it.
Drop ==
  /\ writer = "open"
  /\ writer' = "closed"
  /\ in_use' = in_use - 1
  /\ reserved' = 0
  /\ call' = "idle"
  /\ UNCHANGED <<layers, batch, rows, layer_rows, input_totals, failed, committed,
                 slots, acknowledged, destination, backendVars, halted, result>>

-----------------------------------------------------------------------------
(* declare_input_total *)

Declarable(layer, total) ==
  /\ layer \in Layers
  /\ layer_rows[layer] = 0
  /\ input_totals[layer] \in {NoTotal, total}
  /\ format \in {"kml", "dxf", "shp"} => layer = 1

\* A refusal leaves the writer usable.
DeclareTotal(layer, total) ==
  /\ writer = "open" /\ call = "idle"
  /\ IF Declarable(layer, total)
     THEN input_totals' = [input_totals EXCEPT ![layer] = total] /\ Return("ok")
     ELSE UNCHANGED input_totals /\ Return("refused")
  /\ UNCHANGED <<writer, layers, batch, rows, layer_rows, failed, reserved, committed,
                 slots, acknowledged, destination, backendVars, halted, in_use>>

-----------------------------------------------------------------------------
(* write and write_to_layer *)

WithinTotal(layer, count) ==
  input_totals[layer] # NoTotal => layer_rows[layer] + count <= input_totals[layer]

\* account: the limits the wrapper checks before the backend sees the batch.
\* An odd row may be caught here, by the geometry contract, or by the backend.
Accountable(layer, content) ==
  /\ layer \in Layers
  /\ WithinTotal(layer, Len(content))
  /\ rows + Len(content) <= MaxRows
  /\ committed + Len(content) <= MaxRows

Refusable(layer, content) ==
  ~ Accountable(layer, content) \/ "odd" \in {content[i] : i \in 1 .. Len(content)}

\* The stop is seen by check_cancelled, which leaves the writer as it was, or
\* a moment later by account, which spoils it.
WriteStopped ==
  /\ halted
  /\ failed' \in {failed, TRUE}
  /\ Return("stopped")
  /\ UNCHANGED <<batch, rows, reserved>>

WriteSpoiled ==
  /\ ~ halted /\ failed
  /\ Return("refused")
  /\ UNCHANGED <<batch, rows, reserved, failed>>

\* The running count moves before the limit it breaks is reported.
WriteRefused(layer, content) ==
  /\ ~ halted /\ ~ failed
  /\ Refusable(layer, content)
  /\ failed' = TRUE
  /\ rows' = IF layer \in Layers /\ WithinTotal(layer, Len(content))
             THEN rows + Len(content) ELSE rows
  /\ Return("refused")
  /\ UNCHANGED <<batch, reserved>>

WriteAccounted(layer, content) ==
  /\ ~ halted /\ ~ failed
  /\ Accountable(layer, content)
  /\ rows' = rows + Len(content)
  /\ reserved' = Len(content)
  /\ batch' = [layer |-> layer, rows |-> content]
  /\ call' = "write"
  /\ UNCHANGED <<result, failed>>

BeginWrite(layer, content) ==
  /\ writer = "open" /\ call = "idle"
  /\ \/ WriteStopped
     \/ WriteSpoiled
     \/ WriteRefused(layer, content)
     \/ WriteAccounted(layer, content)
  /\ UNCHANGED <<writer, layers, layer_rows, input_totals, committed, slots, acknowledged,
                 destination, backendVars, halted, in_use>>

Committed ==
  /\ committed' = committed + reserved
  /\ layer_rows' = [layer_rows EXCEPT ![batch.layer] = @ + Len(batch.rows)]
  /\ acknowledged' = Append(acknowledged, RowParts(batch.layer, batch.rows))
  /\ Return("ok")
  /\ UNCHANGED failed

\* Mutant: a write that failed in the backend does not spoil the writer.
UnspoiledByFailure ==
  /\ Return(IF halted THEN "stopped" ELSE "refused")
  /\ UNCHANGED <<committed, layer_rows, acknowledged, failed>>

\* The leases of the batch are dropped; a limit met after the deadline is
\* reported as the deadline.
Spoiled ==
  /\ failed' = TRUE
  /\ Return(IF halted THEN "stopped" ELSE "refused")
  /\ UNCHANGED <<committed, layer_rows, acknowledged>>

EndWrite ==
  /\ writer = "open" /\ call = "write"
  /\ \E n \in 0 .. Len(batch.rows) :
       /\ WriteBackend(n, batch.layer, batch.rows)
       /\ IF Ok(n, batch.rows) THEN Committed ELSE Spoiled
  /\ reserved' = 0
  /\ batch' = NoBatch
  /\ UNCHANGED <<writer, layers, rows, input_totals, slots, destination, halted, in_use>>

-----------------------------------------------------------------------------
(* finish *)

TotalsMatch ==
  \A layer \in Layers : input_totals[layer] \in {NoTotal, layer_rows[layer]}

BeginFinish ==
  /\ writer = "open" /\ call = "idle"
  /\ IF ~ halted /\ ~ failed /\ TotalsMatch
     THEN call' = "finish" /\ UNCHANGED <<writer, in_use, result>>
     ELSE Close(IF halted THEN "stopped" ELSE "refused")
  /\ UNCHANGED <<layers, batch, limitVars, acknowledged, destination, backendVars, halted>>

\* The document is published whole (Publish.tla), and only if no stop was seen.
FinishPublishes ==
  /\ FinishBackend
  /\ destination' = {staged'}
  /\ Close("ok")

\* The backend, the disk, the output limit or the stop before the rename.
FinishFails ==
  /\ Close(IF halted THEN "stopped" ELSE "refused")
  /\ UNCHANGED <<destination, backendVars>>

EndFinish ==
  /\ writer = "open" /\ call = "finish"
  /\ FinishPublishes \/ FinishFails
  /\ UNCHANGED <<layers, batch, limitVars, acknowledged, halted>>

-----------------------------------------------------------------------------
LimitedInit ==
  /\ format \in Formats
  /\ xy \in (IF format \in {"csv", "xls"} THEN BOOLEAN ELSE {FALSE})
  /\ staged = << >> /\ buffer = << >> /\ started = FALSE /\ shape_type = {}
  /\ writer = "none" /\ layers = 0
  /\ call = "idle" /\ batch = NoBatch
  /\ rows = 0 /\ layer_rows = << >> /\ input_totals = << >>
  /\ failed = FALSE /\ reserved = 0 /\ committed = 0
  /\ halted = FALSE /\ slots \in 1 .. MaxSlots /\ in_use = 0 /\ result = "none"
  /\ acknowledged = << >> /\ destination = {}

-----------------------------------------------------------------------------
(* Properties *)

RowsOf(layer) ==
  LET parts == FlattenSeq(acknowledged)
  IN  Cardinality({i \in 1 .. Len(parts) : parts[i].layer = layer})

\* What becomes visible is a whole document of its format that holds exactly
\* the batches whose write returned Ok, in order, and as many rows as were
\* declared for it: a write that failed half way poisons the writer, however
\* the caller goes on.  The rows charged to the operation are the rows written,
\* layer by layer.
WriterIsTruthful ==
  /\ \A document \in destination :
       document = DocumentOf(acknowledged) /\ Readable(document)
  /\ destination # {} => \A layer \in Layers : input_totals[layer] \in {NoTotal, RowsOf(layer)}
  /\ committed = Len(FlattenSeq(acknowledged))
  /\ \A layer \in DOMAIN layer_rows : layer_rows[layer] = RowsOf(layer)
  /\ call = "idle" => reserved = 0

=============================================================================

----------------------------- MODULE AtomicRead -----------------------------
(***************************************************************************)
(* What the operation-atomic read adapter promises to its caller (the      *)
(* comment on BudgetedReader in driver/reader_adapters.rs, and INV-8 in    *)
(* its next_batch): not one batch is delivered unless the whole scan was   *)
(* verified and fits under the row quota, what is delivered is the scan in *)
(* order, and an error is final.                                           *)
(***************************************************************************)
EXTENDS Integers, Sequences, Totals

CONSTANTS Errors, MaxRows

VARIABLES
  scan,       (* the batches this operation covers                         *)
  delivered,  (* the batches the caller received                           *)
  outcome     (* "open", "eof" or an error                                 *)

RowsOf(batches) == Total([i \in 1 .. Len(batches) |-> batches[i].rows], Len(batches))

Acceptable == (\A i \in 1 .. Len(scan) : scan[i].valid) /\ RowsOf(scan) <= MaxRows

Init == delivered = << >> /\ outcome = "open"

Deliver ==
  /\ outcome = "open"
  /\ Acceptable
  /\ Len(delivered) < Len(scan)
  /\ delivered' = Append(delivered, scan[Len(delivered) + 1])
  /\ UNCHANGED <<scan, outcome>>

End ==
  /\ outcome = "open"
  /\ Acceptable
  /\ delivered = scan
  /\ outcome' = "eof"
  /\ UNCHANGED <<scan, delivered>>

Fail(error) ==
  /\ outcome = "open"
  /\ outcome' = error
  /\ UNCHANGED <<scan, delivered>>

\* A call after the end still looks at the token first.
FailAfterEnd ==
  /\ outcome = "eof"
  /\ outcome' = "cancelled"
  /\ UNCHANGED <<scan, delivered>>

Next == Deliver \/ End \/ FailAfterEnd \/ \E error \in Errors : Fail(error)

Spec == Init /\ [][Next]_<<scan, delivered, outcome>>

=============================================================================

---------------------------- MODULE BatchStream -----------------------------
(***************************************************************************)
(* What the reader of a background parser promises to its caller           *)
(* (plenora-io-core/src/driver/batch_worker.rs, header): the batches of    *)
(* the layer in order, then one final answer that never changes.  The end  *)
(* of the stream is answered only when every batch was delivered: an       *)
(* interrupted parser is an error and is never confused with EOF.          *)
(***************************************************************************)
EXTENDS Naturals, Sequences

CONSTANTS
  NBatches,   (* the batches of the layer are 1 .. NBatches *)
  Errors      (* the errors a parser can end with           *)

VARIABLES
  returned,   (* the batches the caller received                           *)
  outcome     (* "open", the final answer, or "released"                   *)

Init == returned = << >> /\ outcome = "open"

Deliver ==
  /\ outcome = "open"
  /\ Len(returned) < NBatches
  /\ returned' = Append(returned, Len(returned) + 1)
  /\ UNCHANGED outcome

End ==
  /\ outcome = "open"
  /\ Len(returned) = NBatches
  /\ outcome' = "eof"
  /\ UNCHANGED returned

Fail(error) ==
  /\ outcome = "open"
  /\ outcome' = error
  /\ UNCHANGED returned

Release ==
  /\ outcome # "released"
  /\ outcome' = "released"
  /\ UNCHANGED returned

Next == Deliver \/ End \/ Release \/ \E error \in Errors : Fail(error)

Spec == Init /\ [][Next]_<<returned, outcome>>

=============================================================================

---------------------------- MODULE CrashAtomic -----------------------------
(***************************************************************************)
(* What docs/PRODUCT.md promises of a publication in one rename: another   *)
(* process sees the whole output or none of it, at every instant and after *)
(* a crash, and the answer the caller gets is about the output that stays. *)
(***************************************************************************)

VARIABLES
  durable,  (* the caller asked for the durable profile                    *)
  visible,  (* how much of the output has its final name                   *)
  outcome   (* what the caller knows; "dead" when the publisher was killed *)

vars == <<durable, visible, outcome>>

Init ==
  /\ durable \in BOOLEAN
  /\ visible = "nothing"
  /\ outcome = "open"

\* The one step that publishes.
Appear ==
  /\ outcome = "open"
  /\ visible = "nothing"
  /\ visible' = "all"
  /\ UNCHANGED <<durable, outcome>>

\* A failure is reported only while nothing is visible, a success only when
\* everything is.
Answer ==
  /\ outcome = "open"
  /\ outcome' \in IF visible = "all" THEN {"published", "unconfirmed"} ELSE {"failed"}
  /\ UNCHANGED <<durable, visible>>

Die ==
  /\ outcome = "open"
  /\ outcome' = "dead"
  /\ UNCHANGED <<durable, visible>>

\* The machine stops: what was confirmed as durable stays, whole.
PowerLoss ==
  /\ outcome' = IF outcome = "open" THEN "dead" ELSE outcome
  /\ visible' \in IF outcome = "published" /\ durable THEN {visible}
                  ELSE IF visible = "nothing" THEN {"nothing"}
                  ELSE {"nothing", "all", "damaged"}
  /\ UNCHANGED durable

Next == Appear \/ Answer \/ Die \/ PowerLoss

Spec == Init /\ [][Next]_vars

=============================================================================

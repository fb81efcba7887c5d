---------------------------- MODULE QuotaLedger -----------------------------
(***************************************************************************)
(* What the shared quotas of plenora-io-model/src/budget.rs promise: a     *)
(* ledger of the bytes each holder has on lease.  A lease is granted in    *)
(* one step, and only when it fits under the pipeline's own capacity and,  *)
(* for a pipeline attached to a resource pool, under the pool's; a lease   *)
(* only ever gets smaller.  Module SharedQuota shows that the two-gauge,   *)
(* compare-and-swap implementation keeps this promise.                     *)
(***************************************************************************)
EXTENDS Integers, Totals

CONSTANTS
  Pipelines,   (* the pipelines of the process                             *)
  Pool,        (* the gauge of the host-wide ResourcePool                  *)
  NHolders,    (* holders (threads, or leases in one thread) are 1 .. N    *)
  PipelineOf,  (* the pipeline each holder works for                       *)
  Pooled,      (* the pipelines built with resource_pool(...)              *)
  Capacity,    (* the capacity of each gauge                               *)
  MaxRequest   (* bound: the largest lease                                 *)

Holders == 1 .. NHolders
Gauges  == Pipelines \cup {Pool}

\* The gauges a lease of holder h counts against: the composition rule
\* "local and pool" of PipelineContext::take_shared.
GaugesOf(h) ==
  {PipelineOf[h]} \cup (IF PipelineOf[h] \in Pooled THEN {Pool} ELSE {})

VARIABLE held   (* held[h]: the bytes holder h has on lease *)

LeasedFrom(g) == [h \in Holders |-> IF g \in GaugesOf(h) THEN held[h] ELSE 0]

Fits == \A g \in Gauges : Total(LeasedFrom(g), NHolders) <= Capacity[g]

Init == held = [h \in Holders |-> 0]

Grant(h, n) ==
  /\ held[h] = 0
  /\ \A g \in GaugesOf(h) : Total(LeasedFrom(g), NHolders) + n <= Capacity[g]
  /\ held' = [held EXCEPT ![h] = n]

Reduce(h, n) ==
  /\ n < held[h]
  /\ held' = [held EXCEPT ![h] = n]

Next ==
  \/ \E h \in Holders, n \in 1 .. MaxRequest : Grant(h, n)
  \/ \E h \in Holders, n \in 0 .. MaxRequest : Reduce(h, n)

Spec == Init /\ [][Next]_held

=============================================================================

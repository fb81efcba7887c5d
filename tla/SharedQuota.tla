---------------------------- MODULE SharedQuota -----------------------------
(***************************************************************************)
(* Memory and spill leases of plenora-io-model/src/budget.rs.              *)
(*                                                                         *)
(* A Gauge is one atomic counter of remaining quota.  take_shared charges  *)
(* the pipeline's gauge and then the gauge of the host's ResourcePool,     *)
(* each by a load followed by compare-and-swap attempts, and returns the   *)
(* local charge when the pool refuses; shrink_to and Drop return quota to  *)
(* the two gauges in the same order.  Every load and every compare-and-    *)
(* swap is a step of its own here, so holders of one pipeline and of       *)
(* different pipelines interleave between any two of them.                 *)
(*                                                                         *)
(* Memory and spill are the same code over two gauges (GaugeKind): one     *)
(* kind is modelled.  A holder is whoever owns one lease; a thread that    *)
(* owns several is several holders.                                        *)
(***************************************************************************)
EXTENDS Integers, Totals

CONSTANTS Pipelines, Pool, NHolders, PipelineOf, Pooled, Capacity,
          MaxRequest   (* bound: the largest request a holder makes *)

VARIABLES
  remaining,  (* Gauge.remaining, of each gauge                            *)
  active,     (* what ensure_active answers for each pipeline              *)
  pc,         (* where each holder is in take_shared or give_back_shared   *)
  lease,      (* the bytes of the holder's lease, or being asked for       *)
  surplus,    (* the bytes on their way back to the gauges                 *)
  seen        (* the value the compare-and-swap loop last observed         *)

vars == <<remaining, active, pc, lease, surplus, seen>>

\* A lease object exists: lease_memory_internal or lease_spill returned it
\* and its Drop has not run yet.
Live(h) == pc[h] \in {"held", "give_local", "give_pool"}

\* The bytes each holder has on lease.
Held == [h \in 1 .. NHolders |-> IF Live(h) THEN lease[h] ELSE 0]

Ledger == INSTANCE QuotaLedger WITH held <- Held

Holders     == Ledger!Holders
Gauges      == Ledger!Gauges
GaugesOf(h) == Ledger!GaugesOf(h)

ASSUME SharedQuotaAssumption ==
  /\ NHolders \in Nat
  /\ Pool \notin Pipelines
  /\ PipelineOf \in [Holders -> Pipelines]
  /\ Pooled \subseteq Pipelines
  /\ Capacity \in [Gauges -> Nat]
  /\ MaxRequest \in Nat

Unread == -1

Taking == {"take_local", "take_pool"}
Giving == {"undo_local", "give_local", "give_pool"}

Locations == {"idle", "held"} \cup Taking \cup Giving

-----------------------------------------------------------------------------
(* Gauge *)

\* The gauge the running loop is on.
GaugeAt(h) == IF pc[h] \in {"take_pool", "give_pool"} THEN Pool ELSE PipelineOf[h]

\* try_take computes current - amount before it swaps: a value too small
\* ends the loop with a refusal.
Insufficient(h) == pc[h] \in Taking /\ seen[h] < lease[h]

\* Mutant: a plain store in place of the compare-and-swap.
SwapsBlindly(h) == seen[h] # Unread /\ ~ Insufficient(h)

\* The compare-and-swap succeeds when the gauge still holds the value seen.
Swaps(h) ==
  /\ seen[h] # Unread
  /\ ~ Insufficient(h)
  /\ remaining[GaugeAt(h)] = seen[h]

Lesser(a, b) == IF a < b THEN a ELSE b

\* give_back: saturating_add(amount).min(capacity)
GiveBack(g, amount) ==
  remaining' = [remaining EXCEPT ![g] = Lesser(@ + amount, Capacity[g])]

Goto(h, location) ==
  /\ pc' = [pc EXCEPT ![h] = location]
  /\ seen' = [seen EXCEPT ![h] = Unread]

\* The load that opens each loop of Gauge.
Load(h) ==
  /\ pc[h] \in Taking \cup Giving
  /\ seen[h] = Unread
  /\ seen' = [seen EXCEPT ![h] = remaining[GaugeAt(h)]]
  /\ UNCHANGED <<remaining, active, pc, lease, surplus>>

\* A compare-and-swap that lost the race: the observed value replaces the
\* one the loop computed with.
Retry(h) ==
  /\ pc[h] \in Taking \cup Giving
  /\ seen[h] # Unread
  /\ ~ Insufficient(h)
  /\ remaining[GaugeAt(h)] # seen[h]
  /\ seen' = [seen EXCEPT ![h] = remaining[GaugeAt(h)]]
  /\ UNCHANGED <<remaining, active, pc, lease, surplus>>

-----------------------------------------------------------------------------
(* PipelineContext::take_shared *)

Request(h, n) ==
  /\ pc[h] = "idle"
  /\ n > 0
  /\ active[PipelineOf[h]]
  /\ Goto(h, "take_local")
  /\ lease' = [lease EXCEPT ![h] = n]
  /\ UNCHANGED <<remaining, active, surplus>>

TakeLocal(h) ==
  /\ pc[h] = "take_local"
  /\ Swaps(h)
  /\ remaining' = [remaining EXCEPT ![PipelineOf[h]] = @ - lease[h]]
  /\ Goto(h, IF PipelineOf[h] \in Pooled THEN "take_pool" ELSE "held")
  /\ UNCHANGED <<active, lease, surplus>>

RefuseLocal(h) ==
  /\ pc[h] = "take_local"
  /\ seen[h] # Unread
  /\ Insufficient(h)
  /\ Goto(h, "idle")
  /\ lease' = [lease EXCEPT ![h] = 0]
  /\ UNCHANGED <<remaining, active, surplus>>

TakePool(h) ==
  /\ pc[h] = "take_pool"
  /\ Swaps(h)
  /\ remaining' = [remaining EXCEPT ![Pool] = @ - lease[h]]
  /\ Goto(h, "held")
  /\ UNCHANGED <<active, lease, surplus>>

\* Mutant: a refusal of the pool returns without the local rollback.
RefusePoolKeepsLocal(h) ==
  /\ pc[h] = "take_pool"
  /\ seen[h] # Unread
  /\ Insufficient(h)
  /\ Goto(h, "idle")
  /\ lease' = [lease EXCEPT ![h] = 0]
  /\ UNCHANGED <<remaining, active, surplus>>

RefusePool(h) ==
  /\ pc[h] = "take_pool"
  /\ seen[h] # Unread
  /\ Insufficient(h)
  /\ Goto(h, "undo_local")
  /\ UNCHANGED <<remaining, active, lease, surplus>>

UndoLocal(h) ==
  /\ pc[h] = "undo_local"
  /\ Swaps(h)
  /\ GiveBack(PipelineOf[h], lease[h])
  /\ Goto(h, "idle")
  /\ lease' = [lease EXCEPT ![h] = 0]
  /\ UNCHANGED <<active, surplus>>

-----------------------------------------------------------------------------
(* InternalMemoryLease::shrink_to, Drop, PipelineContext::give_back_shared *)

\* shrink_to lowers the lease first and returns the excess after; zero and
\* growth are refused, an equal size changes nothing.
Shrink(h, n) ==
  /\ pc[h] = "held"
  /\ 0 < n
  /\ n < lease[h]
  /\ lease' = [lease EXCEPT ![h] = n]
  /\ surplus' = [surplus EXCEPT ![h] = lease[h] - n]
  /\ Goto(h, "give_local")
  /\ UNCHANGED <<remaining, active>>

Release(h) ==
  /\ pc[h] = "held"
  /\ lease' = [lease EXCEPT ![h] = 0]
  /\ surplus' = [surplus EXCEPT ![h] = lease[h]]
  /\ Goto(h, "give_local")
  /\ UNCHANGED <<remaining, active>>

\* Back in the caller: with what is left of the lease, or with none.
Returned(h) == IF lease[h] = 0 THEN "idle" ELSE "held"

\* Mutant: a drop returns the local quota and forgets the pool's.
GiveLocalOnly(h) ==
  /\ pc[h] = "give_local"
  /\ Swaps(h)
  /\ GiveBack(PipelineOf[h], surplus[h])
  /\ Goto(h, Returned(h))
  /\ surplus' = [surplus EXCEPT ![h] = 0]
  /\ UNCHANGED <<active, lease>>

GiveLocal(h) ==
  LET pooled == PipelineOf[h] \in Pooled IN
  /\ pc[h] = "give_local"
  /\ Swaps(h)
  /\ GiveBack(PipelineOf[h], surplus[h])
  /\ Goto(h, IF pooled THEN "give_pool" ELSE Returned(h))
  /\ surplus' = IF pooled THEN surplus ELSE [surplus EXCEPT ![h] = 0]
  /\ UNCHANGED <<active, lease>>

GivePool(h) ==
  /\ pc[h] = "give_pool"
  /\ Swaps(h)
  /\ GiveBack(Pool, surplus[h])
  /\ Goto(h, Returned(h))
  /\ surplus' = [surplus EXCEPT ![h] = 0]
  /\ UNCHANGED <<active, lease>>

-----------------------------------------------------------------------------
\* The token is cancelled or the deadline passes: ensure_active fails from
\* now on, for every new request of the pipeline.
Stop(p) ==
  /\ active[p]
  /\ active' = [active EXCEPT ![p] = FALSE]
  /\ UNCHANGED <<remaining, pc, lease, surplus, seen>>

Init ==
  /\ remaining = Capacity
  /\ active = [p \in Pipelines |-> TRUE]
  /\ pc = [h \in Holders |-> "idle"]
  /\ lease = [h \in Holders |-> 0]
  /\ surplus = [h \in Holders |-> 0]
  /\ seen = [h \in Holders |-> Unread]

\* The steps inside one call of take_shared or give_back_shared.
CallStep(h) ==
  \/ Load(h)
  \/ Retry(h)
  \/ TakeLocal(h)
  \/ RefuseLocal(h)
  \/ TakePool(h)
  \/ RefusePool(h)
  \/ UndoLocal(h)
  \/ GiveLocal(h)
  \/ GivePool(h)

\* Every pipeline stopped and no call running: the only place to rest.
Finished ==
  /\ \A p \in Pipelines : ~ active[p]
  /\ \A h \in Holders : pc[h] = "idle"
  /\ UNCHANGED vars

Next ==
  \/ \E h \in Holders : CallStep(h)
  \/ \E h \in Holders : Release(h)
  \/ \E h \in Holders, n \in 1 .. MaxRequest : Request(h, n)
  \/ \E h \in Holders, n \in 1 .. MaxRequest : Shrink(h, n)
  \/ \E p \in Pipelines : Stop(p)
  \/ Finished

Spec == Init /\ [][Next]_vars

\* A call that started runs to its end, and a lease is dropped in the end:
\* the owner leaves the scope that holds it, by return or by error.
FairSpec ==
  /\ Spec
  /\ \A h \in Holders : WF_vars(CallStep(h))
  /\ \A h \in Holders : WF_vars(Release(h))

-----------------------------------------------------------------------------
(* Properties *)

TypeOK ==
  /\ remaining \in [Gauges -> Nat]
  /\ active \in [Pipelines -> BOOLEAN]
  /\ pc \in [Holders -> Locations]
  /\ lease \in [Holders -> Nat]
  /\ surplus \in [Holders -> Nat]
  /\ seen \in [Holders -> Nat \cup {Unread}]

\* What holder h has taken out of gauge g and not put back yet.
LocalCharge(h) ==
  CASE pc[h] \in {"take_pool", "undo_local", "held", "give_pool"} -> lease[h]
    [] pc[h] = "give_local" -> lease[h] + surplus[h]
    [] OTHER -> 0

PoolCharge(h) ==
  CASE pc[h] = "held" -> lease[h]
    [] pc[h] \in {"give_local", "give_pool"} -> lease[h] + surplus[h]
    [] OTHER -> 0

ChargedTo(g) ==
  [h \in Holders |->
     IF g \notin GaugesOf(h) THEN 0
     ELSE IF g = Pool THEN PoolCharge(h) ELSE LocalCharge(h)]

\* Every byte of a gauge is either remaining or charged to a holder, at
\* every step of every call: refusals, rollbacks, shrinks and drops racing
\* on the two gauges neither leak quota nor create it, so the clamp to the
\* capacity in give_back never hides a double return.
Conservation ==
  \A g \in Gauges : remaining[g] + Total(ChargedTo(g), NHolders) = Capacity[g]

LeasedFrom(g) == Ledger!LeasedFrom(g)

\* There is no instant at which a live lease is not counted: what the gauge
\* shows as free never overlaps the bytes of the leases that exist, also
\* while a lease is being shrunk (the handoff window shrink_to exists for).
LiveLeasesAreCounted ==
  \A g \in Gauges : remaining[g] + Total(LeasedFrom(g), NHolders) <= Capacity[g]

\* The detailed gauges implement the ledger: a lease is granted in one step
\* and only when it fits under both quotas (the rule INV-12 of take_shared).
LedgerSpec == Ledger!Spec

\* When every pipeline has stopped, all quota comes home: ensure_active lets
\* no new request in, and every refusal, rollback and drop on the way out
\* returns what it took.  (One stopped pipeline is not enough: the loops of
\* Gauge are lock-free but not wait-free, and a busy pipeline on the same
\* pool can make a compare-and-swap of the stopped one lose forever.)
StoppedProcessReturnsQuota ==
  (\A p \in Pipelines : ~ active[p]) ~> remaining = Capacity

=============================================================================

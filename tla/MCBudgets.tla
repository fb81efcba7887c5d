----------------------------- MODULE MCBudgets ------------------------------
(***************************************************************************)
(* Instances for TLC of the budgets and of the readers they bound: the     *)
(* shared gauges, the counters of the operations of one pipeline, and the  *)
(* adapters a layer is read through.  Each sees of the others what its     *)
(* module says: a behaviour is of one of them.                             *)
(***************************************************************************)
EXTENDS SharedQuota, OperationBudget, BudgetedRead, BatchWorker, TLC

CONSTANTS p1, p2, out, slot

\* Two holders of p1 compete for its gauge, and with p2 for the pool.
MCPipelineOf == [h \in 1 .. NHolders |-> IF h <= 2 THEN p1 ELSE p2]

\* p1 could fill the pool on its own, and the two together exceed it.
MCCapacity == (p1 :> 2) @@ (p2 :> 1) @@ (Pool :> 2)

\* Two leases race on the output, which the ratio can bound to 2.
MCCounterOf == <<out, out, slot>>
MCCounterCapacity == (out :> 3) @@ (slot :> 1)

Small == [rows |-> 1, bytes |-> 1, valid |-> TRUE]
Large == [rows |-> 2, bytes |-> 2, valid |-> TRUE]
Wrong == [rows |-> 1, bytes |-> 1, valid |-> FALSE]

\* Every source of at most three batches.
MCSources == UNION {[1 .. n -> {Small, Large, Wrong}] : n \in 0 .. 3}

VARIABLE half

BudgetsInit ==
  /\ half \in {"shared", "counters", "budgeted", "worker"}
  /\ Init /\ BudgetInit /\ ReadInit /\ WorkerInit
  /\ half # "budgeted" => inner = << >> /\ limit = 0
  /\ half # "worker" => capacity = 0

BudgetsNext ==
  \/ half = "shared" /\ Next /\ UNCHANGED <<half, budgetVars, readVars, streamVars>>
  \/ half = "counters" /\ BudgetNext /\ UNCHANGED <<half, vars, readVars, streamVars>>
  \/ half = "budgeted" /\ ReadNext /\ UNCHANGED <<half, vars, budgetVars, streamVars>>
  \/ half = "worker" /\ WorkerNext /\ UNCHANGED <<half, vars, budgetVars, readVars>>

\* The fairness of SharedQuota and of the adapters; the counters promise
\* nothing in time.
BudgetsSpec ==
  /\ BudgetsInit /\ [][BudgetsNext]_<<half, vars, budgetVars, readVars, streamVars>>
  /\ \A h \in Holders : WF_vars(CallStep(h)) /\ WF_vars(Release(h))
  /\ WF_readVars(half = "budgeted" /\ ReadStep)
  /\ WF_streamVars(half = "worker" /\ Parse)
  /\ WF_streamVars(half = "worker" /\ DeliverEvent)
  /\ WF_streamVars(half = "worker" /\ Wait)

\* A call of either adapter returns, and the worker of a dropped reader ends
\* (CallIsAnswered of BudgetedRead, NobodyIsLeftWaiting of BatchWorker).
ReadsAreAnswered == CallIsAnswered /\ NobodyIsLeftWaiting

=============================================================================

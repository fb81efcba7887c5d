-------------------------- MODULE OperationBudget ---------------------------
(***************************************************************************)
(* The observed source of a pipeline and the cumulative counters of its    *)
(* operations (plenora-io-model/src/budget.rs).                            *)
(*                                                                         *)
(* note_entry_visited and observe_input work on one observation under a    *)
(* mutex; the permit of observe_input exists once.  A CountedLease takes   *)
(* from a counter under a ceiling that try_lease reads before the          *)
(* compare-and-swap loop of try_take_bounded; what a commit uses is gone   *)
(* for good, the rest comes back.  A slot of the host's concurrency gauge  *)
(* is a lease of one that is only ever dropped.                            *)
(*                                                                         *)
(* give_back adds to the value its last compare-and-swap observed, so it   *)
(* is one step; the loop of try_take_bounded keeps its load apart from its *)
(* swap, because its checks are made on the value loaded.                  *)
(***************************************************************************)
EXTENDS Integers, Totals

CONSTANTS
  Counters,          (* the counters of the pipeline's operations           *)
  OutputCounters,    (* those of kind OutputBytes                           *)
  Slots,             (* concurrency gauges: leases are never committed      *)
  NLeases,           (* lease sites (one lease at a time) are 1 .. NLeases  *)
  CounterOf,         (* the counter each site takes from                    *)
  CounterCapacity,
  Ratio,             (* output_expansion_ratio                              *)
  MaxInputEntries, MaxInputBytes,
  EntryBytes,        (* bound: the bytes an entry may charge                *)
  MaxAmount          (* bound: the largest amount a lease asks for          *)

Lessees == 1 .. NLeases

ASSUME OperationBudgetAssumption ==
  /\ NLeases \in Nat
  /\ OutputCounters \subseteq Counters
  /\ Slots \subseteq Counters
  /\ CounterOf \in [Lessees -> Counters]
  /\ CounterCapacity \in [Counters -> Nat]
  /\ Ratio \in Nat \ {0}
  /\ MaxInputEntries \in Nat /\ MaxInputBytes \in Nat
  /\ EntryBytes \subseteq Nat
  /\ MaxAmount \in Nat

VARIABLES
  running,    (* what ensure_active answers                                *)
  source,     (* SourceObservation: collecting or published, its totals    *)
  permit,     (* the InputPermit has not been taken out of its parts       *)
  left,       (* Gauge.remaining of each counter                           *)
  place,      (* each site: no lease, in try_take_bounded, or holding one  *)
  amount,     (* what the lease asks for or holds                          *)
  ceiling,    (* the ceiling try_lease read                                *)
  current,    (* the value the loop last observed                          *)
  committed,  (* history: what commits have used                           *)
  hasty       (* history: counters asked before the source was published   *)

taking == <<place, amount, ceiling, current, hasty>>
budgetVars == <<running, source, permit, left, committed, taking>>

NotLoaded == -1

Min2(a, b) == IF a < b THEN a ELSE b

-----------------------------------------------------------------------------
(* The source *)

Collecting == source.state = "collecting"

Accepts(n) ==
  /\ Collecting
  /\ source.entries + 1 <= MaxInputEntries
  /\ source.bytes + n <= MaxInputBytes

\* note_entry_visited: every check precedes the one assignment.
NoteEntry(n) ==
  /\ running
  /\ Accepts(n)
  /\ source' = [source EXCEPT !.entries = @ + 1, !.bytes = @ + n]
  /\ UNCHANGED <<running, permit, left, committed, taking>>

Published == [source EXCEPT !.state = "published"]

\* observe_input consumes the permit before it looks at anything else.
ObserveInput ==
  /\ permit
  /\ permit' = FALSE
  /\ source' = IF running /\ Collecting THEN Published ELSE source
  /\ UNCHANGED <<running, left, committed, taking>>

\* The preflight took the permit and an entry was refused.
LosePermit ==
  /\ permit
  /\ permit' = FALSE
  /\ UNCHANGED <<running, source, left, committed, taking>>

-----------------------------------------------------------------------------
(* try_lease, try_take_bounded *)

\* output_limit: the ratio counts only for an observed, non-empty input.
OutputLimit(c) ==
  IF Collecting \/ source.bytes = 0 THEN CounterCapacity[c]
  ELSE Min2(CounterCapacity[c], source.bytes * Ratio)

CeilingOf(c) == IF c \in OutputCounters THEN OutputLimit(c) ELSE CounterCapacity[c]

Ask(l, n) ==
  /\ place[l] = "free"
  /\ n > 0
  /\ CounterOf[l] \in Slots => n = 1
  /\ running
  /\ place' = [place EXCEPT ![l] = "asked"]
  /\ amount' = [amount EXCEPT ![l] = n]
  /\ ceiling' = [ceiling EXCEPT ![l] = CeilingOf(CounterOf[l])]
  /\ current' = [current EXCEPT ![l] = NotLoaded]
  /\ hasty' = IF Collecting THEN hasty \cup {CounterOf[l]} ELSE hasty
  /\ UNCHANGED <<running, source, permit, left, committed>>

\* The call returns: with a lease, or without.
Return(l, to) ==
  /\ place' = [place EXCEPT ![l] = to]
  /\ ceiling' = [ceiling EXCEPT ![l] = 0]
  /\ current' = [current EXCEPT ![l] = NotLoaded]
  /\ UNCHANGED <<running, source, permit, committed, hasty>>

\* The two refusals, on the value the loop observed.
Refused(l) ==
  \/ CounterCapacity[CounterOf[l]] - current[l] + amount[l] > ceiling[l]
  \/ current[l] < amount[l]

\* The load, and every compare-and-swap that lost the race.
Observe(l) ==
  /\ place[l] = "asked"
  /\ current[l] # left[CounterOf[l]]
  /\ current[l] # NotLoaded => ~ Refused(l)
  /\ current' = [current EXCEPT ![l] = left[CounterOf[l]]]
  /\ UNCHANGED <<running, source, permit, left, committed, place, amount, ceiling, hasty>>

Refuse(l) ==
  /\ place[l] = "asked"
  /\ current[l] # NotLoaded
  /\ Refused(l)
  /\ amount' = [amount EXCEPT ![l] = 0]
  /\ Return(l, "free")
  /\ UNCHANGED left

\* Mutant: the consumption is projected from one load and the amount taken
\* by another read-modify-write, the window try_take_bounded closes.
TakeOnOldProjection(l) ==
  /\ place[l] = "asked"
  /\ current[l] # NotLoaded
  /\ ~ Refused(l)
  /\ left[CounterOf[l]] >= amount[l]
  /\ left' = [left EXCEPT ![CounterOf[l]] = @ - amount[l]]
  /\ Return(l, "leased")
  /\ UNCHANGED amount

Take(l) ==
  /\ place[l] = "asked"
  /\ current[l] = left[CounterOf[l]]
  /\ ~ Refused(l)
  /\ left' = [left EXCEPT ![CounterOf[l]] = @ - amount[l]]
  /\ Return(l, "leased")
  /\ UNCHANGED amount

-----------------------------------------------------------------------------
(* CountedLease, ConcurrencyLease *)

\* give_back: saturating_add(n).min(capacity)
Back(l, n) ==
  LET c == CounterOf[l]
  IN  left' = [left EXCEPT ![c] = Min2(@ + n, CounterCapacity[c])]

End(l) ==
  /\ place[l] = "leased"
  /\ place' = [place EXCEPT ![l] = "free"]
  /\ amount' = [amount EXCEPT ![l] = 0]
  /\ UNCHANGED <<running, source, permit, ceiling, current, hasty>>

\* Mutant: the drop that follows a commit gives the whole amount back too.
CommitThenDrop(l, used) ==
  /\ CounterOf[l] \notin Slots
  /\ used \in 1 .. amount[l]
  /\ Back(l, amount[l])
  /\ committed' = [committed EXCEPT ![CounterOf[l]] = @ + used]
  /\ End(l)

\* commit marks the lease released, so its drop gives nothing more back.
Commit(l, used) ==
  /\ CounterOf[l] \notin Slots
  /\ used \in 1 .. amount[l]
  /\ Back(l, amount[l] - used)
  /\ committed' = [committed EXCEPT ![CounterOf[l]] = @ + used]
  /\ End(l)

\* release, a drop without commit, and a commit of an amount it refuses:
\* commit owns the lease, which its early return drops.
Drop(l) ==
  /\ Back(l, amount[l])
  /\ End(l)
  /\ UNCHANGED committed

-----------------------------------------------------------------------------
Halt ==
  /\ running
  /\ running' = FALSE
  /\ UNCHANGED <<source, permit, left, committed, taking>>

BudgetInit ==
  /\ running = TRUE
  /\ source = [state |-> "collecting", entries |-> 0, bytes |-> 0]
  /\ permit = TRUE
  /\ left = CounterCapacity
  /\ place = [l \in Lessees |-> "free"]
  /\ amount = [l \in Lessees |-> 0]
  /\ ceiling = [l \in Lessees |-> 0]
  /\ current = [l \in Lessees |-> NotLoaded]
  /\ committed = [c \in Counters |-> 0]
  /\ hasty = {}

LeaseStep(l) ==
  \/ \E n \in 1 .. MaxAmount : Ask(l, n)
  \/ Observe(l)
  \/ Refuse(l)
  \/ Take(l)
  \/ \E used \in 1 .. MaxAmount : Commit(l, used)
  \/ Drop(l)

\* Nothing asked, nothing held, and nothing to ask for any more.
BudgetIdle ==
  /\ ~ running
  /\ \A l \in Lessees : place[l] = "free"
  /\ UNCHANGED budgetVars

BudgetNext ==
  \/ \E n \in EntryBytes : NoteEntry(n)
  \/ ObserveInput
  \/ LosePermit
  \/ \E l \in Lessees : LeaseStep(l)
  \/ Halt
  \/ BudgetIdle

BudgetSpec == BudgetInit /\ [][BudgetNext]_budgetVars

-----------------------------------------------------------------------------
(* Properties *)

BudgetTypeOK ==
  /\ running \in BOOLEAN
  /\ source \in [state: {"collecting", "published"}, entries: 0 .. MaxInputEntries,
                 bytes: 0 .. MaxInputBytes]
  /\ permit \in BOOLEAN
  /\ left \in [Counters -> Nat]
  /\ place \in [Lessees -> {"free", "asked", "leased"}]
  /\ amount \in [Lessees -> Nat]
  /\ ceiling \in [Lessees -> Nat]
  /\ current \in [Lessees -> Nat \cup {NotLoaded}]
  /\ committed \in [Counters -> Nat]
  /\ hasty \subseteq Counters

OnLease(c) ==
  [l \in Lessees |-> IF CounterOf[l] = c /\ place[l] = "leased" THEN amount[l] ELSE 0]

\* Every unit of a counter is free, on lease or used by a commit: a commit
\* followed by the drop of the same lease returns its remainder once, so an
\* operation can neither lose quota nor spend a unit twice.
CountersConserved ==
  \A c \in Counters :
    left[c] + Total(OnLease(c), NLeases) + committed[c] = CounterCapacity[c]

\* An operation that starts to write after the source was published never
\* writes more than the ratio allows for the whole source, however many
\* leases race: try_lease reads the ceiling once and early, and relies on
\* the publication having come first.
OutputWithinCeiling ==
  \A c \in OutputCounters \ hasty : CounterCapacity[c] - left[c] <= OutputLimit(c)

\* The published footprint describes the whole source for good: no entry
\* is added to it, and nothing publishes another.
FootprintIsFinal == [][~ Collecting => UNCHANGED source]_budgetVars

=============================================================================

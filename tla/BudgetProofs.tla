---------------------------- MODULE BudgetProofs -----------------------------
(***************************************************************************)
(* Theorems about the budgets, for every number of holders, pipelines,     *)
(* gauges, lease sites and counters, every capacity and every limit.       *)
(***************************************************************************)
EXTENDS SharedQuota, OperationBudget

-----------------------------------------------------------------------------
(* SharedQuota *)

\* Where a holder may be, given its lease and its pipeline.
Controlled(h) ==
  /\ lease[h] <= MaxRequest
  /\ pc[h] \in {"take_local", "take_pool", "undo_local", "held"} => lease[h] > 0
  /\ pc[h] \in {"take_pool", "undo_local", "give_pool"} => PipelineOf[h] \in Pooled

Control == \A h \in Holders : Controlled(h)

\* The inductive invariant: Conservation needs Control to know that only
\* holders of pooled pipelines touch the pool.
IInv == TypeOK /\ Control /\ Conservation

LEMMA HolderFacts ==
  ASSUME NEW h \in Holders
  PROVE  /\ PipelineOf[h] \in Pipelines
         /\ PipelineOf[h] \in Gauges
         /\ PipelineOf[h] # Pool
         /\ GaugesOf(h) = {PipelineOf[h]} \cup
                          (IF PipelineOf[h] \in Pooled THEN {Pool} ELSE {})
BY SharedQuotaAssumption
   DEF Holders, Gauges, GaugesOf, Ledger!Holders, Ledger!Gauges, Ledger!GaugesOf

LEMMA GaugeFacts ==
  /\ Holders = 1 .. NHolders
  /\ NHolders \in Nat
  /\ MaxRequest \in Nat
  /\ Pool \in Gauges
  /\ Pipelines \subseteq Gauges
  /\ Capacity \in [Gauges -> Nat]
BY SharedQuotaAssumption DEF Holders, Gauges, Ledger!Holders, Ledger!Gauges

\* Each holder's charge is a natural number.
LEMMA ChargesType ==
  ASSUME TypeOK, NEW g \in Gauges
  PROVE  ChargedTo(g) \in [1 .. NHolders -> Nat]
<1>1. ASSUME NEW h \in Holders
      PROVE  LocalCharge(h) \in Nat /\ PoolCharge(h) \in Nat
  BY <1>1 DEF TypeOK, LocalCharge, PoolCharge
<1> QED BY <1>1, GaugeFacts DEF ChargedTo

-----------------------------------------------------------------------------
(* Type correctness and control *)

\* A step of any action keeps the variables in their types.
LEMMA TypeStep ==
  ASSUME IInv, [Next]_vars
  PROVE  TypeOK'
<1> USE HolderFacts, GaugeFacts DEF TypeOK
<1>0. TypeOK
  BY DEF IInv
<1>a. ASSUME NEW h \in Holders, NEW to \in Locations, Goto(h, to)
      PROVE  /\ pc' \in [Holders -> Locations]
             /\ seen' \in [Holders -> Nat \cup {Unread}]
  BY <1>0, <1>a DEF Goto
<1>b. ASSUME NEW g \in Gauges, NEW n \in Nat, GiveBack(g, n)
      PROVE  remaining' \in [Gauges -> Nat]
  BY <1>0, <1>b DEF GiveBack, Lesser
<1>c. {"idle", "held", "take_local", "take_pool", "undo_local", "give_local",
       "give_pool"} = Locations
  BY DEF Locations, Taking, Giving
<1>1. CASE UNCHANGED vars
  BY <1>0, <1>1 DEF vars
<1>2. ASSUME NEW h \in Holders, Load(h) PROVE TypeOK'
  BY <1>0, <1>2 DEF Load, GaugeAt
<1>3. ASSUME NEW h \in Holders, Retry(h) PROVE TypeOK'
  BY <1>0, <1>3 DEF Retry, GaugeAt
<1>4. ASSUME NEW h \in Holders, TakeLocal(h) PROVE TypeOK'
  <2>1. remaining[PipelineOf[h]] >= lease[h]
    BY <1>0, <1>4 DEF TakeLocal, Swaps, Insufficient, GaugeAt, Taking
  <2>2. remaining' \in [Gauges -> Nat]
    BY <1>0, <1>4, <2>1 DEF TakeLocal
  <2> QED BY <1>0, <1>4, <1>a, <1>c, <2>2 DEF TakeLocal
<1>5. ASSUME NEW h \in Holders, RefuseLocal(h) PROVE TypeOK'
  BY <1>0, <1>5, <1>a, <1>c DEF RefuseLocal
<1>6. ASSUME NEW h \in Holders, TakePool(h) PROVE TypeOK'
  <2>1. remaining[Pool] >= lease[h]
    BY <1>0, <1>6 DEF TakePool, Swaps, Insufficient, GaugeAt, Taking
  <2>2. remaining' \in [Gauges -> Nat]
    BY <1>0, <1>6, <2>1 DEF TakePool
  <2> QED BY <1>0, <1>6, <1>a, <1>c, <2>2 DEF TakePool
<1>7. ASSUME NEW h \in Holders, RefusePool(h) PROVE TypeOK'
  BY <1>0, <1>7, <1>a, <1>c DEF RefusePool
<1>8. ASSUME NEW h \in Holders, UndoLocal(h) PROVE TypeOK'
  BY <1>0, <1>8, <1>a, <1>b, <1>c DEF UndoLocal
<1>9. ASSUME NEW h \in Holders, GiveLocal(h) PROVE TypeOK'
  BY <1>0, <1>9, <1>a, <1>b, <1>c DEF GiveLocal, Returned
<1>10. ASSUME NEW h \in Holders, GivePool(h) PROVE TypeOK'
  BY <1>0, <1>10, <1>a, <1>b, <1>c DEF GivePool, Returned
<1>11. ASSUME NEW h \in Holders, Release(h) PROVE TypeOK'
  BY <1>0, <1>11, <1>a, <1>c DEF Release
<1>12. ASSUME NEW h \in Holders, NEW n \in 1 .. MaxRequest, Request(h, n) PROVE TypeOK'
  <2>1. n \in Nat
    OBVIOUS
  <2>2. lease' \in [Holders -> Nat]
    BY <1>0, <1>12, <2>1 DEF Request
  <2> QED BY <1>0, <1>12, <1>a, <1>c, <2>2 DEF Request
<1>13. ASSUME NEW h \in Holders, NEW n \in 1 .. MaxRequest, Shrink(h, n) PROVE TypeOK'
  <2>1. n \in Nat /\ lease[h] - n \in Nat
    BY <1>0, <1>13 DEF Shrink
  <2>2. lease' \in [Holders -> Nat] /\ surplus' \in [Holders -> Nat]
    BY <1>0, <1>13, <2>1 DEF Shrink
  <2> QED BY <1>0, <1>13, <1>a, <1>c, <2>2 DEF Shrink
<1>14. ASSUME NEW p \in Pipelines, Stop(p) PROVE TypeOK'
  BY <1>0, <1>14 DEF Stop
<1>15. CASE Finished
  BY <1>0, <1>15 DEF Finished, vars
<1> QED
  BY <1>1, <1>2, <1>3, <1>4, <1>5, <1>6, <1>7, <1>8, <1>9, <1>10, <1>11, <1>12,
     <1>13, <1>14, <1>15 DEF Next, CallStep

\* A step of any action keeps each holder where its lease allows.
LEMMA ControlStep ==
  ASSUME IInv, [Next]_vars
  PROVE  Control'
<1> SUFFICES ASSUME NEW k \in Holders PROVE Controlled(k)'
  BY DEF Control
<1> USE GaugeFacts DEF TypeOK, Controlled
<1>0. TypeOK /\ Controlled(k) /\ TypeOK'
  BY TypeStep DEF IInv, Control
<1>1. CASE UNCHANGED vars
  BY <1>0, <1>1 DEF vars
<1>2. ASSUME NEW h \in Holders, CallStep(h) PROVE Controlled(k)'
  <2>1. CASE Load(h)
    BY <1>0, <2>1 DEF Load
  <2>2. CASE Retry(h)
    BY <1>0, <2>2 DEF Retry
  <2>3. CASE TakeLocal(h)
    BY <1>0, <2>3 DEF TakeLocal, Goto
  <2>4. CASE RefuseLocal(h)
    BY <1>0, <2>4 DEF RefuseLocal, Goto
  <2>5. CASE TakePool(h)
    BY <1>0, <2>5 DEF TakePool, Goto
  <2>6. CASE RefusePool(h)
    BY <1>0, <2>6 DEF RefusePool, Goto
  <2>7. CASE UndoLocal(h)
    BY <1>0, <2>7 DEF UndoLocal, Goto
  <2>8. CASE GiveLocal(h)
    BY <1>0, <2>8 DEF GiveLocal, Goto, Returned
  <2>9. CASE GivePool(h)
    BY <1>0, <2>9 DEF GivePool, Goto, Returned
  <2> QED BY <1>2, <2>1, <2>2, <2>3, <2>4, <2>5, <2>6, <2>7, <2>8, <2>9 DEF CallStep
<1>3. ASSUME NEW h \in Holders, Release(h) PROVE Controlled(k)'
  BY <1>0, <1>3 DEF Release, Goto
<1>4. ASSUME NEW h \in Holders, NEW n \in 1 .. MaxRequest, Request(h, n) PROVE Controlled(k)'
  BY <1>0, <1>4 DEF Request, Goto
<1>5. ASSUME NEW h \in Holders, NEW n \in 1 .. MaxRequest, Shrink(h, n) PROVE Controlled(k)'
  BY <1>0, <1>5 DEF Shrink, Goto
<1>6. ASSUME NEW p \in Pipelines, Stop(p) PROVE Controlled(k)'
  BY <1>0, <1>6 DEF Stop
<1>7. CASE Finished
  BY <1>0, <1>7 DEF Finished, vars
<1> QED
  BY <1>1, <1>2, <1>3, <1>4, <1>5, <1>6, <1>7 DEF Next

-----------------------------------------------------------------------------
(* Conservation *)

\* The other holders keep their place, lease and surplus.
OthersUnchanged(h) ==
  \A k \in Holders \ {h} : pc'[k] = pc[k] /\ lease'[k] = lease[k] /\ surplus'[k] = surplus[k]

\* A step of one holder that moves, in every gauge, as much as its own charge
\* changes, conserves the quota of every gauge.
LEMMA OneHolderConserves ==
  ASSUME TypeOK, TypeOK', Conservation, NEW h \in Holders, OthersUnchanged(h),
         \A g \in Gauges : remaining'[g] + ChargedTo(g)'[h] = remaining[g] + ChargedTo(g)[h]
  PROVE  Conservation'
<1> SUFFICES ASSUME NEW g \in Gauges
             PROVE  remaining'[g] + Total(ChargedTo(g)', NHolders) = Capacity[g]
  BY DEF Conservation
<1> DEFINE before == ChargedTo(g)
           after == ChargedTo(g)'
<1>1. before \in [1 .. NHolders -> Nat] /\ after \in [1 .. NHolders -> Nat]
  <2>1. before \in [1 .. NHolders -> Nat]
    BY ChargesType
  <2>2. after \in [1 .. NHolders -> Nat]
    <3>1. ASSUME NEW k \in Holders
          PROVE  LocalCharge(k)' \in Nat /\ PoolCharge(k)' \in Nat
      BY <3>1 DEF TypeOK, LocalCharge, PoolCharge
    <3> QED BY <3>1, GaugeFacts DEF ChargedTo
  <2> QED BY <2>1, <2>2
<1>2. \A k \in 1 .. NHolders \ {h} : after[k] = before[k]
  BY GaugeFacts DEF OthersUnchanged, ChargedTo, LocalCharge, PoolCharge
<1>3. remaining[g] + Total(before, NHolders) = Capacity[g]
  BY DEF Conservation
<1>4. remaining'[g] + after[h] = remaining[g] + before[h]
  OBVIOUS
<1>5. /\ remaining[g] \in Nat /\ remaining'[g] \in Nat
      /\ h \in 1 .. NHolders /\ NHolders \in Nat
  BY GaugeFacts DEF TypeOK
<1> HIDE DEF before, after
<1>6. Total(after, NHolders) = Total(before, NHolders) + after[h] - before[h]
  BY <1>1, <1>2, <1>5, TotalUpdate
<1>7. Total(before, NHolders) \in Nat
  BY <1>1, <1>5, TotalType
<1>8. before[h] \in Nat /\ after[h] \in Nat
  BY <1>1, <1>5
<1>9. remaining'[g] + Total(after, NHolders) = Capacity[g]
  BY <1>3, <1>4, <1>5, <1>6, <1>7, <1>8
<1> QED BY <1>9 DEF after

\* A gauge has room for whatever one holder has taken out of it.
LEMMA ChargeFits ==
  ASSUME TypeOK, Conservation, NEW h \in Holders, NEW g \in Gauges
  PROVE  remaining[g] + ChargedTo(g)[h] <= Capacity[g]
<1>1. ChargedTo(g) \in [1 .. NHolders -> Nat]
  BY ChargesType
<1>2. h \in 1 .. NHolders /\ NHolders \in Nat /\ remaining[g] \in Nat
  BY GaugeFacts DEF TypeOK
<1>3. ChargedTo(g)[h] <= Total(ChargedTo(g), NHolders)
  BY <1>1, <1>2, TotalTerm
<1>4. Total(ChargedTo(g), NHolders) \in Nat /\ ChargedTo(g)[h] \in Nat
  BY <1>1, <1>2, TotalType
<1>5. remaining[g] + Total(ChargedTo(g), NHolders) = Capacity[g]
  BY DEF Conservation
<1> QED BY <1>2, <1>3, <1>4, <1>5

\* The charge of a holder, gauge by gauge.
LEMMA ChargeOf ==
  ASSUME NEW h \in Holders
  PROVE  /\ ChargedTo(PipelineOf[h])[h] = LocalCharge(h)
         /\ PipelineOf[h] \in Pooled => ChargedTo(Pool)[h] = PoolCharge(h)
         /\ \A g \in Gauges \ GaugesOf(h) : ChargedTo(g)[h] = 0
BY HolderFacts DEF ChargedTo

\* OneHolderConserves, with the gauges of the holder spelled out.
LEMMA HolderStepConserves ==
  ASSUME TypeOK, TypeOK', Conservation, NEW h \in Holders, OthersUnchanged(h),
         remaining'[PipelineOf[h]] + LocalCharge(h)'
           = remaining[PipelineOf[h]] + LocalCharge(h),
         PipelineOf[h] \in Pooled =>
           remaining'[Pool] + PoolCharge(h)' = remaining[Pool] + PoolCharge(h),
         \A g \in Gauges \ GaugesOf(h) : remaining'[g] = remaining[g]
  PROVE  Conservation'
<1>1. ASSUME NEW g \in Gauges
      PROVE  remaining'[g] + ChargedTo(g)'[h] = remaining[g] + ChargedTo(g)[h]
  <2>1. CASE g \notin GaugesOf(h)
    BY <2>1 DEF ChargedTo, TypeOK
  <2>2. CASE g = PipelineOf[h]
    BY <2>2, HolderFacts DEF ChargedTo
  <2>3. CASE g = Pool /\ PipelineOf[h] \in Pooled
    BY <2>3, HolderFacts DEF ChargedTo
  <2> QED BY <2>1, <2>2, <2>3, HolderFacts
<1> QED BY <1>1, OneHolderConserves

\* A return that fits is not clamped.
LEMMA GiveBackFits ==
  ASSUME TypeOK, NEW g \in Gauges, NEW n \in Nat, GiveBack(g, n),
         remaining[g] + n <= Capacity[g]
  PROVE  /\ remaining'[g] = remaining[g] + n
         /\ \A k \in Gauges \ {g} : remaining'[k] = remaining[k]
<1>1. remaining \in [Gauges -> Nat] /\ Capacity[g] \in Nat
  BY GaugeFacts DEF TypeOK
<1>2. Lesser(remaining[g] + n, Capacity[g]) = remaining[g] + n
  BY <1>1 DEF Lesser
<1> QED BY <1>1, <1>2 DEF GiveBack

\* Every step conserves the quota of every gauge.
LEMMA ConservationStep ==
  ASSUME IInv, [Next]_vars
  PROVE  Conservation'
<1> USE GaugeFacts, HolderFacts
<1>0. TypeOK /\ TypeOK' /\ Control /\ Conservation
  BY TypeStep DEF IInv
<1> DEFINE Moves(h) ==
      /\ OthersUnchanged(h)
      /\ remaining'[PipelineOf[h]] + LocalCharge(h)'
           = remaining[PipelineOf[h]] + LocalCharge(h)
      /\ PipelineOf[h] \in Pooled =>
           remaining'[Pool] + PoolCharge(h)' = remaining[Pool] + PoolCharge(h)
      /\ \A g \in Gauges \ GaugesOf(h) : remaining'[g] = remaining[g]
<1>1. ASSUME NEW h \in Holders, Moves(h) PROVE Conservation'
  BY <1>0, <1>1, HolderStepConserves
<1>2. CASE UNCHANGED <<remaining, pc, lease, surplus>>
  BY <1>0, <1>2 DEF Conservation, ChargedTo, LocalCharge, PoolCharge
<1>room. ASSUME NEW h \in Holders
      PROVE  /\ remaining[PipelineOf[h]] + LocalCharge(h) <= Capacity[PipelineOf[h]]
             /\ PipelineOf[h] \in Pooled =>
                  remaining[Pool] + PoolCharge(h) <= Capacity[Pool]
  <2>1. /\ remaining[PipelineOf[h]] + ChargedTo(PipelineOf[h])[h] <= Capacity[PipelineOf[h]]
        /\ remaining[Pool] + ChargedTo(Pool)[h] <= Capacity[Pool]
    BY <1>0, ChargeFits
  <2> QED BY <2>1, ChargeOf
<1>types. ASSUME NEW h \in Holders
       PROVE  /\ lease[h] \in Nat /\ surplus[h] \in Nat
              /\ \A g \in Gauges : remaining[g] \in Nat /\ Capacity[g] \in Nat
  BY <1>0 DEF TypeOK
<1>3. ASSUME NEW h \in Holders, CallStep(h) PROVE Conservation'
  <2> USE DEF TypeOK, LocalCharge, PoolCharge, OthersUnchanged, Goto
  <2>1. CASE Load(h)
    BY <1>2, <2>1 DEF Load
  <2>2. CASE Retry(h)
    BY <1>2, <2>2 DEF Retry
  <2>3. CASE TakeLocal(h)
    <3>1. Moves(h)
      BY <1>0, <2>3 DEF TakeLocal
    <3> QED BY <1>1, <3>1
  <2>4. CASE RefuseLocal(h)
    <3>1. Moves(h)
      BY <1>0, <2>4 DEF RefuseLocal
    <3> QED BY <1>1, <3>1
  <2>5. CASE TakePool(h)
    <3>1. PipelineOf[h] \in Pooled
      BY <1>0, <2>5 DEF TakePool, Control, Controlled
    <3>2. Moves(h)
      BY <1>0, <2>5, <3>1 DEF TakePool
    <3> QED BY <1>1, <3>2
  <2>6. CASE RefusePool(h)
    <3>1. Moves(h)
      BY <1>0, <2>6 DEF RefusePool
    <3> QED BY <1>1, <3>1
  <2>7. CASE UndoLocal(h)
    <3>1. remaining[PipelineOf[h]] + lease[h] <= Capacity[PipelineOf[h]]
      BY <1>0, <1>room, <2>7 DEF UndoLocal
    <3>2. /\ remaining'[PipelineOf[h]] = remaining[PipelineOf[h]] + lease[h]
          /\ \A g \in Gauges \ {PipelineOf[h]} : remaining'[g] = remaining[g]
      <4>1. GiveBack(PipelineOf[h], lease[h])
        BY <2>7 DEF UndoLocal
      <4> QED BY <1>0, <1>types, <3>1, <4>1, GiveBackFits
    <3>3. Moves(h)
      <4>1. /\ LocalCharge(h) = lease[h] /\ LocalCharge(h)' = 0
            /\ PoolCharge(h) = 0 /\ PoolCharge(h)' = 0
            /\ OthersUnchanged(h)
        BY <1>0, <2>7 DEF UndoLocal
      <4>2. remaining'[PipelineOf[h]] + LocalCharge(h)'
              = remaining[PipelineOf[h]] + LocalCharge(h)
        <5> HIDE DEF LocalCharge
        <5> QED BY <1>types, <4>1, <3>2
      <4>3. PipelineOf[h] \in Pooled =>
              remaining'[Pool] + PoolCharge(h)' = remaining[Pool] + PoolCharge(h)
        <5> HIDE DEF PoolCharge
        <5> QED BY <4>1, <3>2
      <4>4. \A g \in Gauges \ GaugesOf(h) : remaining'[g] = remaining[g]
        BY <3>2
      <4> QED BY <4>1, <4>2, <4>3, <4>4
    <3> QED BY <1>1, <3>3
  <2>8. CASE GiveLocal(h)
    <3>1. remaining[PipelineOf[h]] + (lease[h] + surplus[h]) <= Capacity[PipelineOf[h]]
      BY <1>0, <1>room, <2>8 DEF GiveLocal
    <3>2. remaining[PipelineOf[h]] + surplus[h] <= Capacity[PipelineOf[h]]
      BY <1>types, <3>1
    <3>3. /\ remaining'[PipelineOf[h]] = remaining[PipelineOf[h]] + surplus[h]
          /\ \A g \in Gauges \ {PipelineOf[h]} : remaining'[g] = remaining[g]
      <4>1. GiveBack(PipelineOf[h], surplus[h])
        BY <2>8 DEF GiveLocal
      <4> QED BY <1>0, <1>types, <3>2, <4>1, GiveBackFits
    <3>4. Moves(h)
      <4>1. /\ LocalCharge(h) = lease[h] + surplus[h] /\ LocalCharge(h)' = lease[h]
            /\ PipelineOf[h] \in Pooled => PoolCharge(h)' = PoolCharge(h)
            /\ OthersUnchanged(h)
        BY <1>0, <2>8 DEF GiveLocal, Returned
      <4>2. remaining'[PipelineOf[h]] + LocalCharge(h)'
              = remaining[PipelineOf[h]] + LocalCharge(h)
        <5> HIDE DEF LocalCharge
        <5> QED BY <1>types, <4>1, <3>3
      <4>3. PipelineOf[h] \in Pooled =>
              remaining'[Pool] + PoolCharge(h)' = remaining[Pool] + PoolCharge(h)
        <5> HIDE DEF PoolCharge
        <5> QED BY <4>1, <3>3
      <4>4. \A g \in Gauges \ GaugesOf(h) : remaining'[g] = remaining[g]
        BY <3>3
      <4> QED BY <4>1, <4>2, <4>3, <4>4
    <3> QED BY <1>1, <3>4
  <2>9. CASE GivePool(h)
    <3>1. PipelineOf[h] \in Pooled
      BY <1>0, <2>9 DEF GivePool, Control, Controlled
    <3>2. remaining[Pool] + (lease[h] + surplus[h]) <= Capacity[Pool]
      BY <1>0, <1>room, <2>9, <3>1 DEF GivePool
    <3>3. remaining[Pool] + surplus[h] <= Capacity[Pool]
      BY <1>types, <3>2
    <3>4. /\ remaining'[Pool] = remaining[Pool] + surplus[h]
          /\ \A g \in Gauges \ {Pool} : remaining'[g] = remaining[g]
      <4>1. GiveBack(Pool, surplus[h])
        BY <2>9 DEF GivePool
      <4> QED BY <1>0, <1>types, <3>3, <4>1, GiveBackFits
    <3>5. Moves(h)
      <4>1. /\ PoolCharge(h) = lease[h] + surplus[h] /\ PoolCharge(h)' = lease[h]
            /\ LocalCharge(h)' = LocalCharge(h)
            /\ OthersUnchanged(h)
        BY <1>0, <2>9 DEF GivePool, Returned
      <4>2. remaining'[PipelineOf[h]] + LocalCharge(h)'
              = remaining[PipelineOf[h]] + LocalCharge(h)
        <5> HIDE DEF LocalCharge
        <5> QED BY <4>1, <3>4
      <4>3. remaining'[Pool] + PoolCharge(h)' = remaining[Pool] + PoolCharge(h)
        <5> HIDE DEF PoolCharge
        <5> QED BY <1>types, <4>1, <3>4
      <4>4. \A g \in Gauges \ GaugesOf(h) : remaining'[g] = remaining[g]
        BY <3>1, <3>4
      <4> QED BY <4>1, <4>2, <4>3, <4>4
    <3> QED BY <1>1, <3>5
  <2> QED BY <1>3, <2>1, <2>2, <2>3, <2>4, <2>5, <2>6, <2>7, <2>8, <2>9 DEF CallStep
<1>4. ASSUME NEW h \in Holders, Release(h) PROVE Conservation'
  <2>1. Moves(h)
    BY <1>0, <1>4 DEF Release, TypeOK, LocalCharge, PoolCharge, OthersUnchanged, Goto
  <2> QED BY <1>1, <2>1
<1>5. ASSUME NEW h \in Holders, NEW n \in 1 .. MaxRequest, Request(h, n)
      PROVE  Conservation'
  <2>1. Moves(h)
    BY <1>0, <1>5 DEF Request, TypeOK, LocalCharge, PoolCharge, OthersUnchanged, Goto
  <2> QED BY <1>1, <2>1
<1>6. ASSUME NEW h \in Holders, NEW n \in 1 .. MaxRequest, Shrink(h, n)
      PROVE  Conservation'
  <2>1. Moves(h)
    <3>1. n \in Nat /\ lease[h] \in Nat
      BY <1>0 DEF TypeOK
    <3>2. /\ pc[h] = "held" /\ pc'[h] = "give_local"
          /\ lease'[h] = n /\ surplus'[h] = lease[h] - n
          /\ remaining' = remaining /\ OthersUnchanged(h)
      BY <1>0, <1>6 DEF Shrink, Goto, TypeOK, OthersUnchanged
    <3>3. LocalCharge(h)' = LocalCharge(h) /\ PoolCharge(h)' = PoolCharge(h)
      BY <3>1, <3>2 DEF LocalCharge, PoolCharge
    <3> QED BY <3>2, <3>3
  <2> QED BY <1>1, <2>1
<1>7. ASSUME NEW p \in Pipelines, Stop(p) PROVE Conservation'
  BY <1>2, <1>7 DEF Stop
<1>8. CASE UNCHANGED vars \/ Finished
  BY <1>2, <1>8 DEF Finished, vars
<1> QED BY <1>3, <1>4, <1>5, <1>6, <1>7, <1>8 DEF Next

-----------------------------------------------------------------------------
(* The invariants of the specification *)

\* The invariant holds at the start: nothing is charged and every gauge is full.
LEMMA InitInvariant == Init => IInv
<1> SUFFICES ASSUME Init PROVE IInv
  OBVIOUS
<1>1. TypeOK
  BY GaugeFacts DEF Init, TypeOK, Locations
<1>2. Control
  BY GaugeFacts DEF Init, Control, Controlled
<1>3. ASSUME NEW g \in Gauges PROVE remaining[g] + Total(ChargedTo(g), NHolders) = Capacity[g]
  <2>1. ChargedTo(g) \in [1 .. NHolders -> Nat]
    BY <1>1, ChargesType
  <2>2. \A k \in 1 .. NHolders : ChargedTo(g)[k] = 0
    BY GaugeFacts DEF Init, ChargedTo, LocalCharge, PoolCharge
  <2>3. Total(ChargedTo(g), NHolders) = 0
    BY <2>1, <2>2, GaugeFacts, TotalZero
  <2>4. remaining[g] = Capacity[g] /\ Capacity[g] \in Nat
    BY GaugeFacts DEF Init
  <2> QED BY <2>3, <2>4
<1> QED BY <1>1, <1>2, <1>3 DEF IInv, Conservation

\* IInv is an invariant of the specification.
LEMMA Invariance == Spec => []IInv
<1>1. IInv /\ [Next]_vars => IInv'
  BY TypeStep, ControlStep, ConservationStep DEF IInv
<1> QED BY InitInvariant, <1>1, PTL DEF Spec

\* Every variable keeps its type: in particular no gauge goes below zero, for
\* any number of holders racing on it.
THEOREM TypeCorrect == Spec => []TypeOK
<1>1. IInv => TypeOK
  BY DEF IInv
<1> QED BY Invariance, <1>1, PTL

\* No interleaving of takes, refusals, rollbacks, shrinks and drops leaks or
\* creates quota, whatever the holders, pipelines and capacities.
THEOREM QuotaConserved == Spec => []Conservation
<1>1. IInv => Conservation
  BY DEF IInv
<1> QED BY Invariance, <1>1, PTL

\* What a holder has on lease is part of what it is charged with.
LEMMA LeasedWithinCharged ==
  ASSUME TypeOK, NEW g \in Gauges
  PROVE  /\ LeasedFrom(g) \in [1 .. NHolders -> Nat]
         /\ \A h \in 1 .. NHolders : LeasedFrom(g)[h] <= ChargedTo(g)[h]
<1>1. \A h \in 1 .. NHolders : lease[h] \in Nat /\ surplus[h] \in Nat
  BY GaugeFacts DEF TypeOK
<1>2. LeasedFrom(g) = [h \in 1 .. NHolders |-> IF g \in GaugesOf(h) THEN Held[h] ELSE 0]
  BY GaugeFacts DEF LeasedFrom, Ledger!LeasedFrom, Holders, GaugesOf
<1>3. ASSUME NEW h \in 1 .. NHolders
      PROVE  Held[h] \in Nat /\ Held[h] <= LocalCharge(h) /\ Held[h] <= PoolCharge(h)
  BY <1>1 DEF Held, Live, LocalCharge, PoolCharge
<1>4. ASSUME NEW h \in 1 .. NHolders PROVE LeasedFrom(g)[h] <= ChargedTo(g)[h]
  BY <1>2, <1>3, GaugeFacts DEF ChargedTo
<1> QED BY <1>2, <1>3, <1>4

\* The invariant leaves no live lease uncounted.
LEMMA InvariantCounts == IInv => LiveLeasesAreCounted
<1> SUFFICES ASSUME IInv, NEW g \in Gauges
             PROVE  remaining[g] + Total(LeasedFrom(g), NHolders) <= Capacity[g]
  BY DEF LiveLeasesAreCounted
<1>1. TypeOK /\ remaining[g] + Total(ChargedTo(g), NHolders) = Capacity[g]
  BY DEF IInv, Conservation
<1>2. ChargedTo(g) \in [1 .. NHolders -> Nat] /\ LeasedFrom(g) \in [1 .. NHolders -> Nat]
  BY <1>1, ChargesType, LeasedWithinCharged
<1>3. Total(LeasedFrom(g), NHolders) <= Total(ChargedTo(g), NHolders)
  BY <1>1, <1>2, GaugeFacts, LeasedWithinCharged, TotalMonotone
<1>4. /\ Total(LeasedFrom(g), NHolders) \in Nat /\ Total(ChargedTo(g), NHolders) \in Nat
      /\ remaining[g] \in Nat
  BY <1>1, <1>2, GaugeFacts, TotalType DEF TypeOK
<1> QED BY <1>1, <1>3, <1>4

\* The free bytes of a gauge never overlap the leases that exist.
THEOREM LeasesAlwaysCounted == Spec => []LiveLeasesAreCounted
BY Invariance, InvariantCounts, PTL

-----------------------------------------------------------------------------
(* Refinement of QuotaLedger *)

\* The actions of the ledger under the refinement mapping.
LEMMA LedgerFacts ==
  ASSUME NEW h \in Holders, NEW n \in Nat
  PROVE  /\ Ledger!Grant(h, n) <=>
              /\ Held[h] = 0
              /\ \A g \in GaugesOf(h) : Total(LeasedFrom(g), NHolders) + n <= Capacity[g]
              /\ Held' = [Held EXCEPT ![h] = n]
         /\ Ledger!Reduce(h, n) <=> n < Held[h] /\ Held' = [Held EXCEPT ![h] = n]
<1>0. ASSUME NEW f, NEW k PROVE Ledger!Total(f, k) = Total(f, k)
  BY Zenon DEF Ledger!Total, Ledger!PartialTotals, Total, PartialTotals
<1>1. Ledger!Grant(h, n) <=>
        /\ Held[h] = 0
        /\ \A g \in Ledger!GaugesOf(h) :
             Ledger!Total(Ledger!LeasedFrom(g), NHolders) + n <= Capacity[g]
        /\ Held' = [Held EXCEPT ![h] = n]
  BY Zenon DEF Ledger!Grant
<1>2. Ledger!Reduce(h, n) <=> n < Held[h] /\ Held' = [Held EXCEPT ![h] = n]
  BY Zenon DEF Ledger!Reduce
<1> QED BY <1>0, <1>1, <1>2, Zenon DEF GaugesOf, LeasedFrom

\* The bytes leased from a gauge are the bytes of the holders that use it.
LEMMA LeasedFromHeld ==
  ASSUME NEW g
  PROVE  LeasedFrom(g) = [h \in 1 .. NHolders |-> IF g \in GaugesOf(h) THEN Held[h] ELSE 0]
BY GaugeFacts DEF LeasedFrom, Ledger!LeasedFrom, Holders, GaugesOf

\* The step that makes a lease live grants it: it fits, because it is still
\* counted after the step.
LEMMA GrantStep ==
  ASSUME TypeOK, IInv', NEW h \in Holders, NEW n \in Nat, lease[h] = n,
         ~ Live(h), Live(h)', lease' = lease,
         \A k \in Holders \ {h} : pc'[k] = pc[k]
  PROVE  Ledger!Grant(h, n)
<1>1. Holders = 1 .. NHolders /\ NHolders \in Nat /\ lease \in [Holders -> Nat]
  BY GaugeFacts DEF TypeOK
<1>2. Held[h] = 0
  BY <1>1 DEF Held
<1>3. Held' = [Held EXCEPT ![h] = n]
  BY <1>1 DEF Held, Live
<1>4. ASSUME NEW g \in GaugesOf(h)
      PROVE  Total(LeasedFrom(g), NHolders) + n <= Capacity[g]
  <2> DEFINE before == LeasedFrom(g)
             after == LeasedFrom(g)'
  <2>1. g \in Gauges
    BY HolderFacts, GaugeFacts
  <2>2. LiveLeasesAreCounted'
    <3>1. TypeOK' /\ Control' /\ Conservation'
      BY DEF IInv
    <3> QED BY InvariantCounts, PTL
  <2>3. remaining'[g] + Total(after, NHolders) <= Capacity[g]
    BY <2>1, <2>2 DEF LiveLeasesAreCounted
  <2>4. remaining'[g] \in Nat /\ Capacity[g] \in Nat
    BY <2>1, GaugeFacts DEF IInv, TypeOK
  <2>5. before = [k \in 1 .. NHolders |-> IF g \in GaugesOf(k) THEN Held[k] ELSE 0]
    BY LeasedFromHeld
  <2>6. after = [k \in 1 .. NHolders |-> IF g \in GaugesOf(k) THEN Held'[k] ELSE 0]
    BY <1>1 DEF LeasedFrom, Ledger!LeasedFrom, Holders, GaugesOf
  <2>7. \A k \in 1 .. NHolders : Held[k] \in Nat /\ Held'[k] \in Nat
    BY <1>1 DEF Held
  <2> HIDE DEF before, after
  <2>8. /\ before \in [1 .. NHolders -> Nat] /\ after \in [1 .. NHolders -> Nat]
        /\ before[h] = 0 /\ after[h] = n
        /\ \A k \in 1 .. NHolders \ {h} : after[k] = before[k]
    <3>1. before \in [1 .. NHolders -> Nat] /\ after \in [1 .. NHolders -> Nat]
      BY <2>5, <2>6, <2>7
    <3>2. h \in 1 .. NHolders /\ h \in Holders
      BY <1>1
    <3>3. before[h] = 0
      BY <1>2, <2>5, <3>2
    <3>4. after[h] = n
      BY <1>1, <1>3, <2>6, <3>2 DEF Held
    <3>5. ASSUME NEW k \in 1 .. NHolders \ {h} PROVE Held'[k] = Held[k]
      BY <1>1, <1>3 DEF Held
    <3> QED BY <2>5, <2>6, <3>1, <3>3, <3>4, <3>5
  <2>9. Total(after, NHolders) = Total(before, NHolders) + after[h] - before[h]
    <3>1. h \in 1 .. NHolders /\ NHolders \in Nat
      BY <1>1
    <3>2. \A k \in 1 .. NHolders \ {h} : after[k] = before[k]
      BY <2>8
    <3>3. before \in [1 .. NHolders -> Nat] /\ after \in [1 .. NHolders -> Nat]
      BY <2>8
    <3> QED BY ONLY <3>1, <3>2, <3>3, TotalUpdate
  <2>10. Total(before, NHolders) \in Nat /\ n \in Nat
    BY <1>1, <2>8, TotalType
  <2>11. Total(before, NHolders) + n <= Capacity[g]
    BY <2>3, <2>4, <2>8, <2>9, <2>10
  <2> QED BY <2>11 DEF before
<1> QED BY <1>2, <1>3, <1>4, LedgerFacts

\* Every step of the gauges grants a lease, reduces one, or leaves the ledger
\* as it is.
LEMMA LedgerStep ==
  ASSUME IInv, IInv', [Next]_vars
  PROVE  Ledger!Next \/ UNCHANGED Held
<1> USE GaugeFacts
<1>0. TypeOK /\ Control /\ Holders = 1 .. NHolders /\ MaxRequest \in Nat
  BY DEF IInv
<1> DEFINE Stutters == UNCHANGED Held
<1>1. CASE UNCHANGED <<pc, lease>>
  BY <1>1 DEF Held, Live
<1>2. ASSUME NEW h \in Holders, NEW n \in 1 .. MaxRequest, Ledger!Grant(h, n)
      PROVE  Ledger!Next
  BY <1>2 DEF Ledger!Next, Holders
<1>3. ASSUME NEW h \in Holders, NEW n \in 0 .. MaxRequest, Ledger!Reduce(h, n)
      PROVE  Ledger!Next
  BY <1>3 DEF Ledger!Next, Holders
<1>4. ASSUME NEW h \in Holders, ~ Live(h), ~ Live(h)',
             \A k \in Holders \ {h} : pc'[k] = pc[k] /\ lease'[k] = lease[k]
      PROVE  Stutters
  BY <1>0, <1>4 DEF Held, Live
<1>5. ASSUME NEW h \in Holders, Live(h), lease' = lease,
             \A k \in Holders \ {h} : pc'[k] = pc[k],
             Live(h)' \/ lease[h] = 0
      PROVE  Stutters
  BY <1>0, <1>5 DEF Held, Live
<1>6. ASSUME NEW h \in Holders, CallStep(h) PROVE Ledger!Next \/ Stutters
  <2> USE DEF TypeOK, Goto
  <2>1. CASE Load(h) \/ Retry(h)
    BY <1>1, <2>1 DEF Load, Retry
  <2>2. CASE TakeLocal(h)
    <3>1. CASE PipelineOf[h] \in Pooled
      BY <1>0, <1>4, <2>2, <3>1 DEF TakeLocal, Live
    <3>2. CASE PipelineOf[h] \notin Pooled
      <4>1. /\ ~ Live(h) /\ Live(h)' /\ lease' = lease
            /\ \A k \in Holders \ {h} : pc'[k] = pc[k]
            /\ lease[h] \in 1 .. MaxRequest
        BY <1>0, <2>2, <3>2 DEF TakeLocal, Live, Control, Controlled
      <4>2. PICK n \in 1 .. MaxRequest : n = lease[h]
        BY <4>1
      <4>3. Ledger!Grant(h, n)
        BY <1>0, <4>1, <4>2, GrantStep
      <4> QED BY <1>2, <4>3
    <3> QED BY <3>1, <3>2
  <2>3. CASE RefuseLocal(h)
    BY <1>0, <1>4, <2>3 DEF RefuseLocal, Live
  <2>4. CASE TakePool(h)
    <3>1. /\ ~ Live(h) /\ Live(h)' /\ lease' = lease
          /\ \A k \in Holders \ {h} : pc'[k] = pc[k]
          /\ lease[h] \in 1 .. MaxRequest
      BY <1>0, <2>4 DEF TakePool, Live, Control, Controlled
    <3>2. PICK n \in 1 .. MaxRequest : n = lease[h]
      BY <3>1
    <3>3. Ledger!Grant(h, n)
      BY <1>0, <3>1, <3>2, GrantStep
    <3> QED BY <1>2, <3>3
  <2>5. CASE RefusePool(h)
    BY <1>0, <1>4, <2>5 DEF RefusePool, Live
  <2>6. CASE UndoLocal(h)
    BY <1>0, <1>4, <2>6 DEF UndoLocal, Live
  <2>7. CASE GiveLocal(h)
    BY <1>0, <1>5, <2>7 DEF GiveLocal, Returned, Live
  <2>8. CASE GivePool(h)
    BY <1>0, <1>5, <2>8 DEF GivePool, Returned, Live
  <2> QED BY <1>6, <2>1, <2>2, <2>3, <2>4, <2>5, <2>6, <2>7, <2>8 DEF CallStep
<1>7. ASSUME NEW h \in Holders, Release(h) PROVE Ledger!Next
  <2>1. lease[h] \in 1 .. MaxRequest /\ pc[h] = "held"
    BY <1>0, <1>7 DEF Release, Control, Controlled, TypeOK
  <2>2. 0 < Held[h]
    BY <1>0, <2>1 DEF Held, Live
  <2>3. Held' = [Held EXCEPT ![h] = 0]
    BY <1>0, <1>7, <2>1 DEF Release, Held, Live, Goto, TypeOK
  <2>4. 0 \in Nat /\ 0 \in 0 .. MaxRequest
    BY <1>0
  <2>5. Ledger!Reduce(h, 0)
    BY <2>2, <2>3, <2>4, LedgerFacts
  <2> QED BY <1>3, <2>4, <2>5
<1>8. ASSUME NEW h \in Holders, NEW n \in 1 .. MaxRequest, Request(h, n) PROVE Stutters
  BY <1>0, <1>4, <1>8 DEF Request, Live, Goto, TypeOK
<1>9. ASSUME NEW h \in Holders, NEW n \in 1 .. MaxRequest, Shrink(h, n) PROVE Ledger!Next
  <2>1. n < Held[h] /\ Held' = [Held EXCEPT ![h] = n]
    BY <1>0, <1>9 DEF Shrink, Held, Live, Goto, TypeOK
  <2>2. n \in Nat /\ n \in 0 .. MaxRequest
    BY <1>0
  <2>3. Ledger!Reduce(h, n)
    BY <2>1, <2>2, LedgerFacts
  <2> QED BY <1>3, <2>2, <2>3
<1>10. ASSUME NEW p \in Pipelines, Stop(p) PROVE Stutters
  BY <1>10 DEF Stop, Held, Live
<1>11. CASE UNCHANGED vars \/ Finished
  BY <1>1, <1>11 DEF Finished, vars
<1> QED BY <1>6, <1>7, <1>8, <1>9, <1>10, <1>11 DEF Next

\* The two-gauge implementation keeps the promise of the ledger: a lease
\* appears in one step, within every quota it counts against, and only shrinks.
THEOREM LedgerImplemented == Spec => LedgerSpec
<1>1. Init => Ledger!Init
  BY GaugeFacts DEF Init, Ledger!Init, Holders, Held, Live
<1>2. IInv /\ IInv' /\ [Next]_vars => Ledger!Next \/ UNCHANGED Held
  BY LedgerStep
<1>3. Spec => Ledger!Init /\ [][Ledger!Next]_Held
  BY Invariance, <1>1, <1>2, PTL DEF Spec
<1> QED BY <1>3 DEF LedgerSpec, Ledger!Spec

-----------------------------------------------------------------------------
(* OperationBudget *)

\* While the source is being collected, a counter nobody asked is whole, and
\* its lease sites are free; afterwards the ceiling a lease computed with is
\* the ceiling of now, because the source no longer changes.
CeilingsAgree ==
  \A l \in Lessees :
    LET c == CounterOf[l]
    IN  c \notin hasty =>
          /\ Collecting => place[l] = "free"
          /\ place[l] = "asked" => ceiling[l] = CeilingOf(c)

UntouchedIsWhole ==
  \A c \in Counters \ hasty : Collecting => left[c] = CounterCapacity[c]

\* The inductive invariant: OutputWithinCeiling needs to know which ceilings
\* the racing leases carry.
BInv ==
  BudgetTypeOK /\ CountersConserved /\ CeilingsAgree /\ UntouchedIsWhole /\ OutputWithinCeiling

LEMMA SiteFacts ==
  /\ Lessees = 1 .. NLeases
  /\ NLeases \in Nat
  /\ \A l \in Lessees : CounterOf[l] \in Counters
  /\ OutputCounters \subseteq Counters
  /\ CounterCapacity \in [Counters -> Nat]
  /\ Ratio \in Nat \ {0}
  /\ MaxInputEntries \in Nat /\ MaxInputBytes \in Nat
  /\ EntryBytes \subseteq Nat
  /\ MaxAmount \in Nat
BY OperationBudgetAssumption DEF Lessees

LEMMA CeilingType ==
  ASSUME BudgetTypeOK, NEW c \in Counters
  PROVE  OutputLimit(c) \in Nat /\ CeilingOf(c) \in Nat
<1>1. CounterCapacity[c] \in Nat /\ source.bytes \in Nat /\ Ratio \in Nat
  BY SiteFacts DEF BudgetTypeOK
<1>2. source.bytes * Ratio \in Nat
  BY <1>1
<1> QED BY <1>1, <1>2 DEF OutputLimit, CeilingOf, Min2

LEMMA OnLeaseType ==
  ASSUME BudgetTypeOK, NEW c \in Counters
  PROVE  OnLease(c) \in [1 .. NLeases -> Nat]
BY SiteFacts DEF BudgetTypeOK, OnLease

\* A lease is part of what is missing from its counter.
LEMMA LeaseFits ==
  ASSUME BudgetTypeOK, CountersConserved, NEW l \in Lessees, place[l] = "leased"
  PROVE  left[CounterOf[l]] + amount[l] <= CounterCapacity[CounterOf[l]]
<1> DEFINE c == CounterOf[l]
<1>1. c \in Counters /\ left[c] \in Nat /\ committed[c] \in Nat
  BY SiteFacts DEF BudgetTypeOK
<1>2. OnLease(c)[l] = amount[l] /\ amount[l] \in Nat
  BY SiteFacts DEF OnLease, BudgetTypeOK
<1>3. OnLease(c)[l] <= Total(OnLease(c), NLeases)
  BY <1>1, OnLeaseType, TotalTerm, SiteFacts
<1>4. Total(OnLease(c), NLeases) \in Nat
  BY <1>1, OnLeaseType, TotalType, SiteFacts
<1>5. left[c] + Total(OnLease(c), NLeases) + committed[c] = CounterCapacity[c]
  BY <1>1 DEF CountersConserved
<1> QED BY <1>1, <1>2, <1>3, <1>4, <1>5

-----------------------------------------------------------------------------
(* Type correctness *)

LEMMA BudgetTypeStep ==
  ASSUME BInv, [BudgetNext]_budgetVars
  PROVE  BudgetTypeOK'
<1> USE SiteFacts
<1>0. BudgetTypeOK
  BY DEF BInv
<1> USE DEF BudgetTypeOK
<1>1. ASSUME NEW n \in EntryBytes, NoteEntry(n) PROVE BudgetTypeOK'
  <2>1. n \in Nat /\ source.entries + 1 \in 0 .. MaxInputEntries
        /\ source.bytes + n \in 0 .. MaxInputBytes
    BY <1>0, <1>1 DEF NoteEntry, Accepts
  <2> QED BY <1>0, <1>1, <2>1 DEF NoteEntry, Accepts, taking
<1>2. CASE ObserveInput
  BY <1>0, <1>2 DEF ObserveInput, Published, taking
<1>3. CASE LosePermit
  BY <1>0, <1>3 DEF LosePermit, taking
<1>4. ASSUME NEW l \in Lessees, LeaseStep(l) PROVE BudgetTypeOK'
  <2>0. CounterOf[l] \in Counters /\ CounterCapacity[CounterOf[l]] \in Nat
    OBVIOUS
  <2>1. ASSUME NEW n \in 1 .. MaxAmount, Ask(l, n) PROVE BudgetTypeOK'
    <3>1. CeilingOf(CounterOf[l]) \in Nat
      BY <1>0, <2>0, CeilingType
    <3>2. hasty' \subseteq Counters
      BY <1>0, <2>0, <2>1 DEF Ask
    <3> QED BY <1>0, <2>1, <3>1, <3>2 DEF Ask
  <2>2. CASE Observe(l)
    BY <1>0, <2>0, <2>2 DEF Observe
  <2>3. CASE Refuse(l)
    BY <1>0, <2>3 DEF Refuse, Return
  <2>4. CASE Take(l)
    <3>1. left[CounterOf[l]] - amount[l] \in Nat
      BY <1>0, <2>0, <2>4 DEF Take, Refused
    <3> QED BY <1>0, <2>4, <3>1 DEF Take, Return
  <2>5. ASSUME NEW n \in Nat, Back(l, n) PROVE left' \in [Counters -> Nat]
    BY <1>0, <2>0, <2>5 DEF Back, Min2
  <2>6. ASSUME NEW used \in 1 .. MaxAmount, Commit(l, used) PROVE BudgetTypeOK'
    <3>1. amount[l] - used \in Nat
      BY <1>0, <2>6 DEF Commit
    <3>2. left' \in [Counters -> Nat]
      BY <2>5, <2>6, <3>1 DEF Commit
    <3>3. committed' \in [Counters -> Nat]
      BY <1>0, <2>0, <2>6 DEF Commit
    <3> QED BY <1>0, <2>6, <3>2, <3>3 DEF Commit, End
  <2>7. CASE Drop(l)
    <3>1. left' \in [Counters -> Nat]
      BY <1>0, <2>5, <2>7 DEF Drop
    <3> QED BY <1>0, <2>7, <3>1 DEF Drop, End
  <2> QED BY <1>4, <2>1, <2>2, <2>3, <2>4, <2>6, <2>7 DEF LeaseStep
<1>5. CASE Halt
  BY <1>0, <1>5 DEF Halt, taking
<1>6. CASE UNCHANGED budgetVars
  BY <1>0, <1>6 DEF budgetVars, taking
<1> QED BY <1>1, <1>2, <1>3, <1>4, <1>5, <1>6 DEF BudgetNext, BudgetIdle

-----------------------------------------------------------------------------
(* Conservation *)

\* A step of one site that moves its counter by as much as its lease and its
\* commits change, and no other counter, conserves every counter.
LEMMA OneSiteConserves ==
  ASSUME BudgetTypeOK, BudgetTypeOK', CountersConserved, NEW l \in Lessees,
         \A k \in Lessees \ {l} : place'[k] = place[k] /\ amount'[k] = amount[k],
         \A d \in Counters \ {CounterOf[l]} :
           left'[d] = left[d] /\ committed'[d] = committed[d],
         LET c == CounterOf[l]
         IN  left'[c] + OnLease(c)'[l] + committed'[c] = left[c] + OnLease(c)[l] + committed[c]
  PROVE  CountersConserved'
<1> SUFFICES ASSUME NEW d \in Counters
             PROVE  left'[d] + Total(OnLease(d)', NLeases) + committed'[d] = CounterCapacity[d]
  BY DEF CountersConserved
<1> DEFINE before == OnLease(d)
           after == OnLease(d)'
<1>1. before \in [1 .. NLeases -> Nat] /\ after \in [1 .. NLeases -> Nat]
  <2>1. before \in [1 .. NLeases -> Nat]
    BY OnLeaseType
  <2>2. after \in [1 .. NLeases -> Nat]
    BY SiteFacts DEF BudgetTypeOK, OnLease
  <2> QED BY <2>1, <2>2
<1>2. \A k \in 1 .. NLeases \ {l} : after[k] = before[k]
  BY SiteFacts DEF OnLease
<1>3. left[d] + Total(before, NLeases) + committed[d] = CounterCapacity[d]
  BY DEF CountersConserved
<1>4. left'[d] + after[l] + committed'[d] = left[d] + before[l] + committed[d]
  <2>1. CASE d = CounterOf[l]
    BY <2>1
  <2>2. CASE d # CounterOf[l]
    <3>1. after[l] = 0 /\ before[l] = 0
      BY <2>2 DEF OnLease
    <3> QED BY <2>2, <3>1
  <2> QED BY <2>1, <2>2
<1>5. /\ left[d] \in Nat /\ left'[d] \in Nat
      /\ committed[d] \in Nat /\ committed'[d] \in Nat
      /\ l \in 1 .. NLeases /\ NLeases \in Nat
  BY SiteFacts DEF BudgetTypeOK
<1> HIDE DEF before, after
<1>6. Total(after, NLeases) = Total(before, NLeases) + after[l] - before[l]
  BY <1>1, <1>2, <1>5, TotalUpdate
<1>7. Total(before, NLeases) \in Nat /\ Total(after, NLeases) \in Nat
  BY <1>1, <1>5, TotalType
<1>8. before[l] \in Nat /\ after[l] \in Nat
  BY <1>1, <1>5
<1>9. left'[d] + Total(after, NLeases) + committed'[d] = CounterCapacity[d]
  BY <1>3, <1>4, <1>5, <1>6, <1>7, <1>8
<1> QED BY <1>9 DEF after

LEMMA ConservationOfCounters ==
  ASSUME BInv, [BudgetNext]_budgetVars
  PROVE  CountersConserved'
<1> USE SiteFacts
<1>0. BudgetTypeOK /\ CountersConserved /\ BudgetTypeOK'
  BY BudgetTypeStep DEF BInv
<1>a. ASSUME UNCHANGED <<left, committed, place, amount>> PROVE CountersConserved'
  BY <1>0, <1>a DEF CountersConserved, OnLease
<1>1. ASSUME NEW n \in EntryBytes, NoteEntry(n) PROVE CountersConserved'
  BY <1>1, <1>a DEF NoteEntry, Accepts, taking
<1>2. CASE ObserveInput
  BY <1>2, <1>a DEF ObserveInput, Published, taking
<1>3. CASE LosePermit
  BY <1>3, <1>a DEF LosePermit, taking
<1>4. ASSUME NEW l \in Lessees, LeaseStep(l) PROVE CountersConserved'
  <2> DEFINE c == CounterOf[l]
  <2>0. /\ c \in Counters /\ CounterCapacity[c] \in Nat
        /\ left[c] \in Nat /\ committed[c] \in Nat /\ amount[l] \in Nat
    BY <1>0 DEF BudgetTypeOK
  <2>1. ASSUME NEW n \in 1 .. MaxAmount, Ask(l, n) PROVE CountersConserved'
    <3>1. OnLease(c)[l] = 0 /\ OnLease(c)'[l] = 0
      BY <1>0, <2>1 DEF Ask, OnLease, BudgetTypeOK
    <3>2. \A k \in Lessees \ {l} : place'[k] = place[k] /\ amount'[k] = amount[k]
      BY <1>0, <2>1 DEF Ask, BudgetTypeOK
    <3> QED BY <1>0, <2>1, <3>1, <3>2, OneSiteConserves DEF Ask
  <2>2. CASE Observe(l)
    BY <2>2, <1>a DEF Observe
  <2>3. CASE Refuse(l)
    <3>1. OnLease(c)[l] = 0 /\ OnLease(c)'[l] = 0
      BY <1>0, <2>3 DEF Refuse, Return, OnLease, BudgetTypeOK
    <3>2. \A k \in Lessees \ {l} : place'[k] = place[k] /\ amount'[k] = amount[k]
      BY <1>0, <2>3 DEF Refuse, Return, BudgetTypeOK
    <3> QED BY <1>0, <2>3, <3>1, <3>2, OneSiteConserves DEF Refuse, Return
  <2>4. CASE Take(l)
    <3>1. OnLease(c)[l] = 0 /\ OnLease(c)'[l] = amount[l]
      BY <1>0, <2>4 DEF Take, Return, OnLease, BudgetTypeOK
    <3>2. \A k \in Lessees \ {l} : place'[k] = place[k] /\ amount'[k] = amount[k]
      BY <1>0, <2>4 DEF Take, Return, BudgetTypeOK
    <3>3. left'[c] = left[c] - amount[l] /\ \A d \in Counters \ {c} : left'[d] = left[d]
      BY <1>0, <2>0, <2>4 DEF Take, BudgetTypeOK
    <3>4. left'[c] + OnLease(c)'[l] + committed'[c] = left[c] + OnLease(c)[l] + committed[c]
      BY <2>0, <2>4, <3>1, <3>3 DEF Take, Return
    <3> QED BY <1>0, <2>4, <3>2, <3>3, <3>4, OneSiteConserves DEF Take, Return
  <2>5. ASSUME place[l] = "leased", NEW n \in Nat, n <= amount[l], Back(l, n)
        PROVE  left'[c] = left[c] + n /\ \A d \in Counters \ {c} : left'[d] = left[d]
    <3>1. left[c] + amount[l] <= CounterCapacity[c]
      BY <1>0, <2>5, LeaseFits
    <3>2. Min2(left[c] + n, CounterCapacity[c]) = left[c] + n
      BY <2>0, <2>5, <3>1 DEF Min2
    <3> QED BY <1>0, <2>0, <2>5, <3>2 DEF Back, BudgetTypeOK
  <2>6. ASSUME End(l)
        PROVE  /\ OnLease(c)[l] = amount[l] /\ OnLease(c)'[l] = 0
               /\ \A k \in Lessees \ {l} : place'[k] = place[k] /\ amount'[k] = amount[k]
    BY <1>0, <2>6 DEF End, OnLease, BudgetTypeOK
  <2>7. ASSUME NEW used \in 1 .. MaxAmount, Commit(l, used) PROVE CountersConserved'
    <3>1. amount[l] - used \in Nat /\ amount[l] - used <= amount[l] /\ used \in Nat
      BY <2>0, <2>7 DEF Commit
    <3>2. /\ left'[c] = left[c] + (amount[l] - used)
          /\ \A d \in Counters \ {c} : left'[d] = left[d]
      BY <2>5, <2>7, <3>1 DEF Commit, End
    <3>3. /\ committed'[c] = committed[c] + used
          /\ \A d \in Counters \ {c} : committed'[d] = committed[d]
      BY <1>0, <2>0, <2>7 DEF Commit, BudgetTypeOK
    <3>4. End(l)
      BY <2>7 DEF Commit
    <3>5. left'[c] + OnLease(c)'[l] + committed'[c] = left[c] + OnLease(c)[l] + committed[c]
      <4>1. OnLease(c)[l] = amount[l] /\ OnLease(c)'[l] = 0
        BY <2>6, <3>4
      <4>2. left'[c] = left[c] + (amount[l] - used) /\ committed'[c] = committed[c] + used
        BY <3>2, <3>3
      <4> HIDE DEF c
      <4> QED BY <2>0, <3>1, <4>1, <4>2
    <3> QED BY <1>0, <2>6, <3>2, <3>3, <3>4, <3>5, OneSiteConserves
  <2>8. CASE Drop(l)
    <3>1. End(l) /\ UNCHANGED committed
      BY <2>8 DEF Drop
    <3>2. left'[c] = left[c] + amount[l] /\ \A d \in Counters \ {c} : left'[d] = left[d]
      BY <2>0, <2>5, <2>8 DEF Drop, End
    <3>3. left'[c] + OnLease(c)'[l] + committed'[c] = left[c] + OnLease(c)[l] + committed[c]
      BY <2>0, <2>6, <3>1, <3>2
    <3> QED BY <1>0, <2>6, <3>1, <3>2, <3>3, OneSiteConserves
  <2> QED BY <1>4, <2>1, <2>2, <2>3, <2>4, <2>7, <2>8 DEF LeaseStep
<1>5. CASE Halt
  BY <1>5, <1>a DEF Halt, taking
<1>6. CASE UNCHANGED budgetVars
  BY <1>6, <1>a DEF budgetVars, taking
<1> QED BY <1>1, <1>2, <1>3, <1>4, <1>5, <1>6 DEF BudgetNext, BudgetIdle

-----------------------------------------------------------------------------
(* The output ceiling *)

LEMMA CeilingStep ==
  ASSUME BInv, [BudgetNext]_budgetVars
  PROVE  CeilingsAgree' /\ UntouchedIsWhole' /\ OutputWithinCeiling'
<1> USE SiteFacts
<1>0. /\ BudgetTypeOK /\ CountersConserved /\ CeilingsAgree
      /\ UntouchedIsWhole /\ OutputWithinCeiling
  BY DEF BInv
<1>b. BudgetTypeOK'
  BY BudgetTypeStep
<1>a. ASSUME UNCHANGED <<source, left, place, ceiling, hasty>>
      PROVE  CeilingsAgree' /\ UntouchedIsWhole' /\ OutputWithinCeiling'
  BY <1>0, <1>a DEF CeilingsAgree, UntouchedIsWhole, OutputWithinCeiling, CeilingOf,
                    OutputLimit, Collecting
<1>1. ASSUME NEW n \in EntryBytes, NoteEntry(n)
      PROVE  CeilingsAgree' /\ UntouchedIsWhole' /\ OutputWithinCeiling'
  <2>1. Collecting /\ Collecting' /\ UNCHANGED <<left, place, ceiling, hasty>>
    BY <1>0, <1>1 DEF NoteEntry, Accepts, Collecting, taking, BudgetTypeOK
  <2>2. CeilingsAgree' /\ UntouchedIsWhole'
    BY <1>0, <2>1 DEF CeilingsAgree, UntouchedIsWhole
  <2> QED BY <1>0, <2>1, <2>2 DEF OutputWithinCeiling, OutputLimit
<1>2. CASE ObserveInput
  <2>1. UNCHANGED <<left, place, ceiling, hasty>>
    BY <1>2 DEF ObserveInput, Published, taking
  <2>2. CASE UNCHANGED source
    BY <1>a, <2>1, <2>2
  <2>3. CASE Collecting /\ source' = [source EXCEPT !.state = "published"]
    <3>1. ~ Collecting'
      BY <1>0, <2>3 DEF Collecting, BudgetTypeOK
    <3>2. CeilingsAgree' /\ UntouchedIsWhole'
      BY <1>0, <2>1, <2>3, <3>1 DEF CeilingsAgree, UntouchedIsWhole
    <3>3. ASSUME NEW c \in OutputCounters \ hasty
          PROVE  CounterCapacity[c] - left'[c] <= OutputLimit(c)'
      <4>1. left'[c] = CounterCapacity[c] /\ CounterCapacity[c] \in Nat
        BY <1>0, <2>1, <2>3 DEF UntouchedIsWhole
      <4>2. OutputLimit(c)' \in Nat
        <5>1. source'.bytes * Ratio \in Nat
          BY <1>b DEF BudgetTypeOK
        <5> QED BY <4>1, <5>1 DEF OutputLimit, Min2
      <4> QED BY <4>1, <4>2
    <3> QED BY <2>1, <3>2, <3>3 DEF OutputWithinCeiling
  <2> QED BY <1>2, <2>2, <2>3 DEF ObserveInput, Published
<1>3. CASE LosePermit
  BY <1>3, <1>a DEF LosePermit, taking
<1>4. ASSUME NEW l \in Lessees, LeaseStep(l)
      PROVE  CeilingsAgree' /\ UntouchedIsWhole' /\ OutputWithinCeiling'
  <2> DEFINE c == CounterOf[l]
  <2>0. c \in Counters /\ UNCHANGED source
    BY <1>4 DEF LeaseStep, Ask, Observe, Refuse, Take, Commit, Drop, Return, End
  <2>a. \A d \in Counters : OutputLimit(d)' = OutputLimit(d) /\ CeilingOf(d)' = CeilingOf(d)
    BY <2>0 DEF OutputLimit, CeilingOf, Collecting
  <2>b. Collecting' <=> Collecting
    BY <2>0 DEF Collecting
  <2>1. ASSUME NEW n \in 1 .. MaxAmount, Ask(l, n)
        PROVE  CeilingsAgree' /\ UntouchedIsWhole' /\ OutputWithinCeiling'
    <3>1. hasty \subseteq hasty' /\ (Collecting => c \in hasty') /\ UNCHANGED left
      BY <2>1 DEF Ask
    <3>2. CeilingsAgree'
      BY <1>0, <2>0, <2>1, <2>a, <2>b, <3>1 DEF CeilingsAgree, Ask, BudgetTypeOK
    <3>3. UntouchedIsWhole' /\ OutputWithinCeiling'
      BY <1>0, <2>a, <2>b, <3>1 DEF UntouchedIsWhole, OutputWithinCeiling
    <3> QED BY <3>2, <3>3
  <2>2. CASE Observe(l)
    BY <2>0, <2>2, <1>a DEF Observe
  <2>3. CASE Refuse(l)
    <3>1. CeilingsAgree'
      BY <1>0, <2>a, <2>b, <2>3 DEF CeilingsAgree, Refuse, Return, BudgetTypeOK
    <3>2. UntouchedIsWhole' /\ OutputWithinCeiling'
      BY <1>0, <2>a, <2>b, <2>3 DEF UntouchedIsWhole, OutputWithinCeiling, Refuse, Return
    <3> QED BY <3>1, <3>2
  <2>4. CASE Take(l)
    <3>1. c \notin hasty => ~ Collecting /\ ceiling[l] = CeilingOf(c)
      BY <1>0, <2>4 DEF CeilingsAgree, Take
    <3>2. /\ left'[c] = left[c] - amount[l] /\ \A d \in Counters \ {c} : left'[d] = left[d]
          /\ UNCHANGED hasty
      BY <1>0, <2>0, <2>4 DEF Take, Return, BudgetTypeOK
    <3>3. CeilingsAgree'
      BY <1>0, <2>a, <2>b, <2>4, <3>1 DEF CeilingsAgree, Take, Return, BudgetTypeOK
    <3>4. UntouchedIsWhole'
      BY <1>0, <2>b, <3>1, <3>2 DEF UntouchedIsWhole
    <3>5. ASSUME c \in OutputCounters, c \notin hasty
          PROVE  CounterCapacity[c] - left'[c] <= OutputLimit(c)
      <4>2. /\ CounterCapacity[c] \in Nat /\ left[c] \in Nat /\ amount[l] \in Nat
            /\ OutputLimit(c) \in Nat
        BY <1>0, <2>0, CeilingType DEF BudgetTypeOK
      <4>1. CounterCapacity[c] - left[c] + amount[l] <= OutputLimit(c)
        <5>1. ceiling[l] = OutputLimit(c)
          BY <3>1, <3>5 DEF CeilingOf
        <5> QED BY <2>4, <4>2, <5>1 DEF Take, Refused
      <4> HIDE DEF c
      <4> QED BY <3>2, <4>1, <4>2
    <3>6. OutputWithinCeiling'
      BY <1>0, <2>a, <3>2, <3>5 DEF OutputWithinCeiling
    <3> QED BY <3>3, <3>4, <3>6
  <2>5. ASSUME End(l), NEW n \in Nat, n <= amount[l], Back(l, n)
        PROVE  CeilingsAgree' /\ UntouchedIsWhole' /\ OutputWithinCeiling'
    <3>1. place[l] = "leased" /\ (Collecting => c \in hasty) /\ UNCHANGED hasty
      BY <1>0, <2>5 DEF End, CeilingsAgree
    <3>2. CeilingsAgree'
      BY <1>0, <2>a, <2>b, <2>5 DEF CeilingsAgree, End, BudgetTypeOK
    <3>3. left'[c] >= left[c] /\ \A d \in Counters \ {c} : left'[d] = left[d]
      <4>1. left[c] + amount[l] <= CounterCapacity[c]
        BY <1>0, <3>1, LeaseFits
      <4>2. /\ left'[c] = Min2(left[c] + n, CounterCapacity[c])
            /\ \A d \in Counters \ {c} : left'[d] = left[d]
        BY <1>0, <2>0, <2>5 DEF Back, BudgetTypeOK
      <4>3. /\ CounterCapacity[c] \in Nat /\ left[c] \in Nat
            /\ amount[l] \in Nat
        BY <1>0, <2>0 DEF BudgetTypeOK
      <4> HIDE DEF c
      <4> QED BY <2>5, <4>1, <4>2, <4>3 DEF Min2
    <3>4. UntouchedIsWhole'
      BY <1>0, <2>b, <3>1, <3>3 DEF UntouchedIsWhole
    <3>5. ASSUME c \in OutputCounters, c \notin hasty
          PROVE  CounterCapacity[c] - left'[c] <= OutputLimit(c)
      <4>1. CounterCapacity[c] - left[c] <= OutputLimit(c)
        BY <1>0, <3>5 DEF OutputWithinCeiling
      <4>2. /\ CounterCapacity[c] \in Nat /\ left[c] \in Nat /\ left'[c] \in Nat
            /\ OutputLimit(c) \in Nat
        BY <1>0, <1>b, <2>0, CeilingType DEF BudgetTypeOK
      <4> HIDE DEF c
      <4> QED BY <3>3, <4>1, <4>2
    <3>6. OutputWithinCeiling'
      BY <1>0, <2>a, <3>1, <3>3, <3>5 DEF OutputWithinCeiling
    <3> QED BY <3>2, <3>4, <3>6
  <2>6. ASSUME NEW used \in 1 .. MaxAmount, Commit(l, used)
        PROVE  CeilingsAgree' /\ UntouchedIsWhole' /\ OutputWithinCeiling'
    <3>1. amount[l] - used \in Nat /\ amount[l] - used <= amount[l]
      BY <1>0, <2>6 DEF Commit, BudgetTypeOK
    <3> QED BY <2>5, <2>6, <3>1 DEF Commit
  <2>7. CASE Drop(l)
    <3>1. amount[l] \in Nat
      BY <1>0 DEF BudgetTypeOK
    <3> QED BY <2>5, <2>7, <3>1 DEF Drop
  <2> QED BY <1>4, <2>1, <2>2, <2>3, <2>4, <2>6, <2>7 DEF LeaseStep
<1>5. CASE Halt
  BY <1>5, <1>a DEF Halt, taking
<1>6. CASE UNCHANGED budgetVars
  BY <1>6, <1>a DEF budgetVars, taking
<1> QED BY <1>1, <1>2, <1>3, <1>4, <1>5, <1>6 DEF BudgetNext, BudgetIdle

-----------------------------------------------------------------------------
(* The theorems *)

LEMMA BudgetInitInvariant == BudgetInit => BInv
<1> SUFFICES ASSUME BudgetInit PROVE BInv
  OBVIOUS
<1> USE SiteFacts DEF BudgetInit
<1>1. BudgetTypeOK
  BY DEF BudgetTypeOK
<1>2. ASSUME NEW c \in Counters
      PROVE  left[c] + Total(OnLease(c), NLeases) + committed[c] = CounterCapacity[c]
  <2>1. \A l \in 1 .. NLeases : OnLease(c)[l] = 0
    BY DEF OnLease
  <2>2. Total(OnLease(c), NLeases) = 0
    BY <1>1, <2>1, OnLeaseType, TotalZero
  <2> QED BY <2>2
<1>3. CeilingsAgree /\ UntouchedIsWhole
  BY DEF CeilingsAgree, UntouchedIsWhole
<1>4. OutputWithinCeiling
  BY DEF OutputWithinCeiling, OutputLimit, Collecting
<1> QED BY <1>1, <1>2, <1>3, <1>4 DEF BInv, CountersConserved

LEMMA BudgetInvariance == BudgetSpec => []BInv
<1>1. BInv /\ [BudgetNext]_budgetVars => BInv'
  BY BudgetTypeStep, ConservationOfCounters, CeilingStep DEF BInv
<1> QED BY <1>1, BudgetInitInvariant, PTL DEF BudgetSpec

\* No unit of a counter is lost or spent twice, whatever interleaving of
\* asks, refusals, commits and drops (OperationBudget, CountedLease).
THEOREM NoUnitLost == BudgetSpec => []CountersConserved
<1>1. BInv => CountersConserved
  BY DEF BInv
<1> QED BY <1>1, BudgetInvariance, PTL

\* The output of an operation that starts after the publication stays within
\* the ratio, for every number of leases racing (INV-6 of budget.rs).
THEOREM RatioHolds == BudgetSpec => []OutputWithinCeiling
<1>1. BInv => OutputWithinCeiling
  BY DEF BInv
<1> QED BY <1>1, BudgetInvariance, PTL

\* A published footprint never changes (observe_input is terminal).
THEOREM FootprintSealed == BudgetSpec => FootprintIsFinal
<1>1. [BudgetNext]_budgetVars => [~ Collecting => UNCHANGED source]_budgetVars
  <2> SUFFICES ASSUME BudgetNext, ~ Collecting PROVE UNCHANGED source
    OBVIOUS
  <2> QED
    BY DEF BudgetNext, NoteEntry, Accepts, ObserveInput, Published, LosePermit, LeaseStep,
           Ask, Observe, Refuse, Take, Return, Commit, Drop, End, Halt, BudgetIdle, budgetVars
<1> QED BY <1>1, PTL DEF BudgetSpec, FootprintIsFinal

=============================================================================

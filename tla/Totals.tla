------------------------------- MODULE Totals -------------------------------
(***************************************************************************)
(* The sum of the values of a function on 1 .. n, as a recursive function  *)
(* so that it can be proved about, and lemmas on it.  Induction over the   *)
(* naturals is done with the least element of a set of counterexamples,    *)
(* from WFMin and NatLessThanWellFounded, because the induction theorems   *)
(* of the library take an operator as their parameter.                     *)
(***************************************************************************)
EXTENDS Integers, WellFoundedInduction, TLAPS

PartialTotals(f, n) ==
  LET s[k \in 0 .. n] == IF k = 0 THEN 0 ELSE s[k - 1] + f[k] IN s

Total(f, n) == PartialTotals(f, n)[n]

\* A nonempty set of naturals has a least element.
LEMMA LeastNatural ==
  ASSUME NEW T, T \subseteq Nat, T # {}
  PROVE  \E k \in T : \A j \in T : k <= j
<1>1. \E k \in T : \A j \in T : ~ (j < k)
  <2>1. PICK k \in T : \A j \in T : ~ (<<j, k>> \in OpToRel(<, Nat))
    BY NatLessThanWellFounded, WFMin, Zenon
  <2> QED BY <2>1, Zenon DEF OpToRel
<1> QED BY <1>1

\* Induction over the naturals, stated on the set where the claim holds.
LEMMA SetInduction ==
  ASSUME NEW T, T \subseteq Nat, 0 \in T, \A k \in T : k + 1 \in T
  PROVE  T = Nat
<1> SUFFICES ASSUME Nat \ T # {} PROVE FALSE
  OBVIOUS
<1>1. PICK k \in Nat \ T : \A j \in Nat \ T : k <= j
  BY LeastNatural
<1>2. k # 0 /\ k - 1 \in Nat
  OBVIOUS
<1>3. k - 1 \in T
  BY <1>1, <1>2
<1>4. (k - 1) + 1 = k
  OBVIOUS
<1> QED BY <1>3, <1>4

-----------------------------------------------------------------------------
(* The recursive definition of PartialTotals has a solution. *)

\* One unfolding of the recursion, with g in place of the function defined.
Unfold(f, g, n) == [k \in 0 .. n |-> IF k = 0 THEN 0 ELSE g[k - 1] + f[k]]

\* For every length there is a function that satisfies the recursion.
LEMMA PartialTotalsExist ==
  ASSUME NEW f
  PROVE  \A n \in Nat : \E g : g = Unfold(f, g, n)
<1> DEFINE T == {n \in Nat : \E g : g = Unfold(f, g, n)}
<1>1. 0 \in T
  <2> DEFINE g0 == [k \in 0 .. 0 |-> 0]
  <2>1. g0 = Unfold(f, g0, 0)
    BY DEF Unfold
  <2> QED BY <2>1
<1>2. ASSUME NEW n \in T PROVE n + 1 \in T
  <2>1. PICK g : g = Unfold(f, g, n)
    BY <1>2
  <2> DEFINE h == [k \in 0 .. n + 1 |-> IF k = n + 1 THEN g[n] + f[n + 1] ELSE g[k]]
  <2>2. h = Unfold(f, h, n + 1)
    <3>1. ASSUME NEW k \in 0 .. n + 1 PROVE h[k] = Unfold(f, h, n + 1)[k]
      <4>1. CASE k = n + 1
        BY <4>1 DEF Unfold
      <4>2. CASE k = 0
        <5>1. h[0] = g[0]
          OBVIOUS
        <5>2. g[0] = 0
          BY <2>1 DEF Unfold
        <5> QED BY <4>2, <5>1, <5>2 DEF Unfold
      <4>3. CASE k \in 1 .. n
        <5>1. g[k] = g[k - 1] + f[k]
          BY <2>1, <4>3 DEF Unfold
        <5>2. h[k] = g[k] /\ h[k - 1] = g[k - 1]
          BY <4>3
        <5> QED BY <4>3, <5>1, <5>2 DEF Unfold
      <4> QED BY <4>1, <4>2, <4>3
    <3> HIDE DEF h
    <3>2. h = [k \in 0 .. n + 1 |-> h[k]]
      BY DEF h
    <3>3. Unfold(f, h, n + 1) = [k \in 0 .. n + 1 |-> Unfold(f, h, n + 1)[k]]
      BY DEF Unfold
    <3> QED BY <3>1, <3>2, <3>3
  <2> QED BY <2>2
<1> HIDE DEF T
<1>3. T = Nat
  BY <1>1, <1>2, SetInduction DEF T
<1> QED BY <1>3 DEF T

\* PartialTotals satisfies its own equation.
LEMMA PartialTotalsDef ==
  ASSUME NEW f, NEW n \in Nat
  PROVE  PartialTotals(f, n) = Unfold(f, PartialTotals(f, n), n)
<1>1. PICK g : g = Unfold(f, g, n)
  BY PartialTotalsExist
<1>2. \E s : s = [k \in 0 .. n |-> IF k = 0 THEN 0 ELSE s[k - 1] + f[k]]
  BY <1>1 DEF Unfold
<1> QED BY <1>2 DEF PartialTotals, Unfold

\* The equation, value by value.
LEMMA PartialTotalsStep ==
  ASSUME NEW f, NEW n \in Nat
  PROVE  /\ PartialTotals(f, n)[0] = 0
         /\ \A k \in 1 .. n :
              PartialTotals(f, n)[k] = PartialTotals(f, n)[k - 1] + f[k]
<1> DEFINE s == PartialTotals(f, n)
<1>1. s = Unfold(f, s, n)
  BY PartialTotalsDef
<1> HIDE DEF s
<1>2. s[0] = 0 /\ \A k \in 1 .. n : s[k] = s[k - 1] + f[k]
  BY <1>1 DEF Unfold
<1> QED BY <1>2 DEF s

-----------------------------------------------------------------------------

\* Partial totals of a natural-valued function are naturals.
LEMMA PartialTotalsType ==
  ASSUME NEW n \in Nat, NEW f \in [1 .. n -> Nat]
  PROVE  \A k \in 0 .. n : PartialTotals(f, n)[k] \in Nat
<1> DEFINE s == PartialTotals(f, n)
           T == {k \in Nat : k <= n => s[k] \in Nat}
<1>1. s[0] = 0 /\ \A k \in 1 .. n : s[k] = s[k - 1] + f[k]
  BY PartialTotalsStep
<1> HIDE DEF s
<1>2. 0 \in T
  BY <1>1
<1>3. ASSUME NEW k \in T PROVE k + 1 \in T
  <2>1. CASE k + 1 <= n
    <3>1. s[k + 1] = s[k] + f[k + 1]
      BY <1>1, <2>1
    <3> QED BY <2>1, <3>1
  <2> QED BY <2>1
<1> HIDE DEF T
<1>4. T = Nat
  BY <1>2, <1>3, SetInduction DEF T
<1> QED BY <1>4 DEF T, s

LEMMA TotalType ==
  ASSUME NEW n \in Nat, NEW f \in [1 .. n -> Nat]
  PROVE  Total(f, n) \in Nat
BY PartialTotalsType DEF Total

\* The total of a function that is zero everywhere.
LEMMA TotalZero ==
  ASSUME NEW n \in Nat, NEW f \in [1 .. n -> Nat], \A k \in 1 .. n : f[k] = 0
  PROVE  Total(f, n) = 0
<1> DEFINE s == PartialTotals(f, n)
           T == {k \in Nat : k <= n => s[k] = 0}
<1>1. s[0] = 0 /\ \A k \in 1 .. n : s[k] = s[k - 1] + f[k]
  BY PartialTotalsStep
<1> HIDE DEF s
<1>2. 0 \in T
  BY <1>1
<1>3. ASSUME NEW k \in T PROVE k + 1 \in T
  <2>1. CASE k + 1 <= n
    <3>1. s[k + 1] = s[k] + f[k + 1]
      BY <1>1, <2>1
    <3> QED BY <2>1, <3>1
  <2> QED BY <2>1
<1> HIDE DEF T
<1>4. T = Nat
  BY <1>2, <1>3, SetInduction DEF T
<1> QED BY <1>4 DEF T, s, Total

LEMMA TotalEmpty == \A f : Total(f, 0) = 0
BY PartialTotalsStep DEF Total

\* The total of a function with one value more at the end.
LEMMA TotalExtend ==
  ASSUME NEW n \in Nat, NEW f \in [1 .. n + 1 -> Nat], NEW g \in [1 .. n -> Nat],
         \A k \in 1 .. n : f[k] = g[k]
  PROVE  Total(f, n + 1) = Total(g, n) + f[n + 1]
<1> DEFINE s == PartialTotals(f, n + 1)
           t == PartialTotals(g, n)
           T == {k \in Nat : k <= n => s[k] = t[k]}
<1>0. n + 1 \in Nat
  OBVIOUS
<1>1. s[0] = 0 /\ \A k \in 1 .. n + 1 : s[k] = s[k - 1] + f[k]
  BY <1>0, PartialTotalsStep
<1>2. t[0] = 0 /\ \A k \in 1 .. n : t[k] = t[k - 1] + g[k]
  BY PartialTotalsStep
<1> HIDE DEF s, t
<1>3. 0 \in T
  BY <1>1, <1>2
<1>4. ASSUME NEW k \in T PROVE k + 1 \in T
  <2>1. CASE k + 1 <= n
    <3>1. s[k + 1] = s[k] + f[k + 1] /\ t[k + 1] = t[k] + g[k + 1]
      BY <1>1, <1>2, <2>1
    <3> QED BY <2>1, <3>1
  <2> QED BY <2>1
<1> HIDE DEF T
<1>5. T = Nat
  BY <1>3, <1>4, SetInduction DEF T
<1>6. s[n] = t[n]
  BY <1>5 DEF T
<1>7. s[n + 1] = s[n] + f[n + 1]
  BY <1>1
<1> QED BY <1>6, <1>7 DEF s, t, Total

\* The total of a function with one value more at the beginning.
LEMMA TotalShift ==
  ASSUME NEW n \in Nat, NEW f \in [1 .. n + 1 -> Nat], NEW g \in [1 .. n -> Nat],
         \A k \in 1 .. n : g[k] = f[k + 1]
  PROVE  Total(f, n + 1) = f[1] + Total(g, n)
<1> DEFINE s == PartialTotals(f, n + 1)
           t == PartialTotals(g, n)
           T == {k \in Nat : k <= n => s[k + 1] = f[1] + t[k]}
<1>0. n + 1 \in Nat
  OBVIOUS
<1>1. s[0] = 0 /\ \A k \in 1 .. n + 1 : s[k] = s[k - 1] + f[k]
  BY <1>0, PartialTotalsStep
<1>2. t[0] = 0 /\ \A k \in 1 .. n : t[k] = t[k - 1] + g[k]
  BY PartialTotalsStep
<1>3. \A k \in 0 .. n : t[k] \in Nat
  BY PartialTotalsType
<1> HIDE DEF s, t
<1>4. 0 \in T
  BY <1>1, <1>2
<1>5. ASSUME NEW k \in T PROVE k + 1 \in T
  <2>1. CASE k + 1 <= n
    <3>1. s[k + 2] = s[k + 1] + f[k + 2] /\ t[k + 1] = t[k] + g[k + 1] /\ g[k + 1] = f[k + 2]
      BY <1>1, <1>2, <2>1
    <3>2. f[1] \in Nat /\ f[k + 2] \in Nat /\ t[k] \in Nat /\ s[k + 1] = f[1] + t[k]
      BY <1>3, <2>1
    <3> QED BY <2>1, <3>1, <3>2
  <2> QED BY <2>1
<1> HIDE DEF T
<1>6. T = Nat
  BY <1>4, <1>5, SetInduction DEF T
<1> QED BY <1>6 DEF T, s, t, Total

\* A pointwise larger function has a larger total.
LEMMA TotalMonotone ==
  ASSUME NEW n \in Nat, NEW f \in [1 .. n -> Nat], NEW g \in [1 .. n -> Nat],
         \A k \in 1 .. n : f[k] <= g[k]
  PROVE  Total(f, n) <= Total(g, n)
<1> DEFINE s == PartialTotals(f, n)
           t == PartialTotals(g, n)
           T == {k \in Nat : k <= n => s[k] <= t[k]}
<1>1. s[0] = 0 /\ \A k \in 1 .. n : s[k] = s[k - 1] + f[k]
  BY PartialTotalsStep
<1>2. t[0] = 0 /\ \A k \in 1 .. n : t[k] = t[k - 1] + g[k]
  BY PartialTotalsStep
<1>3. \A k \in 0 .. n : s[k] \in Nat /\ t[k] \in Nat
  BY PartialTotalsType
<1> HIDE DEF s, t
<1>4. 0 \in T
  BY <1>1, <1>2
<1>5. ASSUME NEW k \in T PROVE k + 1 \in T
  <2>1. CASE k + 1 <= n
    <3>1. s[k + 1] = s[k] + f[k + 1] /\ t[k + 1] = t[k] + g[k + 1]
      BY <1>1, <1>2, <2>1
    <3>2. s[k] \in Nat /\ t[k] \in Nat /\ f[k + 1] <= g[k + 1]
      BY <1>3, <2>1
    <3> QED BY <2>1, <3>1, <3>2
  <2> QED BY <2>1
<1> HIDE DEF T
<1>6. T = Nat
  BY <1>4, <1>5, SetInduction DEF T
<1> QED BY <1>6 DEF T, s, t, Total

\* Changing one value changes the total by as much.
LEMMA TotalUpdate ==
  ASSUME NEW n \in Nat, NEW f \in [1 .. n -> Nat], NEW g \in [1 .. n -> Nat],
         NEW i \in 1 .. n, \A k \in 1 .. n \ {i} : g[k] = f[k]
  PROVE  Total(g, n) = Total(f, n) + g[i] - f[i]
<1> DEFINE s == PartialTotals(f, n)
           t == PartialTotals(g, n)
           T == {k \in Nat : k <= n => t[k] = s[k] + (IF i <= k THEN g[i] - f[i] ELSE 0)}
<1>1. s[0] = 0 /\ \A k \in 1 .. n : s[k] = s[k - 1] + f[k]
  BY PartialTotalsStep
<1>2. t[0] = 0 /\ \A k \in 1 .. n : t[k] = t[k - 1] + g[k]
  BY PartialTotalsStep
<1>3. \A k \in 0 .. n : s[k] \in Nat /\ t[k] \in Nat
  BY PartialTotalsType
<1> HIDE DEF s, t
<1>4. 0 \in T
  BY <1>1, <1>2
<1>5. ASSUME NEW k \in T PROVE k + 1 \in T
  <2>1. CASE k + 1 <= n
    <3> k + 1 \in 1 .. n /\ k \in 0 .. n /\ (k + 1) - 1 = k
      BY <2>1
    <3> HIDE DEF T
    <3>1. s[k + 1] = s[k] + f[k + 1] /\ t[k + 1] = t[k] + g[k + 1]
      BY <1>1, <1>2
    <3>2. s[k] \in Nat /\ t[k] \in Nat /\ f[k + 1] \in Nat /\ g[k + 1] \in Nat
      BY <1>3
    <3>3. t[k] = s[k] + (IF i <= k THEN g[i] - f[i] ELSE 0)
      BY DEF T
    <3>4. t[k + 1] = s[k + 1] + (IF i <= k + 1 THEN g[i] - f[i] ELSE 0)
      <4>1. CASE i = k + 1
        BY <3>1, <3>2, <3>3, <4>1
      <4>2. CASE i # k + 1
        <5>1. g[k + 1] = f[k + 1]
          BY <4>2
        <5>2. i <= k <=> i <= k + 1
          BY <4>2
        <5>3. g[i] \in Nat /\ f[i] \in Nat
          OBVIOUS
        <5> QED BY <3>1, <3>2, <3>3, <5>1, <5>2, <5>3
      <4> QED BY <4>1, <4>2
    <3> QED BY <3>4 DEF T
  <2> QED BY <2>1
<1> HIDE DEF T
<1>6. T = Nat
  BY <1>4, <1>5, SetInduction DEF T
<1>7. t[n] = s[n] + (IF i <= n THEN g[i] - f[i] ELSE 0)
  BY <1>6 DEF T
<1>8. s[n] \in Nat
  BY <1>3
<1>9. t[n] = s[n] + g[i] - f[i]
  BY <1>7, <1>8
<1> QED BY <1>9 DEF s, t, Total

\* One value is at most the total.
LEMMA TotalTerm ==
  ASSUME NEW n \in Nat, NEW f \in [1 .. n -> Nat], NEW i \in 1 .. n
  PROVE  f[i] <= Total(f, n)
<1> DEFINE z == [k \in 1 .. n |-> 0]
           g == [z EXCEPT ![i] = f[i]]
<1>1. Total(z, n) = 0
  BY TotalZero
<1>2. Total(g, n) = Total(z, n) + g[i] - z[i]
  <2>1. z \in [1 .. n -> Nat] /\ g \in [1 .. n -> Nat]
    OBVIOUS
  <2>2. \A k \in 1 .. n \ {i} : g[k] = z[k]
    OBVIOUS
  <2> HIDE DEF z, g
  <2> QED BY <2>1, <2>2, TotalUpdate
<1>3. Total(g, n) = f[i]
  BY <1>1, <1>2
<1>4. Total(g, n) <= Total(f, n)
  <2>1. g \in [1 .. n -> Nat] /\ \A k \in 1 .. n : g[k] <= f[k]
    OBVIOUS
  <2> HIDE DEF g
  <2> QED BY <2>1, TotalMonotone
<1> QED BY <1>3, <1>4

=============================================================================
